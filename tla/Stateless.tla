----------------------------- MODULE Stateless -----------------------------
(***************************************************************************)
(* The parts of justoci that compute and keep no state, as calls: someone  *)
(* has ImageDir::open look at a directory, runs a command that needs       *)
(* credentials, builds a spec, or verifies and lists an image that build   *)
(* has attested or that comes from elsewhere; the call returns what the    *)
(* function of that part makes of its input.  The sets of inputs are       *)
(* parameters, and their assumptions say what the readers of JSON, TOML,   *)
(* the command line and the environment deliver.                           *)
(***************************************************************************)
EXTENDS Attestation, Credentials, SpecBuild, ImageDir

CONSTANTS Directories,     \* what open is called on
          Commands,        \* [cmd, world]: a command line and where it runs
          SpecFiles,       \* spec files,
          Disk,            \* and the disk that they and their sources are on
          Listings,        \* lists of referrers that verify is called on,
          Primary,         \* the image that they are referrers of,
          Policies,        \* the policies that it is called with,
          WeakPolicies,    \* and others to compare them with
          Attestations     \* [image, policy, cosign]: an image that build has attested, as a
                           \* registry lists it, and a call of verify on it

Cosigns == {"works", "missing", "fails"}
IsOption(o) == \A x, y \in o : x = y

ASSUME DirectoriesAssumption == \A dir \in Directories : IsDirectory(dir)

-----------------------------------------------------------------------------
(* The inputs of verify.                                                   *)

\* A list of referrers whose statements have a number for a level: the reader of
\* claimed_slsa_level gives an i64.
IsListing(refs) ==
  /\ IsList(refs)
  /\ \A r \in ToSet(refs) : r.layers # <<>> => r.layers[1].payload.level \in Int

\* A policy asks for a level that is a number, for one builder, and for formats
\* that are not words of the detail itself: SbomDetail has the digest of the blob in
\* it, and a format `sha256' matches any SBOM.
IsPolicy(policy) ==
  /\ policy.level \subseteq Int /\ policy.signature \in BOOLEAN
  /\ IsOption(policy.builder)
  /\ \A fs \in policy.formats : fs \cap {"blob", "sha256"} = {}

ASSUME VerifyAssumption ==
  /\ \A refs \in Listings : IsListing(refs)
  /\ \A policy \in Policies \cup WeakPolicies : IsPolicy(policy)

\* What build hands to attest: layers that are blobs or lists of files.
IsBuilt(built) ==
  /\ DOMAIN built = {"manifest", "layers"}
  /\ IsList(built.layers)
  /\ \A layer \in ToSet(built.layers) :
       /\ DOMAIN layer = {"digest", "mediaType", "source"}
       /\ layer.source.t # "blob" => IsList(layer.source.entries)

\* The [attestation] block of a valid spec.
IsConfig(config) ==
  /\ config.level \in 0..4 /\ IsOption(config.builder)
  /\ config.format \in {"cyclonedx", "spdx", "off"}
  /\ config.scope \in {"layers", "sources", "both"}

\* refs lists the referrers that build attaches, in some order and maybe repeatedly.
Lists(refs, built, config, signer) ==
  /\ IsList(refs)
  /\ ToSet(refs) = ToSet(Referrers(Attest(built, config, signer), config.format))

IsAttested(image) ==
  /\ IsBuilt(image.built) /\ IsConfig(image.config) /\ IsOption(image.signer)
  /\ Lists(image.refs, image.built, image.config, image.signer)

ASSUME AttestationsAssumption ==
  \A case \in Attestations :
    /\ IsAttested(case.image)
    /\ IsPolicy(case.policy) /\ case.cosign \in Cosigns

-----------------------------------------------------------------------------
(* The inputs of the choice of credentials.                                *)

Values == {"unset", "empty", "set", "control"}
Modes == {"env", "basic", "bearer", "vault", "docker-config"}

IsCommand(cmd) ==
  /\ cmd.noAuth \in BOOLEAN /\ cmd.auth \in Modes /\ cmd.base \in Seq(STRING) /\ cmd.host \in STRING
  /\ {cmd.token, cmd.username, cmd.password} \subseteq Values

\* Vault answers what it is asked.  What it has of other registries is at keys of
\* other hosts, or below a mount that no base path can mean; and what the docker file
\* has of them, under keys that are not asked for.
VaultHasOwn(vault, base, host) ==
  /\ LET path == ParseBasePath(base)
     IN path # <<>> => <<path[1], Append(path[2], host)>> \in DOMAIN vault
  /\ \A at \in DOMAIN vault : vault[at].status = "ok" /\ vault[at].token = "foreign" =>
       at[2][Len(at[2])] # host \/ \E k \in 2..Len(at[1]) : at[1][k] = "data"

DockerHasOwn(docker, host) ==
  docker.state = "ok" =>
    \A key \in DOMAIN docker.auths : docker.auths[key].identityToken = "foreign" =>
      \/ key \notin {Keys(host)[1], Keys(host)[2]}
      \/ key = Keys(host)[2] /\ Keys(host)[1] \in DOMAIN docker.auths

IsWorld(world, cmd) ==
  /\ {world.env.token, world.env.username, world.env.password} \subseteq Values
  /\ VaultHasOwn(world.vault, cmd.base, cmd.host)
  /\ DockerHasOwn(world.docker, cmd.host)

ASSUME CommandsAssumption ==
  \A c \in Commands : IsCommand(c.cmd) /\ IsWorld(c.world, c.cmd)

-----------------------------------------------------------------------------
(* The inputs of a build.                                                  *)

\* Paths, entries of `files', and layers, as the TOML reader gives them.
IsPath(p) == p = [text |-> p.text, sep |-> p.sep]
IsEntry(f) == /\ f = [source |-> f.source, dest |-> f.dest, mode |-> f.mode]
              /\ IsPath(f.source) /\ f.dest.names \in Seq(Nat)
IsLayer(layer) ==
  /\ IsOption(layer.source) /\ IsOption(layer.files)
  /\ \A p \in layer.source : IsPath(p)
  /\ \A fs \in layer.files : IsList(fs) /\ \A f \in ToSet(fs) : IsEntry(f)

\* Values of [config].
IsScalar(v) == v = [t |-> v.t, v |-> v.v] /\ v.t \notin {"array", "table"}
IsValue(v) ==
  CASE v.t = "array" -> /\ v = [t |-> "array", items |-> v.items]
                        /\ IsList(v.items) /\ \A i \in ToSet(v.items) : IsScalar(i)
    [] v.t = "table" -> /\ v = [t |-> "table", map |-> v.map]
                        /\ v.map = [k \in DOMAIN v.map |-> v.map[k]]
                        /\ \A k \in DOMAIN v.map : IsScalar(v.map[k])
    [] OTHER         -> IsScalar(v)

IsSpec(raw) ==
  /\ IsList(raw.layers) /\ \A k \in DOMAIN raw.layers : IsLayer(raw.layers[k])
  /\ raw.config = [key \in DOMAIN raw.config |-> raw.config[key]]
  /\ \A key \in DOMAIN raw.config : IsValue(raw.config[key])

\* No file is called `..', which is the name 0.
IsDisk(disk) ==
  \A p \in DOMAIN disk :
    /\ disk[p].kind \in {"file", "unreadable", "dir", "closed", "fifo", "dangling"}
    /\ IsList(disk[p].below)
    /\ \A node \in ToSet(disk[p].below) :
         node.utf8 \in BOOLEAN /\ node.names \in Seq(Nat \ {0}) /\ node.names # <<>>

ASSUME SpecsAssumption == (\A raw \in SpecFiles : IsSpec(raw)) /\ IsDisk(Disk)

-----------------------------------------------------------------------------
(* Calls.                                                                  *)

VARIABLES topic,     \* the part that is called
          input,     \* with what
          result     \* and what it returns

vars == <<topic, input, result>>

NotYet == [err |-> "not yet"]

Init ==
  /\ result = NotYet
  /\ \/ topic = "open" /\ input \in Directories
     \/ topic = "credentials" /\ input \in Commands
     \/ topic = "spec" /\ input \in [a : SpecFiles, b : SpecFiles]
     \/ topic = "attest" /\ input \in Attestations
     \/ topic = "verify" /\ input \in [refs : Listings, policy : Policies, cosign : Cosigns]

Return(part, output) ==
  /\ topic = part /\ result = NotYet
  /\ result' = output
  /\ UNCHANGED <<topic, input>>

Headers(c) == [publish |-> PublishHeader(c.cmd, c.world), pull |-> PullHeader(c.cmd, c.world)]

\* verify and sbom of one image.
Used(case) ==
  [verified |-> Verify(case.image.refs, case.image.built.manifest, case.policy, case.cosign),
   shown    |-> SbomOfImage(case.image.refs)]

OpenDir   == Return("open", Open(input))
Resolve   == Return("credentials", Headers(input))
BuildSpec == Return("spec", Outcome(input.a, Disk))
UseImage  == Return("attest", Used(input))
VerifyDir == Return("verify", Verify(input.refs, Primary, input.policy, input.cosign))

Next == OpenDir \/ Resolve \/ BuildSpec \/ UseImage \/ VerifyDir
Spec == Init /\ [][Next]_vars

Returned(part) == topic = part /\ result # NotYet

-----------------------------------------------------------------------------
(* Correctness: the properties of the parts, of every call.  They are      *)
(* stated in full, and with their exceptions, in the modules of the parts. *)

\* open accepts a directory if, and only if, it is a well-formed layout with one
\* artifact and whole referrers of it.
AcceptsExactly == Returned("open") => OpensExactly(input, result)

\* The list of blobs that open gives the sinks is the closure of index.json, each
\* manifest after its content and the primary last.
ListIsClosure == Returned("open") => OrderedClosure(input, result)

\* verify accepts only what a referrer of this very image supports.
AcceptanceIsBacked ==
  Returned("verify") => Backed(input.refs, Primary, input.policy, input.cosign, result)

\* A gate more in the policy never makes verify accept what it refuses without, and
\* one less never makes it refuse, but for gates that are written to ask for nothing.
PolicyOnlyRestricts ==
  Returned("verify") =>
    OnlyRestricts(input.refs, Primary, input.policy, input.cosign, result, WeakPolicies)

\* The same referrers in any order, and with one of them listed again at the end.
Relistings(refs) ==
  LET orders == {[k \in DOMAIN refs |-> refs[p[k]]] :
                   p \in {q \in [DOMAIN refs -> DOMAIN refs] : ToSet(q) = DOMAIN refs}}
  IN orders \cup UNION {{Append(order, refs[k]) : k \in DOMAIN refs} : order \in orders}

\* The order and the repetitions of index.json do not change the verdict.
OrderIsIrrelevant ==
  Returned("verify") =>
    OrderIrrelevant(input.refs, Primary, input.policy, input.cosign, result, Relistings(input.refs))

\* No provider that is broken or empty makes a request go out anonymously, or with
\* the credentials of another source or registry.
NothingFallsThrough ==
  Returned("credentials") => NoFallThrough(input.cmd, input.world, result.publish, result.pull)

\* publish and pull send the same header under the same options and environment.
PublishAndPullAgree ==
  Returned("credentials") => HeadersAgree(input.cmd, input.world, result.publish, result.pull)

\* Two specs with one spec hash build one image.
SpecHashPinsBuild == Returned("spec") => HashPinsBuild(input.a, input.b, Disk, result)

\* The order of [[layers.files]] does not change the layer.
TarOrderIrrelevant == Returned("spec") => TarIgnoresOrder(input.a, Disk, result)

\* A spec that validation accepts builds, or fails for what validation does not look
\* at; and a build that ends well has left out nothing that it could not read.
ValidatedSpecBuilds == Returned("spec") => ValidBuilds(input.a, Disk, result)

\* What build attests, verify finds, and under the policies that it should.
AttestedImageVerifies ==
  Returned("attest") =>
    Verifies(input.image.config, input.image.signer, input.policy, input.cosign, result.verified)

\* Every way to an SBOM of an image that has one shows the same components.
SbomsAgree ==
  Returned("attest") =>
    OneSbom(input.image.built, input.image.config, input.image.refs, result.shown)
=============================================================================
