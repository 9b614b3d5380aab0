---------------------------- MODULE BuildOutput ----------------------------
(***************************************************************************)
(* `justoci build' (cli/src/cmd/build.rs): build() stages an OCI image     *)
(* layout in <output_dir>.partial and promotes it with one rename; attest  *)
(* then stores its payloads in the promoted directory, and                 *)
(* write_referrers_into_image_dir adds a referrer manifest for each and    *)
(* replaces index.json.  Its exit code tells how far it came.              *)
(*                                                                         *)
(* Builders share one output_dir.  A builder may fail or be killed at any  *)
(* step and run again, with the spec changed meanwhile; whoever runs them  *)
(* removes an old output_dir while nobody is building.                     *)
(***************************************************************************)
EXTENDS Integers, Sequences, FiniteSets, SequencesExt, Signing

CONSTANTS Builders,     \* justoci processes building to the same output_dir
          Images,       \* what the spec may produce: [layers, config, manifest,
                        \*   attest (no --no-attest), attestations (then)],
                        \*   an attestation being [kind, payload, manifest]
          Digests,
          EmptyConfig,  \* the digest of {}
          NoDir,        \* the directory does not exist
          MaxRuns       \* bound: runs of each builder

Attestations == [kind : {"slsa", "sbom", "signature"}, payload : Digests, manifest : Digests]

ASSUME ImagesAssumption ==
  /\ Images \subseteq [layers : Seq(Digests), config : Digests, manifest : Digests,
                       attest : BOOLEAN, attestations : Seq(Attestations)]
  /\ \A i \in Images : ~i.attest => i.attestations = <<>>
  /\ EmptyConfig \in Digests
  /\ MaxRuns \in Nat

\* A bundle signs one manifest, and is no other blob of any image: it carries a
\* signature of that manifest's digest, which no digest collision makes equal to
\* a layer, a document or the bundle of another manifest.
ASSUME SignatureAssumption ==
  \A i, j \in Images : \A a \in ToSet(i.attestations) :
    a.kind = "signature" =>
      /\ a.payload \notin ToSet(j.layers) \cup {j.config, j.manifest, EmptyConfig}
      /\ \A o \in ToSet(j.attestations) :
           /\ o.manifest # a.payload
           /\ o.payload = a.payload => o.kind = "signature" /\ j.manifest = i.manifest

VARIABLES
  partial,    \* <output_dir>.partial
  output,     \* <output_dir>
  rekor,      \* manifests with an entry in the transparency log
  image,      \* what each builder is building
  pc, pos,    \* where it is, and its index in the list it walks
  read,       \* the manifests of index.json that it is about to extend
  runs,
  exit,       \* its exit code, or Running
  before      \* history: output_dir when its run began

vars == <<partial, output, rekor, image, pc, pos, read, runs, exit, before>>

Running == -1

\* A directory: the blobs in it, its oci-layout, and the manifests that its
\* index.json lists (<<>>: no index.json).
Directory == [files : SUBSET Digests, layout : BOOLEAN, index : Seq(Digests)]
EmptyDir == [files |-> {}, layout |-> FALSE, index |-> <<>>]

SpecSteps   == {"spec"}
BuildSteps  == {"check", "clear", "create", "layer", "config", "manifest",
                "layout", "index", "promote"}
AttestSteps == {"payload", "bundle"}
CliSteps    == {"openCas", "readIndex", "emptyConfig", "referrer", "rewrite"}
Active == SpecSteps \cup BuildSteps \cup AttestSteps \cup CliSteps
Ended  == {"idle", "done", "failed", "crashed"}

TypeOK ==
  /\ partial \in Directory \cup {NoDir}
  /\ output \in Directory \cup {NoDir}
  /\ rekor \subseteq {i.manifest : i \in Images}
  /\ image \in [Builders -> Images]
  /\ pc \in [Builders -> Active \cup Ended]
  /\ pos \in [Builders -> Nat \ {0}]
  /\ \A b \in Builders :
       /\ pc[b] = "layer" => pos[b] <= Len(image[b].layers)
       /\ pc[b] \in {"payload", "bundle", "referrer"} => pos[b] <= Len(image[b].attestations)
  /\ read \in [Builders -> Seq(Digests)]
  /\ runs \in [Builders -> Nat]
  /\ exit \in [Builders -> {Running, 0, 1, 2, 3, 64}]
  /\ before \in [Builders -> Directory \cup {NoDir}]

Init ==
  /\ partial = NoDir
  /\ output = NoDir
  /\ rekor = {}
  /\ image \in [Builders -> Images]
  /\ pc = [b \in Builders |-> "idle"]
  /\ pos = [b \in Builders |-> 1]
  /\ read = [b \in Builders |-> <<>>]
  /\ runs = [b \in Builders |-> 0]
  /\ exit = [b \in Builders |-> Running]
  /\ before = [b \in Builders |-> NoDir]

-----------------------------------------------------------------------------
Goto(b, next) == /\ pc' = [pc EXCEPT ![b] = next]
                 /\ pos' = [pos EXCEPT ![b] = 1]

\* Mutant: whatever goes wrong after parsing is a build error.
ExitCodeOfBuild(step) == IF step \in SpecSteps THEN 1 ELSE 2

\* CliError::exit_code: the class of the step that went wrong.
ExitCode(step) == CASE step \in SpecSteps   -> 1
                    [] step \in BuildSteps  -> 2
                    [] step \in AttestSteps -> 3
                    [] step \in CliSteps    -> 64

Exit(b, how, code) == /\ Goto(b, how)
                      /\ exit' = [exit EXCEPT ![b] = code]

\* On to the next entry of a list of n, or to step `next' after the last one.
Advance(b, n, next) == IF pos[b] < n
                       THEN pos' = [pos EXCEPT ![b] = @ + 1] /\ UNCHANGED pc
                       ELSE Goto(b, next)

\* Blobs and files are written where the path leads at that moment.  A write
\* into a directory that is gone fails (Fail below).
PutPartial(d) == /\ partial # NoDir
                 /\ partial' = [partial EXCEPT !.files = @ \cup {d}]
PutOutput(d)  == /\ output # NoDir
                 /\ output' = [output EXCEPT !.files = @ \cup {d}]

\* A run begins; the spec may have changed since the last one.
Start(b) ==
  /\ pc[b] \in Ended
  /\ runs[b] < MaxRuns
  /\ runs' = [runs EXCEPT ![b] = @ + 1]
  /\ \E i \in Images : image' = [image EXCEPT ![b] = i]
  /\ read' = [read EXCEPT ![b] = <<>>]
  /\ before' = [before EXCEPT ![b] = output]
  /\ exit' = [exit EXCEPT ![b] = Running]
  /\ Goto(b, "spec")
  /\ UNCHANGED <<partial, output, rekor>>

\* parse_and_validate and spec_hash.
LoadSpec(b) ==
  /\ pc[b] = "spec"
  /\ Goto(b, "check")
  /\ UNCHANGED <<partial, output, rekor, image, read, runs, exit, before>>

\* build() refuses an output_dir that exists.
CheckOutput(b) ==
  /\ pc[b] = "check"
  /\ \/ output = NoDir /\ Goto(b, "clear") /\ UNCHANGED exit
     \/ output # NoDir /\ Exit(b, "failed", ExitCode("check"))
  /\ UNCHANGED <<partial, output, rekor, image, read, runs, before>>

\* Mutant: a stale partial directory is built upon.
ClearPartialForgotten(b) ==
  /\ pc[b] = "clear"
  /\ Goto(b, "create")
  /\ UNCHANGED <<partial, output, rekor, image, read, runs, exit, before>>

\* remove_dir_all of the partial directory of an earlier run.
ClearPartial(b) ==
  /\ pc[b] = "clear"
  /\ partial' = NoDir
  /\ Goto(b, "create")
  /\ UNCHANGED <<output, rekor, image, read, runs, exit, before>>

\* create_dir_all and FsCas::new.
CreatePartial(b) ==
  /\ pc[b] = "create"
  /\ partial' = IF partial = NoDir THEN EmptyDir ELSE partial
  /\ Goto(b, IF image[b].layers = <<>> THEN "config" ELSE "layer")
  /\ UNCHANGED <<output, rekor, image, read, runs, exit, before>>

\* Mutant: one layer too few.
AssembleLayerButLast(b) ==
  /\ pc[b] = "layer"
  /\ PutPartial(image[b].layers[pos[b]])
  /\ Advance(b, Len(image[b].layers) - 1, "config")
  /\ UNCHANGED <<output, rekor, image, read, runs, exit, before>>

\* assemble_layer stores a layer, compressed, in the content-addressed store.
AssembleLayer(b) ==
  /\ pc[b] = "layer"
  /\ PutPartial(image[b].layers[pos[b]])
  /\ Advance(b, Len(image[b].layers), "config")
  /\ UNCHANGED <<output, rekor, image, read, runs, exit, before>>

\* assemble_config_and_manifest.
PutConfig(b) ==
  /\ pc[b] = "config"
  /\ PutPartial(image[b].config)
  /\ Goto(b, "manifest")
  /\ UNCHANGED <<output, rekor, image, read, runs, exit, before>>

PutManifest(b) ==
  /\ pc[b] = "manifest"
  /\ PutPartial(image[b].manifest)
  /\ Goto(b, "layout")
  /\ UNCHANGED <<output, rekor, image, read, runs, exit, before>>

WriteLayout(b) ==
  /\ pc[b] = "layout"
  /\ partial # NoDir
  /\ partial' = [partial EXCEPT !.layout = TRUE]
  /\ Goto(b, "index")
  /\ UNCHANGED <<output, rekor, image, read, runs, exit, before>>

WriteIndex(b) ==
  /\ pc[b] = "index"
  /\ partial # NoDir
  /\ partial' = [partial EXCEPT !.index = <<image[b].manifest>>]
  /\ Goto(b, "promote")
  /\ UNCHANGED <<output, rekor, image, read, runs, exit, before>>

\* What follows build(): nothing, or attestation.
AfterBuild(b) == IF image[b].attest THEN Goto(b, "openCas") /\ UNCHANGED exit
                 ELSE Exit(b, "done", 0)

\* fs::rename(partial, output_dir): the atomic flip.  It does not replace a
\* directory that somebody else has put there.
Promote(b) ==
  /\ pc[b] = "promote"
  /\ partial # NoDir /\ output = NoDir
  /\ output' = partial
  /\ partial' = NoDir
  /\ AfterBuild(b)
  /\ UNCHANGED <<rekor, image, read, runs, before>>

-----------------------------------------------------------------------------
(* Attestation, in the promoted directory.                                 *)

Attestation(b) == image[b].attestations[pos[b]]

\* The loop over the attestations, unless there are none.
IfAny(b, step, otherwise) == IF image[b].attestations = <<>> THEN otherwise ELSE step

\* FsCas::new in the promoted directory, and BuiltArtifact::new.
OpenCas(b) ==
  /\ pc[b] = "openCas"
  /\ output # NoDir
  /\ Goto(b, IfAny(b, "payload", "readIndex"))
  /\ UNCHANGED <<partial, output, rekor, image, read, runs, exit, before>>

\* emit_slsa, emit_cyclonedx or emit_spdx stores its document.
EmitPayload(b) ==
  /\ pc[b] = "payload"
  /\ Attestation(b).kind # "signature"
  /\ PutOutput(Attestation(b).payload)
  /\ Advance(b, Len(image[b].attestations), "readIndex")
  /\ UNCHANGED <<partial, rekor, image, read, runs, exit, before>>

\* sign_with: the manifest's digest is signed.  A signature that has not been
\* recorded is an error; so is one that has been, if the signer cannot tell.
Sign(b) ==
  /\ pc[b] = "payload"
  /\ Attestation(b).kind = "signature"
  /\ \E s \in Signings :
       /\ rekor' = IF s.entry THEN rekor \cup {image[b].manifest} ELSE rekor
       /\ IF s.outcome = "SignedAndRecorded"
          THEN pc' = [pc EXCEPT ![b] = "bundle"] /\ UNCHANGED <<pos, exit>>
          ELSE Exit(b, "failed", ExitCode("payload"))
  /\ UNCHANGED <<partial, output, image, read, runs, before>>

\* The bundle is stored.
StoreBundle(b) ==
  /\ pc[b] = "bundle"
  /\ PutOutput(Attestation(b).payload)
  /\ IF pos[b] < Len(image[b].attestations)
     THEN pc' = [pc EXCEPT ![b] = "payload"] /\ pos' = [pos EXCEPT ![b] = @ + 1]
     ELSE Goto(b, "readIndex")
  /\ UNCHANGED <<partial, rekor, image, read, runs, exit, before>>

\* write_referrers_into_image_dir: index.json is read ...
ReadIndex(b) ==
  /\ pc[b] = "readIndex"
  /\ output # NoDir     \* read_blob_size and the read of index.json
  /\ read' = [read EXCEPT ![b] = output.index]
  /\ Goto(b, "emptyConfig")
  /\ UNCHANGED <<partial, output, rekor, image, runs, exit, before>>

\* ... the config that all referrers share is written ...
WriteEmptyConfig(b) ==
  /\ pc[b] = "emptyConfig"
  /\ PutOutput(EmptyConfig)
  /\ Goto(b, IfAny(b, "referrer", "rewrite"))
  /\ UNCHANGED <<partial, rekor, image, read, runs, exit, before>>

\* Mutant: index.json is replaced after each referrer, ahead of its manifest.
WriteReferrerIndexed(b) ==
  /\ pc[b] = "referrer"
  /\ output # NoDir
  /\ read' = [read EXCEPT ![b] = Append(@, Attestation(b).manifest)]
  /\ output' = [output EXCEPT !.index = read'[b], !.files = @ \cup {Attestation(b).manifest}]
  /\ Advance(b, Len(image[b].attestations), "rewrite")
  /\ UNCHANGED <<partial, rekor, image, runs, exit, before>>

\* ... a manifest for each attestation ...
WriteReferrer(b) ==
  /\ pc[b] = "referrer"
  /\ PutOutput(Attestation(b).manifest)
  /\ read' = [read EXCEPT ![b] = Append(@, Attestation(b).manifest)]
  /\ Advance(b, Len(image[b].attestations), "rewrite")
  /\ UNCHANGED <<partial, rekor, image, runs, exit, before>>

\* ... and index.json is replaced by a rename.
RewriteIndex(b) ==
  /\ pc[b] = "rewrite"
  /\ output # NoDir
  /\ output' = [output EXCEPT !.index = read[b]]
  /\ Exit(b, "done", 0)
  /\ UNCHANGED <<partial, rekor, image, read, runs, before>>

-----------------------------------------------------------------------------
(* Failures.                                                               *)

\* What a run that stops in the middle of remove_dir_all leaves behind.
LeavePartial(b) ==
  \/ UNCHANGED partial
  \/ /\ pc[b] = "clear" /\ partial # NoDir
     /\ \E kept \in SUBSET partial.files :
          partial' \in {[partial EXCEPT !.files = kept],
                        [files |-> kept, layout |-> FALSE, index |-> <<>>]}

\* Any step may fail (signing: see Sign).  Nothing is cleaned up.
Fail(b) ==
  /\ pc[b] \in Active
  /\ ~(pc[b] = "payload" /\ Attestation(b).kind = "signature")
  /\ LeavePartial(b)
  /\ Exit(b, "failed", ExitCode(pc[b]))
  /\ UNCHANGED <<output, rekor, image, read, runs, before>>

\* The process is killed.
Crash(b) ==
  /\ pc[b] \in Active
  /\ LeavePartial(b)
  /\ Goto(b, "crashed")
  /\ UNCHANGED <<output, rekor, image, read, runs, exit, before>>

\* The operator removes output_dir, as build() asks for.
RemoveOutput ==
  /\ \A b \in Builders : pc[b] \in Ended
  /\ output # NoDir
  /\ output' = NoDir
  /\ UNCHANGED <<partial, rekor, image, pc, pos, read, runs, exit, before>>

Build(b) == \/ LoadSpec(b) \/ CheckOutput(b) \/ ClearPartial(b) \/ CreatePartial(b)
            \/ AssembleLayer(b) \/ PutConfig(b) \/ PutManifest(b)
            \/ WriteLayout(b) \/ WriteIndex(b) \/ Promote(b)

Attest(b) == \/ OpenCas(b) \/ EmitPayload(b) \/ Sign(b) \/ StoreBundle(b)
             \/ ReadIndex(b) \/ WriteEmptyConfig(b) \/ WriteReferrer(b) \/ RewriteIndex(b)

Next == \/ \E b \in Builders : Start(b) \/ Build(b) \/ Attest(b) \/ Fail(b) \/ Crash(b)
        \/ RemoveOutput

Spec == Init /\ [][Next]_vars

-----------------------------------------------------------------------------
(* Correctness.                                                            *)

OnDisk == INSTANCE ImageDir WITH BadDigests <- {}, UpperDigests <- {}

\* A digest names one manifest: it has the digests of its config and layers in it,
\* and that of its subject, which only a referrer has.
ASSUME ManifestAssumption ==
  /\ OnDisk!Absent \notin Digests
  /\ \A i, j \in Images :
       /\ i.manifest = j.manifest => i.layers = j.layers /\ i.config = j.config
       /\ \A a \in ToSet(i.attestations) :
            /\ a.manifest # j.manifest
            /\ \A o \in ToSet(j.attestations) :
                 a.manifest = o.manifest => a.payload = o.payload /\ i.manifest = j.manifest

\* What a reader of the blob with digest d finds.
File(d) ==
  IF \E i \in Images : i.manifest = d
  THEN LET i == CHOOSE i \in Images : i.manifest = d
       IN [state |-> "ok", mediaType |-> "oci", config |-> i.config,
           layers |-> i.layers, subject |-> OnDisk!Absent]
  ELSE IF \E i \in Images : \E a \in ToSet(i.attestations) : a.manifest = d
  THEN LET i == CHOOSE i \in Images : \E a \in ToSet(i.attestations) : a.manifest = d
           a == CHOOSE a \in ToSet(i.attestations) : a.manifest = d
       IN [state |-> "ok", mediaType |-> "oci", config |-> EmptyConfig,
           layers |-> <<a.payload>>, subject |-> i.manifest]
  ELSE [state |-> "malformed", mediaType |-> OnDisk!Absent, config |-> OnDisk!Absent,
        layers |-> <<>>, subject |-> OnDisk!Absent]

AsImageDir(dir) ==
  [layout |-> IF dir.layout THEN "ok" ELSE "missing",
   index  |-> IF dir.index = <<>> THEN "missing" ELSE "ok",
   listed |-> [k \in DOMAIN dir.index |-> [digest |-> dir.index[k], mediaType |-> "oci"]],
   blobs  |-> [d \in dir.files |-> File(d)]]

ReferrerManifests(i) == [k \in DOMAIN i.attestations |-> i.attestations[k].manifest]

\* build(): "No half-written <output_dir> ever appears".  Whenever output_dir
\* exists ImageDir::open accepts it: while attest is at work in it, and after a
\* failure or a crash anywhere.
OutputOpens == output # NoDir => OnDisk!Open(AsImageDir(output)).err = "none"

\* The index of output_dir lists the primary manifest alone or with all the
\* referrers the spec asks for: no consumer takes an image with a part of its
\* attestations for the whole.
ReferrersAllOrNothing ==
  output # NoDir =>
    \E i \in Images : output.index \in {<<i.manifest>>, <<i.manifest>> \o ReferrerManifests(i)}

\* Nothing of an earlier run, of another spec perhaps, is in output_dir: a
\* stale partial directory is replaced, not built upon.
OutputHasNoLeftovers ==
  output # NoDir =>
    \E i \in Images :
      /\ output.index # <<>> /\ output.index[1] = i.manifest
      /\ output.files \subseteq
           ToSet(i.layers) \cup {i.config, i.manifest, EmptyConfig}
             \cup UNION {{a.payload, a.manifest} : a \in ToSet(i.attestations)}

\* Sign and Rekor are coupled (sign_with): a signature that is stored next to an
\* image has been recorded, although signing, recording and storing are separate
\* steps and each can fail.
SignatureIsRecorded ==
  output # NoDir =>
    \A i \in Images : \A a \in ToSet(i.attestations) :
      a.kind = "signature" /\ a.payload \in output.files => i.manifest \in rekor

\* The exit code tells what is on disk: after 0 the image, attested as the spec
\* asks, and "no partial state"; after 1 or 2 output_dir is what it was, "never
\* created on a failed build"; after 3 or 64 it has become this image, without
\* referrers.
ExitTellsOutput ==
  [][\A b \in Builders : exit'[b] \notin {Running, exit[b]} =>
       LET bare == <<image[b].manifest>>
       IN /\ exit'[b] = 0 => /\ partial' = NoDir
                             /\ output'.index = bare \o ReferrerManifests(image[b])
          /\ exit'[b] \in {1, 2} => output' = before[b]
          /\ exit'[b] \in {3, 64} => before[b] = NoDir /\ output'.index = bare]_vars
=============================================================================
