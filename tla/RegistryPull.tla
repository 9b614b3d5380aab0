---------------------------- MODULE RegistryPull ----------------------------
(***************************************************************************)
(* execute_pull (cli/src/registry/pull.rs): an image is pulled into a      *)
(* directory while justoci publishers go on pushing to the repository.     *)
(* The manifest comes first, then its config and layers, then what the     *)
(* referrers API lists, and index.json last.                               *)
(*                                                                         *)
(* The registry may serve bytes that do not match their digest, an older   *)
(* manifest under the tag, or no referrers API at all; any request may     *)
(* fail for good (module WireClient), and the process may be killed.  The  *)
(* destination may be used again by a later pull.                          *)
(***************************************************************************)
EXTENDS Descriptors

CONSTANTS NoImage,
          Manifest,   \* the manifest under each digest: [config, layers, subject]
          Pinned,     \* the digests that pulls ask for; the tag is asked for, too
          MaxPulls    \* bound: pulls into the directory

OnDisk == INSTANCE ImageDir WITH BadDigests <- {}, UpperDigests <- {}

Absent == OnDisk!Absent

\* What a pull asks for when it does not pin a digest.
Tag == "tag"

\* Bytes that match no digest.
Corrupt == "corrupt"

\* What the descriptors of an image say agrees with its manifests, and no
\* manifest is the config or a layer of one: build and attest write archives and
\* documents of other shapes.  execute_pull lists a referrer that it has seen as a
\* layer without pulling what the referrer holds.
ASSUME ManifestAssumption ==
  /\ \A d \in DOMAIN Manifest :
       /\ Manifest[d].config \in Digests \ DOMAIN Manifest
       /\ Manifest[d].layers \in Seq(Digests \ DOMAIN Manifest)
       /\ Manifest[d].subject \in DOMAIN Manifest \cup {Absent}
  /\ DOMAIN Manifest \subseteq Digests
  /\ {Absent, Corrupt, Tag} \cap Digests = {}
  /\ \A i \in Images :
       /\ ManifestDigests(i) \subseteq DOMAIN Manifest
       /\ Manifest[Primary(i)].subject = Absent
       /\ \A r \in ToSet(Referrers(i)) : Manifest[r].subject = Primary(i)
       /\ \A m \in ManifestDigests(i) :
            {Manifest[m].config} \cup ToSet(Manifest[m].layers) \subseteq Content(i)

ASSUME PullsAssumption == Pinned \subseteq DOMAIN Manifest /\ MaxPulls \in Nat

VARIABLES
  blobs, manifests, tag,  \* the repository
  api,        \* the registry has the OCI 1.1 referrers API
  files,      \* dest/blobs/sha256: the bytes under each digest
  layout,     \* dest/oci-layout is there
  index,      \* the manifests that dest/index.json lists (<<>>: no index.json)
  pc,
  target,     \* the digest asked for, or the tag
  strict,     \* opts.require_referrers
  primary,    \* primary_manifest_digest
  todo,       \* content of the manifest at hand that is yet to be pulled
  refs,       \* referrer_descriptors not dealt with yet; the first is at hand
  seen,       \* seen_blobs
  listed,     \* materialised_referrers
  pulls,
  before      \* history: the images that had been published when the pull began

registry == <<blobs, manifests, tag, api>>
dest     == <<files, layout, index>>
request  == <<target, strict, pulls, before>>
walk     == <<primary, todo, refs, seen, listed>>
vars     == <<registry, dest, pc, request, walk>>

\* execute_pull returns, and its locals are gone.
Return(how) ==
  /\ pc' = how
  /\ primary' = Absent /\ todo' = <<>> /\ refs' = <<>> /\ seen' = {} /\ listed' = <<>>

Reg == INSTANCE Registry

Active == {"manifest", "content", "referrers", "referrer", "refContent", "index"}
Ended  == {"idle", "done", "failed"}

TypeOK ==
  /\ blobs \subseteq Digests /\ manifests \subseteq DOMAIN Manifest
  /\ tag \in Images \cup {NoImage}
  /\ api \in BOOLEAN /\ strict \in BOOLEAN /\ layout \in BOOLEAN
  /\ DOMAIN files \subseteq Digests
  /\ index \in Seq(Digests)
  /\ pc \in Active \cup Ended
  /\ target \in Pinned \cup {Tag}
  /\ primary \in DOMAIN Manifest \cup {Absent}
  /\ todo \in Seq(Digests) /\ refs \in Seq(Digests) /\ listed \in Seq(Digests)
  /\ todo # <<>> => pc \in {"content", "refContent"}
  /\ pc = "refContent" => refs # <<>>
  /\ seen \subseteq Digests
  /\ pulls \in 0..MaxPulls
  /\ before \subseteq Images

Init ==
  /\ Reg!Init
  /\ api \in BOOLEAN
  /\ files = <<>> /\ layout = FALSE /\ index = <<>>
  /\ pc = "idle" /\ target = Tag /\ strict = FALSE
  /\ primary = Absent /\ todo = <<>> /\ refs = <<>> /\ seen = {} /\ listed = <<>>
  /\ pulls = 0 /\ before = {}

\* Publishers push meanwhile, in the order that publish_registry keeps.
Published == Reg!Next /\ UNCHANGED <<api, dest, pc, request, walk>>

-----------------------------------------------------------------------------
\* Image i has been published: its commit has taken place.
Whole(i) == Content(i) \subseteq blobs /\ ManifestDigests(i) \subseteq manifests

Start ==
  /\ pc \in Ended
  /\ pulls < MaxPulls
  /\ pulls' = pulls + 1
  /\ target' \in Pinned \cup {Tag}
  /\ strict' \in BOOLEAN
  /\ before' = {i \in Images : Whole(i)}
  /\ pc' = "manifest"
  /\ UNCHANGED <<registry, dest, walk>>

\* config and layers of the manifest under digest d.
ContentOf(d) == <<Manifest[d].config>> \o Manifest[d].layers

\* The file for digest d gets the given bytes, unless it is there already.
Store(d, bytes) == files' = IF d \in DOMAIN files THEN files
                            ELSE [e \in DOMAIN files \cup {d} |-> IF e = d THEN bytes ELSE files[e]]

\* fetch_manifest and write_blob_atomically: under the tag any manifest of the
\* repository may be served (an answer may be old), and its bytes decide what it
\* is; of a pinned digest only its own bytes are taken.
FetchManifest ==
  /\ pc = "manifest"
  /\ \E served \in manifests :
       /\ target = Tag \/ served = target
       /\ primary' = served
       /\ Store(served, served)
       /\ todo' = ContentOf(served)
  /\ pc' = "content"
  /\ UNCHANGED <<registry, layout, index, request, refs, seen, listed>>

\* The next config or layer, of a referrer only if seen_blobs.insert says that it
\* is new.  (The content of the primary manifest is inserted by FetchReferrers.)
NextBlob(d) ==
  /\ pc \in {"content", "refContent"}
  /\ todo # <<>> /\ d = Head(todo)
  /\ d \notin seen
  /\ seen' = IF pc = "refContent" THEN seen \cup {d} ELSE seen
  /\ todo' = Tail(todo)

\* A blob that an earlier manifest of this pull has named.
SeenBlob ==
  /\ pc = "refContent"
  /\ todo # <<>> /\ Head(todo) \in seen
  /\ todo' = Tail(todo)
  /\ UNCHANGED <<registry, dest, pc, request, primary, refs, seen, listed>>

\* pull_blob_streamed finds the file: an earlier pull, or this one, has checked it.
SkipBlob ==
  /\ \E d \in DOMAIN files : NextBlob(d)
  /\ UNCHANGED <<registry, dest, pc, request, primary, refs, listed>>

\* Mutant: the bytes are renamed into place without a look at their hash.
PullBlobUnverified ==
  /\ \E d \in blobs \ DOMAIN files :
       NextBlob(d) /\ \E bytes \in {d, Corrupt} : Store(d, bytes)
  /\ UNCHANGED <<registry, layout, index, pc, request, primary, refs, listed>>

\* pull_blob_streamed: the bytes are hashed on their way to a partial file, which
\* is renamed if they match (and removed if they do not, see Stop).
PullBlob ==
  /\ \E d \in blobs \ DOMAIN files : NextBlob(d) /\ Store(d, d)
  /\ UNCHANGED <<registry, layout, index, pc, request, primary, refs, listed>>

ContentDone ==
  /\ pc = "content" /\ todo = <<>>
  /\ pc' = "referrers"
  /\ UNCHANGED <<registry, dest, request, walk>>

\* The answers of the referrers API: what has `subject' as its subject, in some
\* order; an entry may be listed again.
Listings(subject) ==
  LET own == {d \in manifests : Manifest[d].subject = subject}
      n == Cardinality(own)
      orders == {s \in [1..n -> own] : ToSet(s) = own}
  IN orders \cup {Append(s, s[1]) : s \in {o \in orders : n > 0}}

\* Mutant: a registry without the referrers API is tolerated in strict mode, too.
FetchReferrersLenient ==
  /\ pc = "referrers"
  /\ IF api THEN refs' \in Listings(primary) ELSE refs' = <<>>
  /\ seen' = {primary} \cup ToSet(ContentOf(primary))
  /\ pc' = "referrer"
  /\ UNCHANGED <<registry, dest, request, primary, todo, listed>>

\* fetch_referrers: 404 means an old registry, and no referrers; in strict mode
\* it is an error (Stop).
FetchReferrers ==
  /\ pc = "referrers"
  /\ api \/ ~strict
  /\ IF api THEN refs' \in Listings(primary) ELSE refs' = <<>>
  /\ seen' = {primary} \cup ToSet(ContentOf(primary))
  /\ pc' = "referrer"
  /\ UNCHANGED <<registry, dest, request, primary, todo, listed>>

\* A referrer that has been seen is listed, and not pulled again.
SeenReferrer ==
  /\ pc = "referrer" /\ refs # <<>>
  /\ Head(refs) \in seen
  /\ listed' = Append(listed, Head(refs))
  /\ refs' = Tail(refs)
  /\ UNCHANGED <<registry, dest, pc, request, primary, todo, seen>>

\* The manifest of the referrer at hand; other bytes than its own are refused.
FetchReferrer ==
  /\ pc = "referrer" /\ refs # <<>>
  /\ Head(refs) \in manifests \ seen
  /\ Store(Head(refs), Head(refs))
  /\ todo' = ContentOf(Head(refs))
  /\ seen' = seen \cup {Head(refs)}
  /\ pc' = "refContent"
  /\ UNCHANGED <<registry, layout, index, request, primary, refs, listed>>

\* Mutant: a referrer counts as pulled with its first blob.
ReferrerDoneEarly ==
  /\ pc = "refContent" /\ Len(todo) <= 1
  /\ todo' = <<>>
  /\ listed' = Append(listed, Head(refs))
  /\ refs' = Tail(refs)
  /\ pc' = "referrer"
  /\ UNCHANGED <<registry, dest, request, primary, seen>>

ReferrerDone ==
  /\ pc = "refContent" /\ todo = <<>>
  /\ listed' = Append(listed, Head(refs))
  /\ refs' = Tail(refs)
  /\ pc' = "referrer"
  /\ UNCHANGED <<registry, dest, request, primary, todo, seen>>

WriteLayout ==
  /\ pc = "referrer" /\ refs = <<>>
  /\ layout' = TRUE
  /\ pc' = "index"
  /\ UNCHANGED <<registry, files, index, request, walk>>

\* write_index_json, by a rename.
WriteIndex ==
  /\ pc = "index"
  /\ index' = <<primary>> \o listed
  /\ Return("done")
  /\ UNCHANGED <<registry, files, layout, request>>

\* An error, or the death of the process: a refused or failed request, bytes
\* that do not match, no referrers API in strict mode, a full disk.
Stop ==
  /\ pc \in Active
  /\ Return("failed")
  /\ UNCHANGED <<registry, dest, request>>

Pull == \/ FetchManifest
        \/ SeenBlob \/ SkipBlob \/ PullBlob \/ ContentDone
        \/ FetchReferrers \/ SeenReferrer \/ FetchReferrer \/ ReferrerDone
        \/ WriteLayout \/ WriteIndex

Next == Published \/ Start \/ Pull \/ Stop

Spec == Init /\ [][Next]_vars

-----------------------------------------------------------------------------
(* Correctness.                                                            *)

\* What a reader of the destination finds under digest d.
File(d) ==
  IF files[d] \in DOMAIN Manifest
  THEN [state |-> "ok", mediaType |-> "oci", config |-> Manifest[files[d]].config,
        layers |-> Manifest[files[d]].layers, subject |-> Manifest[files[d]].subject]
  ELSE [state |-> "malformed", mediaType |-> Absent, config |-> Absent,
        layers |-> <<>>, subject |-> Absent]

Directory ==
  [layout |-> IF layout THEN "ok" ELSE "missing",
   index  |-> IF index = <<>> THEN "missing" ELSE "ok",
   listed |-> [k \in DOMAIN index |-> [digest |-> index[k], mediaType |-> "oci"]],
   blobs  |-> [d \in DOMAIN files |-> File(d)]]

\* pull_into_image_dir: "On success, `dest` validates as ImageDir::open", and
\* index.json is the last file that a pull writes: whenever it is there, after a
\* pull that ended well, failed or was killed, the directory opens.  A pull of a
\* referrer by its digest is left out: it has no primary manifest.
DestOpens ==
  index # <<>> /\ Manifest[index[1]].subject = Absent =>
    OnDisk!Open(Directory).err = "none"

\* "The destination tempdir never sees tampered content": every file under
\* blobs/sha256 has the bytes its name says, also between the steps of a pull and
\* after a failed one.  A later pull, and the verifier, do not hash it again.
BytesMatchNames == \A d \in DOMAIN files : files[d] = d

\* What the verifier finds: a pull that ends well, from a registry with the
\* referrers API or in strict mode, has every attestation of an image that was
\* published with this primary manifest, and of each that had been published
\* when the pull began, although publishers push meanwhile and the referrers are
\* asked for long after the manifest (publish_registry's order makes it so).
AttestationsPulled ==
  pc = "done" /\ (api \/ strict) /\ Manifest[index[1]].subject = Absent =>
    LET pulled(i) == Primary(i) = index[1] /\ ToSet(Referrers(i)) \subseteq ToSet(index)
    IN /\ \E i \in Images : pulled(i)
       /\ \A i \in before : Primary(i) = index[1] => pulled(i)
=============================================================================
