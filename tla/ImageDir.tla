------------------------------ MODULE ImageDir ------------------------------
(***************************************************************************)
(* ImageDir::open (publish/src/api/image_dir.rs): the validation every     *)
(* sink and the verifier pass before they touch an OCI image directory,    *)
(* and the list of blobs that it hands to the sinks.                       *)
(*                                                                         *)
(* A directory is                                                          *)
(*   layout : the state of oci-layout,                                     *)
(*   index  : the state of index.json,                                     *)
(*   listed : the descriptors in index.json, [digest, mediaType],          *)
(*   blobs  : a function from the digests under blobs/sha256/ to what a    *)
(*            manifest reader makes of the file:                           *)
(*            [state, mediaType, config, layers, subject].                 *)
(* open never hashes a blob: what a file holds need not match its name.    *)
(***************************************************************************)
EXTENDS Integers, Sequences, FiniteSets, SequencesExt

CONSTANTS BadDigests,     \* rejected by validate_digest_format
          UpperDigests    \* pass it, but blob_path_of wants lowercase hex

\* The value of a manifest's subject, or mediaType, that has none.
Absent == "absent"

\* What opening, reading and parsing a file can give.
FileError == [ok          |-> "none",
              missing     |-> "MissingFile",
              unreadable  |-> "Io",
              malformed   |-> "MalformedJson",
              unsupported |-> "UnsupportedLayoutVersion"]

IsList(s) == Len(s) \in Nat /\ s = [k \in 1..Len(s) |-> s[k]]

\* The directories that a file system can hold: the state of each file is one that
\* reading it can give, lists are lists, and blobs/sha256 has files under
\* well-formed digests only.
IsDirectory(dir) ==
  /\ dir.layout \in DOMAIN FileError /\ dir.index \in DOMAIN FileError
  /\ IsList(dir.listed)
  /\ DOMAIN dir.blobs \cap (BadDigests \cup UpperDigests \cup {Absent}) = {}
  /\ \A d \in DOMAIN dir.blobs :
       /\ dir.blobs[d].state \in DOMAIN FileError
       /\ IsList(dir.blobs[d].layers)

\* The first failed check of a list of checks, in the order of the code.
FirstError(checks) ==
  LET n == SelectInSeq(checks, LAMBDA e : e # "none")
  IN IF n = 0 THEN "none" ELSE checks[n]

Present(dir, d) == d \in DOMAIN dir.blobs

\* validate_descriptor_blob_present, for a config or a layer.
ContentError(dir, d) ==
  IF d \in BadDigests \cup UpperDigests THEN "InvalidDigestFormat"
  ELSE IF ~Present(dir, d) THEN "MissingBlob"
  ELSE "none"

\* The walk over index.json's descriptors: one turn of the loop.
ListedError(dir, desc) ==
  IF desc.digest \in BadDigests THEN "InvalidDigestFormat"
  ELSE IF desc.mediaType # "oci" THEN "UnsupportedManifestMediaType"
  ELSE IF desc.digest \in UpperDigests THEN "InvalidDigestFormat"
  ELSE IF ~Present(dir, desc.digest) THEN "MissingBlob"
  ELSE LET blob == dir.blobs[desc.digest]
       IN IF blob.state # "ok" THEN FileError[blob.state]
          ELSE IF blob.mediaType \notin {"oci", Absent}
               THEN "UnsupportedManifestMediaType"
          ELSE "none"

\* What index.json lists: the places of manifests without a subject, the one that
\* is the primary if there is only one, and the others in their order.
ListedDigests(dir) == [k \in DOMAIN dir.listed |-> dir.listed[k].digest]
PrimaryCandidates(dir) ==
  {k \in DOMAIN dir.listed : dir.blobs[dir.listed[k].digest].subject = Absent}
PrimaryManifest(dir) == dir.listed[CHOOSE k \in PrimaryCandidates(dir) : TRUE].digest
ReferrerManifests(dir) ==
  FlattenSeq([k \in DOMAIN dir.listed |->
                IF dir.blobs[dir.listed[k].digest].subject = Absent THEN <<>>
                ELSE <<dir.listed[k].digest>>])

PrimaryCountError(dir) ==
  LET n == Cardinality(PrimaryCandidates(dir))
  IN IF n = 0 THEN "NoPrimaryManifest"
     ELSE IF n > 1 THEN "MultiplePrimaryManifests" ELSE "none"

\* config first, then the layers.
ManifestContentChecks(dir, m) ==
  <<ContentError(dir, dir.blobs[m].config)>>
  \o [k \in DOMAIN dir.blobs[m].layers |-> ContentError(dir, dir.blobs[m].layers[k])]

\* Mutant: any subject will do.
ReferrerChecksNoSubject(dir, primary, r) == ManifestContentChecks(dir, r)

ReferrerChecks(dir, primary, r) ==
  <<IF dir.blobs[r].subject # primary THEN "MissingBlob" ELSE "none">>
  \o ManifestContentChecks(dir, r)

\* Everything that is checked once the single primary is known.
ContentChecks(dir) ==
  LET primary == PrimaryManifest(dir)
  IN <<FirstError(ManifestContentChecks(dir, primary))>>
     \o [k \in DOMAIN dir.listed |->
           IF k \in PrimaryCandidates(dir) THEN "none"
           ELSE FirstError(ReferrerChecks(dir, primary, dir.listed[k].digest))]

OpenError(dir) ==
  LET indexError == FirstError(<<FileError[dir.layout], FileError[dir.index]>>
        \o IF dir.layout # "ok" \/ dir.index # "ok" THEN <<>>
           ELSE [k \in DOMAIN dir.listed |-> ListedError(dir, dir.listed[k])])
  IN IF indexError # "none" THEN indexError
     ELSE IF PrimaryCountError(dir) # "none" THEN PrimaryCountError(dir)
     ELSE FirstError(ContentChecks(dir))

-----------------------------------------------------------------------------
(* The list of blobs for the sinks.                                        *)

\* Mutant: a digest met again replaces nothing and is listed again.
PushAlways(out, d) == Append(out, d)

\* The closure `push': the first occurrence of a digest is kept.
Push(out, d) == IF Contains(out, d) THEN out ELSE Append(out, d)

\* layers, config
ManifestContent(dir, m) == dir.blobs[m].layers \o <<dir.blobs[m].config>>

\* The primary's content, every referrer's content and manifest, the primary.
ReferencedOrder(dir) ==
  LET primary == PrimaryManifest(dir)
      referrers == ReferrerManifests(dir)
  IN ManifestContent(dir, primary)
     \o FlattenSeq([k \in DOMAIN referrers |->
                      ManifestContent(dir, referrers[k]) \o <<referrers[k]>>])
     \o <<primary>>

ReferencedBlobs(dir) == FoldLeft(Push, <<>>, ReferencedOrder(dir))

\* What open returns, without the descriptors' sizes and types; `content' is
\* not a field of ImageDir: it is the set of configs and layers of the image.
Open(dir) ==
  IF OpenError(dir) # "none"
  THEN [err |-> OpenError(dir), primary |-> Absent, referrers |-> <<>>,
        blobs |-> <<>>, content |-> {}]
  ELSE LET primary == PrimaryManifest(dir)
           referrers == ReferrerManifests(dir)
       IN [err       |-> "none",
           primary   |-> primary,
           referrers |-> referrers,
           blobs     |-> ReferencedBlobs(dir),
           content   |-> UNION {ToSet(ManifestContent(dir, m)) :
                                  m \in {primary} \cup ToSet(referrers)}]

-----------------------------------------------------------------------------
(* Correctness of open, for a directory and what open returned for it.     *)

Content(dir, m) == ToSet(dir.blobs[m].layers) \cup {dir.blobs[m].config}

\* A listed descriptor names a readable OCI manifest.
IsManifest(dir, desc) ==
  /\ desc.mediaType = "oci"
  /\ Present(dir, desc.digest)
  /\ dir.blobs[desc.digest].state = "ok"
  /\ dir.blobs[desc.digest].mediaType \in {"oci", Absent}

\* The reference definition: a well-formed OCI layout that holds one artifact
\* with its referrers, each of them whole.  (No file under blobs/sha256 has a
\* name in BadDigests or UpperDigests.)
Publishable(dir) ==
  /\ dir.layout = "ok" /\ dir.index = "ok"
  /\ \A k \in DOMAIN dir.listed : IsManifest(dir, dir.listed[k])
  /\ \E k \in DOMAIN dir.listed :
       LET primary == dir.listed[k].digest
       IN /\ dir.blobs[primary].subject = Absent
          /\ \A j \in DOMAIN dir.listed \ {k} :
               dir.blobs[dir.listed[j].digest].subject = primary
  /\ \A k \in DOMAIN dir.listed : Content(dir, dir.listed[k].digest) \subseteq DOMAIN dir.blobs

\* open accepts exactly the publishable directories.
OpensExactly(dir, result) == (result.err = "none") <=> Publishable(dir)

\* On success referenced_blobs names every blob that the index can reach, once,
\* and each of them is on disk: a sink that copies the list and then the index
\* copies an image without dangling references.
ReferencedIsClosure(dir, result) ==
  result.err = "none" =>
    LET listed == ToSet(ListedDigests(dir))
    IN /\ ToSet(result.blobs) = listed \cup UNION {Content(dir, m) : m \in listed}
       /\ ToSet(result.blobs) \subseteq DOMAIN dir.blobs
       /\ \A j, k \in DOMAIN result.blobs : result.blobs[j] = result.blobs[k] => j = k

\* Copy order: the primary manifest is the last entry and every referrer manifest
\* comes after the config and layers it names, so that a sink that stops half way
\* leaves no manifest without its content.  It holds as long as no manifest of
\* the image is itself listed as a layer or config of another one.
ManifestsFollowContent(dir, result) ==
  result.err = "none" /\ result.content \cap ToSet(ListedDigests(dir)) = {} =>
    /\ Last(result.blobs) = result.primary
    /\ \A k \in DOMAIN result.blobs :
         result.blobs[k] \in ToSet(result.referrers) =>
           Content(dir, result.blobs[k]) \subseteq ToSet(SubSeq(result.blobs, 1, k - 1))

\* The list for the sinks is the closure of index.json, without repetitions; it
\* puts every manifest after its content, and the primary last.
OrderedClosure(dir, result) ==
  ReferencedIsClosure(dir, result) /\ ManifestsFollowContent(dir, result)
=============================================================================
