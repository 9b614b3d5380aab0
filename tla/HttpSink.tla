------------------------------ MODULE HttpSink ------------------------------
(***************************************************************************)
(* publish_http (publish/src/core/http_sink.rs): publishers copy a         *)
(* validated image directory into one statically served directory.  Blobs  *)
(* go first, each through a temporary file and a rename; the rename over   *)
(* index.json is the commit point.                                         *)
(*                                                                         *)
(* The image directory a publisher reads is shared with `justoci build',   *)
(* which appends referrers to it after the directory has appeared          *)
(* (write_referrers_into_image_dir); publish_http walks the blobs listed   *)
(* when ImageDir::open ran, and reads index.json again for the commit.     *)
(*                                                                         *)
(* Temporary files have names of their own that no consumer reads: they    *)
(* are not state here.                                                     *)
(***************************************************************************)
EXTENDS Integers, Sequences, FiniteSets, SequencesExt

CONSTANTS Publishers,   \* concurrent justoci processes, all publishing to one place
          Images,       \* states of an image directory
          NoImage,      \* there is no index.json at the destination
          Digests,
          Blobs,        \* referenced_blobs of each image
          SourceOf,     \* the image in each publisher's directory at the start
          Attested,     \* the image that an image becomes when build attests it
          Platforms,    \* subset of {"posix", "windows"}
          LiveSource,   \* whether build may still be at work on a directory being published
          MaxRuns       \* bound: publish calls of each publisher

ASSUME ImagesAssumption == /\ Blobs \in [Images -> Seq(Digests)]
                           /\ SourceOf \in [Publishers -> Images]
                           /\ Attested \in [Images -> Images]
                           /\ NoImage \notin Images

ASSUME EnvironmentAssumption == /\ Platforms \subseteq {"posix", "windows"}
                                /\ LiveSource \in BOOLEAN
                                /\ MaxRuns \in [Publishers -> Nat]

\* referenced_blobs has no repetitions and is never empty (module ImageDir).
ASSUME ListAssumption ==
  \A i \in Images : /\ Blobs[i] # <<>>
                    /\ \A j, k \in DOMAIN Blobs[i] : Blobs[i][j] = Blobs[i][k] => j = k

VARIABLES
  platform,   \* the platform all publishers run on
  files,      \* destination: digests under blobs/sha256/
  layout,     \* destination: oci-layout is there
  index,      \* destination: the image whose index.json is there
  source,     \* the image in each publisher's directory
  opened,     \* the image that ImageDir::open saw
  pc, pos,    \* where each publisher is, and its index in the list
  read,       \* the image whose index.json it read for the commit
  runs,       \* publish calls it has started
  pushed, skipped,  \* the outcome's digest lists
  err,        \* the error its latest call returned, or "none"
  atStart     \* history: `files' when the call began

destination == <<files, layout, index>>
outcome     == <<pushed, skipped, err>>
vars == <<platform, files, layout, index, source, opened, pc, pos, read, runs,
          pushed, skipped, err, atStart>>

BlobSteps == {"exists", "copy", "clear", "rename"}
Active == {"layout", "readIndex", "writeIndex", "clearIndex", "commit"} \cup BlobSteps
Ended  == {"idle", "done", "failed", "crashed"}
Errors == {"none", "Destination", "MalformedImageDir", "BlobUpload"}

TypeOK ==
  /\ platform \in Platforms
  /\ files \subseteq Digests
  /\ layout \in BOOLEAN
  /\ index \in Images \cup {NoImage}
  /\ source \in [Publishers -> Images]
  /\ opened \in [Publishers -> Images \cup {NoImage}]
  /\ pc \in [Publishers -> Active \cup Ended]
  /\ pos \in [Publishers -> Nat]
  /\ \A p \in Publishers : pos[p] \in 1..(IF opened[p] = NoImage THEN 1 ELSE Len(Blobs[opened[p]]))
  /\ read \in [Publishers -> Images \cup {NoImage}]
  /\ runs \in [Publishers -> Nat]
  /\ pushed \in [Publishers -> Seq(Digests)]
  /\ skipped \in [Publishers -> Seq(Digests)]
  /\ err \in [Publishers -> Errors]
  /\ atStart \in [Publishers -> SUBSET Digests]

Init ==
  /\ platform \in Platforms
  /\ files = {}
  /\ layout = FALSE
  /\ index = NoImage
  /\ source = SourceOf
  /\ opened = [p \in Publishers |-> NoImage]
  /\ pc = [p \in Publishers |-> "idle"]
  /\ pos = [p \in Publishers |-> 1]
  /\ read = [p \in Publishers |-> NoImage]
  /\ runs = [p \in Publishers |-> 0]
  /\ pushed = [p \in Publishers |-> <<>>]
  /\ skipped = [p \in Publishers |-> <<>>]
  /\ err = [p \in Publishers |-> "none"]
  /\ atStart = [p \in Publishers |-> {}]

-----------------------------------------------------------------------------
Current(p) == Blobs[opened[p]][pos[p]]

Goto(p, next) == pc' = [pc EXCEPT ![p] = next]

\* The last step of a blob: on to the next one, or to index.json.
NextBlob(p) ==
  /\ pos' = [pos EXCEPT ![p] = IF @ < Len(Blobs[opened[p]]) THEN @ + 1 ELSE 1]
  /\ Goto(p, IF pos[p] < Len(Blobs[opened[p]]) THEN "exists" ELSE "readIndex")

\* publish(): ImageDir::open, then publish_http.
Start(p) ==
  /\ pc[p] \in Ended
  /\ runs[p] < MaxRuns[p]
  /\ runs' = [runs EXCEPT ![p] = @ + 1]
  /\ opened' = [opened EXCEPT ![p] = source[p]]
  /\ pos' = [pos EXCEPT ![p] = 1]
  /\ read' = [read EXCEPT ![p] = NoImage]
  /\ pushed' = [pushed EXCEPT ![p] = <<>>]
  /\ skipped' = [skipped EXCEPT ![p] = <<>>]
  /\ err' = [err EXCEPT ![p] = "none"]
  /\ atStart' = [atStart EXCEPT ![p] = files]
  /\ Goto(p, "layout")
  /\ UNCHANGED <<platform, destination, source>>

\* create_dir_all, then write_if_changed of oci-layout, whose bytes are always
\* the same: a temporary file and a rename when it is not there.
WriteLayout(p) ==
  /\ pc[p] = "layout"
  /\ layout' = TRUE
  /\ Goto(p, "exists")
  /\ UNCHANGED <<platform, files, index, source, opened, pos, read, runs, outcome, atStart>>

\* Mutant: a skipped blob is not reported.
SkipBlobUnreported(p) ==
  /\ pc[p] = "exists"
  /\ Current(p) \in files
  /\ NextBlob(p)
  /\ UNCHANGED <<platform, destination, source, opened, read, runs, outcome, atStart>>

\* dst.exists(): the blob is skipped.
SkipBlob(p) ==
  /\ pc[p] = "exists"
  /\ Current(p) \in files
  /\ skipped' = [skipped EXCEPT ![p] = Append(@, Current(p))]
  /\ NextBlob(p)
  /\ UNCHANGED <<platform, destination, source, opened, read, runs, pushed, err, atStart>>

\* Mutant: a blob that is there is copied again.
CopyBlobAlways(p) ==
  /\ pc[p] = "exists"
  /\ Goto(p, "copy")
  /\ UNCHANGED <<platform, destination, source, opened, pos, read, runs, outcome, atStart>>

\* It is not there: copy_blob_atomic is called.
MissBlob(p) ==
  /\ pc[p] = "exists"
  /\ Current(p) \notin files
  /\ Goto(p, "copy")
  /\ UNCHANGED <<platform, destination, source, opened, pos, read, runs, outcome, atStart>>

\* copy_chunked: the temporary file holds all bytes, synced to disk.
CopyChunked(p) ==
  /\ pc[p] = "copy"
  /\ Goto(p, IF platform = "windows" THEN "clear" ELSE "rename")
  /\ UNCHANGED <<platform, destination, source, opened, pos, read, runs, outcome, atStart>>

\* Windows: a blob that another publisher has put there meanwhile is removed;
\* a failure to do so is ignored.
ClearBlob(p) ==
  /\ pc[p] = "clear"
  /\ files' = files \ {Current(p)} \/ UNCHANGED files
  /\ Goto(p, "rename")
  /\ UNCHANGED <<platform, layout, index, source, opened, pos, read, runs, outcome, atStart>>

\* Mutant: the blob's temporary file is never renamed.
RenameBlobForgotten(p) ==
  /\ pc[p] = "rename"
  /\ pushed' = [pushed EXCEPT ![p] = Append(@, Current(p))]
  /\ NextBlob(p)
  /\ UNCHANGED <<platform, destination, source, opened, read, runs, skipped, err, atStart>>

RenameBlob(p) ==
  /\ pc[p] = "rename"
  /\ files' = files \cup {Current(p)}
  /\ pushed' = [pushed EXCEPT ![p] = Append(@, Current(p))]
  /\ NextBlob(p)
  /\ UNCHANGED <<platform, layout, index, source, opened, read, runs, skipped, err, atStart>>

\* read_index_bytes: index.json as the directory has it NOW.
ReadIndex(p) ==
  /\ pc[p] = "readIndex"
  /\ read' = [read EXCEPT ![p] = source[p]]
  /\ Goto(p, "writeIndex")
  /\ UNCHANGED <<platform, destination, source, opened, pos, runs, outcome, atStart>>

\* write_atomic_index: the bytes go to a temporary file.
WriteIndex(p) ==
  /\ pc[p] = "writeIndex"
  /\ Goto(p, IF platform = "windows" THEN "clearIndex" ELSE "commit")
  /\ UNCHANGED <<platform, destination, source, opened, pos, read, runs, outcome, atStart>>

\* Windows, finalize_atomic: the old index.json is removed first.
ClearIndex(p) ==
  /\ pc[p] = "clearIndex"
  /\ index' = NoImage
  /\ Goto(p, "commit")
  /\ UNCHANGED <<platform, files, layout, source, opened, pos, read, runs, outcome, atStart>>

\* The rename over index.json, the commit point.
Commit(p) ==
  /\ pc[p] = "commit"
  /\ index' = read[p]
  /\ Goto(p, "done")
  /\ UNCHANGED <<platform, files, layout, source, opened, pos, read, runs, outcome, atStart>>

\* An I/O error at any step ends the call.
ErrorsAt(step) ==
  IF step \in {"copy", "rename"} THEN {"BlobUpload"}
  ELSE IF step = "readIndex" THEN {"MalformedImageDir"}
  ELSE IF step = "layout" THEN {"Destination", "MalformedImageDir"}
  ELSE IF step \in {"exists", "clear"} THEN {}
  ELSE {"Destination"}

\* Mutant: index.json is put in place by an error path, too.
FailCommitting(p) ==
  /\ pc[p] \in Active
  /\ \E e \in ErrorsAt(pc[p]) : err' = [err EXCEPT ![p] = e]
  /\ Goto(p, "failed")
  /\ index' = opened[p]
  /\ UNCHANGED <<platform, files, layout, source, opened, pos, read, runs, pushed, skipped, atStart>>

Fail(p) ==
  /\ pc[p] \in Active
  /\ \E e \in ErrorsAt(pc[p]) : err' = [err EXCEPT ![p] = e]
  /\ Goto(p, "failed")
  /\ UNCHANGED <<platform, destination, source, opened, pos, read, runs, pushed, skipped, atStart>>

\* The process is killed.
Crash(p) ==
  /\ pc[p] \in Active
  /\ Goto(p, "crashed")
  /\ UNCHANGED <<platform, destination, source, opened, pos, read, runs, outcome, atStart>>

\* build attests the image in p's directory: it writes the referrers' blobs and
\* then replaces index.json (cli/src/referrers.rs).
Attest(p) ==
  /\ LiveSource \/ pc[p] \in Ended
  /\ source' = [source EXCEPT ![p] = Attested[@]]
  /\ source' # source
  /\ UNCHANGED <<platform, destination, opened, pc, pos, read, runs, outcome, atStart>>

Step(p) == \/ WriteLayout(p)
           \/ SkipBlob(p) \/ MissBlob(p) \/ CopyChunked(p) \/ ClearBlob(p) \/ RenameBlob(p)
           \/ ReadIndex(p) \/ WriteIndex(p) \/ ClearIndex(p) \/ Commit(p)

Next == \E p \in Publishers : Start(p) \/ Step(p) \/ Fail(p) \/ Crash(p) \/ Attest(p)

Spec == Init /\ [][Next]_vars

-----------------------------------------------------------------------------
(* Correctness.                                                            *)

Complete(i) == layout /\ ToSet(Blobs[i]) \subseteq files

\* publish_http, "Atomic commit": index.json points at blobs that all exist,
\* whatever other publishers do, fail to do, or leave half done.  On Windows a
\* publisher removes the blob another one has just put in place.
ServedComplete == platform = "posix" /\ index # NoImage => Complete(index)

\* The elements of list that `part' has are in the order of `list', none twice.
InOrderOf(list, part) ==
  \A j, k \in DOMAIN part : \A a, b \in DOMAIN list :
    j < k /\ part[j] = list[a] /\ part[k] = list[b] => a < b

\* A call that ends with Ok has accounted for every blob of the image, each one
\* as pushed or as skipped and never as both (PublishOutcome), in list order.
OutcomeIsPartition ==
  \A p \in Publishers : pc[p] = "done" =>
    /\ ToSet(pushed[p]) \cup ToSet(skipped[p]) = ToSet(Blobs[opened[p]])
    /\ ToSet(pushed[p]) \cap ToSet(skipped[p]) = {}
    /\ InOrderOf(Blobs[opened[p]], pushed[p])
    /\ InOrderOf(Blobs[opened[p]], skipped[p])

\* Resumability: what an earlier publish, failed or killed, has copied is not
\* copied again.
ResumeSkips ==
  platform = "posix" => \A p \in Publishers : ToSet(pushed[p]) \cap atStart[p] = {}

\* What a consumer finds at the destination.  Nothing is claimed of Windows,
\* where index.json is absent for a moment.
Visible == IF platform = "windows" THEN NoImage
           ELSE IF index # NoImage /\ ~Complete(index) THEN "incomplete"
           ELSE index

Status == [p \in Publishers |->
             IF platform = "windows" THEN "idle"
             ELSE IF pc[p] \in Active THEN "pending"
             ELSE IF pc[p] = "done" THEN "ok"
             ELSE IF pc[p] = "idle" THEN "idle" ELSE "failed"]

Wanted == [p \in Publishers |-> IF platform = "windows" THEN NoImage ELSE opened[p]]

Atomic == INSTANCE AtomicPublish
            WITH visible <- Visible, wanted <- Wanted, status <- Status

\* publish_http implements the promise that publish_registry implements.
ImplementsAtomicPublish == Atomic!Spec
=============================================================================
