--------------------------- MODULE HttpSinkProofs ---------------------------
(***************************************************************************)
(* Proofs about HttpSink, for any publishers, images and number of calls.  *)
(*                                                                         *)
(* On a POSIX destination files only appear, so what a publisher has       *)
(* behind it stays there (Behind).  That the index it commits is of the    *)
(* image whose blobs it has copied (SameImage) needs a source directory    *)
(* that nobody attests during the call: ~LiveSource.                       *)
(*                                                                         *)
(* That a call accounts for each blob once (Accounts) needs neither: the   *)
(* list it walks has no digest twice, and it accounts for one a turn.      *)
(***************************************************************************)
EXTENDS HttpSink, TLAPS

IndexSteps == {"writeIndex", "clearIndex", "commit"}

\* A call works on an image, and commits one.
HasImage(p) == /\ pc[p] \in Active => opened[p] \in Images
               /\ pc[p] \in IndexSteps => read[p] \in Images

\* The part of its walk that publisher p has behind it is at the destination.
Behind(p) ==
  /\ pc[p] \notin {"clear", "clearIndex"}
  /\ pc[p] = "layout" => pos[p] = 1
  /\ pc[p] \in Active \ {"layout"} => layout
  /\ pc[p] \in BlobSteps =>
       \A j \in 1..Len(Blobs[opened[p]]) : j < pos[p] => Blobs[opened[p]][j] \in files
  /\ pc[p] \in {"readIndex"} \cup IndexSteps => ToSet(Blobs[opened[p]]) \subseteq files

\* It has copied nothing that was there before.
Resumes(p) ==
  /\ atStart[p] \subseteq files
  /\ pc[p] \in {"copy", "rename"} => Current(p) \notin atStart[p]
  /\ ToSet(pushed[p]) \cap atStart[p] = {}

\* The index of a call is of the image that ImageDir::open saw.
SameImage(p) == /\ pc[p] \in Active => source[p] = opened[p]
                /\ pc[p] \in IndexSteps => read[p] = opened[p]

\* What holds on a POSIX destination, of p and of the destination.
Posix == /\ \A p \in Publishers : Behind(p) /\ Resumes(p)
         /\ ~LiveSource /\ index # NoImage => Complete(index)

IInv == /\ TypeOK
        /\ \A p \in Publishers : HasImage(p)
        /\ ~LiveSource => \A p \in Publishers : SameImage(p)
        /\ platform = "posix" => Posix

-----------------------------------------------------------------------------
(* Lists, and the walk along one.                                          *)

LEMMA ListType ==
  ASSUME NEW i \in Images
  PROVE  /\ Blobs[i] \in Seq(Digests)
         /\ Len(Blobs[i]) \in Nat \ {0}
         /\ ToSet(Blobs[i]) = {Blobs[i][j] : j \in 1..Len(Blobs[i])}
<1>1. Blobs[i] \in Seq(Digests) /\ Blobs[i] # <<>>
  BY ImagesAssumption, ListAssumption
<1>. QED  BY <1>1 DEF ToSet

LEMMA AppendToSet ==
  ASSUME NEW s \in Seq(Digests), NEW d \in Digests
  PROVE  Append(s, d) \in Seq(Digests) /\ ToSet(Append(s, d)) = ToSet(s) \cup {d}
<1>1. /\ Append(s, d) \in Seq(Digests)
      /\ Append(s, d)[Len(s) + 1] = d
      /\ \A k \in 1..Len(s) : Append(s, d)[k] = s[k]
      /\ DOMAIN s = 1..Len(s)
      /\ DOMAIN Append(s, d) = 1..(Len(s) + 1)
      /\ Len(s) \in Nat
  OBVIOUS
<1>2. ToSet(Append(s, d)) \subseteq ToSet(s) \cup {d}
  BY <1>1 DEF ToSet
<1>3. ToSet(s) \subseteq ToSet(Append(s, d)) /\ d \in ToSet(Append(s, d))
  BY <1>1 DEF ToSet
<1>. QED  BY <1>1, <1>2, <1>3

\* A publisher at work points into its list.
LEMMA CurrentType ==
  ASSUME IInv, NEW p \in Publishers, pc[p] \in Active
  PROVE  /\ opened[p] \in Images
         /\ pos[p] \in 1..Len(Blobs[opened[p]])
         /\ Current(p) \in Digests
<1>1. opened[p] \in Images /\ opened[p] # NoImage
  BY ImagesAssumption DEF IInv, HasImage
<1>2. pos[p] \in 1..Len(Blobs[opened[p]])
  BY <1>1 DEF IInv, TypeOK
<1>. QED  BY <1>1, <1>2, ListType DEF Current

LEMMA GotoType ==
  ASSUME TypeOK, NEW p \in Publishers, NEW next \in Active \cup Ended, Goto(p, next)
  PROVE  /\ pc' \in [Publishers -> Active \cup Ended]
         /\ pc'[p] = next
         /\ \A q \in Publishers \ {p} : pc'[q] = pc[q]
BY DEF TypeOK, Goto

\* The step to the next blob, or to index.json.
LEMMA NextBlobEffect ==
  ASSUME IInv, NEW p \in Publishers, pc[p] \in BlobSteps, NextBlob(p)
  PROVE  /\ pc' \in [Publishers -> Active \cup Ended]
         /\ pos' \in [Publishers -> Nat]
         /\ \A q \in Publishers \ {p} : pc'[q] = pc[q] /\ pos'[q] = pos[q]
         /\ pos'[p] \in 1..Len(Blobs[opened[p]])
         /\ \/ pos[p] < Len(Blobs[opened[p]]) /\ pos'[p] = pos[p] + 1 /\ pc'[p] = "exists"
            \/ pos[p] = Len(Blobs[opened[p]]) /\ pos'[p] = 1 /\ pc'[p] = "readIndex"
<1>. DEFINE n == Len(Blobs[opened[p]])
<1>1. n \in Nat \ {0} /\ pos[p] \in 1..n
  BY CurrentType, ListType DEF Active
<1>2. {"exists", "readIndex"} \subseteq Active
  BY DEF Active, BlobSteps
<1>3. /\ pc' \in [Publishers -> Active \cup Ended]
      /\ pc'[p] = IF pos[p] < n THEN "exists" ELSE "readIndex"
      /\ \A q \in Publishers \ {p} : pc'[q] = pc[q]
  BY <1>2 DEF IInv, TypeOK, NextBlob, Goto
<1>4. /\ pos' \in [Publishers -> Nat]
      /\ pos'[p] = IF pos[p] < n THEN pos[p] + 1 ELSE 1
      /\ \A q \in Publishers \ {p} : pos'[q] = pos[q]
  BY <1>1 DEF IInv, TypeOK, NextBlob
<1>. QED  BY <1>1, <1>3, <1>4

-----------------------------------------------------------------------------
(* Steps.                                                                  *)

\* Only p's walk moves.
OnlyMoves(p) ==
  \A q \in Publishers \ {p} : /\ pc'[q] = pc[q] /\ pos'[q] = pos[q]
                              /\ opened'[q] = opened[q] /\ read'[q] = read[q]
                              /\ pushed'[q] = pushed[q] /\ atStart'[q] = atStart[q]
                              /\ source'[q] = source[q]

\* A step of p preserves the invariant if it does for p itself and for the
\* destination, and takes away none of its files.
LEMMA StepOf ==
  ASSUME IInv, NEW p \in Publishers, OnlyMoves(p), TypeOK', HasImage(p)',
         UNCHANGED platform,
         ~LiveSource => SameImage(p)',
         platform = "posix" => /\ files \subseteq files'
                               /\ layout => layout'
                               /\ Behind(p)' /\ Resumes(p)'
                               /\ \/ UNCHANGED index
                                  \/ ~LiveSource => Complete(index)'
  PROVE  IInv'
<1>1. \A q \in Publishers \ {p} : HasImage(q)'
  BY DEF IInv, HasImage, OnlyMoves
<1>2. ~LiveSource => \A q \in Publishers \ {p} : SameImage(q)'
  BY DEF IInv, SameImage, OnlyMoves
<1>3. ASSUME platform = "posix"
      PROVE  Posix'
  <2>1. \A q \in Publishers \ {p} : Behind(q)'
    BY <1>3 DEF IInv, Posix, Behind, OnlyMoves
  <2>2. \A q \in Publishers \ {p} : Resumes(q)'
    BY <1>3 DEF IInv, Posix, Resumes, Current, OnlyMoves
  <2>3. ~LiveSource /\ index' # NoImage => Complete(index)'
    BY <1>3 DEF IInv, Posix, Complete
  <2>. QED  BY <1>3, <2>1, <2>2, <2>3 DEF Posix
<1>. QED  BY <1>1, <1>2, <1>3 DEF IInv

\* publish() begins.
LEMMA StartStep ==
  ASSUME IInv, NEW p \in Publishers, Start(p)
  PROVE  IInv'
<1>. USE DEF Start
<1>1. /\ pc' \in [Publishers -> Active \cup Ended] /\ pc'[p] = "layout"
      /\ \A q \in Publishers \ {p} : pc'[q] = pc[q]
  BY GotoType DEF IInv, Active
<1>2. /\ opened' \in [Publishers -> Images \cup {NoImage}] /\ opened'[p] = source[p]
      /\ pos' \in [Publishers -> Nat] /\ pos'[p] = 1
      /\ read' \in [Publishers -> Images \cup {NoImage}]
      /\ runs' \in [Publishers -> Nat]
      /\ source[p] \in Images
  BY DEF IInv, TypeOK
<1>3. /\ pushed' \in [Publishers -> Seq(Digests)] /\ pushed'[p] = <<>>
      /\ skipped' \in [Publishers -> Seq(Digests)]
      /\ err' \in [Publishers -> Errors]
      /\ atStart' \in [Publishers -> SUBSET Digests] /\ atStart'[p] = files
  BY DEF IInv, TypeOK, Errors
<1>4. OnlyMoves(p)
  BY <1>1 DEF IInv, TypeOK, OnlyMoves
<1>5. \A q \in Publishers :
        pos'[q] \in 1..(IF opened'[q] = NoImage THEN 1 ELSE Len(Blobs[opened'[q]]))
  <2>1. Len(Blobs[source[p]]) \in Nat \ {0}
    BY <1>2, ListType
  <2>2. pos'[p] \in 1..(IF opened'[p] = NoImage THEN 1 ELSE Len(Blobs[opened'[p]]))
    BY <1>2, <2>1
  <2>. QED  BY <1>4, <2>2 DEF IInv, TypeOK, OnlyMoves
<1>6. TypeOK'
  BY <1>1, <1>2, <1>3, <1>5 DEF IInv, TypeOK, destination
<1>7. HasImage(p)' /\ SameImage(p)'
  BY <1>1, <1>2 DEF HasImage, SameImage, IndexSteps
<1>8. Behind(p)'
  BY <1>1, <1>2 DEF Behind, BlobSteps, IndexSteps
<1>9. Resumes(p)'
  BY <1>1, <1>3 DEF Resumes, destination, ToSet
<1>. QED  BY <1>4, <1>6, <1>7, <1>8, <1>9, StepOf DEF destination

\* A call that ends in an error or dies.
LEMMA EndingStep ==
  ASSUME IInv, NEW p \in Publishers, Fail(p) \/ Crash(p)
  PROVE  IInv'
<1>. USE DEF Fail, Crash
<1>1. PICK end \in {"failed", "crashed"} : Goto(p, end)
  OBVIOUS
<1>2. /\ pc' \in [Publishers -> Active \cup Ended] /\ pc'[p] = end
      /\ \A q \in Publishers \ {p} : pc'[q] = pc[q]
  BY <1>1, GotoType DEF IInv, Ended
<1>3. err' \in [Publishers -> Errors]
  BY DEF IInv, TypeOK, ErrorsAt, Errors, outcome
<1>4. OnlyMoves(p)
  BY <1>2 DEF OnlyMoves, outcome
<1>5. TypeOK'
  BY <1>2, <1>3 DEF IInv, TypeOK, destination, outcome
<1>6. HasImage(p)' /\ SameImage(p)' /\ Behind(p)'
  BY <1>2 DEF HasImage, SameImage, Behind, Active, BlobSteps, IndexSteps
<1>7. platform = "posix" => Resumes(p)'
  BY <1>2 DEF IInv, Posix, Resumes, destination, outcome
<1>. QED  BY <1>4, <1>5, <1>6, <1>7, StepOf DEF destination

\* A step to the next program point.
LEMMA PlainStep ==
  ASSUME IInv, NEW p \in Publishers, NEW next \in Active \cup Ended, Goto(p, next),
         UNCHANGED <<platform, source, opened, pos, runs, outcome, atStart>>,
         read' \in [Publishers -> Images \cup {NoImage}],
         \A q \in Publishers \ {p} : read'[q] = read[q],
         files' \subseteq Digests, layout' \in BOOLEAN, index' \in Images \cup {NoImage}
  PROVE  TypeOK' /\ OnlyMoves(p) /\ pc'[p] = next
<1>1. /\ pc' \in [Publishers -> Active \cup Ended] /\ pc'[p] = next
      /\ \A q \in Publishers \ {p} : pc'[q] = pc[q]
  BY GotoType DEF IInv
<1>2. OnlyMoves(p)
  BY <1>1 DEF OnlyMoves, outcome
<1>3. TypeOK'
  BY <1>1 DEF IInv, TypeOK, outcome
<1>. QED  BY <1>1, <1>2, <1>3

LEMMA WriteLayoutStep ==
  ASSUME IInv, NEW p \in Publishers, WriteLayout(p)
  PROVE  IInv'
<1>. USE DEF WriteLayout
<1>1. TypeOK' /\ OnlyMoves(p) /\ pc'[p] = "exists"
  BY PlainStep DEF Active, BlobSteps, IInv, TypeOK
<1>2. HasImage(p)' /\ (~LiveSource => SameImage(p)')
  BY <1>1 DEF IInv, HasImage, SameImage, IndexSteps, Active, BlobSteps
<1>3. ASSUME platform = "posix" PROVE Behind(p)' /\ Resumes(p)'
  <2>1. Behind(p) /\ Resumes(p) /\ opened[p] \in Images
    BY <1>3, CurrentType DEF IInv, Posix, Active
  <2>2. Len(Blobs[opened[p]]) \in Nat
    BY <2>1, ListType
  <2>3. Behind(p)'
    BY <1>1, <2>1, <2>2 DEF Behind, BlobSteps, IndexSteps
  <2>4. Resumes(p)'
    BY <1>1, <2>1 DEF Resumes, outcome
  <2>. QED  BY <2>3, <2>4
<1>. QED  BY <1>1, <1>2, <1>3, StepOf

LEMMA MissBlobStep ==
  ASSUME IInv, NEW p \in Publishers, MissBlob(p)
  PROVE  IInv'
<1>. USE DEF MissBlob
<1>1. TypeOK' /\ OnlyMoves(p) /\ pc'[p] = "copy" /\ UNCHANGED <<destination, opened, pos, read>>
  BY PlainStep DEF Active, BlobSteps, IInv, TypeOK, destination
<1>2. HasImage(p)' /\ (~LiveSource => SameImage(p)')
  BY <1>1 DEF IInv, HasImage, SameImage, IndexSteps, Active, BlobSteps
<1>3. ASSUME platform = "posix" PROVE Behind(p)' /\ Resumes(p)'
  BY <1>1, <1>3 DEF IInv, Posix, Behind, Resumes, Current, BlobSteps, Active, IndexSteps,
                    destination, outcome
<1>. QED  BY <1>1, <1>2, <1>3, StepOf DEF destination

LEMMA CopyChunkedStep ==
  ASSUME IInv, NEW p \in Publishers, CopyChunked(p)
  PROVE  IInv'
<1>. USE DEF CopyChunked
<1>. DEFINE next == IF platform = "windows" THEN "clear" ELSE "rename"
<1>1. next \in Active \cup Ended
  BY DEF Active, BlobSteps
<1>2. TypeOK' /\ OnlyMoves(p) /\ pc'[p] = next /\ UNCHANGED <<destination, opened, pos, read>>
  BY <1>1, PlainStep DEF IInv, TypeOK, destination
<1>3. HasImage(p)' /\ (~LiveSource => SameImage(p)')
  BY <1>2 DEF IInv, HasImage, SameImage, IndexSteps, Active, BlobSteps
<1>4. ASSUME platform = "posix" PROVE Behind(p)' /\ Resumes(p)'
  BY <1>2, <1>4 DEF IInv, Posix, Behind, Resumes, Current, BlobSteps, Active, IndexSteps,
                    destination, outcome
<1>. QED  BY <1>2, <1>3, <1>4, StepOf DEF destination

\* Windows: Behind has nothing to say.
LEMMA ClearStep ==
  ASSUME IInv, NEW p \in Publishers, ClearBlob(p) \/ ClearIndex(p)
  PROVE  IInv'
<1>. DEFINE next == IF pc[p] = "clear" THEN "rename" ELSE "commit"
<1>1. next \in Active \cup Ended /\ Goto(p, next) /\ pc[p] \in {"clear", "clearIndex"}
  BY DEF Active, BlobSteps, ClearBlob, ClearIndex
<1>2. /\ UNCHANGED <<platform, source, opened, pos, runs, outcome, atStart, read, layout>>
      /\ files' \subseteq files /\ index' \in {index, NoImage}
  BY DEF ClearBlob, ClearIndex
<1>3. TypeOK' /\ OnlyMoves(p) /\ pc'[p] = next
  BY <1>1, <1>2, PlainStep DEF IInv, TypeOK
<1>4. HasImage(p)' /\ (~LiveSource => SameImage(p)')
  BY <1>1, <1>2, <1>3 DEF IInv, HasImage, SameImage, IndexSteps, Active, BlobSteps
<1>5. platform # "posix"
  BY <1>1 DEF IInv, Posix, Behind
<1>. QED  BY <1>2, <1>3, <1>4, <1>5, StepOf

\* On to the next blob: the current one is at the destination.
LEMMA BlobDone ==
  ASSUME IInv, NEW p \in Publishers, pc[p] \in {"exists", "rename"}, NextBlob(p),
         UNCHANGED <<platform, layout, index, source, opened, read, runs, err, atStart>>,
         pushed' \in [Publishers -> Seq(Digests)],
         skipped' \in [Publishers -> Seq(Digests)],
         \A q \in Publishers \ {p} : pushed'[q] = pushed[q],
         files' = files \cup {Current(p)},
         platform = "posix" => ToSet(pushed'[p]) \cap atStart[p] = {}
  PROVE  IInv'
<1>. DEFINE n == Len(Blobs[opened[p]])
<1>1. /\ opened[p] \in Images /\ pos[p] \in 1..n /\ Current(p) \in Digests /\ n \in Nat \ {0}
      /\ ToSet(Blobs[opened[p]]) = {Blobs[opened[p]][j] : j \in 1..n}
  BY CurrentType, ListType DEF Active, BlobSteps
<1>2. /\ pc' \in [Publishers -> Active \cup Ended]
      /\ pos' \in [Publishers -> Nat]
      /\ \A q \in Publishers \ {p} : pc'[q] = pc[q] /\ pos'[q] = pos[q]
      /\ pos'[p] \in 1..n
      /\ \/ pos[p] < n /\ pos'[p] = pos[p] + 1 /\ pc'[p] = "exists"
         \/ pos[p] = n /\ pos'[p] = 1 /\ pc'[p] = "readIndex"
  BY NextBlobEffect DEF BlobSteps
<1>3. OnlyMoves(p)
  BY <1>2 DEF OnlyMoves
<1>4. \A q \in Publishers :
        pos'[q] \in 1..(IF opened'[q] = NoImage THEN 1 ELSE Len(Blobs[opened'[q]]))
  BY <1>1, <1>2, ImagesAssumption DEF IInv, TypeOK
<1>5. TypeOK'
  BY <1>1, <1>2, <1>4 DEF IInv, TypeOK
<1>6. HasImage(p)' /\ (~LiveSource => SameImage(p)')
  BY <1>1, <1>2 DEF IInv, HasImage, SameImage, IndexSteps, Active, BlobSteps
<1>7. ASSUME platform = "posix" PROVE Behind(p)' /\ Resumes(p)'
  <2>1. Behind(p) /\ Resumes(p)
    BY <1>7 DEF IInv, Posix
  <2>2. layout' /\ (\A j \in 1..n : j < pos[p] => Blobs[opened[p]][j] \in files)
    BY <2>1 DEF Behind, BlobSteps, Active
  <2>3. \A j \in 1..n : j <= pos[p] => Blobs[opened[p]][j] \in files'
    BY <1>1, <2>2 DEF Current
  <2>4. Resumes(p)'
    BY <1>2, <1>7, <2>1 DEF Resumes
  <2>5. CASE pos[p] < n /\ pos'[p] = pos[p] + 1 /\ pc'[p] = "exists"
    <3>1. \A j \in 1..n : j < pos'[p] => j <= pos[p]
      BY <1>1, <2>5
    <3>2. \A j \in 1..n : j < pos'[p] => Blobs[opened'[p]][j] \in files'
      BY <2>3, <3>1
    <3>. QED  BY <2>2, <2>4, <2>5, <3>2 DEF Behind, IndexSteps
  <2>6. CASE pos[p] = n /\ pos'[p] = 1 /\ pc'[p] = "readIndex"
    <3>1. \A j \in 1..n : j <= pos[p]
      BY <1>1, <2>6
    <3>2. \A j \in 1..n : Blobs[opened[p]][j] \in files'
      BY <2>3, <3>1
    <3>3. ToSet(Blobs[opened'[p]]) \subseteq files'
      BY <1>1, <3>2
    <3>. QED  BY <2>2, <2>4, <2>6, <3>3 DEF Behind, BlobSteps
  <2>. QED  BY <1>2, <2>5, <2>6
<1>. QED  BY <1>3, <1>5, <1>6, <1>7, StepOf

LEMMA SkipBlobStep ==
  ASSUME IInv, NEW p \in Publishers, SkipBlob(p)
  PROVE  IInv'
<1>. USE DEF SkipBlob
<1>1. Current(p) \in Digests
  BY CurrentType DEF Active, BlobSteps
<1>2. skipped' \in [Publishers -> Seq(Digests)] /\ pushed \in [Publishers -> Seq(Digests)]
  BY <1>1 DEF IInv, TypeOK
<1>3. files' = files \cup {Current(p)}
  BY DEF destination
<1>4. platform = "posix" => ToSet(pushed'[p]) \cap atStart[p] = {}
  BY DEF IInv, Posix, Resumes
<1>. QED  BY <1>2, <1>3, <1>4, BlobDone DEF destination

LEMMA RenameBlobStep ==
  ASSUME IInv, NEW p \in Publishers, RenameBlob(p)
  PROVE  IInv'
<1>. USE DEF RenameBlob
<1>1. Current(p) \in Digests
  BY CurrentType DEF Active, BlobSteps
<1>2. /\ pushed' \in [Publishers -> Seq(Digests)] /\ skipped \in [Publishers -> Seq(Digests)]
      /\ \A q \in Publishers \ {p} : pushed'[q] = pushed[q]
      /\ pushed[p] \in Seq(Digests) /\ pushed'[p] = Append(pushed[p], Current(p))
  BY <1>1 DEF IInv, TypeOK
<1>3. platform = "posix" => ToSet(pushed'[p]) \cap atStart[p] = {}
  BY <1>1, <1>2, AppendToSet DEF IInv, Posix, Resumes
<1>. QED  BY <1>2, <1>3, BlobDone

LEMMA ReadIndexStep ==
  ASSUME IInv, NEW p \in Publishers, ReadIndex(p)
  PROVE  IInv'
<1>. USE DEF ReadIndex
<1>1. /\ read' \in [Publishers -> Images \cup {NoImage}] /\ read'[p] = source[p]
      /\ \A q \in Publishers \ {p} : read'[q] = read[q]
      /\ source[p] \in Images
  BY DEF IInv, TypeOK
<1>2. TypeOK' /\ OnlyMoves(p) /\ pc'[p] = "writeIndex" /\ UNCHANGED <<destination, opened, pos>>
  BY <1>1, PlainStep DEF Active, IInv, TypeOK, destination
<1>3. HasImage(p)' /\ (~LiveSource => SameImage(p)')
  BY <1>1, <1>2 DEF IInv, HasImage, SameImage, IndexSteps, Active, BlobSteps
<1>4. ASSUME platform = "posix" PROVE Behind(p)' /\ Resumes(p)'
  BY <1>2, <1>4 DEF IInv, Posix, Behind, Resumes, BlobSteps, Active, IndexSteps,
                    destination, outcome
<1>. QED  BY <1>2, <1>3, <1>4, StepOf DEF destination

LEMMA WriteIndexStep ==
  ASSUME IInv, NEW p \in Publishers, WriteIndex(p)
  PROVE  IInv'
<1>. USE DEF WriteIndex
<1>. DEFINE next == IF platform = "windows" THEN "clearIndex" ELSE "commit"
<1>1. next \in Active \cup Ended
  BY DEF Active
<1>2. TypeOK' /\ OnlyMoves(p) /\ pc'[p] = next /\ UNCHANGED <<destination, opened, pos, read>>
  BY <1>1, PlainStep DEF IInv, TypeOK, destination
<1>3. HasImage(p)' /\ (~LiveSource => SameImage(p)')
  BY <1>2 DEF IInv, HasImage, SameImage, IndexSteps, Active, BlobSteps
<1>4. ASSUME platform = "posix" PROVE Behind(p)' /\ Resumes(p)'
  BY <1>2, <1>4 DEF IInv, Posix, Behind, Resumes, BlobSteps, Active, IndexSteps,
                    destination, outcome
<1>. QED  BY <1>2, <1>3, <1>4, StepOf DEF destination

\* The rename over index.json: its image has been copied, unless somebody has
\* attested the directory meanwhile.
LEMMA CommitStep ==
  ASSUME IInv, NEW p \in Publishers, Commit(p)
  PROVE  IInv'
<1>. USE DEF Commit
<1>1. read[p] \in Images
  BY DEF IInv, HasImage, IndexSteps
<1>2. TypeOK' /\ OnlyMoves(p) /\ pc'[p] = "done"
  BY <1>1, PlainStep DEF Ended, IInv, TypeOK
<1>3. HasImage(p)' /\ SameImage(p)' /\ Behind(p)'
  BY <1>2 DEF HasImage, SameImage, Behind, Active, BlobSteps, IndexSteps
<1>4. ASSUME platform = "posix" PROVE Resumes(p)' /\ (~LiveSource => Complete(index)')
  <2>1. Resumes(p)'
    BY <1>2, <1>4 DEF IInv, Posix, Resumes, outcome
  <2>2. ASSUME ~LiveSource PROVE Complete(index)'
    BY <1>4, <2>2 DEF IInv, Posix, Behind, SameImage, IndexSteps, Active, BlobSteps, Complete
  <2>. QED  BY <2>1, <2>2
<1>. QED  BY <1>2, <1>3, <1>4, StepOf

\* build attests a directory that is not being published.
LEMMA AttestStep ==
  ASSUME IInv, NEW p \in Publishers, Attest(p)
  PROVE  IInv'
<1>. USE DEF Attest
<1>1. source' \in [Publishers -> Images] /\ \A q \in Publishers \ {p} : source'[q] = source[q]
  BY ImagesAssumption DEF IInv, TypeOK
<1>2. TypeOK'
  BY <1>1 DEF IInv, TypeOK, destination, outcome
<1>3. OnlyMoves(p)
  BY <1>1 DEF OnlyMoves, outcome
<1>4. HasImage(p)'
  BY DEF IInv, HasImage
<1>5. ~LiveSource => SameImage(p)'
  BY DEF SameImage, Ended, Active, BlobSteps, IndexSteps
<1>6. ASSUME platform = "posix" PROVE Behind(p)' /\ Resumes(p)'
  BY <1>6 DEF IInv, Posix, Behind, Resumes, Current, destination, outcome
<1>. QED  BY <1>2, <1>3, <1>4, <1>5, <1>6, StepOf DEF destination

-----------------------------------------------------------------------------
(* The theorems.                                                           *)

LEMMA InitIInv == Init => IInv
<1>. SUFFICES ASSUME Init PROVE IInv
  OBVIOUS
<1>. USE DEF Init
<1>1. TypeOK
  <2>1. layout \in BOOLEAN
    BY Zenon
  <2>. QED  BY <2>1, ImagesAssumption DEF TypeOK, Ended, Errors
<1>2. \A p \in Publishers : HasImage(p) /\ SameImage(p) /\ Behind(p)
  BY DEF HasImage, SameImage, Behind, Active, BlobSteps, IndexSteps
<1>3. \A p \in Publishers : Resumes(p)
  BY DEF Resumes, ToSet
<1>. QED  BY <1>1, <1>2, <1>3 DEF IInv, Posix

LEMMA NextIInv == IInv /\ [Next]_vars => IInv'
<1>. SUFFICES ASSUME IInv, [Next]_vars PROVE IInv'
  OBVIOUS
<1>1. CASE UNCHANGED vars
  BY <1>1 DEF vars, destination, outcome, IInv, TypeOK, HasImage, SameImage, Posix, Behind,
              Resumes, Current, Complete
<1>2. ASSUME NEW p \in Publishers, Start(p) \/ Step(p) \/ Fail(p) \/ Crash(p) \/ Attest(p)
      PROVE  IInv'
  BY <1>2, StartStep, EndingStep, AttestStep, WriteLayoutStep, MissBlobStep, CopyChunkedStep,
     ClearStep, SkipBlobStep, RenameBlobStep, ReadIndexStep, WriteIndexStep, CommitStep
     DEF Step
<1>. QED  BY <1>1, <1>2 DEF Next

LEMMA Invariance == Spec => []IInv
BY InitIInv, NextIInv, PTL DEF Spec

\* The state of publish_http's walk and of its outcome always has its type; a
\* publisher at work points into its list.
THEOREM TypeCorrect == Spec => []TypeOK
<1>1. IInv => TypeOK
  BY DEF IInv
<1>. QED  BY <1>1, Invariance, PTL

\* publish_http's atomic commit: if nobody attests a directory while it is being
\* published, the index.json that is served names blobs that all exist, for any
\* number of publishers, images, errors, crashes and calls.
THEOREM ServedAlwaysComplete == ASSUME ~LiveSource PROVE Spec => []ServedComplete
<1>1. IInv => ServedComplete
  BY DEF IInv, Posix, ServedComplete
<1>. QED  BY <1>1, Invariance, PTL

\* Existing blobs are skipped: no call copies a blob that was there when it
\* began, also when directories are attested during the call.
THEOREM ResumeAlwaysSkips == Spec => []ResumeSkips
<1>1. IInv => ResumeSkips
  BY DEF IInv, Posix, Resumes, ResumeSkips
<1>. QED  BY <1>1, Invariance, PTL

-----------------------------------------------------------------------------
(* The outcome of a call.                                                  *)

\* How far p's call has come in its list.
Reached(p) == IF pc[p] = "layout" THEN 1
              ELSE IF pc[p] \in BlobSteps THEN pos[p] ELSE Len(Blobs[opened[p]]) + 1

\* p has accounted, once, for each blob that is behind it and for no other one.
Accounts(p) ==
  pc[p] \in Active \cup {"done"} =>
    LET list == Blobs[opened[p]]
    IN /\ opened[p] \in Images
       /\ pc[p] = "layout" => pos[p] = 1
       /\ ToSet(pushed[p]) \cup ToSet(skipped[p]) =
            {list[j] : j \in {k \in 1..Len(list) : k < Reached(p)}}
       /\ ToSet(pushed[p]) \cap ToSet(skipped[p]) = {}
       /\ InOrderOf(list, pushed[p]) /\ InOrderOf(list, skipped[p])

AllAccount == \A p \in Publishers : Accounts(p)

\* The next blob of the list is after all that have been accounted for.
LEMMA InOrderAppend ==
  ASSUME NEW i \in Images, NEW n \in 1..Len(Blobs[i]), NEW s \in Seq(Digests),
         InOrderOf(Blobs[i], s),
         ToSet(s) \subseteq {Blobs[i][j] : j \in {k \in 1..Len(Blobs[i]) : k < n}}
  PROVE  InOrderOf(Blobs[i], Append(s, Blobs[i][n])) /\ Blobs[i][n] \notin ToSet(s)
<1>. DEFINE list == Blobs[i]
            d == list[n]
            t == Append(s, d)
<1>1. /\ list \in Seq(Digests) /\ d \in Digests /\ Len(list) \in Nat
      /\ DOMAIN list = 1..Len(list)
      /\ \A j, k \in 1..Len(list) : list[j] = list[k] => j = k
  <2>1. list \in Seq(Digests) /\ Len(list) \in Nat
    BY ListType
  <2>2. DOMAIN list = 1..Len(list) /\ d \in Digests
    BY <2>1
  <2>. QED  BY <2>1, <2>2, ListAssumption
<1>. HIDE DEF list, d
<1>2. /\ Len(s) \in Nat /\ DOMAIN s = 1..Len(s) /\ DOMAIN t = 1..(Len(s) + 1)
      /\ t[Len(s) + 1] = d /\ \A k \in 1..Len(s) : t[k] = s[k]
  BY <1>1
<1>. HIDE DEF t
<1>3. \A j \in 1..Len(s) : \A a \in 1..Len(list) : s[j] = list[a] => a < n
  <2>. SUFFICES ASSUME NEW j \in 1..Len(s), NEW a \in 1..Len(list), s[j] = list[a]
                PROVE  a < n
    OBVIOUS
  <2>1. s[j] \in ToSet(s)
    BY <1>2 DEF ToSet
  <2>2. PICK b \in 1..Len(list) : b < n /\ s[j] = list[b]
    BY <2>1 DEF list
  <2>. QED  BY <1>1, <2>2
<1>4. n \in 1..Len(list) /\ d = list[n]
  BY DEF list, d
<1>5. d \notin ToSet(s)
  <2>1. \A j \in 1..Len(s) : s[j] # d
    BY <1>1, <1>3, <1>4
  <2>. QED  BY <1>2, <2>1 DEF ToSet
<1>6. InOrderOf(list, t)
  <2>. SUFFICES ASSUME NEW j \in 1..(Len(s) + 1), NEW k \in 1..(Len(s) + 1),
                       NEW a \in 1..Len(list), NEW b \in 1..Len(list),
                       j < k, t[j] = list[a], t[k] = list[b]
                PROVE  a < b
    BY <1>1, <1>2 DEF InOrderOf
  <2>1. j \in 1..Len(s) /\ t[j] = s[j]
    BY <1>2
  <2>2. CASE k \in 1..Len(s)
    <3>1. \A x, y \in DOMAIN s : \A u, v \in DOMAIN list :
            x < y /\ s[x] = list[u] /\ s[y] = list[v] => u < v
      BY DEF InOrderOf, list
    <3>. QED  BY <1>1, <1>2, <2>1, <2>2, <3>1
  <2>3. CASE k = Len(s) + 1
    <3>1. b = n
      BY <1>1, <1>2, <1>4, <2>3
    <3>. QED  BY <1>3, <2>1, <3>1
  <2>. QED  BY <1>2, <2>2, <2>3
<1>. QED  BY <1>5, <1>6 DEF list, d, t

\* What p has accounted for is not undone by a step that leaves p alone.
LEMMA AccountsKept ==
  ASSUME NEW p \in Publishers, Accounts(p), pc'[p] = pc[p], pos'[p] = pos[p],
         opened'[p] = opened[p], pushed'[p] = pushed[p], skipped'[p] = skipped[p]
  PROVE  Accounts(p)'
BY DEF Accounts, Reached

\* A step of p that accounts for nothing, and passes no blob.
LEMMA SilentStep ==
  ASSUME IInv, NEW p \in Publishers, Accounts(p),
         UNCHANGED <<opened, pos, outcome>>,
         \/ pc[p] = "layout" /\ pc'[p] = "exists"
         \/ pc[p] \in BlobSteps /\ pc'[p] \in BlobSteps
         \/ pc[p] \in {"readIndex"} \cup IndexSteps /\ pc'[p] \in IndexSteps \cup {"done"}
  PROVE  Accounts(p)'
<1>1. pc[p] \in Active
  BY DEF Active, BlobSteps, IndexSteps
<1>2. Reached(p)' = Reached(p)
  BY <1>1 DEF Reached, Accounts, BlobSteps, IndexSteps
<1>3. pc'[p] # "layout"
  BY DEF BlobSteps, IndexSteps
<1>. QED  BY <1>1, <1>2, <1>3 DEF Accounts, outcome

\* A blob that is there, or has been copied, is accounted for.
LEMMA BlobAccounted ==
  ASSUME IInv, NEW p \in Publishers, Accounts(p), SkipBlob(p) \/ RenameBlob(p)
  PROVE  Accounts(p)'
<1>. DEFINE i == opened[p]
            n == pos[p]
            list == Blobs[i]
            d == list[n]
            behind == {list[j] : j \in {k \in 1..Len(list) : k < n}}
<1>1. /\ pc[p] \in {"exists", "rename"} /\ NextBlob(p) /\ opened' = opened
      /\ i \in Images /\ n \in 1..Len(list) /\ d = Current(p)
      /\ Len(list) \in Nat /\ d \in Digests
  BY CurrentType, ListType
     DEF SkipBlob, RenameBlob, Active, BlobSteps, Current
<1>2. /\ pushed[p] \in Seq(Digests) /\ skipped[p] \in Seq(Digests)
      /\ \/ pushed'[p] = Append(pushed[p], d) /\ skipped'[p] = skipped[p]
         \/ skipped'[p] = Append(skipped[p], d) /\ pushed'[p] = pushed[p]
  BY <1>1 DEF IInv, TypeOK, SkipBlob, RenameBlob
<1>3. /\ ToSet(pushed[p]) \cup ToSet(skipped[p]) = behind
      /\ ToSet(pushed[p]) \cap ToSet(skipped[p]) = {}
      /\ InOrderOf(list, pushed[p]) /\ InOrderOf(list, skipped[p])
  BY <1>1 DEF Accounts, Reached, Active, BlobSteps
<1>4. \/ n < Len(list) /\ pos'[p] = n + 1 /\ pc'[p] = "exists"
      \/ n = Len(list) /\ pos'[p] = 1 /\ pc'[p] = "readIndex"
  BY <1>1, NextBlobEffect DEF BlobSteps
<1>5. Reached(p)' = n + 1
  BY <1>1, <1>4 DEF Reached, BlobSteps
<1>6. {list[j] : j \in {k \in 1..Len(list) : k < n + 1}} = behind \cup {d}
  <2>1. {k \in 1..Len(list) : k < n + 1} = {k \in 1..Len(list) : k < n} \cup {n}
    BY <1>1
  <2>. QED  BY <2>1
<1>. HIDE DEF i, n, list, d, behind
<1>7. \A s \in Seq(Digests) :
        InOrderOf(list, s) /\ ToSet(s) \subseteq behind
          => InOrderOf(list, Append(s, d)) /\ d \notin ToSet(s)
    BY <1>1, InOrderAppend DEF list, d, behind
<1>8. /\ InOrderOf(list, pushed'[p]) /\ InOrderOf(list, skipped'[p])
      /\ d \notin ToSet(pushed[p]) /\ d \notin ToSet(skipped[p])
  <2>1. ToSet(pushed[p]) \subseteq behind /\ ToSet(skipped[p]) \subseteq behind
    BY <1>3
  <2>2. /\ InOrderOf(list, Append(pushed[p], d)) /\ d \notin ToSet(pushed[p])
        /\ InOrderOf(list, Append(skipped[p], d)) /\ d \notin ToSet(skipped[p])
    BY <1>2, <1>3, <1>7, <2>1
  <2>. QED  BY <1>2, <1>3, <2>2
<1>9. \/ ToSet(pushed'[p]) = ToSet(pushed[p]) \cup {d} /\ skipped'[p] = skipped[p]
      \/ ToSet(skipped'[p]) = ToSet(skipped[p]) \cup {d} /\ pushed'[p] = pushed[p]
  BY <1>1, <1>2, AppendToSet
<1>10. /\ ToSet(pushed'[p]) \cup ToSet(skipped'[p]) = behind \cup {d}
       /\ ToSet(pushed'[p]) \cap ToSet(skipped'[p]) = {}
  BY <1>3, <1>8, <1>9
<1>11. opened'[p] = i /\ i \in Images /\ pc'[p] # "layout"
  BY <1>1, <1>4 DEF i
<1>12. ToSet(pushed'[p]) \cup ToSet(skipped'[p])
         = {list[j] : j \in {k \in 1..Len(list) : k < Reached(p)'}}
  BY <1>5, <1>6, <1>10
<1>. QED  BY <1>8, <1>10, <1>11, <1>12 DEF Accounts, list

LEMMA InitAccounts == Init => AllAccount
BY DEF Init, AllAccount, Accounts, Active, BlobSteps

LEMMA NextAccounts == IInv /\ AllAccount /\ [Next]_vars => AllAccount'
<1>. SUFFICES ASSUME IInv, AllAccount, [Next]_vars, NEW q \in Publishers
              PROVE  Accounts(q)'
  BY DEF AllAccount
<1>1. Accounts(q)
  BY DEF AllAccount
<1>2. CASE UNCHANGED <<pc, pos, opened, pushed, skipped>>
  BY <1>1, <1>2, AccountsKept
<1>3. ASSUME NEW p \in Publishers, Start(p) \/ Step(p) \/ Fail(p) \/ Crash(p)
      PROVE  Accounts(q)'
  <2>. USE DEF outcome, Goto
  <2>1. CASE q # p
    <3>1. /\ pc'[q] = pc[q] /\ pos'[q] = pos[q] /\ opened'[q] = opened[q]
          /\ pushed'[q] = pushed[q] /\ skipped'[q] = skipped[q]
      BY <1>3, <2>1
         DEF IInv, TypeOK, Start, Step, Fail, Crash, WriteLayout, SkipBlob, MissBlob, CopyChunked,
             ClearBlob, RenameBlob, ReadIndex, WriteIndex, ClearIndex, Commit, NextBlob
    <3>. QED  BY <1>1, <3>1, AccountsKept
  <2>2. CASE q = p /\ Start(p)
    <3>1. /\ pc'[q] = "layout" /\ pos'[q] = 1 /\ opened'[q] = source[q] /\ source[q] \in Images
          /\ pushed'[q] = <<>> /\ skipped'[q] = <<>>
      BY <2>2 DEF Start, IInv, TypeOK
    <3>2. ToSet(pushed'[q]) = {} /\ ToSet(skipped'[q]) = {} /\ DOMAIN pushed'[q] = {}
      BY <3>1 DEF ToSet
    <3>3. InOrderOf(Blobs[source[q]], pushed'[q]) /\ InOrderOf(Blobs[source[q]], skipped'[q])
      BY <3>1, <3>2 DEF InOrderOf
    <3>4. {k \in 1..Len(Blobs[source[q]]) : k < 1} = {}
      BY <3>1, ListType
    <3>. QED  BY <3>1, <3>2, <3>3, <3>4 DEF Accounts, Reached
  <2>3. CASE q = p /\ (SkipBlob(p) \/ RenameBlob(p))
    BY <1>1, <2>3, BlobAccounted
  <2>4. CASE q = p /\ \/ WriteLayout(p) \/ MissBlob(p) \/ CopyChunked(p) \/ ClearBlob(p)
                      \/ ReadIndex(p) \/ WriteIndex(p) \/ ClearIndex(p) \/ Commit(p)
    <3>1. UNCHANGED <<opened, pos, outcome>>
      BY <2>4 DEF WriteLayout, MissBlob, CopyChunked, ClearBlob, ReadIndex, WriteIndex,
                  ClearIndex, Commit
    <3>2. \/ pc[p] = "layout" /\ pc'[p] = "exists"
          \/ pc[p] \in BlobSteps /\ pc'[p] \in BlobSteps
          \/ pc[p] \in {"readIndex"} \cup IndexSteps /\ pc'[p] \in IndexSteps \cup {"done"}
      BY <2>4 DEF IInv, TypeOK, WriteLayout, MissBlob, CopyChunked, ClearBlob, ReadIndex,
                  WriteIndex, ClearIndex, Commit, BlobSteps, IndexSteps
    <3>. QED  BY <1>1, <2>4, <3>1, <3>2, SilentStep
  <2>5. CASE q = p /\ (Fail(p) \/ Crash(p))
    <3>1. pc'[q] \in {"failed", "crashed"}
      BY <2>5 DEF Fail, Crash, IInv, TypeOK
    <3>. QED  BY <3>1 DEF Accounts, Active, BlobSteps
  <2>. QED  BY <1>3, <2>1, <2>2, <2>3, <2>4, <2>5 DEF Step
<1>4. ASSUME NEW p \in Publishers, Attest(p)
      PROVE  Accounts(q)'
  BY <1>2, <1>4 DEF Attest, outcome
<1>. QED  BY <1>2, <1>3, <1>4 DEF Next, vars, outcome

\* PublishOutcome of publish_http, on POSIX and on Windows, for any publishers and
\* images and also when a directory is attested during the call: Ok accounts for
\* every blob that ImageDir::open listed, as pushed or as skipped, once, in order.
THEOREM OutcomeAlwaysPartition == Spec => []OutcomeIsPartition
<1>1. AllAccount => OutcomeIsPartition
  <2>. SUFFICES ASSUME AllAccount, NEW p \in Publishers, pc[p] = "done"
                PROVE  /\ Accounts(p) /\ opened[p] \in Images
                       /\ {Blobs[opened[p]][j] :
                             j \in {k \in 1..Len(Blobs[opened[p]]) : k < Reached(p)}}
                          = ToSet(Blobs[opened[p]])
    BY DEF OutcomeIsPartition, Accounts
  <2>1. Accounts(p) /\ opened[p] \in Images
    BY DEF AllAccount, Accounts
  <2>2. /\ Len(Blobs[opened[p]]) \in Nat
        /\ ToSet(Blobs[opened[p]]) = {Blobs[opened[p]][j] : j \in 1..Len(Blobs[opened[p]])}
    BY <2>1, ListType
  <2>3. Reached(p) = Len(Blobs[opened[p]]) + 1
    BY DEF Reached, BlobSteps
  <2>4. {k \in 1..Len(Blobs[opened[p]]) : k < Reached(p)} = 1..Len(Blobs[opened[p]])
    BY <2>2, <2>3
  <2>. QED  BY <2>1, <2>2, <2>4
<1>. QED  BY <1>1, InitIInv, NextIInv, InitAccounts, NextAccounts, PTL DEF Spec

-----------------------------------------------------------------------------
(* publish_http implements AtomicPublish.                                  *)

\* What the steps of p do to its call and to the index.
LEMMA Moves ==
  ASSUME IInv, platform = "posix", ~LiveSource, NEW p \in Publishers,
         Start(p) \/ Step(p) \/ Fail(p) \/ Crash(p)
  PROVE  /\ \A q \in Publishers \ {p} : pc'[q] = pc[q] /\ opened'[q] = opened[q]
         /\ DOMAIN pc' = Publishers /\ DOMAIN opened' = Publishers
         /\ \/ /\ pc[p] \in Ended /\ pc'[p] \in Active
               /\ opened'[p] \in Images /\ UNCHANGED index
            \/ pc[p] \in Active /\ pc'[p] \in Active /\ UNCHANGED <<index, opened>>
            \/ /\ pc[p] \in Active /\ pc'[p] \in {"failed", "crashed"}
               /\ UNCHANGED <<index, opened>>
            \/ pc[p] = "commit" /\ pc'[p] = "done" /\ index' = opened[p] /\ UNCHANGED opened
<1>. USE DEF destination, Goto, Active, BlobSteps
<1>1. /\ pc \in [Publishers -> Active \cup Ended]
      /\ opened \in [Publishers -> Images \cup {NoImage}]
      /\ source[p] \in Images
  BY DEF IInv, TypeOK
<1>2. CASE Start(p)
  BY <1>1, <1>2 DEF Start
<1>3. CASE WriteLayout(p) \/ MissBlob(p) \/ CopyChunked(p) \/ ReadIndex(p) \/ WriteIndex(p)
  BY <1>1, <1>3 DEF WriteLayout, MissBlob, CopyChunked, ReadIndex, WriteIndex
<1>4. CASE SkipBlob(p) \/ RenameBlob(p)
  BY <1>1, <1>4 DEF SkipBlob, RenameBlob, NextBlob
<1>5. CASE Commit(p)
  BY <1>1, <1>5 DEF Commit, IInv, SameImage, IndexSteps
<1>6. CASE Fail(p) \/ Crash(p)
  BY <1>1, <1>6 DEF Fail, Crash
<1>7. CASE ClearBlob(p) \/ ClearIndex(p)
  BY <1>7 DEF ClearBlob, ClearIndex, IInv, Posix, Behind
<1>. QED  BY <1>2, <1>3, <1>4, <1>5, <1>6, <1>7 DEF Step

\* Consumers of a directory that justoci publishes to see atomic publishes, if
\* nobody attests a source directory during a call: the walk, its errors and its
\* crashes implement AtomicPublish.
THEOREM Refinement == ASSUME ~LiveSource PROVE Spec => ImplementsAtomicPublish
<1>1. Init => Atomic!Init
  BY DEF Init, Atomic!Init, Visible, Wanted, Status, Active, BlobSteps
<1>2. ASSUME IInv, IInv', [Next]_vars
      PROVE  [Atomic!Next]_(Atomic!vars)
  <2>1. platform' = platform
    BY <1>2 DEF Next, vars, Start, Step, Fail, Crash, Attest, WriteLayout, SkipBlob, MissBlob,
                CopyChunked, ClearBlob, RenameBlob, ReadIndex, WriteIndex, ClearIndex, Commit
  <2>2. CASE platform = "windows"
    BY <2>1, <2>2 DEF Visible, Status, Wanted, Atomic!vars
  <2>3. CASE platform = "posix"
    <3>1. Visible = index /\ Visible' = index'
      BY <1>2, <2>1, <2>3 DEF IInv, Posix, Visible
    <3>2. /\ Status = [q \in Publishers |-> IF pc[q] \in Active THEN "pending"
                                            ELSE IF pc[q] = "done" THEN "ok"
                                            ELSE IF pc[q] = "idle" THEN "idle" ELSE "failed"]
          /\ Status' = [q \in Publishers |-> IF pc'[q] \in Active THEN "pending"
                                             ELSE IF pc'[q] = "done" THEN "ok"
                                             ELSE IF pc'[q] = "idle" THEN "idle" ELSE "failed"]
          /\ Wanted = [q \in Publishers |-> opened[q]]
          /\ Wanted' = [q \in Publishers |-> opened'[q]]
      BY <2>1, <2>3 DEF Status, Wanted
    <3>3. ASSUME NEW p \in Publishers, Start(p) \/ Step(p) \/ Fail(p) \/ Crash(p)
          PROVE  [Atomic!Next]_(Atomic!vars)
      <4>1. \A q \in Publishers \ {p} : pc'[q] = pc[q] /\ opened'[q] = opened[q]
        BY <1>2, <2>3, <3>3, Moves
      <4>2. CASE /\ pc[p] \in Ended /\ pc'[p] \in Active
                 /\ opened'[p] \in Images /\ UNCHANGED index
        <5>1. Status[p] # "pending" /\ Status' = [Status EXCEPT ![p] = "pending"]
          BY <3>2, <4>1, <4>2 DEF Ended, Active, BlobSteps
        <5>2. Wanted' = [Wanted EXCEPT ![p] = opened'[p]]
          BY <3>2, <4>1
        <5>3. Atomic!Begin(p)
          BY <3>1, <4>2, <5>1, <5>2 DEF Atomic!Begin
        <5>. QED  BY <5>3 DEF Atomic!Next
      <4>3. CASE pc[p] \in Active /\ pc'[p] \in Active /\ UNCHANGED <<index, opened>>
        <5>1. Status' = Status /\ Wanted' = Wanted
          BY <3>2, <4>1, <4>3
        <5>. QED  BY <3>1, <4>3, <5>1 DEF Atomic!vars
      <4>4. CASE /\ pc[p] \in Active /\ pc'[p] \in {"failed", "crashed"}
                 /\ UNCHANGED <<index, opened>>
        <5>1. Status[p] = "pending" /\ Status' = [Status EXCEPT ![p] = "failed"]
          BY <3>2, <4>1, <4>4 DEF Active, BlobSteps
        <5>2. Wanted' = Wanted
          BY <3>2, <4>4
        <5>3. Atomic!Fail(p)
          BY <3>1, <4>4, <5>1, <5>2 DEF Atomic!Fail
        <5>. QED  BY <5>3 DEF Atomic!Next
      <4>5. CASE /\ pc[p] = "commit" /\ pc'[p] = "done"
                 /\ index' = opened[p] /\ UNCHANGED opened
        <5>1. Status[p] = "pending" /\ Status' = [Status EXCEPT ![p] = "ok"]
          BY <3>2, <4>1, <4>5 DEF Active, BlobSteps
        <5>2. Wanted' = Wanted /\ Wanted[p] = opened[p]
          BY <3>2, <4>5
        <5>3. Atomic!Publish(p)
          BY <3>1, <4>5, <5>1, <5>2 DEF Atomic!Publish
        <5>. QED  BY <5>3 DEF Atomic!Next
      <4>. QED  BY <1>2, <2>3, <3>3, <4>2, <4>3, <4>4, <4>5, Moves
    <3>4. ASSUME NEW p \in Publishers, Attest(p)
          PROVE  UNCHANGED Atomic!vars
      BY <3>1, <3>2, <3>4 DEF Attest, destination, Atomic!vars
    <3>5. CASE UNCHANGED vars
      BY <3>1, <3>2, <3>5 DEF vars, destination, Atomic!vars
    <3>. QED  BY <1>2, <3>3, <3>4, <3>5 DEF Next
  <2>. QED  BY <1>2, <2>2, <2>3, EnvironmentAssumption DEF IInv, TypeOK
<1>. QED  BY <1>1, <1>2, Invariance, PTL DEF Spec, ImplementsAtomicPublish, Atomic!Spec
=============================================================================
