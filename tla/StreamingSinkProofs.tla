------------------------- MODULE StreamingSinkProofs -------------------------
(***************************************************************************)
(* Proofs about StreamingSink, for any pushers and files, any retry budget *)
(* and whatever other publishers push meanwhile.                           *)
(*                                                                         *)
(* The argument is the one of the order of the pushes: the steps behind a  *)
(* pusher (Stored), and what a late manifest request had behind it when it *)
(* was sent (LateSafe), are in the registry, which never loses a blob.     *)
(* What a call has reported is one of a few pairs of lists at each step    *)
(* (Reports).                                                              *)
(***************************************************************************)
EXTENDS StreamingSink, SequenceTheorems, TLAPS

\* The blobs that pusher p has behind it are in the registry.
Stored(p) ==
  /\ pc[p] \in {"headLayer", "initLayer", "putLayer"} => EmptyConfig \in blobs
  /\ pc[p] = "putManifest" => Content(ImageOf[p]) \subseteq blobs

\* A manifest that arrives late finds its blobs.
LateSafe(r) == r.op = "putManifest" => Content(ImageOf[r.pub]) \subseteq blobs

IInv == /\ TypeOK
        /\ \A p \in Pushers : Stored(p)
        /\ \A r \in late : LateSafe(r)
        /\ TagComplete

-----------------------------------------------------------------------------
(* The image of a pusher.                                                  *)

LEMMA Streamed ==
  ASSUME NEW p \in Pushers
  PROVE  /\ ImageOf[p] \in Images /\ LayerOf[p] \in Digests /\ EmptyConfig \in Digests
         /\ Primary(ImageOf[p]) \in Digests
         /\ Content(ImageOf[p]) = {EmptyConfig, LayerOf[p]}
         /\ ToSet(Referrers(ImageOf[p])) = {}
         /\ ManifestDigests(ImageOf[p]) = {Primary(ImageOf[p])}
         /\ BlobOf(p) \in Digests
<1>1. ToSet(<<>>) = {}
  BY DEF ToSet
<1>. QED  BY <1>1, StreamedAssumption, DescriptorAssumption DEF Primary, ManifestDigests, BlobOf

\* What an image of anybody is made of.
LEMMA DescriptorTypes ==
  ASSUME NEW i \in Images
  PROVE  /\ Primary(i) \in Digests
         /\ ToSet(Blobs(i)) \subseteq Digests
         /\ ToSet(Referrers(i)) \subseteq Digests
BY DescriptorAssumption DEF Primary, Blobs, Referrers, ToSet

\* The steps of other publishers, in the words of this module.
LEMMA ElsewhereEffect ==
  ASSUME Reg!Next
  PROVE  \/ /\ \E i \in Images : \E d \in ToSet(Blobs(i)) \ ManifestDigests(i) :
                 blobs' = blobs \cup {d}
            /\ UNCHANGED <<manifests, tag>>
         \/ /\ \E i \in Images : \E d \in ToSet(Referrers(i)) : manifests' = manifests \cup {d}
            /\ UNCHANGED <<blobs, tag>>
         \/ /\ \E i \in Images : /\ Content(i) \subseteq blobs
                                 /\ ToSet(Referrers(i)) \subseteq manifests
                                 /\ manifests' = manifests \cup {Primary(i)}
                                 /\ tag' = i
            /\ UNCHANGED blobs
BY DEF Reg!Next, Reg!AddBlob, Reg!AddReferrer, Reg!Commit,
       Reg!ToSet, Reg!Blobs, Reg!Referrers, Reg!Content, Reg!Primary, Reg!ManifestDigests,
       ToSet, Blobs, Referrers, Content, Primary, ManifestDigests

-----------------------------------------------------------------------------
(* Types.                                                                  *)

LEMMA GotoType ==
  ASSUME TypeOK, NEW p \in Pushers, NEW next \in Waiting \cup Ended, Goto(p, next)
  PROVE  /\ pc' \in [Pushers -> Waiting \cup Ended]
         /\ attempt' \in [Pushers -> 0..MaxRetries]
         /\ pc'[p] = next
         /\ \A q \in Pushers \ {p} : pc'[q] = pc[q]
<1>1. 0 \in 0..MaxRetries
  BY StreamBoundsAssumption
<1>. QED  BY <1>1 DEF TypeOK, Goto

LEMMA AbortType ==
  ASSUME TypeOK, NEW p \in Pushers, NEW e \in Errors, Abort(p, e)
  PROVE  /\ pc' \in [Pushers -> Waiting \cup Ended]
         /\ attempt' \in [Pushers -> 0..MaxRetries]
         /\ err' \in [Pushers -> Errors]
         /\ pc'[p] = "failed"
         /\ \A q \in Pushers \ {p} : pc'[q] = pc[q]
<1>1. Goto(p, "failed") /\ err' = [err EXCEPT ![p] = e]
  BY DEF Abort
<1>2. "failed" \in Waiting \cup Ended
  BY DEF Ended
<1>3. err' \in [Pushers -> Errors]
  BY <1>1 DEF TypeOK
<1>. QED  BY <1>1, <1>2, <1>3, GotoType

\* What is left in flight was sent by a pusher that had its blobs behind it.
LEMMA LateAfterLeave ==
  ASSUME IInv, NEW p \in Pushers, LeaveInFlight(p) \/ UNCHANGED late, blobs \subseteq blobs'
  PROVE  late' \subseteq Requests /\ \A r \in late' : LateSafe(r)'
<1>1. \A r \in late : LateSafe(r)'
  BY DEF IInv, LateSafe
<1>2. CASE UNCHANGED late
  BY <1>1, <1>2 DEF IInv, TypeOK
<1>3. CASE pc[p] \in PutSteps /\ late' = late \cup {InFlight(p)}
  <2>. DEFINE m == InFlight(p)
  <2>1. m \in Requests /\ m.op = pc[p] /\ m.pub = p
    BY <1>3 DEF IInv, TypeOK, InFlight, Requests
  <2>2. m.op = "putManifest" => Content(ImageOf[m.pub]) \subseteq blobs
    BY <2>1 DEF IInv, Stored
  <2>. HIDE DEF m
  <2>3. \A r \in late \cup {m} : LateSafe(r)'
    BY <1>1, <2>2 DEF LateSafe
  <2>. QED  BY <1>3, <2>1, <2>3 DEF IInv, TypeOK, m
<1>. QED  BY <1>2, <1>3 DEF LeaveInFlight

-----------------------------------------------------------------------------
(* The steps.                                                              *)

\* A step of p that leaves the registry alone, or adds a blob to it.
LEMMA WalkStep ==
  ASSUME IInv, NEW p \in Pushers, TypeOK', Stored(p)', blobs \subseteq blobs',
         LeaveInFlight(p) \/ UNCHANGED late,
         \A q \in Pushers \ {p} : pc'[q] = pc[q],
         UNCHANGED <<manifests, tag>>
  PROVE  IInv'
<1>1. \A q \in Pushers \ {p} : Stored(q)'
  BY DEF IInv, Stored
<1>2. TagComplete'
  BY DEF IInv, TagComplete, Complete
<1>. QED  BY <1>1, <1>2, LateAfterLeave DEF IInv

\* A call begins, or ends without having pushed anything in this step.
LEMMA EndingStep ==
  ASSUME IInv, NEW p \in Pushers, Start(p) \/ AuthUnresolved(p) \/ Refused(p) \/
         LocalFailure(p) \/ Exhausted(p) \/ Crash(p)
  PROVE  IInv'
<1>. USE DEF IInv
<1>1. /\ UNCHANGED <<registry, source, spent>>
      /\ LeaveInFlight(p) \/ UNCHANGED late
  BY DEF Start, AuthUnresolved, Refused, LocalFailure, Exhausted, Crash, registry
<1>2. late' \subseteq Requests
  BY <1>1, LateAfterLeave DEF registry
<1>3. CASE Start(p)
  <2>1. Goto(p, "headConfig") /\ "headConfig" \in Waiting \cup Ended
    BY <1>3 DEF Start, Waiting, HeadSteps
  <2>2. /\ runs' \in [Pushers -> Nat] /\ pushed' \in [Pushers -> Seq(Digests)]
        /\ skipped' \in [Pushers -> Seq(Digests)] /\ err' \in [Pushers -> Errors]
    BY <1>3 DEF Start, TypeOK, Errors
  <2>3. TypeOK'
    BY <1>1, <1>2, <2>1, <2>2, GotoType DEF TypeOK, registry
  <2>4. Stored(p)'
    BY <2>1, GotoType DEF Stored
  <2>. QED  BY <1>1, <2>1, <2>3, <2>4, GotoType, WalkStep DEF registry
<1>4. CASE Crash(p)
  <2>1. Goto(p, "crashed") /\ "crashed" \in Waiting \cup Ended
    BY <1>4 DEF Crash, Ended
  <2>2. TypeOK'
    BY <1>1, <1>2, <1>4, <2>1, GotoType DEF TypeOK, registry, Crash
  <2>3. Stored(p)'
    BY <2>1, GotoType DEF Stored
  <2>. QED  BY <1>1, <2>1, <2>2, <2>3, GotoType, WalkStep DEF registry
<1>5. CASE AuthUnresolved(p) \/ Refused(p) \/ LocalFailure(p) \/ Exhausted(p)
  <2>1. PICK e \in Errors : Abort(p, e)
    BY <1>5 DEF AuthUnresolved, Refused, LocalFailure, Exhausted, FailureOf, Errors
  <2>2. TypeOK'
    BY <1>1, <1>2, <1>5, <2>1, AbortType
       DEF TypeOK, registry, AuthUnresolved, Refused, LocalFailure, Exhausted
  <2>3. Stored(p)'
    BY <2>1, AbortType DEF Stored
  <2>. QED  BY <1>1, <2>1, <2>2, <2>3, AbortType, WalkStep DEF registry
<1>. QED  BY <1>3, <1>4, <1>5

\* HEAD and its answer, and the upload session.
LEMMA ProbeStep ==
  ASSUME IInv, NEW p \in Pushers, BlobIsThere(p) \/ BlobIsNotThere(p) \/ InitBlobUpload(p)
  PROVE  IInv'
<1>. USE DEF IInv
<1>. DEFINE Leads(next) ==
       \/ BlobIsThere(p) /\ next = AfterBlob(p)
       \/ /\ BlobIsNotThere(p)
          /\ next = IF pc[p] = "headConfig" THEN "initConfig" ELSE "initLayer"
       \/ /\ InitBlobUpload(p)
          /\ next = IF pc[p] = "initConfig" THEN "putConfig" ELSE "putLayer"
<1>1. PICK next \in Waiting \cup Ended : Goto(p, next) /\ Leads(next)
  <2>1. {AfterBlob(p), "initConfig", "initLayer", "putConfig", "putLayer"} \subseteq Waiting
    BY DEF AfterBlob, Waiting, HeadSteps, InitSteps, PutSteps
  <2>2. CASE BlobIsThere(p)
    BY <2>1, <2>2 DEF BlobIsThere
  <2>3. CASE BlobIsNotThere(p)
    <3>. DEFINE n == IF pc[p] = "headConfig" THEN "initConfig" ELSE "initLayer"
    <3>1. n \in Waiting /\ Goto(p, n)
      BY <2>1, <2>3 DEF BlobIsNotThere
    <3>. QED  BY <2>3, <3>1
  <2>4. CASE InitBlobUpload(p)
    <3>. DEFINE n == IF pc[p] = "initConfig" THEN "putConfig" ELSE "putLayer"
    <3>1. n \in Waiting /\ Goto(p, n)
      BY <2>1, <2>4 DEF InitBlobUpload
    <3>. QED  BY <2>4, <3>1
  <2>. QED  BY <2>2, <2>3, <2>4
<1>2. UNCHANGED <<registry, late, source, runs, pushed, err>>
  BY DEF BlobIsThere, BlobIsNotThere, InitBlobUpload
<1>3. skipped' \in [Pushers -> Seq(Digests)]
  <2>1. CASE BlobIsThere(p)
    BY <2>1, Streamed DEF BlobIsThere, TypeOK
  <2>2. CASE UNCHANGED skipped
    BY <2>2 DEF TypeOK
  <2>. QED  BY <2>1, <2>2 DEF BlobIsNotThere, InitBlobUpload
<1>4. spent' \in [Pushers -> BOOLEAN]
  <2>1. spent' = spent \/ spent' = [spent EXCEPT ![p] = FALSE]
    BY DEF BlobIsThere, BlobIsNotThere, InitBlobUpload
  <2>. QED  BY <2>1 DEF TypeOK
<1>5. TypeOK'
  BY <1>1, <1>2, <1>3, <1>4, GotoType DEF TypeOK, registry
<1>6. pc'[p] = next /\ \A q \in Pushers \ {p} : pc'[q] = pc[q]
  BY <1>1, GotoType
<1>7. Stored(p)'
  BY <1>1, <1>2, <1>6, Streamed
     DEF Stored, BlobIsThere, BlobIsNotThere, InitBlobUpload, AfterBlob, BlobOf, registry,
         HeadSteps, InitSteps
<1>. QED  BY <1>2, <1>5, <1>6, <1>7, WalkStep DEF registry

LEMMA PutBlobStep ==
  ASSUME IInv, NEW p \in Pushers, PutBlob(p)
  PROVE  IInv'
<1>. USE DEF IInv, PutBlob
<1>1. AfterBlob(p) \in Waiting \cup Ended
  BY DEF AfterBlob, Waiting, HeadSteps, PutSteps
<1>2. pushed' \in [Pushers -> Seq(Digests)] /\ blobs' \subseteq Digests
  BY Streamed DEF TypeOK
<1>3. TypeOK'
  BY <1>1, <1>2, GotoType DEF TypeOK
<1>4. pc'[p] = AfterBlob(p) /\ \A q \in Pushers \ {p} : pc'[q] = pc[q]
  BY <1>1, GotoType
<1>5. Stored(p)'
  BY <1>4, Streamed DEF Stored, AfterBlob, BlobOf
<1>. QED  BY <1>3, <1>4, <1>5, WalkStep

LEMMA PutManifestStep ==
  ASSUME IInv, NEW p \in Pushers, PutManifest(p)
  PROVE  IInv'
<1>. USE DEF IInv, PutManifest
<1>1. "done" \in Waiting \cup Ended
  BY DEF Ended
<1>2. /\ pushed' \in [Pushers -> Seq(Digests)] /\ manifests' \subseteq Digests
      /\ tag' \in Images \cup {NoImage}
  BY Streamed DEF TypeOK
<1>3. TypeOK'
  BY <1>1, <1>2, GotoType DEF TypeOK
<1>4. \A q \in Pushers : Stored(q)'
  BY <1>1, GotoType DEF Stored
<1>5. TagComplete'
  BY Streamed DEF Stored, TagComplete, Complete
<1>6. \A r \in late' : LateSafe(r)'
  BY DEF LateSafe
<1>. QED  BY <1>3, <1>4, <1>5, <1>6

LEMMA RetryStep ==
  ASSUME IInv, NEW p \in Pushers, Retry(p)
  PROVE  IInv'
<1>. USE DEF IInv, Retry
<1>1. late' \subseteq Requests
  BY LateAfterLeave DEF registry
<1>2. attempt' \in [Pushers -> 0..MaxRetries]
  BY StreamBoundsAssumption DEF TypeOK
<1>3. TypeOK'
  BY <1>1, <1>2 DEF TypeOK, registry
<1>4. Stored(p)'
  BY DEF Stored, registry
<1>. QED  BY <1>3, <1>4, WalkStep DEF registry

\* The registry processes a request that nobody waits for.
LEMMA LateStep ==
  ASSUME IInv, NEW r \in late, DeliverLate(r)
  PROVE  IInv'
<1>. USE DEF IInv, DeliverLate
<1>1. LateSafe(r) /\ r.pub \in Pushers /\ r.op \in PutSteps
  BY DEF TypeOK, Requests
<1>2. /\ blobs \subseteq blobs' /\ manifests \subseteq manifests'
      /\ blobs' \subseteq Digests /\ manifests' \subseteq Digests
      /\ tag' \in Images \cup {NoImage}
  BY <1>1, Streamed DEF TypeOK
<1>3. spent' \in [Pushers -> BOOLEAN]
  BY <1>1 DEF TypeOK
<1>4. TypeOK'
  BY <1>2, <1>3 DEF TypeOK
<1>5. (\A q \in Pushers : Stored(q)') /\ (\A s \in late' : LateSafe(s)')
  BY <1>2 DEF Stored, LateSafe
<1>6. TagComplete'
  BY <1>1, <1>2, Streamed DEF TagComplete, Complete, LateSafe
<1>. QED  BY <1>4, <1>5, <1>6

LEMMA ElsewhereStep ==
  ASSUME IInv, Elsewhere
  PROVE  IInv'
<1>. USE DEF IInv, Elsewhere
<1>1. /\ blobs \subseteq blobs' /\ manifests \subseteq manifests'
      /\ blobs' \subseteq Digests /\ manifests' \subseteq Digests
      /\ tag' \in Images \cup {NoImage}
  BY ElsewhereEffect, DescriptorTypes DEF TypeOK
<1>2. TypeOK'
  BY <1>1 DEF TypeOK
<1>3. (\A q \in Pushers : Stored(q)') /\ (\A s \in late' : LateSafe(s)')
  BY <1>1 DEF Stored, LateSafe
<1>4. TagComplete'
  BY <1>1, ElsewhereEffect DEF TagComplete, Complete, ManifestDigests
<1>. QED  BY <1>2, <1>3, <1>4

\* Somebody edits the file of p: nothing that the registry has depends on it.
LEMMA EditStep ==
  ASSUME IInv, NEW p \in Pushers, EditSource(p)
  PROVE  IInv'
<1>1. source' \in [Pushers -> {"hashed", "changed", "missing"}]
  BY DEF EditSource, IInv, TypeOK
<1>. QED  BY <1>1 DEF EditSource, IInv, TypeOK, registry, Stored, LateSafe, TagComplete, Complete

-----------------------------------------------------------------------------
(* The theorems.                                                           *)

LEMMA InitIInv == Init => IInv
<1>. SUFFICES ASSUME Init PROVE IInv
  OBVIOUS
<1>. USE DEF Init
<1>1. 0 \in 0..MaxRetries
  BY StreamBoundsAssumption
<1>2. TypeOK
  BY <1>1 DEF TypeOK, Ended, Errors
<1>. QED  BY <1>2 DEF IInv, Stored, LateSafe, TagComplete

LEMMA NextIInv == IInv /\ [Next]_vars => IInv'
<1>. SUFFICES ASSUME IInv, [Next]_vars PROVE IInv'
  OBVIOUS
<1>1. CASE UNCHANGED vars
  BY <1>1 DEF vars, registry, IInv, TypeOK, Stored, LateSafe, TagComplete, Complete
<1>2. ASSUME NEW p \in Pushers, Start(p) \/ Work(p) \/ Crash(p) \/ EditSource(p)
      PROVE  IInv'
  BY <1>2, EndingStep, ProbeStep, PutBlobStep, PutManifestStep, RetryStep, EditStep DEF Work
<1>3. ASSUME NEW r \in late, DeliverLate(r)
      PROVE  IInv'
  BY <1>3, LateStep
<1>. QED  BY <1>1, <1>2, <1>3, ElsewhereStep DEF Next

LEMMA Invariance == Spec => []IInv
BY InitIInv, NextIInv, PTL DEF Spec

\* The state of push_artifact_streaming, of its requests and of its outcome
\* always has its type.
THEOREM TypeCorrect == Spec => []TypeOK
<1>1. IInv => TypeOK
  BY DEF IInv
<1>. QED  BY <1>1, Invariance, PTL

\* push_artifact_streaming's commit point: for any number of pushers beside any
\* other publishers, what the tag points at is complete, through edited files,
\* lost and late requests, crashes and repeated calls.
THEOREM TagAlwaysComplete == Spec => []TagComplete
<1>1. IInv => TagComplete
  BY DEF IInv
<1>. QED  BY <1>1, Invariance, PTL

-----------------------------------------------------------------------------
(* The outcome of a call.                                                  *)

\* What p's call has reported: the blobs behind it, in the order of the walk.
Reports(p) ==
  LET config == EmptyConfig
      layer == LayerOf[p]
      manifest == Primary(ImageOf[p])
  IN /\ pc[p] \in {"headConfig", "initConfig", "putConfig"} =>
          pushed[p] = <<>> /\ skipped[p] = <<>>
     /\ pc[p] \in {"headLayer", "initLayer", "putLayer"} =>
          \/ pushed[p] = <<config>> /\ skipped[p] = <<>>
          \/ pushed[p] = <<>> /\ skipped[p] = <<config>>
     /\ pc[p] = "putManifest" =>
          \/ pushed[p] = <<config, layer>> /\ skipped[p] = <<>>
          \/ pushed[p] = <<config>> /\ skipped[p] = <<layer>>
          \/ pushed[p] = <<layer>> /\ skipped[p] = <<config>>
          \/ pushed[p] = <<>> /\ skipped[p] = <<config, layer>>
     /\ pc[p] = "done" =>
          /\ Complete(ImageOf[p])
          /\ \/ pushed[p] = <<config, layer, manifest>> /\ skipped[p] = <<>>
             \/ pushed[p] = <<config, manifest>> /\ skipped[p] = <<layer>>
             \/ pushed[p] = <<layer, manifest>> /\ skipped[p] = <<config>>
             \/ pushed[p] = <<manifest>> /\ skipped[p] = <<config, layer>>

AllReport == \A p \in Pushers : Reports(p)

\* The registry only grows.
Grows == blobs \subseteq blobs' /\ manifests \subseteq manifests'

LEMMA RegistryGrows == ASSUME Next PROVE Grows
<1>1. ASSUME NEW p \in Pushers, Start(p) \/ Work(p) \/ Crash(p) \/ EditSource(p)
      PROVE  Grows
  BY <1>1 DEF Grows, Work, Start, Crash, EditSource, AuthUnresolved, BlobIsThere,
              BlobIsNotThere, InitBlobUpload, PutBlob, PutManifest, Refused, LocalFailure,
              Retry, Exhausted, registry
<1>2. ASSUME NEW r \in late, DeliverLate(r)
      PROVE  Grows
  BY <1>2 DEF DeliverLate, Grows
<1>3. CASE Elsewhere
  BY <1>3, ElsewhereEffect DEF Elsewhere, Grows
<1>. QED  BY <1>1, <1>2, <1>3 DEF Next

\* What p reported is not undone by a step that leaves p and its outcome alone.
LEMMA ReportsKept ==
  ASSUME Grows, NEW p \in Pushers, Reports(p), pc'[p] = pc[p],
         pushed'[p] = pushed[p], skipped'[p] = skipped[p]
  PROVE  Reports(p)'
BY DEF Reports, Grows, Complete

LEMMA AppendTuples ==
  ASSUME NEW S, NEW a \in S, NEW b \in S, NEW c \in S
  PROVE  /\ Append(<<>>, a) = <<a>>
         /\ Append(<<a>>, b) = <<a, b>>
         /\ Append(<<a, b>>, c) = <<a, b, c>>
<1>1. Append(<<>>, a) = <<a>>
  OBVIOUS
<1>2. Append(<<a>>, b) = <<a, b>>
  <2>1. /\ <<a>> \in Seq(S) /\ <<a, b>> \in Seq(S)
        /\ Len(<<a>>) = 1 /\ Len(<<a, b>>) = 2
    OBVIOUS
  <2>2. Append(<<a>>, b) \in Seq(S) /\ Len(Append(<<a>>, b)) = 2
    BY <2>1
  <2>3. Append(<<a>>, b)[1] = a /\ Append(<<a>>, b)[2] = b
    BY <2>1
  <2>4. \A i \in 1..2 : Append(<<a>>, b)[i] = <<a, b>>[i]
    BY <2>3
  <2>. QED  BY <2>1, <2>2, <2>4, SeqEqual
<1>3. Append(<<a, b>>, c) = <<a, b, c>>
  <2>1. /\ <<a, b>> \in Seq(S) /\ <<a, b, c>> \in Seq(S)
        /\ Len(<<a, b>>) = 2 /\ Len(<<a, b, c>>) = 3
    OBVIOUS
  <2>2. Append(<<a, b>>, c) \in Seq(S) /\ Len(Append(<<a, b>>, c)) = 3
    BY <2>1
  <2>3. /\ Append(<<a, b>>, c)[1] = a /\ Append(<<a, b>>, c)[2] = b
        /\ Append(<<a, b>>, c)[3] = c
    BY <2>1
  <2>4. \A i \in 1..3 : Append(<<a, b>>, c)[i] = <<a, b, c>>[i]
    BY <2>3
  <2>. QED  BY <2>1, <2>2, <2>4, SeqEqual
<1>. QED  BY <1>1, <1>2, <1>3

\* A blob that was found or uploaded is reported next.
LEMMA BlobReported ==
  ASSUME TypeOK, NEW p \in Pushers, Reports(p), BlobIsThere(p) \/ PutBlob(p)
  PROVE  Reports(p)'
<1>1. /\ pc[p] \in HeadSteps \cup {"putConfig", "putLayer"}
      /\ pc'[p] = AfterBlob(p)
      /\ \/ pushed'[p] = Append(pushed[p], BlobOf(p)) /\ skipped'[p] = skipped[p]
         \/ pushed'[p] = pushed[p] /\ skipped'[p] = Append(skipped[p], BlobOf(p))
  BY DEF TypeOK, BlobIsThere, PutBlob, Goto
<1>2. CASE pc[p] \in {"headConfig", "putConfig"}
  <2>1. pc'[p] = "headLayer" /\ BlobOf(p) = EmptyConfig
    BY <1>1, <1>2 DEF AfterBlob, BlobOf
  <2>2. pushed[p] = <<>> /\ skipped[p] = <<>>
    BY <1>2 DEF Reports
  <2>3. Append(<<>>, EmptyConfig) = <<EmptyConfig>>
    OBVIOUS
  <2>. QED  BY <1>1, <2>1, <2>2, <2>3 DEF Reports
<1>3. CASE pc[p] \in {"headLayer", "putLayer"}
  <2>1. pc'[p] = "putManifest" /\ BlobOf(p) = LayerOf[p]
    BY <1>1, <1>3 DEF AfterBlob, BlobOf
  <2>2. \/ pushed[p] = <<EmptyConfig>> /\ skipped[p] = <<>>
        \/ pushed[p] = <<>> /\ skipped[p] = <<EmptyConfig>>
    BY <1>3 DEF Reports
  <2>3. /\ Append(<<>>, LayerOf[p]) = <<LayerOf[p]>>
        /\ Append(<<EmptyConfig>>, LayerOf[p]) = <<EmptyConfig, LayerOf[p]>>
    BY Streamed, AppendTuples
  <2>. QED  BY <1>1, <2>1, <2>2, <2>3 DEF Reports
<1>. QED  BY <1>1, <1>2, <1>3 DEF HeadSteps

LEMMA ManifestReported ==
  ASSUME IInv, NEW p \in Pushers, Reports(p), PutManifest(p)
  PROVE  Reports(p)'
<1>. DEFINE config == EmptyConfig
            layer == LayerOf[p]
            manifest == Primary(ImageOf[p])
<1>1. /\ pc[p] = "putManifest" /\ pc'[p] = "done"
      /\ pushed'[p] = Append(pushed[p], manifest) /\ skipped'[p] = skipped[p]
      /\ manifests' = manifests \cup {manifest} /\ blobs' = blobs
  BY DEF IInv, TypeOK, PutManifest, Goto
<1>2. Complete(ImageOf[p])'
  <2>1. Content(ImageOf[p]) \subseteq blobs
    BY <1>1 DEF IInv, Stored
  <2>. QED  BY <1>1, <2>1, Streamed DEF Complete
<1>3. \/ pushed[p] = <<config, layer>> /\ skipped[p] = <<>>
      \/ pushed[p] = <<config>> /\ skipped[p] = <<layer>>
      \/ pushed[p] = <<layer>> /\ skipped[p] = <<config>>
      \/ pushed[p] = <<>> /\ skipped[p] = <<config, layer>>
  BY <1>1 DEF Reports
<1>4. /\ Append(<<config, layer>>, manifest) = <<config, layer, manifest>>
      /\ Append(<<config>>, manifest) = <<config, manifest>>
      /\ Append(<<layer>>, manifest) = <<layer, manifest>>
      /\ Append(<<>>, manifest) = <<manifest>>
  <2>1. config \in Digests /\ layer \in Digests /\ manifest \in Digests
    BY Streamed
  <2>. HIDE DEF config, layer, manifest
  <2>. QED  BY <2>1, AppendTuples
<1>. QED  BY <1>1, <1>2, <1>3, <1>4 DEF Reports

LEMMA InitReports == Init => AllReport
BY DEF Init, AllReport, Reports

LEMMA NextReports == IInv /\ AllReport /\ [Next]_vars => AllReport'
<1>. SUFFICES ASSUME IInv, AllReport, [Next]_vars, NEW q \in Pushers
              PROVE  Reports(q)'
  BY DEF AllReport
<1>1. TypeOK /\ Reports(q)
  BY DEF IInv, AllReport
<1>2. CASE UNCHANGED vars
  BY <1>1, <1>2 DEF vars, registry, Reports, Complete
<1>. SUFFICES ASSUME Next PROVE Reports(q)'
  BY <1>2
<1>3. Grows
  BY RegistryGrows
<1>4. CASE UNCHANGED <<pc, pushed, skipped>>
  BY <1>1, <1>3, <1>4, ReportsKept
<1>5. ASSUME NEW p \in Pushers, Start(p) \/ Work(p) \/ Crash(p)
      PROVE  Reports(q)'
  <2>1. CASE q # p
    <3>1. pc'[q] = pc[q] /\ pushed'[q] = pushed[q] /\ skipped'[q] = skipped[q]
      BY <1>1, <1>5, <2>1
         DEF TypeOK, Work, Start, Crash, AuthUnresolved, BlobIsThere, BlobIsNotThere,
             InitBlobUpload, PutBlob, PutManifest, Refused, LocalFailure, Retry, Exhausted,
             Goto, Abort
    <3>. QED  BY <1>1, <1>3, <3>1, ReportsKept
  <2>2. CASE q = p /\ (BlobIsThere(p) \/ PutBlob(p))
    BY <1>1, <2>2, BlobReported
  <2>3. CASE q = p /\ PutManifest(p)
    BY <1>1, <2>3, ManifestReported
  <2>4. CASE q = p /\ Start(p)
    <3>1. pc'[q] = "headConfig" /\ pushed'[q] = <<>> /\ skipped'[q] = <<>>
      BY <1>1, <2>4 DEF Start, Goto, TypeOK
    <3>. QED  BY <3>1 DEF Reports
  <2>5. CASE q = p /\ (BlobIsNotThere(p) \/ InitBlobUpload(p))
    <3>1. /\ pushed' = pushed /\ skipped' = skipped
          /\ \/ pc[q] = "headConfig" /\ pc'[q] = "initConfig"
             \/ pc[q] = "headLayer" /\ pc'[q] = "initLayer"
             \/ pc[q] = "initConfig" /\ pc'[q] = "putConfig"
             \/ pc[q] = "initLayer" /\ pc'[q] = "putLayer"
      BY <1>1, <2>5 DEF BlobIsNotThere, InitBlobUpload, Goto, TypeOK, HeadSteps, InitSteps
    <3>. QED  BY <1>1, <3>1 DEF Reports
  <2>6. CASE q = p /\ Retry(p)
    BY <1>4, <2>6 DEF Retry
  <2>7. CASE q = p /\ \/ AuthUnresolved(p) \/ Refused(p) \/ LocalFailure(p)
                      \/ Exhausted(p) \/ Crash(p)
    <3>1. pc'[q] \in {"failed", "crashed"}
      BY <1>1, <2>7 DEF TypeOK, AuthUnresolved, Refused, LocalFailure, Exhausted, Crash,
                        Goto, Abort
    <3>. QED  BY <3>1 DEF Reports
  <2>. QED  BY <1>5, <2>1, <2>2, <2>3, <2>4, <2>5, <2>6, <2>7 DEF Work
<1>6. ASSUME NEW p \in Pushers, EditSource(p)
      PROVE  Reports(q)'
  BY <1>4, <1>6 DEF EditSource
<1>7. ASSUME NEW r \in late, DeliverLate(r)
      PROVE  Reports(q)'
  BY <1>4, <1>7 DEF DeliverLate
<1>8. CASE Elsewhere
  BY <1>4, <1>8 DEF Elsewhere
<1>. QED  BY <1>5, <1>6, <1>7, <1>8 DEF Next

\* PublishOutcome tells the truth for any files and retry budget: a call that
\* ends with Ok reports config, layer and manifest once each, in this order, and
\* the registry holds them, whatever happened to the file meanwhile.
THEOREM OutcomeAlwaysTruthful == Spec => []OutcomeTruthful
<1>1. AllReport => OutcomeTruthful
  BY DEF AllReport, Reports, OutcomeTruthful
<1>. QED  BY <1>1, InitIInv, NextIInv, InitReports, NextReports, PTL DEF Spec

-----------------------------------------------------------------------------
(* push_artifact_streaming implements Registry.                            *)

\* push_artifact_streaming keeps the promise of module Registry: its readers and
\* the other publishers cannot tell it from publish_registry.
THEOREM RegistryRefinement == Spec => ImplementsRegistry
<1>1. Init => Reg!Init
  BY DEF Init, Reg!Init
<1>2. ASSUME IInv, [Next]_vars
      PROVE  [Reg!Next]_(Reg!vars)
  <2>1. UNCHANGED registry => UNCHANGED Reg!vars
    BY DEF registry, Reg!vars
  <2>2. ASSUME NEW i \in Images, NEW d, d \in Content(i), blobs' = blobs \cup {d},
               UNCHANGED <<manifests, tag>>
        PROVE  Reg!Next
    BY <2>2, ImageDirAssumption
       DEF Reg!Next, Reg!AddBlob, Reg!ToSet, Reg!Blobs, Reg!ManifestDigests, Reg!Primary,
           Reg!Referrers, ToSet, Blobs, Content, ManifestDigests, Primary, Referrers
  <2>3. ASSUME NEW p \in Pushers, Content(ImageOf[p]) \subseteq blobs, UNCHANGED blobs,
               manifests' = manifests \cup {Primary(ImageOf[p])}, tag' = ImageOf[p]
        PROVE  Reg!Next
    BY <2>3, Streamed
       DEF Reg!Next, Reg!Commit, Reg!ToSet, Reg!Content, Reg!Primary, Reg!Referrers,
           ToSet, Content, Primary, Referrers
  <2>4. ASSUME NEW p \in Pushers, PutBlob(p)
        PROVE  Reg!Next
    BY <2>2, <2>4, Streamed DEF PutBlob, BlobOf
  <2>5. ASSUME NEW p \in Pushers, PutManifest(p)
        PROVE  Reg!Next
    BY <1>2, <2>3, <2>5 DEF PutManifest, IInv, Stored
  <2>6. ASSUME NEW r \in late, DeliverLate(r)
        PROVE  Reg!Next
    <3>1. LateSafe(r) /\ r.pub \in Pushers /\ r.op \in PutSteps
      BY <1>2 DEF IInv, TypeOK, Requests
    <3>2. CASE r.op = "putManifest"
      BY <2>3, <2>6, <3>1, <3>2 DEF DeliverLate, LateSafe
    <3>3. CASE r.op # "putManifest"
      BY <2>2, <2>6, <3>1, <3>3, Streamed DEF DeliverLate, PutSteps
    <3>. QED  BY <3>2, <3>3
  <2>7. ASSUME NEW p \in Pushers,
               \/ Start(p) \/ Crash(p) \/ EditSource(p) \/ AuthUnresolved(p)
               \/ BlobIsThere(p) \/ BlobIsNotThere(p) \/ InitBlobUpload(p)
               \/ Refused(p) \/ LocalFailure(p) \/ Retry(p) \/ Exhausted(p)
        PROVE  UNCHANGED Reg!vars
    BY <2>1, <2>7
       DEF Start, Crash, EditSource, AuthUnresolved, BlobIsThere, BlobIsNotThere,
           InitBlobUpload, Refused, LocalFailure, Retry, Exhausted
  <2>8. CASE UNCHANGED vars
    BY <2>1, <2>8 DEF vars, registry
  <2>. QED  BY <1>2, <2>4, <2>5, <2>6, <2>7, <2>8 DEF Next, Work, Elsewhere
<1>. QED  BY <1>1, <1>2, Invariance, PTL DEF Spec, ImplementsRegistry, Reg!Spec
=============================================================================
