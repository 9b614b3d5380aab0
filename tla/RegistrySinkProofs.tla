------------------------- MODULE RegistrySinkProofs -------------------------
(***************************************************************************)
(* Proofs about RegistrySink, for any publishers, images and bounds.       *)
(*                                                                         *)
(* The inductive invariant says how far each publisher's walk has come in  *)
(* terms of what the registry holds (Progress), and that whatever a late   *)
(* manifest request needs was already there when it was sent (LateSafe).   *)
(* Both survive every step because the registry never loses a digest.  A   *)
(* second invariant, Reports, rests on the first: it ties what a call has  *)
(* reported to the part of its lists that is behind it.                    *)
(***************************************************************************)
EXTENDS RegistrySink, TLAPS

\* The part of its image that publisher p has behind it is in the registry.
Progress(p) ==
  LET i == ImageOf[p]
  IN /\ pc[p] \in BlobSteps =>
          \A j \in 1..Len(Blobs(i)) :
             j < pos[p] => Blobs(i)[j] \in blobs \cup ManifestDigests(i)
     /\ pc[p] \in {"initUpload", "putBlob"} =>
          /\ pos[p] <= Len(Blobs(i))
          /\ Blobs(i)[pos[p]] \notin atStart[p].blobs \cup ManifestDigests(i)
     /\ pc[p] \in ReferrerSteps \cup {"putPrimary"} => Content(i) \subseteq blobs
     /\ pc[p] \in ReferrerSteps =>
          \A j \in 1..Len(Referrers(i)) : j < pos[p] => Referrers(i)[j] \in manifests
     /\ pc[p] = "putReferrer" => pos[p] <= Len(Referrers(i))
     /\ pc[p] = "putPrimary" => ToSet(Referrers(i)) \subseteq manifests

\* What request r needs in the registry is there.
LateSafe(r) ==
  LET i == ImageOf[r.pub]
  IN /\ pc[r.pub] # "idle"
     /\ r.op = "putBlob" => r.digest \in ToSet(Blobs(i)) \ ManifestDigests(i)
     /\ r.op # "putBlob" => Content(i) \subseteq blobs
     /\ r.op = "putReferrer" => r.digest \in ToSet(Referrers(i))
     /\ r.op = "putPrimary" => /\ r.digest = Primary(i)
                               /\ ToSet(Referrers(i)) \subseteq manifests

\* What p has uploaded in this call was not there when the call began.
Resumes(p) ==
  /\ atStart[p].blobs \subseteq blobs
  /\ ToSet(pushed[p]) \cap Content(ImageOf[p]) \cap atStart[p].blobs = {}

IInv == /\ TypeOK
        /\ \A p \in Publishers : Progress(p)
        /\ \A r \in late : LateSafe(r)
        /\ TagComplete
        /\ ManifestsClosed
        /\ \A p \in Publishers : Resumes(p)

-----------------------------------------------------------------------------
(* The descriptors and the lists of an image.                              *)

LEMMA DescriptorTypes ==
  ASSUME NEW p \in Publishers
  PROVE  /\ ImageOf[p] \in Images
         /\ Primary(ImageOf[p]) \in Digests
         /\ Blobs(ImageOf[p]) \in Seq(Digests)
         /\ Referrers(ImageOf[p]) \in Seq(Digests)
         /\ Content(ImageOf[p]) \subseteq Digests
BY PublishersAssumption, DescriptorAssumption
   DEF Primary, Blobs, Referrers, Content

\* Before it sends a PUT, a publisher points into its list.
LEMMA CurrentType ==
  ASSUME NEW p \in Publishers, TypeOK, Progress(p),
         pc[p] \in PutSteps \cup {"initUpload"} \/ Sending(p)
  PROVE  Current(p) \in Digests
BY DescriptorTypes
   DEF TypeOK, Progress, Sending, Waiting, Current, BlobSteps, ReferrerSteps, PutSteps

LEMMA AppendToSet ==
  ASSUME NEW s \in Seq(Digests), NEW d \in Digests
  PROVE  Append(s, d) \in Seq(Digests) /\ ToSet(Append(s, d)) = ToSet(s) \cup {d}
<1>1. /\ Append(s, d) \in Seq(Digests)
      /\ Len(Append(s, d)) = Len(s) + 1
      /\ Append(s, d)[Len(s) + 1] = d
      /\ \A k \in 1..Len(s) : Append(s, d)[k] = s[k]
      /\ DOMAIN s = 1..Len(s)
      /\ DOMAIN Append(s, d) = 1..(Len(s) + 1)
      /\ Len(s) \in Nat
  OBVIOUS
<1>2. ToSet(Append(s, d)) \subseteq ToSet(s) \cup {d}
  BY <1>1 DEF ToSet
<1>3. ToSet(s) \subseteq ToSet(Append(s, d))
  BY <1>1 DEF ToSet
<1>4. d \in ToSet(Append(s, d))
  BY <1>1 DEF ToSet
<1>. QED  BY <1>1, <1>2, <1>3, <1>4

-----------------------------------------------------------------------------
(* What a step leaves alone.                                               *)

\* The registry only grows, and a publisher that has begun never is idle again.
Grows == /\ blobs \subseteq blobs'
         /\ manifests \subseteq manifests'
         /\ \A q \in Publishers : pc[q] # "idle" => pc'[q] # "idle"

\* Only p's walk moves.
OnlyMoves(p) ==
  \A q \in Publishers \ {p} : /\ pc'[q] = pc[q]
                              /\ pos'[q] = pos[q]
                              /\ pushed'[q] = pushed[q]
                              /\ atStart'[q] = atStart[q]

LEMMA OthersKept ==
  ASSUME IInv, Grows, NEW p \in Publishers, OnlyMoves(p)
  PROVE  \A q \in Publishers \ {p} : Progress(q)' /\ Resumes(q)'
<1>. SUFFICES ASSUME NEW q \in Publishers \ {p}
              PROVE  Progress(q)' /\ Resumes(q)'
  OBVIOUS
<1>1. /\ pc'[q] = pc[q] /\ pos'[q] = pos[q]
      /\ pushed'[q] = pushed[q] /\ atStart'[q] = atStart[q]
  BY DEF OnlyMoves
<1>2. Progress(q) /\ Resumes(q)
  BY DEF IInv
<1>3. Progress(q)'
  BY <1>1, <1>2 DEF Progress, Grows
<1>4. Resumes(q)'
  BY <1>1, <1>2 DEF Resumes, Grows
<1>. QED  BY <1>3, <1>4

LEMMA LateKept ==
  ASSUME IInv, Grows, NEW r \in late
  PROVE  LateSafe(r)'
<1>1. LateSafe(r) /\ r.pub \in Publishers
  BY DEF IInv, TypeOK, Requests
<1>. QED  BY <1>1 DEF LateSafe, Grows

LEMMA TagKept ==
  ASSUME IInv, Grows, tag' = tag
  PROVE  TagComplete'
BY DEF IInv, Grows, TagComplete, Complete

LEMMA ManifestsKept ==
  ASSUME IInv, Grows, manifests' = manifests
  PROVE  ManifestsClosed'
BY DEF IInv, Grows, ManifestsClosed

\* A request that a publisher leaves in flight is safe to process.
LEMMA InFlightSafe ==
  ASSUME IInv, Grows, NEW p \in Publishers, pc[p] \in PutSteps,
         NEW r, r = InFlight(p)
  PROVE  r \in Requests /\ LateSafe(r)'
<1>1. TypeOK /\ Progress(p)
  BY DEF IInv
<1>2. r \in Requests
  BY <1>1, CurrentType DEF InFlight, Requests, TypeOK
<1>3. r.pub = p /\ r.op = pc[p] /\ r.digest = Current(p)
  BY DEF InFlight
<1>4. pc'[p] # "idle"
  BY DEF Grows, PutSteps
<1>5. pc[p] # "putBlob" => Content(ImageOf[p]) \subseteq blobs
  BY <1>1 DEF Progress, PutSteps, ReferrerSteps
<1>6. pc[p] = "putReferrer" => Current(p) \in ToSet(Referrers(ImageOf[p]))
  BY <1>1, DescriptorTypes
     DEF Progress, Current, BlobSteps, ReferrerSteps, ToSet, TypeOK
<1>7. pc[p] = "putPrimary" => /\ Current(p) = Primary(ImageOf[p])
                              /\ ToSet(Referrers(ImageOf[p])) \subseteq manifests
  BY <1>1 DEF Progress, Current, BlobSteps, ReferrerSteps
<1>8. pc[p] = "putBlob" =>
        Current(p) \in ToSet(Blobs(ImageOf[p])) \ ManifestDigests(ImageOf[p])
  BY <1>1, DescriptorTypes DEF Progress, Current, BlobSteps, ToSet, TypeOK
<1>. QED  BY <1>2, <1>3, <1>4, <1>5, <1>6, <1>7, <1>8 DEF LateSafe, Grows

LEMMA LateAfterLeave ==
  ASSUME IInv, Grows, NEW p \in Publishers, LeaveInFlight(p)
  PROVE  late' \subseteq Requests /\ \A r \in late' : LateSafe(r)'
<1>1. late \subseteq Requests /\ \A r \in late : LateSafe(r)'
  BY LateKept DEF IInv, TypeOK
<1>2. CASE UNCHANGED late
  BY <1>1, <1>2
<1>3. CASE pc[p] \in PutSteps /\ late' = late \cup {InFlight(p)}
  BY <1>1, <1>3, InFlightSafe
<1>. QED  BY <1>2, <1>3 DEF LeaveInFlight

\* The invariant after a step of p that adds nothing to the registry.
LEMMA QuietStep ==
  ASSUME IInv, NEW p \in Publishers, UNCHANGED registry,
         pc'[p] # "idle", OnlyMoves(p), TypeOK',
         LeaveInFlight(p) \/ UNCHANGED late,
         Progress(p)', Resumes(p)'
  PROVE  IInv'
<1>1. Grows
  BY DEF Grows, OnlyMoves, registry
<1>2. \A r \in late' : LateSafe(r)'
  BY <1>1, LateAfterLeave, LateKept
<1>3. TagComplete' /\ ManifestsClosed'
  BY <1>1, TagKept, ManifestsKept DEF registry
<1>4. \A q \in Publishers : Progress(q)' /\ Resumes(q)'
  BY <1>1, OthersKept
<1>. QED  BY <1>2, <1>3, <1>4 DEF IInv

LEMMA GotoEffect ==
  ASSUME TypeOK, NEW p \in Publishers, NEW next \in Waiting \cup Ended,
         NEW k \in Nat \ {0}, Goto(p, next, k)
  PROVE  /\ pc' \in [Publishers -> Waiting \cup Ended]
         /\ pos' \in [Publishers -> Nat \ {0}]
         /\ attempt' \in [Publishers -> 0..MaxRetries]
         /\ pc'[p] = next /\ pos'[p] = k
         /\ \A q \in Publishers \ {p} : pc'[q] = pc[q] /\ pos'[q] = pos[q]
<1>1. 0 \in 0..MaxRetries
  BY BoundsAssumption
<1>. QED  BY <1>1 DEF TypeOK, Goto

LEMMA AbortEffect ==
  ASSUME TypeOK, NEW p \in Publishers, NEW e \in Errors, Abort(p, e)
  PROVE  /\ pc' \in [Publishers -> Waiting \cup Ended]
         /\ pos' \in [Publishers -> Nat \ {0}]
         /\ attempt' \in [Publishers -> 0..MaxRetries]
         /\ err' \in [Publishers -> Errors]
         /\ pc'[p] = "failed"
         /\ \A q \in Publishers \ {p} : pc'[q] = pc[q] /\ pos'[q] = pos[q]
<1>1. Goto(p, "failed", 1) /\ err' = [err EXCEPT ![p] = e]
  BY DEF Abort
<1>2. "failed" \in Waiting \cup Ended
  BY DEF Ended
<1>3. err' \in [Publishers -> Errors]
  BY <1>1 DEF TypeOK
<1>. QED  BY <1>1, <1>2, <1>3, GotoEffect

\* A call that ends, however it ends, keeps the invariant.
LEMMA EndingStep ==
  ASSUME IInv, NEW p \in Publishers, pc'[p] \in {"failed", "crashed"},
         \A q \in Publishers \ {p} : pc'[q] = pc[q] /\ pos'[q] = pos[q],
         pc' \in [Publishers -> Waiting \cup Ended],
         pos' \in [Publishers -> Nat \ {0}],
         attempt' \in [Publishers -> 0..MaxRetries],
         err' \in [Publishers -> Errors],
         LeaveInFlight(p) \/ UNCHANGED late,
         UNCHANGED <<registry, runs, spent, pushed, skipped, atStart>>
  PROVE  IInv'
<1>1. OnlyMoves(p)
  BY DEF OnlyMoves
<1>2. Grows
  BY <1>1 DEF Grows, OnlyMoves, registry
<1>3. late' \subseteq Requests
  BY <1>2, LateAfterLeave DEF IInv, TypeOK
<1>4. TypeOK'
  BY <1>3 DEF IInv, TypeOK, registry
<1>5. Progress(p)'
  BY DEF Progress, BlobSteps, ReferrerSteps
<1>6. Resumes(p)'
  BY DEF IInv, Resumes, registry
<1>. QED  BY <1>1, <1>4, <1>5, <1>6, QuietStep

-----------------------------------------------------------------------------
(* One lemma per kind of step.                                             *)

LEMMA StartStep ==
  ASSUME IInv, NEW p \in Publishers, Start(p)
  PROVE  IInv'
<1>. USE DEF Start
<1>1. /\ pc' \in [Publishers -> Waiting \cup Ended]
      /\ pos' \in [Publishers -> Nat \ {0}]
      /\ attempt' \in [Publishers -> 0..MaxRetries]
      /\ pc'[p] = "headBlob" /\ pos'[p] = 1
      /\ \A q \in Publishers \ {p} : pc'[q] = pc[q] /\ pos'[q] = pos[q]
  <2>1. "headBlob" \in Waiting \cup Ended
    BY DEF Waiting, BlobSteps
  <2>2. TypeOK /\ Goto(p, "headBlob", 1)
    BY DEF IInv
  <2>. QED  BY <2>1, <2>2, GotoEffect
<1>2. pushed' \in [Publishers -> Seq(Digests)] /\ skipped' \in [Publishers -> Seq(Digests)]
  BY DEF IInv, TypeOK
<1>3. err' \in [Publishers -> Errors] /\ runs' \in [Publishers -> Nat]
  BY DEF IInv, TypeOK, Errors
<1>4. atStart' \in [Publishers -> [blobs : SUBSET Digests, manifests : SUBSET Digests]]
  BY DEF IInv, TypeOK
<1>5. TypeOK'
  BY <1>1, <1>2, <1>3, <1>4 DEF IInv, TypeOK, registry
<1>6. OnlyMoves(p)
  BY <1>1 DEF OnlyMoves, IInv, TypeOK
<1>7. Progress(p)'
  BY <1>1, DescriptorTypes DEF Progress, BlobSteps, ReferrerSteps
<1>8. Resumes(p)'
  <2>1. atStart'[p].blobs = blobs /\ pushed'[p] = <<>>
    BY DEF IInv, TypeOK
  <2>2. ToSet(pushed'[p]) = {}
    BY <2>1 DEF ToSet
  <2>. QED  BY <2>1, <2>2 DEF Resumes, registry
<1>. QED  BY <1>1, <1>5, <1>6, <1>7, <1>8, QuietStep

\* The steps that only move p along its lists.
LEMMA WalkStep ==
  ASSUME IInv, NEW p \in Publishers,
         PassManifest(p) \/ BlobsDone(p) \/ ReferrersDone(p)
           \/ HeadMiss(p) \/ InitBlobUpload(p)
  PROVE  IInv'
<1>. DEFINE i == ImageOf[p]
<1>1. TypeOK /\ Progress(p) /\ pos[p] \in Nat \ {0}
  BY DEF IInv, TypeOK
<1>2. \E next \in Waiting, k \in Nat \ {0} : Goto(p, next, k)
  BY <1>1 DEF PassManifest, BlobsDone, ReferrersDone, HeadMiss, InitBlobUpload,
              Waiting, BlobSteps, ReferrerSteps
<1>3. /\ pc' \in [Publishers -> Waiting \cup Ended]
      /\ pos' \in [Publishers -> Nat \ {0}]
      /\ attempt' \in [Publishers -> 0..MaxRetries]
      /\ \A q \in Publishers \ {p} : pc'[q] = pc[q] /\ pos'[q] = pos[q]
      /\ pc'[p] # "idle"
  BY <1>1, <1>2, GotoEffect DEF Waiting, BlobSteps, ReferrerSteps
<1>4. /\ UNCHANGED <<registry, late, runs, outcome, atStart>>
      /\ spent' \in [Publishers -> BOOLEAN]
  BY DEF PassManifest, BlobsDone, ReferrersDone, HeadMiss, InitBlobUpload, IInv, TypeOK
<1>5. TypeOK'
  BY <1>1, <1>3, <1>4 DEF TypeOK, registry, outcome
<1>6. OnlyMoves(p)
  BY <1>3, <1>4 DEF OnlyMoves, outcome
<1>7. Resumes(p)'
  BY <1>4 DEF IInv, Resumes, registry, outcome
<1>8. Progress(p)'
  <2>. USE <1>1, <1>4, DescriptorTypes DEF registry, BlobSteps, ReferrerSteps
  <2>1. CASE PassManifest(p)
    <3>1. pc[p] = "headBlob" /\ pc'[p] = "headBlob" /\ pos'[p] = pos[p] + 1
      BY <2>1 DEF PassManifest, Goto, TypeOK
    <3>2. Blobs(i)[pos[p]] \in ManifestDigests(i)
      BY <2>1 DEF PassManifest, Current
    <3>. QED  BY <3>1, <3>2 DEF Progress
  <2>2. CASE BlobsDone(p)
    <3>1. /\ pc[p] = "headBlob" /\ pos[p] > Len(Blobs(i))
          /\ pc'[p] = "headReferrer" /\ pos'[p] = 1
      BY <2>2 DEF BlobsDone, Goto, TypeOK
    <3>2. \A j \in 1..Len(Blobs(i)) : Blobs(i)[j] \in blobs \cup ManifestDigests(i)
      BY <3>1 DEF Progress
    <3>3. Content(i) \subseteq blobs
      BY <3>2, ImageDirAssumption DEF ToSet
    <3>. QED  BY <3>1, <3>3 DEF Progress
  <2>3. CASE ReferrersDone(p)
    <3>1. /\ pc[p] = "headReferrer" /\ pos[p] > Len(Referrers(i))
          /\ pc'[p] = "putPrimary"
      BY <2>3 DEF ReferrersDone, Goto, TypeOK
    <3>2. \A j \in 1..Len(Referrers(i)) : Referrers(i)[j] \in manifests
      BY <3>1 DEF Progress
    <3>3. ToSet(Referrers(i)) \subseteq manifests
      BY <3>2 DEF ToSet
    <3>. QED  BY <3>1, <3>3 DEF Progress
  <2>4. CASE HeadMiss(p)
    <3>1. CASE pc[p] = "headBlob"
      <4>1. /\ pc'[p] = "initUpload" /\ pos'[p] = pos[p]
            /\ pos[p] <= Len(Blobs(i))
            /\ Blobs(i)[pos[p]] \notin blobs \cup ManifestDigests(i)
        BY <2>4, <3>1 DEF HeadMiss, Goto, TypeOK, Sending, Current
      <4>2. Blobs(i)[pos[p]] \notin atStart[p].blobs \cup ManifestDigests(i)
        BY <4>1 DEF IInv, Resumes
      <4>. QED  BY <3>1, <4>1, <4>2 DEF Progress
    <3>2. CASE pc[p] = "headReferrer"
      <4>1. /\ pc'[p] = "putReferrer" /\ pos'[p] = pos[p]
            /\ pos[p] <= Len(Referrers(i))
        BY <2>4, <3>2 DEF HeadMiss, Goto, TypeOK, Sending
      <4>. QED  BY <3>2, <4>1 DEF Progress
    <3>. QED  BY <2>4, <3>1, <3>2 DEF HeadMiss
  <2>5. CASE InitBlobUpload(p)
    <3>1. pc[p] = "initUpload" /\ pc'[p] = "putBlob" /\ pos'[p] = pos[p]
      BY <2>5 DEF InitBlobUpload, Goto, TypeOK
    <3>. QED  BY <3>1 DEF Progress
  <2>. QED  BY <2>1, <2>2, <2>3, <2>4, <2>5
<1>. QED  BY <1>3, <1>4, <1>5, <1>6, <1>7, <1>8, QuietStep

\* HEAD finds the digest: nothing is uploaded.
LEMMA HeadHitStep ==
  ASSUME IInv, NEW p \in Publishers, HeadHit(p)
  PROVE  IInv'
<1>. DEFINE i == ImageOf[p]
<1>. USE DEF HeadHit
<1>1. TypeOK /\ Progress(p) /\ pos[p] \in Nat \ {0} /\ pc[p] \in Waiting \cup Ended
  BY DEF IInv, TypeOK
<1>2. /\ pc' \in [Publishers -> Waiting \cup Ended]
      /\ pos' \in [Publishers -> Nat \ {0}]
      /\ attempt' \in [Publishers -> 0..MaxRetries]
      /\ pc'[p] = pc[p] /\ pos'[p] = pos[p] + 1
      /\ \A q \in Publishers \ {p} : pc'[q] = pc[q] /\ pos'[q] = pos[q]
  BY <1>1, GotoEffect, pos[p] + 1 \in Nat \ {0}
<1>3. skipped' \in [Publishers -> Seq(Digests)]
  BY <1>1, CurrentType, AppendToSet DEF TypeOK
<1>4. TypeOK'
  BY <1>1, <1>2, <1>3 DEF TypeOK, registry
<1>5. OnlyMoves(p)
  BY <1>2 DEF OnlyMoves
<1>6. Resumes(p)'
  BY DEF IInv, Resumes, registry
<1>7. Progress(p)'
  <2>. USE <1>1, <1>2, DescriptorTypes DEF registry, BlobSteps, ReferrerSteps
  <2>1. CASE pc[p] = "headBlob"
    <3>1. Blobs(i)[pos[p]] \in blobs
      BY <2>1 DEF Current
    <3>2. \A j \in 1..Len(Blobs(i)) :
            j < pos'[p] => Blobs(i)[j] \in blobs \cup ManifestDigests(i)
      <4>. SUFFICES ASSUME NEW j \in 1..Len(Blobs(i)), j < pos[p] + 1
                    PROVE  Blobs(i)[j] \in blobs \cup ManifestDigests(i)
        OBVIOUS
      <4>1. Len(Blobs(i)) \in Nat
        OBVIOUS
      <4>2. j < pos[p] => Blobs(i)[j] \in blobs \cup ManifestDigests(i)
        BY <2>1 DEF Progress
      <4>. QED  BY <3>1, <4>1, <4>2
    <3>. QED  BY <2>1, <3>2 DEF Progress
  <2>2. CASE pc[p] = "headReferrer"
    <3>1. Referrers(i)[pos[p]] \in manifests
      BY <2>2 DEF Current
    <3>2. \A j \in 1..Len(Referrers(i)) : j < pos'[p] => Referrers(i)[j] \in manifests
      <4>. SUFFICES ASSUME NEW j \in 1..Len(Referrers(i)), j < pos[p] + 1
                    PROVE  Referrers(i)[j] \in manifests
        OBVIOUS
      <4>1. Len(Referrers(i)) \in Nat
        OBVIOUS
      <4>2. j < pos[p] => Referrers(i)[j] \in manifests
        BY <2>2 DEF Progress
      <4>. QED  BY <3>1, <4>1, <4>2
    <3>3. Content(i) \subseteq blobs
      BY <2>2 DEF Progress
    <3>. QED  BY <2>2, <3>2, <3>3 DEF Progress
  <2>. QED  BY <2>1, <2>2
<1>8. pc'[p] # "idle"
  BY <1>2
<1>. QED  BY <1>4, <1>5, <1>6, <1>7, <1>8, QuietStep

\* The registry takes the PUT that p waits for.
LEMMA PutEffect ==
  ASSUME IInv, NEW p \in Publishers,
         PutBlobMonolithic(p) \/ PutReferrer(p) \/ PutPrimary(p)
  PROVE  /\ TypeOK' /\ OnlyMoves(p) /\ Grows /\ UNCHANGED <<late, atStart>>
         /\ Current(p) \in Digests
         /\ ToSet(pushed'[p]) = ToSet(pushed[p]) \cup {Current(p)}
<1>1. TypeOK /\ Progress(p) /\ pos[p] \in Nat \ {0}
  BY DEF IInv, TypeOK
<1>2. Current(p) \in Digests
  BY <1>1, CurrentType DEF PutBlobMonolithic, PutReferrer, PutPrimary, PutSteps
<1>3. \E next \in {"headBlob", "headReferrer", "done"}, k \in Nat \ {0} : Goto(p, next, k)
  BY <1>1 DEF PutBlobMonolithic, PutReferrer, PutPrimary
<1>4. /\ pc' \in [Publishers -> Waiting \cup Ended]
      /\ pos' \in [Publishers -> Nat \ {0}]
      /\ attempt' \in [Publishers -> 0..MaxRetries]
      /\ \A q \in Publishers \ {p} : pc'[q] = pc[q] /\ pos'[q] = pos[q]
      /\ pc'[p] # "idle"
  BY <1>1, <1>3, GotoEffect DEF Waiting, Ended, BlobSteps, ReferrerSteps
<1>5. /\ pushed' = [pushed EXCEPT ![p] = Append(@, Current(p))]
      /\ UNCHANGED <<late, runs, spent, skipped, err, atStart>>
      /\ blobs \subseteq blobs' /\ blobs' \subseteq blobs \cup {Current(p)}
      /\ manifests \subseteq manifests' /\ manifests' \subseteq manifests \cup {Current(p)}
      /\ tag' \in {tag, ImageOf[p]}
  BY DEF PutBlobMonolithic, PutReferrer, PutPrimary
<1>6. /\ pushed' \in [Publishers -> Seq(Digests)]
      /\ ToSet(pushed'[p]) = ToSet(pushed[p]) \cup {Current(p)}
      /\ \A q \in Publishers \ {p} : pushed'[q] = pushed[q]
  BY <1>1, <1>2, <1>5, AppendToSet DEF TypeOK
<1>7. TypeOK'
  BY <1>1, <1>2, <1>4, <1>5, <1>6, DescriptorTypes DEF TypeOK
<1>8. OnlyMoves(p) /\ Grows
  BY <1>4, <1>5, <1>6 DEF OnlyMoves, Grows
<1>. QED  BY <1>2, <1>5, <1>6, <1>7, <1>8

LEMMA PutBlobStep ==
  ASSUME IInv, NEW p \in Publishers, PutBlobMonolithic(p)
  PROVE  IInv'
<1>. DEFINE i == ImageOf[p]
<1>1. /\ TypeOK' /\ OnlyMoves(p) /\ Grows /\ UNCHANGED <<late, atStart>>
      /\ ToSet(pushed'[p]) = ToSet(pushed[p]) \cup {Current(p)}
  BY PutEffect
<1>2. /\ pc[p] = "putBlob" /\ Current(p) = Blobs(i)[pos[p]]
      /\ blobs' = blobs \cup {Current(p)} /\ UNCHANGED <<manifests, tag>>
      /\ pc'[p] = "headBlob" /\ pos'[p] = pos[p] + 1 /\ pos[p] \in Nat \ {0}
  BY DEF PutBlobMonolithic, Current, BlobSteps, Goto, IInv, TypeOK
<1>3. Progress(p) /\ Resumes(p)
  BY DEF IInv
<1>4. Progress(p)'
  <2>1. \A j \in 1..Len(Blobs(i)) :
           j < pos'[p] => Blobs(i)[j] \in blobs' \cup ManifestDigests(i)
    <3>. SUFFICES ASSUME NEW j \in 1..Len(Blobs(i)), j < pos[p] + 1
                  PROVE  Blobs(i)[j] \in blobs' \cup ManifestDigests(i)
      BY <1>2
    <3>1. Len(Blobs(i)) \in Nat
      BY DescriptorTypes
    <3>2. j < pos[p] => Blobs(i)[j] \in blobs \cup ManifestDigests(i)
      BY <1>2, <1>3 DEF Progress, BlobSteps
    <3>. QED  BY <1>2, <3>1, <3>2
  <2>. QED  BY <1>2, <2>1 DEF Progress, ReferrerSteps
<1>5. Resumes(p)'
  <2>1. Current(p) \notin atStart[p].blobs
    BY <1>2, <1>3 DEF Progress
  <2>. QED  BY <1>1, <1>2, <1>3, <2>1 DEF Resumes
<1>6. \A q \in Publishers : Progress(q)' /\ Resumes(q)'
  BY <1>1, <1>4, <1>5, OthersKept
<1>7. \A r \in late' : LateSafe(r)'
  BY <1>1, LateKept
<1>8. TagComplete' /\ ManifestsClosed'
  BY <1>1, <1>2, TagKept, ManifestsKept
<1>. QED  BY <1>1, <1>6, <1>7, <1>8 DEF IInv

LEMMA PutReferrerStep ==
  ASSUME IInv, NEW p \in Publishers, PutReferrer(p)
  PROVE  IInv'
<1>. DEFINE i == ImageOf[p]
<1>1. /\ TypeOK' /\ OnlyMoves(p) /\ Grows /\ UNCHANGED <<late, atStart>>
      /\ ToSet(pushed'[p]) = ToSet(pushed[p]) \cup {Current(p)}
  BY PutEffect
<1>2. /\ pc[p] = "putReferrer" /\ Current(p) = Referrers(i)[pos[p]]
      /\ manifests' = manifests \cup {Current(p)} /\ UNCHANGED <<blobs, tag>>
      /\ pc'[p] = "headReferrer" /\ pos'[p] = pos[p] + 1 /\ pos[p] \in Nat \ {0}
  BY DEF PutReferrer, Current, BlobSteps, ReferrerSteps, Goto, IInv, TypeOK
<1>3. Progress(p) /\ Resumes(p)
  BY DEF IInv
<1>4. /\ Content(i) \subseteq blobs /\ pos[p] <= Len(Referrers(i))
      /\ \A j \in 1..Len(Referrers(i)) : j < pos[p] => Referrers(i)[j] \in manifests
  BY <1>2, <1>3 DEF Progress, ReferrerSteps
<1>5. Current(p) \in ManifestDigests(i) /\ Len(Referrers(i)) \in Nat
  BY <1>2, <1>4, DescriptorTypes DEF ManifestDigests, ToSet
<1>6. Progress(p)'
  <2>1. \A j \in 1..Len(Referrers(i)) : j < pos'[p] => Referrers(i)[j] \in manifests'
    <3>. SUFFICES ASSUME NEW j \in 1..Len(Referrers(i)), j < pos[p] + 1
                  PROVE  Referrers(i)[j] \in manifests'
      BY <1>2
    <3>. QED  BY <1>2, <1>4, <1>5
  <2>. QED  BY <1>2, <1>4, <2>1 DEF Progress, BlobSteps
<1>7. Resumes(p)'
  <2>1. Current(p) \notin Content(i)
    BY <1>5, ImageDirAssumption, DescriptorTypes
  <2>. QED  BY <1>1, <1>2, <1>3, <2>1 DEF Resumes
<1>8. \A q \in Publishers : Progress(q)' /\ Resumes(q)'
  BY <1>1, <1>6, <1>7, OthersKept
<1>9. \A r \in late' : LateSafe(r)'
  BY <1>1, LateKept
<1>10. ManifestsClosed'
  BY <1>2, <1>4, <1>5, DescriptorTypes DEF IInv, ManifestsClosed
<1>11. TagComplete'
  BY <1>1, <1>2, TagKept
<1>. QED  BY <1>1, <1>8, <1>9, <1>10, <1>11 DEF IInv

LEMMA PutPrimaryStep ==
  ASSUME IInv, NEW p \in Publishers, PutPrimary(p)
  PROVE  IInv'
<1>. DEFINE i == ImageOf[p]
<1>1. /\ TypeOK' /\ OnlyMoves(p) /\ Grows /\ UNCHANGED <<late, atStart>>
      /\ ToSet(pushed'[p]) = ToSet(pushed[p]) \cup {Current(p)}
  BY PutEffect
<1>2. /\ pc[p] = "putPrimary" /\ Current(p) = Primary(i)
      /\ manifests' = manifests \cup {Current(p)} /\ blobs' = blobs /\ tag' = i
      /\ pc'[p] = "done"
  BY DEF PutPrimary, Current, BlobSteps, ReferrerSteps, Goto, IInv, TypeOK
<1>3. Content(i) \subseteq blobs /\ ToSet(Referrers(i)) \subseteq manifests
  BY <1>2 DEF IInv, Progress
<1>4. Progress(p)'
  BY <1>2 DEF Progress, BlobSteps, ReferrerSteps
<1>5. Resumes(p)'
  <2>1. Current(p) \notin Content(i)
    BY <1>2, ImageDirAssumption, DescriptorTypes DEF ManifestDigests
  <2>. QED  BY <1>1, <1>2, <2>1 DEF IInv, Resumes
<1>6. \A q \in Publishers : Progress(q)' /\ Resumes(q)'
  BY <1>1, <1>4, <1>5, OthersKept
<1>7. \A r \in late' : LateSafe(r)'
  BY <1>1, LateKept
<1>8. ManifestsClosed'
  BY <1>2, <1>3, DescriptorTypes DEF IInv, ManifestsClosed, ManifestDigests
<1>9. TagComplete'
  BY <1>2, <1>3 DEF TagComplete, Complete, ManifestDigests
<1>. QED  BY <1>1, <1>6, <1>7, <1>8, <1>9 DEF IInv

\* HEAD of a referrer got neither 200 nor an answer worth an error: PUT it.
LEMMA HeadGivesUp ==
  ASSUME IInv, NEW p \in Publishers, Sending(p), pc[p] = "headReferrer",
         Goto(p, "putReferrer", pos[p]), LeaveInFlight(p) \/ UNCHANGED late,
         UNCHANGED <<registry, runs, spent, pushed, skipped, err, atStart>>
  PROVE  IInv'
<1>1. TypeOK /\ Progress(p) /\ pos[p] \in Nat \ {0} /\ pos[p] <= Len(Referrers(ImageOf[p]))
  BY DEF IInv, TypeOK, Sending
<1>2. "putReferrer" \in Waiting \cup Ended
  BY DEF Waiting, ReferrerSteps
<1>3. /\ pc' \in [Publishers -> Waiting \cup Ended]
      /\ pos' \in [Publishers -> Nat \ {0}]
      /\ attempt' \in [Publishers -> 0..MaxRetries]
      /\ pc'[p] = "putReferrer" /\ pos'[p] = pos[p]
      /\ \A q \in Publishers \ {p} : pc'[q] = pc[q] /\ pos'[q] = pos[q]
  BY <1>1, <1>2, GotoEffect
<1>4. UNCHANGED late
  BY DEF LeaveInFlight, PutSteps
<1>5. TypeOK'
  BY <1>1, <1>3, <1>4 DEF TypeOK, registry
<1>6. OnlyMoves(p)
  BY <1>3 DEF OnlyMoves
<1>7. Progress(p)'
  BY <1>1, <1>3 DEF Progress, BlobSteps, ReferrerSteps, registry
<1>8. Resumes(p)'
  BY DEF IInv, Resumes, registry
<1>. QED  BY <1>3, <1>4, <1>5, <1>6, <1>7, <1>8, QuietStep

LEMMA FailureStep ==
  ASSUME IInv, NEW p \in Publishers,
         \/ AuthUnresolved(p) \/ Refused(p) \/ LocalFailure(p)
         \/ ExhaustedByStatus(p) \/ ExhaustedByTransport(p) \/ Crash(p)
  PROVE  IInv'
<1>1. TypeOK
  BY DEF IInv
<1>2. ASSUME NEW e \in Errors, Abort(p, e), LeaveInFlight(p) \/ UNCHANGED late,
             UNCHANGED <<registry, runs, spent, pushed, skipped, atStart>>
      PROVE  IInv'
  BY <1>1, <1>2, AbortEffect, EndingStep
<1>3. CASE AuthUnresolved(p)
  BY <1>2, <1>3 DEF AuthUnresolved, Errors
<1>4. CASE Refused(p)
  <2>1. CASE pc[p] = "headReferrer"
    BY <1>4, <2>1, HeadGivesUp DEF Refused
  <2>2. CASE pc[p] # "headReferrer"
    <3>1. PICK e \in RefusalErrors(pc[p]) : Abort(p, e)
      BY <1>4, <2>2 DEF Refused
    <3>2. e \in Errors
      BY DEF RefusalErrors, Errors
    <3>. QED  BY <1>2, <1>4, <3>1, <3>2 DEF Refused
  <2>. QED  BY <2>1, <2>2
<1>5. CASE LocalFailure(p)
  BY <1>2, <1>5 DEF LocalFailure, Errors
<1>6. CASE ExhaustedByStatus(p)
  <2>1. CASE pc[p] = "headReferrer"
    BY <1>6, <2>1, HeadGivesUp DEF ExhaustedByStatus
  <2>2. CASE pc[p] # "headReferrer"
    BY <1>2, <1>6, <2>2 DEF ExhaustedByStatus, Errors
  <2>. QED  BY <2>1, <2>2
<1>7. CASE ExhaustedByTransport(p)
  BY <1>2, <1>7 DEF ExhaustedByTransport, Errors
<1>8. CASE Crash(p)
  <2>1. "crashed" \in Waiting \cup Ended
    BY DEF Ended
  <2>2. /\ pc' \in [Publishers -> Waiting \cup Ended]
        /\ pos' \in [Publishers -> Nat \ {0}]
        /\ attempt' \in [Publishers -> 0..MaxRetries]
        /\ pc'[p] = "crashed"
        /\ \A q \in Publishers \ {p} : pc'[q] = pc[q] /\ pos'[q] = pos[q]
    BY <1>1, <1>8, <2>1, GotoEffect DEF Crash
  <2>3. err' \in [Publishers -> Errors]
    BY <1>1, <1>8 DEF Crash, outcome, TypeOK
  <2>. QED  BY <1>8, <2>2, <2>3, EndingStep DEF Crash, outcome
<1>. QED  BY <1>3, <1>4, <1>5, <1>6, <1>7, <1>8

LEMMA RetryStep ==
  ASSUME IInv, NEW p \in Publishers, Retry(p)
  PROVE  IInv'
<1>. USE DEF Retry
<1>1. TypeOK /\ Progress(p) /\ Resumes(p) /\ pc[p] # "idle"
  BY DEF IInv, Sending, Waiting, BlobSteps, ReferrerSteps
<1>2. OnlyMoves(p) /\ Grows
  BY DEF OnlyMoves, Grows, outcome, registry
<1>3. attempt' \in [Publishers -> 0..MaxRetries]
  BY <1>1, BoundsAssumption DEF TypeOK
<1>4. late' \subseteq Requests
  BY <1>2, LateAfterLeave
<1>5. TypeOK'
  BY <1>1, <1>3, <1>4 DEF TypeOK, outcome, registry
<1>6. Progress(p)' /\ Resumes(p)'
  BY <1>1 DEF Progress, Resumes, registry, outcome
<1>. QED  BY <1>1, <1>2, <1>5, <1>6, QuietStep

\* A request that nobody waits for takes effect.
LEMMA LateStep ==
  ASSUME IInv, NEW r \in late, DeliverLate(r)
  PROVE  IInv'
<1>. USE DEF DeliverLate
<1>. DEFINE i == ImageOf[r.pub]
<1>1. TypeOK /\ LateSafe(r) /\ r \in Requests /\ r.pub \in Publishers /\ r.digest \in Digests
  BY DEF IInv, TypeOK, Requests
<1>2. i \in Images
  BY <1>1, DescriptorTypes
<1>3. Grows
  BY DEF Grows, control
<1>4. TypeOK'
  <2>1. spent' \in [Publishers -> BOOLEAN]
    BY <1>1 DEF TypeOK
  <2>. QED  BY <1>1, <1>2, <2>1 DEF TypeOK, control, outcome
<1>5. \A q \in Publishers : Progress(q)' /\ Resumes(q)'
  BY <1>3 DEF IInv, Progress, Resumes, Grows, control, outcome
<1>6. \A s \in late' : LateSafe(s)'
  BY <1>3, LateKept
<1>7. CASE r.op = "putBlob"
  BY <1>3, <1>4, <1>5, <1>6, <1>7, TagKept, ManifestsKept DEF IInv
<1>8. CASE r.op # "putBlob"
  <2>1. /\ blobs' = blobs /\ manifests' = manifests \cup {r.digest}
        /\ Content(i) \subseteq blobs /\ r.digest \in ManifestDigests(i)
        /\ r.op = "putPrimary" => r.digest = Primary(i) /\ ToSet(Referrers(i)) \subseteq manifests
    BY <1>1, <1>8 DEF LateSafe, ManifestDigests, Requests, PutSteps
  <2>2. ManifestsClosed'
    BY <1>2, <2>1 DEF IInv, ManifestsClosed
  <2>3. TagComplete'
    <3>1. CASE r.op = "putPrimary"
      BY <2>1, <3>1 DEF TagComplete, Complete, ManifestDigests
    <3>2. CASE r.op # "putPrimary"
      BY <1>3, <3>2, TagKept
    <3>. QED  BY <3>1, <3>2
  <2>. QED  BY <1>4, <1>5, <1>6, <2>2, <2>3 DEF IInv
<1>. QED  BY <1>7, <1>8

-----------------------------------------------------------------------------
(* The theorems.                                                           *)

LEMMA InitIInv == Init => IInv
<1>. SUFFICES ASSUME Init PROVE IInv
  OBVIOUS
<1>. USE DEF Init
<1>1. 0 \in 0..MaxRetries
  BY BoundsAssumption
<1>2. TypeOK
  BY <1>1 DEF TypeOK, Ended, Errors
<1>3. \A p \in Publishers : Progress(p)
  BY DEF Progress, BlobSteps, ReferrerSteps
<1>4. \A p \in Publishers : Resumes(p)
  BY DEF Resumes, ToSet
<1>. QED  BY <1>2, <1>3, <1>4 DEF IInv, TagComplete, ManifestsClosed

LEMMA NextIInv == IInv /\ [Next]_vars => IInv'
<1>. SUFFICES ASSUME IInv, [Next]_vars PROVE IInv'
  OBVIOUS
<1>1. CASE UNCHANGED vars
  BY <1>1 DEF vars, IInv, TypeOK, Progress, LateSafe, Resumes, TagComplete, Complete,
              ManifestsClosed
<1>2. ASSUME NEW p \in Publishers, Start(p) \/ Work(p) \/ Crash(p)
      PROVE  IInv'
  BY <1>2, StartStep, WalkStep, HeadHitStep, PutBlobStep, PutReferrerStep,
     PutPrimaryStep, FailureStep, RetryStep
     DEF Work, Answered
<1>3. ASSUME NEW r \in late, DeliverLate(r)
      PROVE  IInv'
  BY <1>3, LateStep
<1>. QED  BY <1>1, <1>2, <1>3 DEF Next

LEMMA Invariance == Spec => []IInv
BY InitIInv, NextIInv, PTL DEF Spec

\* The state of registry_sink.rs's walk, of its requests and of its outcome
\* always has its type; a publisher that sends points into its list.
THEOREM TypeCorrect == Spec => []TypeOK
<1>1. IInv => TypeOK
  BY DEF IInv
<1>. QED  BY <1>1, Invariance, PTL

\* publish_registry's commit point: for any number of publishers, any images
\* and any retry budget, what the tag points at is complete, through lost and
\* late requests, crashes and repeated calls.
THEOREM TagAlwaysComplete == Spec => []TagComplete
<1>1. IInv => TagComplete
  BY DEF IInv
<1>. QED  BY <1>1, Invariance, PTL

\* No manifest, also of a publish that never committed, is in the registry
\* before the content of its image.
THEOREM ManifestsAlwaysClosed == Spec => []ManifestsClosed
<1>1. IInv => ManifestsClosed
  BY DEF IInv
<1>. QED  BY <1>1, Invariance, PTL

\* HEAD-then-PUT resumes: no call uploads content that was in the registry when
\* the call began, whatever the other publishers do meanwhile.
THEOREM ResumeAlwaysSkips == Spec => []ResumeSkips
<1>1. IInv => ResumeSkips
  BY DEF IInv, Resumes, ResumeSkips
<1>. QED  BY <1>1, Invariance, PTL

-----------------------------------------------------------------------------
(* The outcome of a call.                                                  *)

\* The elements of s that are in C occur in s once.
Once(s, C) == \A j, k \in 1..Len(s) : s[j] = s[k] /\ s[j] \in C => j = k

\* What p's call has reported so far.
Reported(p) == ToSet(pushed[p]) \cup ToSet(skipped[p])

\* What p reports keeps pace with its walk: the digests behind it and no others,
\* each of them in the registry, each content digest once.
Reports(p) ==
  LET i == ImageOf[p]
  IN pc[p] \in Waiting \cup {"done"} =>
       /\ Reported(p) \subseteq blobs \cup manifests
       /\ Once(pushed[p], Content(i)) /\ Once(skipped[p], Content(i))
       /\ ToSet(pushed[p]) \cap ToSet(skipped[p]) \cap Content(i) = {}
       /\ pc[p] \in BlobSteps =>
            /\ \A d \in Reported(p) :
                 \E j \in 1..Len(Blobs(i)) : j < pos[p] /\ Blobs(i)[j] = d
            /\ \A j \in 1..Len(Blobs(i)) :
                 j < pos[p] => Blobs(i)[j] \in Reported(p) \cup ManifestDigests(i)
       /\ pc[p] \notin BlobSteps => Content(i) \subseteq Reported(p)
       /\ pc[p] \in ReferrerSteps =>
            \A j \in 1..Len(Referrers(i)) : j < pos[p] => Referrers(i)[j] \in Reported(p)
       /\ pc[p] \in {"putPrimary", "done"} => ToSet(Referrers(i)) \subseteq Reported(p)
       /\ pc[p] = "done" => /\ pushed[p] # <<>>
                            /\ pushed[p][Len(pushed[p])] = Primary(i)

AllReport == \A p \in Publishers : Reports(p)

LEMMA ConcatToSet ==
  ASSUME NEW s \in Seq(Digests), NEW t \in Seq(Digests)
  PROVE  ToSet(s \o t) = ToSet(s) \cup ToSet(t)
<1>1. /\ s \o t \in Seq(Digests) /\ Len(s \o t) = Len(s) + Len(t)
      /\ Len(s) \in Nat /\ Len(t) \in Nat
      /\ DOMAIN s = 1..Len(s) /\ DOMAIN t = 1..Len(t)
      /\ DOMAIN (s \o t) = 1..(Len(s) + Len(t))
  OBVIOUS
<1>2. \A k \in 1..(Len(s) + Len(t)) :
        (s \o t)[k] = IF k <= Len(s) THEN s[k] ELSE t[k - Len(s)]
  OBVIOUS
<1>3. ToSet(s \o t) \subseteq ToSet(s) \cup ToSet(t)
  BY <1>1, <1>2 DEF ToSet
<1>4. ToSet(s) \subseteq ToSet(s \o t)
  BY <1>1, <1>2 DEF ToSet
<1>5. ToSet(t) \subseteq ToSet(s \o t)
  <2>. SUFFICES ASSUME NEW k \in 1..Len(t) PROVE t[k] \in ToSet(s \o t)
    BY <1>1 DEF ToSet
  <2>1. Len(s) + k \in 1..(Len(s) + Len(t)) /\ (s \o t)[Len(s) + k] = t[k]
    BY <1>1, <1>2
  <2>. QED  BY <1>1, <2>1 DEF ToSet
<1>. QED  BY <1>3, <1>4, <1>5

LEMMA RegistryGrows ==
  ASSUME IInv, NEW p \in Publishers, Start(p) \/ Work(p) \/ Crash(p)
  PROVE  Grows
<1>1. pc \in [Publishers -> Waiting \cup Ended]
  BY DEF IInv, TypeOK
<1>2. blobs \subseteq blobs' /\ manifests \subseteq manifests'
  BY DEF Start, Crash, Work, Answered, PassManifest, BlobsDone, ReferrersDone, HeadHit,
         HeadMiss, InitBlobUpload, PutBlobMonolithic, PutReferrer, PutPrimary, Refused,
         AuthUnresolved, LocalFailure, Retry, ExhaustedByStatus, ExhaustedByTransport, registry
<1>3. \E next \in Waiting \cup {"done", "failed", "crashed"} : pc' = [pc EXCEPT ![p] = next]
  <2>. USE <1>1 DEF Goto, Abort, Waiting, BlobSteps, ReferrerSteps
  <2>1. CASE Start(p) \/ Crash(p)
    BY <2>1 DEF Start, Crash
  <2>2. CASE PassManifest(p) \/ BlobsDone(p) \/ ReferrersDone(p) \/ HeadMiss(p) \/ InitBlobUpload(p)
    BY <2>2 DEF PassManifest, BlobsDone, ReferrersDone, HeadMiss, InitBlobUpload
  <2>3. CASE HeadHit(p) \/ PutBlobMonolithic(p) \/ PutReferrer(p) \/ PutPrimary(p)
    BY <2>3 DEF HeadHit, PutBlobMonolithic, PutReferrer, PutPrimary
  <2>4. CASE Refused(p) \/ AuthUnresolved(p) \/ LocalFailure(p)
    BY <2>4 DEF Refused, AuthUnresolved, LocalFailure
  <2>5. CASE ExhaustedByStatus(p) \/ ExhaustedByTransport(p)
    BY <2>5 DEF ExhaustedByStatus, ExhaustedByTransport
  <2>6. CASE Retry(p)
    <3>1. pc' = [pc EXCEPT ![p] = pc[p]] /\ pc[p] \in Waiting
      BY <2>6 DEF Retry, Sending
    <3>. QED  BY <3>1
  <2>. QED  BY <2>1, <2>2, <2>3, <2>4, <2>5, <2>6 DEF Work, Answered
<1>4. \A q \in Publishers : pc[q] # "idle" => pc'[q] # "idle"
  BY <1>1, <1>3 DEF Waiting, BlobSteps, ReferrerSteps
<1>. QED  BY <1>2, <1>4 DEF Grows

LEMMA OnceAppend ==
  ASSUME NEW C, NEW s \in Seq(Digests), Once(s, C),
         NEW d \in Digests, d \in C => d \notin ToSet(s)
  PROVE  Once(Append(s, d), C)
<1>1. /\ Len(Append(s, d)) = Len(s) + 1 /\ Len(s) \in Nat
      /\ Append(s, d)[Len(s) + 1] = d
      /\ \A k \in 1..Len(s) : Append(s, d)[k] = s[k]
  OBVIOUS
<1>2. d \in C => \A k \in 1..Len(s) : s[k] # d
  BY DEF ToSet
<1>. SUFFICES ASSUME NEW j \in 1..(Len(s) + 1), NEW k \in 1..(Len(s) + 1),
                     Append(s, d)[j] = Append(s, d)[k], Append(s, d)[j] \in C
              PROVE  j = k
  BY <1>1 DEF Once
<1>3. CASE j \in 1..Len(s) /\ k \in 1..Len(s)
  BY <1>1, <1>3 DEF Once
<1>4. CASE j = Len(s) + 1 \/ k = Len(s) + 1
  BY <1>1, <1>2, <1>4
<1>. QED  BY <1>1, <1>3, <1>4

\* Only p's walk and p's outcome move.
OnlyReports(p) ==
  \A q \in Publishers \ {p} : /\ pc'[q] = pc[q] /\ pos'[q] = pos[q]
                              /\ pushed'[q] = pushed[q] /\ skipped'[q] = skipped[q]

LEMMA OthersReport ==
  ASSUME AllReport, Grows, NEW p \in Publishers, OnlyReports(p), Reports(p)'
  PROVE  AllReport'
<1>. SUFFICES ASSUME NEW q \in Publishers \ {p}
              PROVE  Reports(q)'
  BY DEF AllReport
<1>1. /\ pc'[q] = pc[q] /\ pos'[q] = pos[q]
      /\ pushed'[q] = pushed[q] /\ skipped'[q] = skipped[q]
  BY DEF OnlyReports
<1>2. Reported(q)' = Reported(q)
  BY <1>1 DEF Reported
<1>. QED  BY <1>1, <1>2 DEF AllReport, Reports, Grows

\* A digest is added to the outcome of p.
LEMMA ReportOne ==
  ASSUME IInv, Grows, NEW p \in Publishers, Reports(p), pc[p] \in Waiting,
         NEW d \in Digests, d \in blobs' \cup manifests',
         d \in Content(ImageOf[p]) => d \notin Reported(p),
         \/ /\ pushed' = [pushed EXCEPT ![p] = Append(@, d)]
            /\ UNCHANGED skipped
         \/ /\ skipped' = [skipped EXCEPT ![p] = Append(@, d)]
            /\ UNCHANGED pushed
  PROVE  /\ Reported(p)' = Reported(p) \cup {d}
         /\ Reported(p)' \subseteq blobs' \cup manifests'
         /\ Once(pushed'[p], Content(ImageOf[p]))
         /\ Once(skipped'[p], Content(ImageOf[p]))
         /\ ToSet(pushed'[p]) \cap ToSet(skipped'[p]) \cap Content(ImageOf[p]) = {}
         /\ \A q \in Publishers \ {p} : pushed'[q] = pushed[q] /\ skipped'[q] = skipped[q]
<1>. DEFINE C == Content(ImageOf[p])
<1>1. pushed \in [Publishers -> Seq(Digests)] /\ skipped \in [Publishers -> Seq(Digests)]
  BY DEF IInv, TypeOK
<1>2. /\ Reported(p) \subseteq blobs \cup manifests
      /\ Once(pushed[p], C) /\ Once(skipped[p], C)
      /\ ToSet(pushed[p]) \cap ToSet(skipped[p]) \cap C = {}
  BY DEF Reports
<1>3. d \in C => d \notin ToSet(pushed[p]) /\ d \notin ToSet(skipped[p])
  BY DEF Reported
<1>4. \/ /\ pushed'[p] = Append(pushed[p], d) /\ skipped'[p] = skipped[p]
         /\ ToSet(pushed'[p]) = ToSet(pushed[p]) \cup {d}
      \/ /\ skipped'[p] = Append(skipped[p], d) /\ pushed'[p] = pushed[p]
         /\ ToSet(skipped'[p]) = ToSet(skipped[p]) \cup {d}
  BY <1>1, AppendToSet
<1>5. Once(pushed'[p], C) /\ Once(skipped'[p], C)
  <2>1. \A s \in Seq(Digests) :
          Once(s, C) /\ (d \in C => d \notin ToSet(s)) => Once(Append(s, d), C)
    BY OnceAppend
  <2>2. pushed[p] \in Seq(Digests) /\ skipped[p] \in Seq(Digests)
    BY <1>1
  <2>3. Once(Append(pushed[p], d), C) /\ Once(Append(skipped[p], d), C)
    BY <1>2, <1>3, <2>1, <2>2
  <2>. QED  BY <1>2, <1>4, <2>3
<1>6. Reported(p)' = Reported(p) \cup {d}
  BY <1>4 DEF Reported
<1>7. ToSet(pushed'[p]) \cap ToSet(skipped'[p]) \cap C = {}
  BY <1>2, <1>3, <1>4
<1>8. \A q \in Publishers \ {p} : pushed'[q] = pushed[q] /\ skipped'[q] = skipped[q]
  BY <1>1
<1>. QED  BY <1>2, <1>5, <1>6, <1>7, <1>8 DEF Grows

\* The steps that report nothing.
LEMMA SilentStep ==
  ASSUME IInv, AllReport, NEW p \in Publishers, UNCHANGED <<registry, outcome>>,
         \/ PassManifest(p) \/ BlobsDone(p) \/ ReferrersDone(p)
         \/ HeadMiss(p) \/ InitBlobUpload(p) \/ Retry(p)
         \/ pc[p] = "headReferrer" /\ Goto(p, "putReferrer", pos[p])
  PROVE  Reports(p)'
<1>. DEFINE i == ImageOf[p]
<1>1. /\ TypeOK /\ pos[p] \in Nat \ {0} /\ Reports(p)
      /\ Blobs(i) \in Seq(Digests) /\ Referrers(i) \in Seq(Digests)
  BY DescriptorTypes DEF IInv, TypeOK, AllReport
<1>2. /\ pushed' = pushed /\ skipped' = skipped
      /\ blobs' = blobs /\ manifests' = manifests /\ Reported(p)' = Reported(p)
  BY DEF registry, outcome, Reported
<1>. USE DEF BlobSteps, ReferrerSteps, Waiting
<1>3. CASE Retry(p)
  <2>1. pc'[p] = pc[p] /\ pos'[p] = pos[p]
    BY <1>3 DEF Retry
  <2>. QED  BY <1>1, <1>2, <2>1 DEF Reports
<1>4. CASE PassManifest(p)
  <2>1. /\ pc[p] = "headBlob" /\ pc'[p] = "headBlob" /\ pos'[p] = pos[p] + 1
        /\ Blobs(i)[pos[p]] \in ManifestDigests(i)
    BY <1>1, <1>4 DEF PassManifest, Goto, TypeOK, Current
  <2>. QED  BY <1>1, <1>2, <2>1 DEF Reports
<1>5. CASE BlobsDone(p)
  <2>1. /\ pc[p] = "headBlob" /\ pos[p] > Len(Blobs(i))
        /\ pc'[p] = "headReferrer" /\ pos'[p] = 1
    BY <1>1, <1>5 DEF BlobsDone, Goto, TypeOK
  <2>2. \A j \in 1..Len(Blobs(i)) : Blobs(i)[j] \in Reported(p) \cup ManifestDigests(i)
    BY <1>1, <2>1 DEF Reports
  <2>3. Content(i) \subseteq Reported(p)
    BY <1>1, <2>2, ImageDirAssumption, DescriptorTypes DEF ToSet
  <2>. QED  BY <1>1, <1>2, <2>1, <2>3 DEF Reports
<1>6. CASE ReferrersDone(p)
  <2>1. /\ pc[p] = "headReferrer" /\ pos[p] > Len(Referrers(i)) /\ pc'[p] = "putPrimary"
    BY <1>1, <1>6 DEF ReferrersDone, Goto, TypeOK
  <2>2. ToSet(Referrers(i)) \subseteq Reported(p)
    BY <1>1, <2>1 DEF Reports, ToSet
  <2>. QED  BY <1>1, <1>2, <2>1, <2>2 DEF Reports
<1>7. ASSUME /\ pos'[p] = pos[p]
             /\ \/ pc[p] \in {"headBlob", "initUpload"} /\ pc'[p] \in {"initUpload", "putBlob"}
                \/ pc[p] = "headReferrer" /\ pc'[p] = "putReferrer"
      PROVE  Reports(p)'
  <2>1. CASE pc[p] \in {"headBlob", "initUpload"} /\ pc'[p] \in {"initUpload", "putBlob"}
    BY <1>1, <1>2, <1>7, <2>1 DEF Reports
  <2>2. CASE pc[p] = "headReferrer" /\ pc'[p] = "putReferrer"
    BY <1>1, <1>2, <1>7, <2>2 DEF Reports
  <2>. QED  BY <1>7, <2>1, <2>2
<1>8. CASE HeadMiss(p)
  BY <1>1, <1>7, <1>8 DEF HeadMiss, Goto, TypeOK
<1>9. CASE InitBlobUpload(p)
  BY <1>1, <1>7, <1>9 DEF InitBlobUpload, Goto, TypeOK
<1>10. CASE pc[p] = "headReferrer" /\ Goto(p, "putReferrer", pos[p])
  BY <1>1, <1>7, <1>10 DEF Goto, TypeOK
<1>. QED  BY <1>3, <1>4, <1>5, <1>6, <1>8, <1>9, <1>10

\* The digest that p reports next is not a content digest already reported.
LEMMA NotReportedYet ==
  ASSUME IInv, AllReport, NEW p \in Publishers,
         HeadHit(p) \/ PutBlobMonolithic(p) \/ PutReferrer(p) \/ PutPrimary(p)
  PROVE  Current(p) \in Content(ImageOf[p]) => Current(p) \notin Reported(p)
<1>. DEFINE i == ImageOf[p]
<1>1. /\ TypeOK /\ Progress(p) /\ Reports(p) /\ pos[p] \in Nat \ {0} /\ i \in Images
      /\ Blobs(i) \in Seq(Digests) /\ Referrers(i) \in Seq(Digests)
  BY DescriptorTypes DEF IInv, TypeOK, AllReport
<1>2. CASE pc[p] \in BlobSteps
  <2>1. Current(p) = Blobs(i)[pos[p]] /\ pos[p] \in 1..Len(Blobs(i))
    BY <1>1, <1>2 DEF Current, HeadHit, PutBlobMonolithic, PutReferrer, PutPrimary,
                      Sending, Progress, BlobSteps
  <2>2. \A d \in Reported(p) : \E j \in 1..Len(Blobs(i)) : j < pos[p] /\ Blobs(i)[j] = d
    BY <1>1, <1>2 DEF Reports, Waiting
  <2>3. \A j \in 1..Len(Blobs(i)) : j < pos[p] => Blobs(i)[j] # Blobs(i)[pos[p]]
    <3>1. IsInjective(Blobs(i)) /\ DOMAIN Blobs(i) = 1..Len(Blobs(i))
      BY <1>1, ImageDirAssumption
    <3>. QED  BY <1>1, <2>1, <3>1 DEF IsInjective
  <2>. QED  BY <2>1, <2>2, <2>3
<1>3. CASE pc[p] \notin BlobSteps
  <2>1. Current(p) \in ManifestDigests(i)
    BY <1>1, <1>3 DEF Current, HeadHit, PutBlobMonolithic, PutReferrer, PutPrimary,
                      Sending, Progress, BlobSteps, ReferrerSteps, ManifestDigests, ToSet
  <2>. QED  BY <1>1, <2>1, ImageDirAssumption
<1>. QED  BY <1>2, <1>3

\* HEAD finds the digest, or the registry takes the PUT: it is reported.
LEMMA ReportStep ==
  ASSUME IInv, AllReport, Grows, NEW p \in Publishers,
         HeadHit(p) \/ PutBlobMonolithic(p) \/ PutReferrer(p) \/ PutPrimary(p)
  PROVE  Reports(p)' /\ OnlyReports(p)
<1>. DEFINE i == ImageOf[p]
            d == Current(p)
<1>1. /\ TypeOK /\ Progress(p) /\ Reports(p) /\ pos[p] \in Nat \ {0} /\ i \in Images
      /\ Blobs(i) \in Seq(Digests) /\ Referrers(i) \in Seq(Digests)
      /\ pc \in [Publishers -> Waiting \cup Ended] /\ pos \in [Publishers -> Nat \ {0}]
      /\ pc[p] \in Waiting
  BY DescriptorTypes
     DEF IInv, TypeOK, AllReport, HeadHit, PutBlobMonolithic, PutReferrer, PutPrimary,
         Sending, Waiting, BlobSteps, ReferrerSteps
<1>2. d \in Digests
  BY <1>1, CurrentType
     DEF HeadHit, PutBlobMonolithic, PutReferrer, PutPrimary, PutSteps
<1>3. d \in blobs' \cup manifests'
  BY DEF HeadHit, PutBlobMonolithic, PutReferrer, PutPrimary, registry
<1>4. \/ /\ pushed' = [pushed EXCEPT ![p] = Append(@, d)] /\ UNCHANGED skipped
      \/ /\ skipped' = [skipped EXCEPT ![p] = Append(@, d)] /\ UNCHANGED pushed
  BY DEF HeadHit, PutBlobMonolithic, PutReferrer, PutPrimary
<1>5. d \in Content(i) => d \notin Reported(p)
  BY NotReportedYet
<1>6. /\ Reported(p)' = Reported(p) \cup {d}
      /\ Reported(p)' \subseteq blobs' \cup manifests'
      /\ Once(pushed'[p], Content(i)) /\ Once(skipped'[p], Content(i))
      /\ ToSet(pushed'[p]) \cap ToSet(skipped'[p]) \cap Content(i) = {}
      /\ \A q \in Publishers \ {p} : pushed'[q] = pushed[q] /\ skipped'[q] = skipped[q]
  <2>. HIDE DEF d
  <2>. QED  BY <1>1, <1>2, <1>3, <1>4, <1>5, ReportOne
<1>7. \A q \in Publishers \ {p} : pc'[q] = pc[q] /\ pos'[q] = pos[q]
  BY <1>1 DEF HeadHit, PutBlobMonolithic, PutReferrer, PutPrimary, Goto
<1>8. OnlyReports(p)
  BY <1>6, <1>7 DEF OnlyReports
<1>9. CASE pc[p] \in BlobSteps
  <2>1. /\ d = Blobs(i)[pos[p]] /\ pos[p] \in 1..Len(Blobs(i))
        /\ pc'[p] = "headBlob" /\ pos'[p] = pos[p] + 1
    BY <1>1, <1>9
       DEF Current, HeadHit, PutBlobMonolithic, PutReferrer, PutPrimary, Goto,
           Sending, Progress, BlobSteps
  <2>. HIDE DEF d
  <2>2. \A e \in Reported(p)' :
          \E j \in 1..Len(Blobs(i)) : j < pos'[p] /\ Blobs(i)[j] = e
    <3>. SUFFICES ASSUME NEW e \in Reported(p) \cup {d}
                  PROVE  \E j \in 1..Len(Blobs(i)) : j < pos[p] + 1 /\ Blobs(i)[j] = e
      BY <1>6, <2>1
    <3>1. CASE e = d
      BY <2>1, <3>1
    <3>2. CASE e \in Reported(p)
      <4>1. PICK j \in 1..Len(Blobs(i)) : j < pos[p] /\ Blobs(i)[j] = e
        BY <1>1, <1>9, <3>2 DEF Reports
      <4>. QED  BY <1>1, <4>1
    <3>. QED  BY <3>1, <3>2
  <2>3. \A j \in 1..Len(Blobs(i)) :
          j < pos'[p] => Blobs(i)[j] \in Reported(p)' \cup ManifestDigests(i)
    <3>. SUFFICES ASSUME NEW j \in 1..Len(Blobs(i)), j < pos[p] + 1
                  PROVE  Blobs(i)[j] \in Reported(p) \cup {d} \cup ManifestDigests(i)
      BY <1>6, <2>1
    <3>1. j < pos[p] => Blobs(i)[j] \in Reported(p) \cup ManifestDigests(i)
      BY <1>1, <1>9 DEF Reports
    <3>2. j < pos[p] \/ j = pos[p]
      BY <1>1
    <3>. QED  BY <2>1, <3>1, <3>2
  <2>. QED  BY <1>6, <1>8, <2>1, <2>2, <2>3 DEF Reports, BlobSteps, ReferrerSteps
<1>10. CASE pc[p] \in ReferrerSteps
  <2>1. /\ d = Referrers(i)[pos[p]] /\ pos[p] \in 1..Len(Referrers(i))
        /\ pc'[p] = "headReferrer" /\ pos'[p] = pos[p] + 1
    BY <1>1, <1>10
       DEF Current, HeadHit, PutBlobMonolithic, PutReferrer, PutPrimary, Goto,
           Sending, Progress, BlobSteps, ReferrerSteps
  <2>. HIDE DEF d
  <2>2. /\ Content(i) \subseteq Reported(p)
        /\ \A j \in 1..Len(Referrers(i)) : j < pos[p] => Referrers(i)[j] \in Reported(p)
    BY <1>1, <1>10 DEF Reports, BlobSteps, ReferrerSteps
  <2>3. \A j \in 1..Len(Referrers(i)) : j < pos'[p] => Referrers(i)[j] \in Reported(p)'
    <3>. SUFFICES ASSUME NEW j \in 1..Len(Referrers(i)), j < pos[p] + 1
                  PROVE  Referrers(i)[j] \in Reported(p) \cup {d}
      BY <1>6, <2>1
    <3>1. j < pos[p] \/ j = pos[p]
      BY <1>1
    <3>. QED  BY <2>1, <2>2, <3>1
  <2>. QED  BY <1>6, <1>8, <2>1, <2>2, <2>3 DEF Reports, BlobSteps
<1>11. CASE pc[p] = "putPrimary"
  <2>1. /\ pc'[p] = "done" /\ d = Primary(i)
        /\ pushed' = [pushed EXCEPT ![p] = Append(@, d)]
    BY <1>1, <1>11
       DEF Current, HeadHit, PutBlobMonolithic, PutReferrer, PutPrimary, Goto,
           BlobSteps, ReferrerSteps
  <2>. HIDE DEF d
  <2>2. /\ pushed'[p] = Append(pushed[p], d) /\ pushed[p] \in Seq(Digests)
        /\ Len(pushed[p]) \in Nat
    BY <1>1, <2>1 DEF TypeOK
  <2>3. pushed'[p] # <<>> /\ pushed'[p][Len(pushed'[p])] = Primary(i)
    BY <1>2, <2>1, <2>2
  <2>4. Content(i) \subseteq Reported(p) /\ ToSet(Referrers(i)) \subseteq Reported(p)
    BY <1>1, <1>11 DEF Reports, BlobSteps
  <2>. QED  BY <1>6, <1>8, <2>1, <2>3, <2>4 DEF Reports, BlobSteps, ReferrerSteps
<1>. QED  BY <1>1, <1>9, <1>10, <1>11 DEF Waiting

LEMMA InitReports == Init => AllReport
BY DEF Init, AllReport, Reports, Waiting, BlobSteps, ReferrerSteps

\* The publisher that moves and what its step does to its outcome.
LEMMA PublisherReports ==
  ASSUME IInv, AllReport, Grows, NEW p \in Publishers, Start(p) \/ Work(p) \/ Crash(p)
  PROVE  Reports(p)' /\ OnlyReports(p)
<1>. DEFINE others == \A q \in Publishers \ {p} : pc'[q] = pc[q] /\ pos'[q] = pos[q]
<1>1. /\ pc \in [Publishers -> Waiting \cup Ended] /\ pos \in [Publishers -> Nat \ {0}]
      /\ pushed \in [Publishers -> Seq(Digests)] /\ skipped \in [Publishers -> Seq(Digests)]
  BY DEF IInv, TypeOK
<1>2. CASE Start(p)
  <2>1. /\ pc'[p] = "headBlob" /\ pos'[p] = 1 /\ others
        /\ pushed'[p] = <<>> /\ skipped'[p] = <<>>
        /\ \A q \in Publishers \ {p} : pushed'[q] = pushed[q] /\ skipped'[q] = skipped[q]
    BY <1>1, <1>2 DEF Start, Goto
  <2>2. Reported(p)' = {} /\ ToSet(pushed'[p]) = {}
    BY <2>1 DEF Reported, ToSet
  <2>3. Once(pushed'[p], Content(ImageOf[p])) /\ Once(skipped'[p], Content(ImageOf[p]))
    BY <2>1 DEF Once
  <2>. QED  BY <2>1, <2>2, <2>3, DescriptorTypes
            DEF Reports, OnlyReports, BlobSteps, ReferrerSteps
<1>3. CASE HeadHit(p) \/ PutBlobMonolithic(p) \/ PutReferrer(p) \/ PutPrimary(p)
  BY <1>3, ReportStep
<1>4. CASE PassManifest(p) \/ BlobsDone(p) \/ ReferrersDone(p)
             \/ HeadMiss(p) \/ InitBlobUpload(p) \/ Retry(p)
  <2>1. UNCHANGED <<registry, outcome>> /\ others
    BY <1>1, <1>4 DEF PassManifest, BlobsDone, ReferrersDone, HeadMiss, InitBlobUpload,
                      Retry, Goto
  <2>2. Reports(p)'
    BY <1>4, <2>1, SilentStep
  <2>. QED  BY <2>1, <2>2 DEF OnlyReports, outcome
<1>5. CASE /\ pc[p] = "headReferrer" /\ Goto(p, "putReferrer", pos[p])
           /\ UNCHANGED <<registry, pushed, skipped, err>>
  <2>1. UNCHANGED <<registry, outcome>> /\ others
    BY <1>1, <1>5 DEF outcome, Goto
  <2>2. Reports(p)'
    BY <1>5, <2>1, SilentStep
  <2>. QED  BY <2>1, <2>2 DEF OnlyReports, outcome
<1>6. CASE /\ \E end \in {"failed", "crashed"} : Goto(p, end, 1)
           /\ UNCHANGED <<pushed, skipped>>
  <2>1. pc'[p] \notin Waiting \cup {"done"} /\ others
    BY <1>1, <1>6 DEF Goto, Waiting, BlobSteps, ReferrerSteps
  <2>. QED  BY <1>6, <2>1 DEF Reports, OnlyReports
<1>7. CASE Refused(p) \/ ExhaustedByStatus(p)
  BY <1>5, <1>6, <1>7 DEF Refused, ExhaustedByStatus, Abort
<1>8. CASE AuthUnresolved(p) \/ LocalFailure(p) \/ ExhaustedByTransport(p) \/ Crash(p)
  BY <1>6, <1>8 DEF AuthUnresolved, LocalFailure, ExhaustedByTransport, Crash, Abort, outcome
<1>. QED  BY <1>2, <1>3, <1>4, <1>7, <1>8 DEF Work, Answered

LEMMA NextReports == IInv /\ AllReport /\ [Next]_vars => AllReport'
<1>. SUFFICES ASSUME IInv, AllReport, [Next]_vars PROVE AllReport'
  OBVIOUS
<1>1. CASE UNCHANGED vars
  BY <1>1 DEF vars, AllReport, Reports, Reported
<1>2. ASSUME NEW p \in Publishers, Start(p) \/ Work(p) \/ Crash(p)
      PROVE  AllReport'
  <2>1. Grows
    BY <1>2, RegistryGrows
  <2>. QED  BY <1>2, <2>1, PublisherReports, OthersReport
<1>3. ASSUME NEW r \in late, DeliverLate(r)
      PROVE  AllReport'
  <2>1. UNCHANGED <<pc, pos, pushed, skipped>> /\ blobs \subseteq blobs' /\ manifests \subseteq manifests'
    BY <1>3 DEF DeliverLate, control, outcome
  <2>. QED  BY <2>1 DEF AllReport, Reports, Reported
<1>. QED  BY <1>1, <1>2, <1>3 DEF Next

\* PublishOutcome tells the truth, for any publishers and images: a call that
\* ends with Ok reports every digest of its image, nothing that the registry does
\* not hold, no content digest twice, and the primary manifest as the last push.
THEOREM OutcomeAlwaysTruthful == Spec => []OutcomeTruthful
<1>1. ASSUME IInv, AllReport PROVE OutcomeTruthful
  <2>. SUFFICES ASSUME NEW p \in Publishers, pc[p] = "done",
                       NEW reported, reported = pushed[p] \o skipped[p]
                PROVE  /\ Content(ImageOf[p]) \cup ManifestDigests(ImageOf[p]) \subseteq ToSet(reported)
                       /\ ToSet(reported) \subseteq blobs \cup manifests
                       /\ \A j, k \in 1..Len(reported) :
                            reported[j] = reported[k] /\ reported[j] \in Content(ImageOf[p]) => j = k
                       /\ pushed[p] # <<>> /\ pushed[p][Len(pushed[p])] = Primary(ImageOf[p])
    BY DEF OutcomeTruthful
  <2>. DEFINE i == ImageOf[p]
              a == pushed[p]
              b == skipped[p]
  <2>1. a \in Seq(Digests) /\ b \in Seq(Digests) /\ Reports(p)
    BY <1>1 DEF IInv, TypeOK, AllReport
  <2>2. /\ Reported(p) = ToSet(a) \cup ToSet(b)
        /\ Reported(p) \subseteq blobs \cup manifests
        /\ Once(a, Content(i)) /\ Once(b, Content(i))
        /\ ToSet(a) \cap ToSet(b) \cap Content(i) = {}
        /\ Content(i) \subseteq Reported(p) /\ ToSet(Referrers(i)) \subseteq Reported(p)
        /\ a # <<>> /\ a[Len(a)] = Primary(i)
    BY <2>1 DEF Reports, Reported, BlobSteps
  <2>. HIDE DEF a, b
  <2>3. /\ reported = a \o b /\ Len(a) \in Nat /\ Len(b) \in Nat
        /\ Len(reported) = Len(a) + Len(b)
        /\ \A j \in 1..Len(a) : reported[j] = a[j] /\ a[j] \in ToSet(a)
        /\ \A j \in (Len(a) + 1)..Len(reported) :
             /\ j - Len(a) \in 1..Len(b)
             /\ reported[j] = b[j - Len(a)] /\ b[j - Len(a)] \in ToSet(b)
    <3>1. a \in Seq(Digests) /\ b \in Seq(Digests) /\ reported = a \o b
      BY <2>1 DEF a, b
    <3>2. /\ DOMAIN a = 1..Len(a) /\ DOMAIN b = 1..Len(b)
          /\ Len(a) \in Nat /\ Len(b) \in Nat /\ Len(reported) = Len(a) + Len(b)
      BY <3>1
    <3>3. \A j \in 1..(Len(a) + Len(b)) :
            reported[j] = IF j <= Len(a) THEN a[j] ELSE b[j - Len(a)]
      BY <3>1
    <3>4. /\ \A j \in 1..Len(a) : a[j] \in ToSet(a)
          /\ \A j \in 1..Len(b) : b[j] \in ToSet(b)
      BY <3>2 DEF ToSet
    <3>. QED  BY <3>1, <3>2, <3>3, <3>4
  <2>4. ToSet(reported) = ToSet(a) \cup ToSet(b)
    BY <2>1, <2>3, ConcatToSet
  <2>5. Primary(i) \in ToSet(a)
    BY <2>1, <2>2, <2>3 DEF ToSet
  <2>6. ASSUME NEW j \in 1..Len(reported), NEW k \in 1..Len(reported),
               reported[j] = reported[k], reported[j] \in Content(i)
        PROVE  j = k
    <3>1. CASE j <= Len(a) /\ k <= Len(a)
      BY <2>2, <2>3, <2>6, <3>1 DEF Once
    <3>2. CASE j > Len(a) /\ k > Len(a)
      <4>1. /\ j - Len(a) \in 1..Len(b) /\ k - Len(a) \in 1..Len(b)
            /\ b[j - Len(a)] = b[k - Len(a)] /\ b[j - Len(a)] \in Content(i)
        BY <2>3, <2>6, <3>2
      <4>2. j - Len(a) = k - Len(a)
        BY <2>2, <4>1 DEF Once
      <4>. QED  BY <2>3, <4>2
    <3>3. CASE (j <= Len(a) /\ k > Len(a)) \/ (j > Len(a) /\ k <= Len(a))
      BY <2>2, <2>3, <2>6, <3>3
    <3>. QED  BY <2>3, <3>1, <3>2, <3>3
  <2>. QED  BY <2>2, <2>4, <2>5, <2>6 DEF ManifestDigests, a
<1>2. IInv /\ AllReport => OutcomeTruthful
  BY <1>1
<1>. QED  BY <1>2, InitIInv, NextIInv, InitReports, NextReports, PTL DEF Spec

-----------------------------------------------------------------------------
(* publish_registry implements AtomicPublish.                              *)

\* What a consumer finds, once TagComplete holds, is what the tag points at.
LEMMA VisibleIsTag == ASSUME TagComplete PROVE Visible = tag
BY DEF TagComplete, Visible

\* The status after a step in which only p moves.
LEMMA StatusMoves ==
  ASSUME NEW p \in Publishers, \A q \in Publishers \ {p} : pc'[q] = pc[q]
  PROVE  /\ Status' = [Status EXCEPT ![p] = Status'[p]]
         /\ pc[p] \in Waiting /\ pc'[p] \in Waiting => Status' = Status
BY DEF Status

\* Where the steps of p take it.
LEMMA Moves ==
  ASSUME IInv, IInv', NEW p \in Publishers, Start(p) \/ Work(p) \/ Crash(p)
  PROVE  /\ \A q \in Publishers \ {p} : pc'[q] = pc[q]
         /\ \/ pc[p] \in Ended /\ pc'[p] \in Waiting /\ UNCHANGED tag
            \/ pc[p] \in Waiting /\ pc'[p] \in Waiting /\ UNCHANGED tag
            \/ pc[p] \in Waiting /\ pc'[p] \in {"failed", "crashed"} /\ UNCHANGED tag
            \/ pc[p] = "putPrimary" /\ pc'[p] = "done" /\ tag' = ImageOf[p]
<1>. USE DEF registry, Goto, Abort, Waiting, Ended, BlobSteps, ReferrerSteps, PutSteps
<1>1. pc \in [Publishers -> Waiting \cup Ended]
  BY DEF IInv, TypeOK
<1>2. CASE Start(p)
  BY <1>1, <1>2 DEF Start
<1>3. CASE PassManifest(p) \/ BlobsDone(p) \/ ReferrersDone(p)
  BY <1>1, <1>3 DEF PassManifest, BlobsDone, ReferrersDone
<1>4. CASE HeadHit(p) \/ HeadMiss(p) \/ InitBlobUpload(p)
  BY <1>1, <1>4 DEF HeadHit, HeadMiss, InitBlobUpload
<1>5. CASE PutBlobMonolithic(p) \/ PutReferrer(p) \/ PutPrimary(p)
  BY <1>1, <1>5 DEF PutBlobMonolithic, PutReferrer, PutPrimary
<1>6. CASE Refused(p) \/ LocalFailure(p) \/ AuthUnresolved(p)
  BY <1>1, <1>6 DEF Refused, LocalFailure, AuthUnresolved, Sending
<1>7. CASE Retry(p) \/ ExhaustedByStatus(p) \/ ExhaustedByTransport(p)
  BY <1>1, <1>7 DEF Retry, ExhaustedByStatus, ExhaustedByTransport, Sending
<1>8. CASE Crash(p)
  BY <1>1, <1>8 DEF Crash
<1>. QED  BY <1>2, <1>3, <1>4, <1>5, <1>6, <1>7, <1>8 DEF Work, Answered

\* Consumers of a registry that justoci publishes to see atomic publishes: the
\* blob, referrer and manifest requests, their retries, the faults, the crashes
\* and the late deliveries implement AtomicPublish.
THEOREM Refinement == Spec => ImplementsAtomicPublish
<1>1. Init => Atomic!Init
  BY DEF Init, Atomic!Init, Visible, Wanted, Status, Waiting, Ended, BlobSteps, ReferrerSteps
<1>2. ASSUME IInv, IInv', [Next]_vars
      PROVE  [Atomic!Next]_(Atomic!vars)
  <2>1. Visible = tag /\ Visible' = tag'
    <3>1. TagComplete /\ TagComplete'
      BY <1>2 DEF IInv
    <3>2. Visible = tag
      BY <3>1, VisibleIsTag
    <3>3. Visible' = tag'
      BY <3>1 DEF TagComplete, Visible, Complete
    <3>. QED  BY <3>2, <3>3
  <2>2. ASSUME NEW p \in Publishers, Start(p) \/ Work(p) \/ Crash(p)
        PROVE  [Atomic!Next]_(Atomic!vars)
    <3>. USE DEF Waiting, Ended, BlobSteps, ReferrerSteps
    <3>1. \A q \in Publishers \ {p} : pc'[q] = pc[q]
      BY <1>2, <2>2, Moves
    <3>2. Status' = [Status EXCEPT ![p] = Status'[p]]
      BY <3>1, StatusMoves
    <3>3. CASE pc[p] \in Ended /\ pc'[p] \in Waiting /\ UNCHANGED tag
      <4>1. Status[p] # "pending" /\ Status'[p] = "pending"
        BY <3>3 DEF Status
      <4>2. ImageOf[p] \in Images /\ Wanted' = [Wanted EXCEPT ![p] = ImageOf[p]]
        BY <3>1, <3>3, PublishersAssumption DEF Wanted
      <4>3. Atomic!Begin(p)
        BY <2>1, <3>2, <3>3, <4>1, <4>2 DEF Atomic!Begin
      <4>. QED  BY <4>3 DEF Atomic!Next
    <3>4. CASE pc[p] \in Waiting /\ pc'[p] \in Waiting /\ UNCHANGED tag
      <4>1. Status' = Status
        BY <3>1, <3>4, StatusMoves
      <4>2. Wanted' = Wanted
        BY <3>1, <3>4 DEF Wanted
      <4>. QED  BY <2>1, <3>4, <4>1, <4>2 DEF Atomic!vars
    <3>5. CASE /\ pc[p] \in Waiting /\ pc'[p] \in {"failed", "crashed"}
               /\ UNCHANGED tag
      <4>1. Status[p] = "pending" /\ Status'[p] = "failed"
        BY <3>5 DEF Status
      <4>2. Wanted' = Wanted
        BY <3>1, <3>5 DEF Wanted
      <4>3. Atomic!Fail(p)
        BY <2>1, <3>2, <3>5, <4>1, <4>2 DEF Atomic!Fail
      <4>. QED  BY <4>3 DEF Atomic!Next
    <3>6. CASE pc[p] = "putPrimary" /\ pc'[p] = "done" /\ tag' = ImageOf[p]
      <4>1. Status[p] = "pending" /\ Status'[p] = "ok"
        BY <3>6 DEF Status
      <4>2. Wanted' = Wanted /\ Wanted[p] = ImageOf[p]
        BY <3>1, <3>6 DEF Wanted
      <4>3. Atomic!Publish(p)
        BY <2>1, <3>2, <3>6, <4>1, <4>2 DEF Atomic!Publish
      <4>. QED  BY <4>3 DEF Atomic!Next
    <3>. QED  BY <1>2, <2>2, <3>3, <3>4, <3>5, <3>6, Moves
  <2>3. ASSUME NEW r \in late, DeliverLate(r)
        PROVE  [Atomic!Next]_(Atomic!vars)
    <3>1. r.pub \in Publishers /\ pc[r.pub] # "idle"
      BY <1>2 DEF IInv, TypeOK, Requests, LateSafe
    <3>2. Status' = Status /\ Wanted' = Wanted
      BY <2>3 DEF DeliverLate, control, Status, Wanted
    <3>3. CASE r.op = "putPrimary"
      <4>1. Status[r.pub] # "idle" /\ Wanted[r.pub] = ImageOf[r.pub]
        BY <3>1 DEF Status, Wanted
      <4>2. Atomic!Surface(r.pub)
        BY <2>1, <2>3, <3>2, <3>3, <4>1 DEF DeliverLate, Atomic!Surface
      <4>. QED  BY <3>1, <4>2 DEF Atomic!Next
    <3>4. CASE r.op # "putPrimary"
      BY <2>1, <2>3, <3>2, <3>4 DEF DeliverLate, Atomic!vars
    <3>. QED  BY <3>3, <3>4
  <2>4. CASE UNCHANGED vars
    BY <2>1, <2>4 DEF vars, Atomic!vars, Status, Wanted
  <2>. QED  BY <1>2, <2>2, <2>3, <2>4 DEF Next
<1>. QED  BY <1>1, <1>2, Invariance, PTL DEF Spec, ImplementsAtomicPublish, Atomic!Spec

-----------------------------------------------------------------------------
(* publish_registry implements Registry.                                   *)

\* The steps that leave the registry as it is.
LEMMA Quiet ==
  ASSUME NEW p \in Publishers,
         \/ Start(p) \/ Crash(p) \/ PassManifest(p) \/ BlobsDone(p) \/ ReferrersDone(p)
         \/ HeadHit(p) \/ HeadMiss(p) \/ InitBlobUpload(p) \/ Refused(p)
         \/ AuthUnresolved(p) \/ LocalFailure(p)
         \/ Retry(p) \/ ExhaustedByStatus(p) \/ ExhaustedByTransport(p)
  PROVE  UNCHANGED registry
BY DEF Start, Crash, PassManifest, BlobsDone, ReferrersDone, HeadHit, HeadMiss,
       InitBlobUpload, Refused, AuthUnresolved, LocalFailure, Retry,
       ExhaustedByStatus, ExhaustedByTransport

\* A request that changes the registry, in time or late, is a step of Registry.
LEMMA PutIsRegistryStep ==
  ASSUME NEW i \in Images, NEW d,
         \/ /\ d \in ToSet(Blobs(i)) \ ManifestDigests(i)
            /\ blobs' = blobs \cup {d} /\ UNCHANGED <<manifests, tag>>
         \/ /\ d \in ToSet(Referrers(i)) /\ Content(i) \subseteq blobs
            /\ manifests' = manifests \cup {d} /\ UNCHANGED <<blobs, tag>>
         \/ /\ d = Primary(i) /\ Content(i) \subseteq blobs
            /\ ToSet(Referrers(i)) \subseteq manifests
            /\ manifests' = manifests \cup {d} /\ tag' = i /\ UNCHANGED blobs
  PROVE  Reg!Next
<1>1. /\ Reg!ToSet(Reg!Blobs(i)) = ToSet(Blobs(i))
      /\ Reg!ToSet(Reg!Referrers(i)) = ToSet(Referrers(i))
      /\ Reg!Content(i) = Content(i) /\ Reg!Primary(i) = Primary(i)
      /\ Reg!ManifestDigests(i) = ManifestDigests(i)
  BY DEF Reg!ToSet, Reg!Blobs, Reg!Referrers, Reg!Content, Reg!Primary, Reg!ManifestDigests,
         ToSet, Blobs, Referrers, Content, Primary, ManifestDigests
<1>. QED  BY <1>1 DEF Reg!Next, Reg!AddBlob, Reg!AddReferrer, Reg!Commit

\* What a reader of the registry may rely on, whatever happens to publishers and
\* their requests: every content digest precedes the manifests of its image, and
\* every referrer precedes the primary manifest under the tag.
THEOREM RegistryRefinement == Spec => ImplementsRegistry
<1>1. Init => Reg!Init
  BY DEF Init, Reg!Init
<1>2. ASSUME IInv, [Next]_vars
      PROVE  [Reg!Next]_(Reg!vars)
  <2>1. UNCHANGED registry => UNCHANGED Reg!vars
    BY DEF registry, Reg!vars
  <2>2. ASSUME NEW p \in Publishers,
               PutBlobMonolithic(p) \/ PutReferrer(p) \/ PutPrimary(p)
        PROVE  Reg!Next
    <3>1. /\ ImageOf[p] \in Images /\ Progress(p) /\ pos[p] \in Nat \ {0}
          /\ Blobs(ImageOf[p]) \in Seq(Digests) /\ Referrers(ImageOf[p]) \in Seq(Digests)
      BY <1>2, DescriptorTypes DEF IInv, TypeOK
    <3>2. CASE PutBlobMonolithic(p)
      <4>1. Current(p) \in ToSet(Blobs(ImageOf[p])) \ ManifestDigests(ImageOf[p])
        BY <3>1, <3>2 DEF PutBlobMonolithic, Progress, Current, BlobSteps, ToSet
      <4>. QED  BY <3>1, <3>2, <4>1, PutIsRegistryStep DEF PutBlobMonolithic
    <3>3. CASE PutReferrer(p)
      <4>1. Current(p) \in ToSet(Referrers(ImageOf[p])) /\ Content(ImageOf[p]) \subseteq blobs
        BY <3>1, <3>3 DEF PutReferrer, Progress, Current, BlobSteps, ReferrerSteps, ToSet
      <4>. QED  BY <3>1, <3>3, <4>1, PutIsRegistryStep DEF PutReferrer
    <3>4. CASE PutPrimary(p)
      <4>1. /\ Current(p) = Primary(ImageOf[p]) /\ Content(ImageOf[p]) \subseteq blobs
            /\ ToSet(Referrers(ImageOf[p])) \subseteq manifests
        BY <3>1, <3>4 DEF PutPrimary, Progress, Current, BlobSteps, ReferrerSteps
      <4>. QED  BY <3>1, <3>4, <4>1, PutIsRegistryStep DEF PutPrimary
    <3>. QED  BY <2>2, <3>2, <3>3, <3>4
  <2>3. ASSUME NEW r \in late, DeliverLate(r)
        PROVE  Reg!Next
    <3>1. LateSafe(r) /\ r.op \in PutSteps /\ ImageOf[r.pub] \in Images
      BY <1>2, DescriptorTypes DEF IInv, TypeOK, Requests
    <3>. QED  BY <2>3, <3>1, PutIsRegistryStep DEF DeliverLate, LateSafe, PutSteps
  <2>4. CASE UNCHANGED vars
    BY <2>1, <2>4 DEF vars, registry
  <2>5. ASSUME NEW p \in Publishers, Start(p) \/ Work(p) \/ Crash(p)
        PROVE  Reg!Next \/ UNCHANGED Reg!vars
    BY <2>1, <2>2, <2>5, Quiet DEF Work, Answered
  <2>. QED  BY <1>2, <2>3, <2>4, <2>5 DEF Next
<1>. QED  BY <1>1, <1>2, Invariance, PTL DEF Spec, ImplementsRegistry, Reg!Spec
=============================================================================
