---------------------------- MODULE RegistrySink ----------------------------
(***************************************************************************)
(* publish_registry (publish/src/core/registry_sink.rs): publishers push   *)
(* validated images to one repository and one tag of an OCI Distribution   *)
(* registry.  Each publisher pushes the content blobs, then the referrer   *)
(* manifests by digest, then the primary manifest under the tag; every     *)
(* HTTP request is retried up to MAX_RETRIES times.                        *)
(*                                                                         *)
(* A request that gets no usable answer (a transport error, the 60 s       *)
(* timeout, a 5xx of a gateway) may still reach the registry: it was       *)
(* processed and only the answer was lost, or it is processed long after   *)
(* the client moved on.  Such requests wait in `late'.  A process may be   *)
(* killed at any point and publish may be called again.                    *)
(***************************************************************************)
EXTENDS Descriptors

CONSTANTS Publishers,   \* concurrent justoci processes, all pushing to one tag
          NoImage,      \* the tag does not exist
          ImageOf,      \* the image each publisher pushes
          MaxRetries,   \* MAX_RETRIES
          MaxRuns,      \* bound: publish calls of each publisher
          MaxLate,      \* bound: requests in the network with nobody waiting
          Refusals      \* whether the registry may answer 4xx of its own accord

ASSUME PublishersAssumption == ImageOf \in [Publishers -> Images]

ASSUME BoundsAssumption == /\ MaxRetries \in Nat
                           /\ MaxRuns \in [Publishers -> Nat]
                           /\ MaxLate \in Nat
                           /\ Refusals \in BOOLEAN

ASSUME NoImageAssumption == NoImage \notin Images

VARIABLES
  blobs,      \* registry: digests under /blobs/
  manifests,  \* registry: digests under /manifests/
  tag,        \* registry: the image whose manifest the tag points at
  late,       \* requests the registry may yet process
  pc,         \* where each publisher is
  pos,        \* its index in the list it walks, from 1
  attempt,    \* retries of the request it is making
  runs,       \* publish calls it has started
  spent,      \* its upload session has already swallowed one PUT
  pushed,     \* outcome.digests_pushed
  skipped,    \* outcome.digests_skipped
  err,        \* the error its latest call returned, or "none"
  atStart     \* history: what the registry held when the call began

registry  == <<blobs, manifests, tag>>
outcome   == <<pushed, skipped, err>>
control   == <<pc, pos, attempt>>
vars == <<blobs, manifests, tag, late, pc, pos, attempt, runs, spent,
          pushed, skipped, err, atStart>>

BlobSteps     == {"headBlob", "initUpload", "putBlob"}
ReferrerSteps == {"headReferrer", "putReferrer"}
PutSteps      == {"putBlob", "putReferrer", "putPrimary"}

Waiting == BlobSteps \cup ReferrerSteps \cup {"putPrimary"}
Ended   == {"idle", "done", "failed", "crashed"}

\* The requests that change the registry.
Requests == [op : PutSteps, pub : Publishers, run : Nat, digest : Digests,
             attempt : 0..MaxRetries]

Errors == {"none", "Auth", "RegistryRefused", "BlobUpload", "ManifestUpload"}

TypeOK ==
  /\ blobs \subseteq Digests
  /\ manifests \subseteq Digests
  /\ tag \in Images \cup {NoImage}
  /\ late \subseteq Requests
  /\ pc \in [Publishers -> Waiting \cup Ended]
  /\ pos \in [Publishers -> Nat \ {0}]
  /\ attempt \in [Publishers -> 0..MaxRetries]
  /\ runs \in [Publishers -> Nat]
  /\ spent \in [Publishers -> BOOLEAN]
  /\ pushed \in [Publishers -> Seq(Digests)]
  /\ skipped \in [Publishers -> Seq(Digests)]
  /\ err \in [Publishers -> Errors]
  /\ atStart \in [Publishers -> [blobs : SUBSET Digests, manifests : SUBSET Digests]]

Init ==
  /\ blobs = {}
  /\ manifests = {}
  /\ tag = NoImage
  /\ late = {}
  /\ pc = [p \in Publishers |-> "idle"]
  /\ pos = [p \in Publishers |-> 1]
  /\ attempt = [p \in Publishers |-> 0]
  /\ runs = [p \in Publishers |-> 0]
  /\ spent = [p \in Publishers |-> FALSE]
  /\ pushed = [p \in Publishers |-> <<>>]
  /\ skipped = [p \in Publishers |-> <<>>]
  /\ err = [p \in Publishers |-> "none"]
  /\ atStart = [p \in Publishers |-> [blobs |-> {}, manifests |-> {}]]

-----------------------------------------------------------------------------
(* The walk of publish_registry.                                           *)

\* The digest that publisher p is working on.
Current(p) ==
  IF pc[p] \in BlobSteps THEN Blobs(ImageOf[p])[pos[p]]
  ELSE IF pc[p] \in ReferrerSteps THEN Referrers(ImageOf[p])[pos[p]]
  ELSE Primary(ImageOf[p])

\* p goes on to step `next' at index k of its list, with a fresh retry budget.
Goto(p, next, k) == /\ pc' = [pc EXCEPT ![p] = next]
                    /\ pos' = [pos EXCEPT ![p] = k]
                    /\ attempt' = [attempt EXCEPT ![p] = 0]

\* The call returns Err(e).
Abort(p, e) == /\ Goto(p, "failed", 1)
               /\ err' = [err EXCEPT ![p] = e]

\* publish() is called, again after an earlier call ended or its process died.
Start(p) ==
  /\ pc[p] \in Ended
  /\ runs[p] < MaxRuns[p]
  /\ runs' = [runs EXCEPT ![p] = @ + 1]
  /\ pushed' = [pushed EXCEPT ![p] = <<>>]
  /\ skipped' = [skipped EXCEPT ![p] = <<>>]
  /\ err' = [err EXCEPT ![p] = "none"]
  /\ atStart' = [atStart EXCEPT ![p] = [blobs |-> blobs, manifests |-> manifests]]
  /\ Goto(p, "headBlob", 1)
  /\ UNCHANGED <<registry, late, spent>>

\* resolve_auth fails: nothing has been sent.
AuthUnresolved(p) ==
  /\ pc[p] = "headBlob" /\ pos[p] = 1 /\ attempt[p] = 0
  /\ Abort(p, "Auth")
  /\ UNCHANGED <<registry, late, runs, spent, pushed, skipped, atStart>>

\* Step 1 passes over the manifests in referenced_blobs.
PassManifest(p) ==
  /\ pc[p] = "headBlob"
  /\ pos[p] <= Len(Blobs(ImageOf[p]))
  /\ Current(p) \in ManifestDigests(ImageOf[p])
  /\ Goto(p, "headBlob", pos[p] + 1)
  /\ UNCHANGED <<registry, late, runs, spent, outcome, atStart>>

\* Mutant: the commit is taken right after the blobs.
BlobsDoneThenPrimary(p) ==
  /\ pc[p] = "headBlob"
  /\ pos[p] > Len(Blobs(ImageOf[p]))
  /\ Goto(p, "putPrimary", 1)
  /\ UNCHANGED <<registry, late, runs, spent, outcome, atStart>>

BlobsDone(p) ==
  /\ pc[p] = "headBlob"
  /\ pos[p] > Len(Blobs(ImageOf[p]))
  /\ Goto(p, "headReferrer", 1)
  /\ UNCHANGED <<registry, late, runs, spent, outcome, atStart>>

ReferrersDone(p) ==
  /\ pc[p] = "headReferrer"
  /\ pos[p] > Len(Referrers(ImageOf[p]))
  /\ Goto(p, "putPrimary", 1)
  /\ UNCHANGED <<registry, late, runs, spent, outcome, atStart>>

\* p is about to send, or is waiting for the answer to, the request of its pc.
Sending(p) ==
  /\ pc[p] \in Waiting
  /\ pc[p] = "headBlob" => /\ pos[p] <= Len(Blobs(ImageOf[p]))
                           /\ Current(p) \notin ManifestDigests(ImageOf[p])
  /\ pc[p] = "headReferrer" => pos[p] <= Len(Referrers(ImageOf[p]))

-----------------------------------------------------------------------------
(* Requests that are answered.                                             *)

\* Mutant: a digest that is there is passed over and not reported.
HeadHitUnreported(p) ==
  /\ pc[p] \in {"headBlob", "headReferrer"}
  /\ Sending(p)
  /\ Current(p) \in (IF pc[p] = "headBlob" THEN blobs ELSE manifests)
  /\ Goto(p, pc[p], pos[p] + 1)
  /\ UNCHANGED <<registry, late, runs, spent, outcome, atStart>>

\* HEAD says the digest is there: it is skipped.
HeadHit(p) ==
  /\ pc[p] \in {"headBlob", "headReferrer"}
  /\ Sending(p)
  /\ Current(p) \in (IF pc[p] = "headBlob" THEN blobs ELSE manifests)
  /\ skipped' = [skipped EXCEPT ![p] = Append(@, Current(p))]
  /\ Goto(p, pc[p], pos[p] + 1)
  /\ UNCHANGED <<registry, late, runs, spent, pushed, err, atStart>>

\* Mutant: the answer to HEAD is not looked at.
HeadMissAlways(p) ==
  /\ pc[p] \in {"headBlob", "headReferrer"}
  /\ Sending(p)
  /\ Goto(p, IF pc[p] = "headBlob" THEN "initUpload" ELSE "putReferrer", pos[p])
  /\ UNCHANGED <<registry, late, runs, spent, outcome, atStart>>

\* HEAD says 404: a blob needs an upload session, a referrer is PUT.
HeadMiss(p) ==
  /\ pc[p] \in {"headBlob", "headReferrer"}
  /\ Sending(p)
  /\ Current(p) \notin (IF pc[p] = "headBlob" THEN blobs ELSE manifests)
  /\ Goto(p, IF pc[p] = "headBlob" THEN "initUpload" ELSE "putReferrer", pos[p])
  /\ UNCHANGED <<registry, late, runs, spent, outcome, atStart>>

\* POST opens an upload session and returns its Location.
InitBlobUpload(p) ==
  /\ pc[p] = "initUpload"
  /\ spent' = [spent EXCEPT ![p] = FALSE]
  /\ Goto(p, "putBlob", pos[p])
  /\ UNCHANGED <<registry, late, runs, outcome, atStart>>

\* PUT to the session: 201.  A session that an earlier attempt of this PUT
\* closed may answer 201 again, or 404 (Refused below).
PutBlobMonolithic(p) ==
  /\ pc[p] = "putBlob"
  /\ blobs' = blobs \cup {Current(p)}
  /\ pushed' = [pushed EXCEPT ![p] = Append(@, Current(p))]
  /\ Goto(p, "headBlob", pos[p] + 1)
  /\ UNCHANGED <<manifests, tag, late, runs, spent, skipped, err, atStart>>

\* PUT of a referrer manifest under its digest: 201.
PutReferrer(p) ==
  /\ pc[p] = "putReferrer"
  /\ manifests' = manifests \cup {Current(p)}
  /\ pushed' = [pushed EXCEPT ![p] = Append(@, Current(p))]
  /\ Goto(p, "headReferrer", pos[p] + 1)
  /\ UNCHANGED <<blobs, tag, late, runs, spent, skipped, err, atStart>>

\* PUT of the primary manifest under the tag, the commit point: 201.
PutPrimary(p) ==
  /\ pc[p] = "putPrimary"
  /\ manifests' = manifests \cup {Current(p)}
  /\ tag' = ImageOf[p]
  /\ pushed' = [pushed EXCEPT ![p] = Append(@, Current(p))]
  /\ Goto(p, "done", 1)
  /\ UNCHANGED <<blobs, late, runs, spent, skipped, err, atStart>>

\* What put_blob_monolithic and put_manifest make of a 4xx; the other requests
\* report every 4xx as RegistryRefused.
RefusalErrors(step) ==
  IF step \in PutSteps THEN {"Auth", "RegistryRefused"} ELSE {"RegistryRefused"}

\* The registry answers 4xx: of its own accord, or because the upload session
\* of a PUT that is being retried is closed.  HEAD of a referrer manifest takes
\* any status but 200 for "not there".
Refused(p) ==
  /\ Sending(p)
  /\ Refusals \/ (pc[p] = "putBlob" /\ spent[p])
  /\ IF pc[p] = "headReferrer"
     THEN Goto(p, "putReferrer", pos[p]) /\ UNCHANGED err
     ELSE \E e \in RefusalErrors(pc[p]) : Abort(p, e)
  /\ UNCHANGED <<registry, late, runs, spent, pushed, skipped, atStart>>

\* The upload is accepted without a Location header; or the file to PUT cannot
\* be read: a blob is opened again for each attempt, a manifest is read once.
LocalFailure(p) ==
  /\ pc[p] \in PutSteps \cup {"initUpload"}
  /\ pc[p] \in {"putReferrer", "putPrimary"} => attempt[p] = 0
  /\ Abort(p, IF pc[p] \in BlobSteps THEN "BlobUpload" ELSE "ManifestUpload")
  /\ UNCHANGED <<registry, late, runs, spent, pushed, skipped, atStart>>

-----------------------------------------------------------------------------
(* Requests whose answer never comes, and killed processes.                *)

InFlight(p) == [op |-> pc[p], pub |-> p, run |-> runs[p],
                digest |-> Current(p), attempt |-> attempt[p]]

\* A request without an answer is lost, or is left for the registry to process.
LeaveInFlight(p) ==
  \/ UNCHANGED late
  \/ /\ pc[p] \in PutSteps
     /\ Cardinality(late) < MaxLate
     /\ late' = late \cup {InFlight(p)}

\* Mutant: the attempt is not counted.
RetryUncounted(p) ==
  /\ Sending(p)
  /\ attempt[p] < MaxRetries
  /\ LeaveInFlight(p)
  /\ UNCHANGED <<registry, control, runs, spent, outcome, atStart>>

\* A 5xx or a transport error with retries left: sleep_backoff, send it again.
Retry(p) ==
  /\ Sending(p)
  /\ attempt[p] < MaxRetries
  /\ LeaveInFlight(p)
  /\ attempt' = [attempt EXCEPT ![p] = @ + 1]
  /\ UNCHANGED <<registry, pc, pos, runs, spent, outcome, atStart>>

\* Mutant: the status of the last manifest PUT is not looked at.
ExhaustedAsSuccess(p) ==
  /\ Sending(p)
  /\ attempt[p] = MaxRetries
  /\ LeaveInFlight(p)
  /\ IF pc[p] = "headReferrer" THEN Goto(p, "putReferrer", pos[p]) /\ UNCHANGED err
     ELSE IF pc[p] = "putPrimary" THEN Goto(p, "done", 1) /\ UNCHANGED err
     ELSE Abort(p, "RegistryRefused")
  /\ UNCHANGED <<registry, runs, spent, pushed, skipped, atStart>>

\* The last attempt ends in a 5xx: its status is reported, or taken for
\* "not there" by the HEAD of a referrer.
ExhaustedByStatus(p) ==
  /\ Sending(p)
  /\ attempt[p] = MaxRetries
  /\ LeaveInFlight(p)
  /\ IF pc[p] = "headReferrer"
     THEN Goto(p, "putReferrer", pos[p]) /\ UNCHANGED err
     ELSE Abort(p, "RegistryRefused")
  /\ UNCHANGED <<registry, runs, spent, pushed, skipped, atStart>>

\* Mutant: a blob whose upload failed is given up and the walk goes on.
ExhaustedGoesOn(p) ==
  /\ Sending(p)
  /\ attempt[p] = MaxRetries
  /\ LeaveInFlight(p)
  /\ IF pc[p] \in BlobSteps THEN Goto(p, "headBlob", pos[p] + 1) /\ UNCHANGED err
     ELSE Abort(p, "ManifestUpload")
  /\ UNCHANGED <<registry, runs, spent, pushed, skipped, atStart>>

\* The last attempt ends in a transport error.
ExhaustedByTransport(p) ==
  /\ Sending(p)
  /\ attempt[p] = MaxRetries
  /\ LeaveInFlight(p)
  /\ Abort(p, IF pc[p] \in BlobSteps THEN "BlobUpload" ELSE "ManifestUpload")
  /\ UNCHANGED <<registry, runs, spent, pushed, skipped, atStart>>

\* The process dies between two steps or while a request is under way.
Crash(p) ==
  /\ pc[p] \in Waiting
  /\ LeaveInFlight(p)
  /\ Goto(p, "crashed", 1)
  /\ UNCHANGED <<registry, runs, spent, outcome, atStart>>

\* The registry processes a request nobody waits for.
DeliverLate(r) ==
  /\ r \in late
  /\ late' = late \ {r}
  /\ blobs' = IF r.op = "putBlob" THEN blobs \cup {r.digest} ELSE blobs
  /\ manifests' = IF r.op = "putBlob" THEN manifests ELSE manifests \cup {r.digest}
  /\ tag' = IF r.op = "putPrimary" THEN ImageOf[r.pub] ELSE tag
  /\ spent' = [spent EXCEPT ![r.pub] =
                 @ \/ /\ r.op = "putBlob" /\ r.run = runs[r.pub]
                      /\ pc[r.pub] = "putBlob" /\ Current(r.pub) = r.digest]
  /\ UNCHANGED <<control, runs, outcome, atStart>>

-----------------------------------------------------------------------------
Answered(p) == \/ HeadHit(p) \/ HeadMiss(p) \/ InitBlobUpload(p)
               \/ PutBlobMonolithic(p) \/ PutReferrer(p) \/ PutPrimary(p)
               \/ Refused(p)

\* The steps that a running call takes by itself.
Work(p) == \/ PassManifest(p) \/ BlobsDone(p) \/ ReferrersDone(p)
           \/ Answered(p)
           \/ AuthUnresolved(p) \/ LocalFailure(p)
           \/ Retry(p) \/ ExhaustedByStatus(p) \/ ExhaustedByTransport(p)

Next == \/ \E p \in Publishers : Start(p) \/ Work(p) \/ Crash(p)
        \/ \E r \in late : DeliverLate(r)

Spec == Init /\ [][Next]_vars

\* REQUEST_TIMEOUT bounds every request and sleep_backoff every pause, so a call
\* that is not killed keeps taking steps; nothing makes the registry answer well.
Fairness == \A p \in Publishers : WF_vars(Work(p))
FairSpec == Spec /\ Fairness

-----------------------------------------------------------------------------
(* Correctness.                                                            *)

\* Everything that the image's manifests name is in the registry.
Complete(i) == /\ Content(i) \subseteq blobs
               /\ ManifestDigests(i) \subseteq manifests

\* Safety of the commit point: whatever the interleaving of publishers, the
\* faults, the crashes and the late requests, an image that is visible at the
\* tag has every config, layer and referrer manifest in the registry
\* (publish_registry pushes blobs, then referrers, then the primary).
TagComplete == tag # NoImage => Complete(tag)

\* Every manifest the registry holds, also of publishes that never committed,
\* belongs to an image whose content is all there: a verifier that finds a
\* referrer through the referrers API can read what it names.
ManifestsClosed ==
  \A d \in manifests : \E i \in Images : /\ d \in ManifestDigests(i)
                                         /\ Content(i) \subseteq blobs

\* A PublishOutcome is the truth: the call ends with Ok only if each digest of
\* the image is reported as pushed or skipped, all that is reported is in the
\* registry, no content digest is reported twice, and the primary manifest is
\* the last digest pushed.
OutcomeTruthful ==
  \A p \in Publishers : pc[p] = "done" =>
    LET i == ImageOf[p]
        reported == pushed[p] \o skipped[p]
    IN /\ Content(i) \cup ManifestDigests(i) \subseteq ToSet(reported)
       /\ ToSet(reported) \subseteq blobs \cup manifests
       /\ \A j, k \in 1..Len(reported) :
            reported[j] = reported[k] /\ reported[j] \in Content(i) => j = k
       /\ pushed[p] # <<>> /\ pushed[p][Len(pushed[p])] = Primary(i)

\* Resumability: content that an earlier, failed or killed publish left in the
\* registry is not uploaded again.
ResumeSkips ==
  \A p \in Publishers :
    ToSet(pushed[p]) \cap Content(ImageOf[p]) \cap atStart[p].blobs = {}

\* Bounded everything: a publish call that is not killed returns.
CallEnds ==
  \A p \in Publishers : pc[p] \in Waiting ~> pc[p] \in Ended

\* The image that a consumer finds at the tag.
Visible == IF tag # NoImage /\ ~Complete(tag) THEN "incomplete" ELSE tag

\* What each publisher's latest call has reported.
Status == [p \in Publishers |->
             IF pc[p] \in Waiting THEN "pending"
             ELSE IF pc[p] = "done" THEN "ok"
             ELSE IF pc[p] = "idle" THEN "idle" ELSE "failed"]

\* The image each publisher's latest call is for.
Wanted == [p \in Publishers |-> IF pc[p] = "idle" THEN NoImage ELSE ImageOf[p]]

Atomic == INSTANCE AtomicPublish
            WITH visible <- Visible, wanted <- Wanted, status <- Status

\* A consumer never sees a partial image at the tag, success is reported in the
\* step that makes the image visible, and only requested images appear.
ImplementsAtomicPublish == Atomic!Spec

Reg == INSTANCE Registry

\* What the readers of the registry may rely on (module RegistryPull): content
\* comes before the manifests that name it, and referrers before the primary.
ImplementsRegistry == Reg!Spec

\* PublishError::ManifestUpload (api/error.rs): "A failure here means the image
\* stays invisible".  The code reports ManifestUpload after a transport error of
\* the last PUT, which the registry may have processed.
ManifestUploadMeansInvisible ==
  \A p \in Publishers :
    pc[p] = "failed" /\ err[p] = "ManifestUpload" => tag # ImageOf[p]
=============================================================================
