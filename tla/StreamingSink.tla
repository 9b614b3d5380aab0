--------------------------- MODULE StreamingSink ---------------------------
(***************************************************************************)
(* push_artifact_streaming (publish/src/core/streaming_sink.rs): a file is *)
(* pushed as a single-layer image straight from where it lies, under the   *)
(* digest that the caller computed before.  The empty config, the layer,   *)
(* then the manifest under the tag.                                        *)
(*                                                                         *)
(* The registry is shared with other publishers, which keep the promise of *)
(* module Registry, and the file with whoever may edit or remove it during *)
(* the push.  As in RegistrySink, a request without an answer may still be *)
(* processed later, and a process may be killed and called again; unlike   *)
(* there, the config is PUT once, without retries, and any answer to HEAD  *)
(* but 200 means "not there".                                              *)
(***************************************************************************)
EXTENDS Descriptors

CONSTANTS Pushers,      \* processes that stream a file to the tag
          ImageOf,      \* the image each of them makes of its file
          LayerOf,      \* the digest of the file when its caller hashed it
          EmptyConfig,  \* EMPTY_CONFIG_DIGEST
          NoImage,      \* the tag does not exist
          MaxRetries,   \* MAX_RETRIES
          MaxRuns,      \* bound: calls of each pusher
          MaxLate,      \* bound: requests in the network with nobody waiting
          Refusals      \* whether the registry may answer 4xx of its own accord

\* build_manifest_json: what the manifest of a streamed file names.
ASSUME StreamedAssumption ==
  /\ ImageOf \in [Pushers -> Images]
  /\ LayerOf \in [Pushers -> Digests]
  /\ EmptyConfig \in Digests
  /\ \A p \in Pushers : /\ Content(ImageOf[p]) = {EmptyConfig, LayerOf[p]}
                        /\ Referrers(ImageOf[p]) = <<>>

ASSUME StreamBoundsAssumption == /\ MaxRetries \in Nat
                                 /\ MaxRuns \in [Pushers -> Nat]
                                 /\ MaxLate \in Nat
                                 /\ Refusals \in BOOLEAN

ASSUME NoImageAssumption == NoImage \notin Images

VARIABLES
  blobs, manifests, tag,  \* the registry, as in module Registry
  late,       \* requests the registry may yet process
  source,     \* the file against LayerOf: "hashed", "changed" or "missing"
  pc,         \* where each pusher is
  attempt,    \* retries of the request it is making
  runs,       \* calls it has made
  spent,      \* its upload session has already swallowed one PUT
  pushed,     \* outcome.digests_pushed
  skipped,    \* outcome.digests_skipped
  err         \* the error its latest call returned, or "none"

registry == <<blobs, manifests, tag>>
vars == <<registry, late, source, pc, attempt, runs, spent, pushed, skipped, err>>

HeadSteps == {"headConfig", "headLayer"}
InitSteps == {"initConfig", "initLayer"}
PutSteps  == {"putConfig", "putLayer", "putManifest"}
Waiting   == HeadSteps \cup InitSteps \cup PutSteps
Ended     == {"idle", "done", "failed", "crashed"}

Errors == {"none", "Auth", "Io", "RegistryRefused", "BlobUpload", "ManifestUpload"}

Requests == [op : PutSteps, pub : Pushers, run : Nat]

TypeOK ==
  /\ blobs \subseteq Digests
  /\ manifests \subseteq Digests
  /\ tag \in Images \cup {NoImage}
  /\ late \subseteq Requests
  /\ source \in [Pushers -> {"hashed", "changed", "missing"}]
  /\ pc \in [Pushers -> Waiting \cup Ended]
  /\ attempt \in [Pushers -> 0..MaxRetries]
  /\ runs \in [Pushers -> Nat]
  /\ spent \in [Pushers -> BOOLEAN]
  /\ pushed \in [Pushers -> Seq(Digests)]
  /\ skipped \in [Pushers -> Seq(Digests)]
  /\ err \in [Pushers -> Errors]

Init ==
  /\ blobs = {}
  /\ manifests = {}
  /\ tag = NoImage
  /\ late = {}
  /\ source = [p \in Pushers |-> "hashed"]
  /\ pc = [p \in Pushers |-> "idle"]
  /\ attempt = [p \in Pushers |-> 0]
  /\ runs = [p \in Pushers |-> 0]
  /\ spent = [p \in Pushers |-> FALSE]
  /\ pushed = [p \in Pushers |-> <<>>]
  /\ skipped = [p \in Pushers |-> <<>>]
  /\ err = [p \in Pushers |-> "none"]

-----------------------------------------------------------------------------
\* The blob that p is working on, and the step that follows it.
BlobOf(p) == IF pc[p] \in {"headConfig", "initConfig", "putConfig"}
             THEN EmptyConfig ELSE LayerOf[p]

\* Mutant: once the config is there the manifest is PUT.
AfterBlobNoLayer(p) == "putManifest"

AfterBlob(p) == IF pc[p] \in {"headConfig", "putConfig"} THEN "headLayer" ELSE "putManifest"

Goto(p, next) == /\ pc' = [pc EXCEPT ![p] = next]
                 /\ attempt' = [attempt EXCEPT ![p] = 0]

Abort(p, e) == /\ Goto(p, "failed")
               /\ err' = [err EXCEPT ![p] = e]

\* push_artifact_streaming is called, again after a call that failed or died.
Start(p) ==
  /\ pc[p] \in Ended
  /\ runs[p] < MaxRuns[p]
  /\ runs' = [runs EXCEPT ![p] = @ + 1]
  /\ pushed' = [pushed EXCEPT ![p] = <<>>]
  /\ skipped' = [skipped EXCEPT ![p] = <<>>]
  /\ err' = [err EXCEPT ![p] = "none"]
  /\ Goto(p, "headConfig")
  /\ UNCHANGED <<registry, late, source, spent>>

\* build_client or resolve_auth fails: nothing has been sent.
AuthUnresolved(p) ==
  /\ pc[p] = "headConfig" /\ attempt[p] = 0
  /\ Abort(p, "Auth")
  /\ UNCHANGED <<registry, late, source, runs, spent, pushed, skipped>>

\* Mutant: a blob that is there is passed over and not reported.
BlobIsThereUnreported(p) ==
  /\ pc[p] \in HeadSteps
  /\ BlobOf(p) \in blobs
  /\ Goto(p, AfterBlob(p))
  /\ UNCHANGED <<registry, late, source, runs, spent, pushed, skipped, err>>

\* HEAD: 200.
BlobIsThere(p) ==
  /\ pc[p] \in HeadSteps
  /\ BlobOf(p) \in blobs
  /\ skipped' = [skipped EXCEPT ![p] = Append(@, BlobOf(p))]
  /\ Goto(p, AfterBlob(p))
  /\ UNCHANGED <<registry, late, source, runs, spent, pushed, err>>

\* HEAD: anything else: 404, a refusal, or the 5xx of the last attempt.
BlobIsNotThere(p) ==
  /\ pc[p] \in HeadSteps
  /\ BlobOf(p) \notin blobs \/ Refusals \/ attempt[p] = MaxRetries
  /\ Goto(p, IF pc[p] = "headConfig" THEN "initConfig" ELSE "initLayer")
  /\ UNCHANGED <<registry, late, source, runs, spent, pushed, skipped, err>>

\* POST opens an upload session and returns its Location.
InitBlobUpload(p) ==
  /\ pc[p] \in InitSteps
  /\ spent' = [spent EXCEPT ![p] = FALSE]
  /\ Goto(p, IF pc[p] = "initConfig" THEN "putConfig" ELSE "putLayer")
  /\ UNCHANGED <<registry, late, source, runs, pushed, skipped, err>>

\* PUT of a blob: 201.  The registry compares the bytes with the digest, and
\* the file is opened and read anew for each attempt.
PutBlob(p) ==
  /\ pc[p] \in {"putConfig", "putLayer"}
  /\ pc[p] = "putLayer" => source[p] = "hashed"
  /\ blobs' = blobs \cup {BlobOf(p)}
  /\ pushed' = [pushed EXCEPT ![p] = Append(@, BlobOf(p))]
  /\ Goto(p, AfterBlob(p))
  /\ UNCHANGED <<manifests, tag, late, source, runs, spent, skipped, err>>

\* PUT of the manifest under the tag, the commit point: 201.
PutManifest(p) ==
  /\ pc[p] = "putManifest"
  /\ manifests' = manifests \cup {Primary(ImageOf[p])}
  /\ tag' = ImageOf[p]
  /\ pushed' = [pushed EXCEPT ![p] = Append(@, Primary(ImageOf[p]))]
  /\ Goto(p, "done")
  /\ UNCHANGED <<blobs, late, source, runs, spent, skipped, err>>

\* What a step reports when its request is refused or fails for good.
FailureOf(step) == IF step = "putManifest" THEN "ManifestUpload" ELSE "BlobUpload"

\* Mutant: a refused layer is passed over.
RefusedGoesOn(p) ==
  /\ pc[p] \in InitSteps \cup PutSteps
  /\ Refusals \/ (pc[p] = "putLayer" /\ (spent[p] \/ source[p] = "changed"))
  /\ IF pc[p] = "putLayer" THEN Goto(p, "putManifest") /\ UNCHANGED err
     ELSE Abort(p, IF pc[p] \in InitSteps THEN "RegistryRefused" ELSE FailureOf(pc[p]))
  /\ UNCHANGED <<registry, late, source, runs, spent, pushed, skipped>>

\* 4xx: of the registry's own accord, because the session of a retried PUT is
\* closed, or because the file is no longer what was hashed.
Refused(p) ==
  /\ pc[p] \in InitSteps \cup PutSteps
  /\ Refusals \/ (pc[p] = "putLayer" /\ (spent[p] \/ source[p] = "changed"))
  /\ Abort(p, IF pc[p] \in InitSteps THEN "RegistryRefused" ELSE FailureOf(pc[p]))
  /\ UNCHANGED <<registry, late, source, runs, spent, pushed, skipped>>

\* An upload session without a Location, or a file that cannot be opened.
LocalFailure(p) ==
  /\ pc[p] \in InitSteps \/ (pc[p] = "putLayer" /\ source[p] = "missing")
  /\ Abort(p, IF pc[p] = "putLayer" THEN "Io" ELSE "BlobUpload")
  /\ UNCHANGED <<registry, late, source, runs, spent, pushed, skipped>>

-----------------------------------------------------------------------------
(* Requests whose answer never comes, killed processes, edited files.      *)

\* p has sent a request: to PUT a missing file nothing is sent.
Sending(p) == /\ pc[p] \in Waiting
              /\ pc[p] = "putLayer" => source[p] # "missing"

InFlight(p) == [op |-> pc[p], pub |-> p, run |-> runs[p]]

\* A request without an answer is lost, or is left for the registry to process:
\* it will refuse a changed file.
LeaveInFlight(p) ==
  \/ UNCHANGED late
  \/ /\ pc[p] \in PutSteps
     /\ pc[p] = "putLayer" => source[p] = "hashed"
     /\ Cardinality(late) < MaxLate
     /\ late' = late \cup {InFlight(p)}

\* Mutant: the attempt is not counted.
RetryUncounted(p) ==
  /\ Sending(p)
  /\ attempt[p] < MaxRetries
  /\ LeaveInFlight(p)
  /\ UNCHANGED <<registry, source, pc, attempt, runs, spent, pushed, skipped, err>>

\* A 5xx or a transport error with retries left.  The config is not retried.
Retry(p) ==
  /\ Sending(p)
  /\ pc[p] # "putConfig"
  /\ attempt[p] < MaxRetries
  /\ LeaveInFlight(p)
  /\ attempt' = [attempt EXCEPT ![p] = @ + 1]
  /\ UNCHANGED <<registry, source, pc, runs, spent, pushed, skipped, err>>

\* The last attempt fails: a 5xx to POST is reported as a refusal.
Exhausted(p) ==
  /\ Sending(p)
  /\ pc[p] = "putConfig" \/ attempt[p] = MaxRetries
  /\ LeaveInFlight(p)
  /\ \E e \in {FailureOf(pc[p])} \cup (IF pc[p] \in InitSteps THEN {"RegistryRefused"} ELSE {}) :
       Abort(p, e)
  /\ UNCHANGED <<registry, source, runs, spent, pushed, skipped>>

\* The process dies between two steps or while a request is under way.
Crash(p) ==
  /\ pc[p] \in Waiting
  /\ LeaveInFlight(p)
  /\ Goto(p, "crashed")
  /\ UNCHANGED <<registry, source, runs, spent, pushed, skipped, err>>

\* The registry processes a request nobody waits for.
DeliverLate(r) ==
  /\ r \in late
  /\ late' = late \ {r}
  /\ blobs' = IF r.op = "putConfig" THEN blobs \cup {EmptyConfig}
              ELSE IF r.op = "putLayer" THEN blobs \cup {LayerOf[r.pub]} ELSE blobs
  /\ manifests' = IF r.op = "putManifest" THEN manifests \cup {Primary(ImageOf[r.pub])}
                  ELSE manifests
  /\ tag' = IF r.op = "putManifest" THEN ImageOf[r.pub] ELSE tag
  /\ spent' = [spent EXCEPT ![r.pub] =
                 @ \/ /\ r.op = "putLayer" /\ r.run = runs[r.pub]
                      /\ pc[r.pub] = "putLayer"]
  /\ UNCHANGED <<source, pc, attempt, runs, pushed, skipped, err>>

\* Somebody edits the file, removes it or puts it back.
EditSource(p) ==
  /\ \E s \in {"hashed", "changed", "missing"} \ {source[p]} :
       source' = [source EXCEPT ![p] = s]
  /\ UNCHANGED <<registry, late, pc, attempt, runs, spent, pushed, skipped, err>>

Reg == INSTANCE Registry

\* Other publishers, by whatever sink, push their images to the repository.
Elsewhere == /\ Reg!Next
             /\ UNCHANGED <<late, source, pc, attempt, runs, spent, pushed, skipped, err>>

-----------------------------------------------------------------------------
\* The steps that a running call takes by itself.
Work(p) == \/ AuthUnresolved(p)
           \/ BlobIsThere(p) \/ BlobIsNotThere(p) \/ InitBlobUpload(p)
           \/ PutBlob(p) \/ PutManifest(p)
           \/ Refused(p) \/ LocalFailure(p) \/ Retry(p) \/ Exhausted(p)

Next == \/ \E p \in Pushers : Start(p) \/ Work(p) \/ Crash(p) \/ EditSource(p)
        \/ \E r \in late : DeliverLate(r)
        \/ Elsewhere

\* REQUEST_TIMEOUT bounds every request and sleep_backoff every pause.
Fairness == \A p \in Pushers : WF_vars(Work(p))
Spec == Init /\ [][Next]_vars
FairSpec == Spec /\ Fairness

-----------------------------------------------------------------------------
(* Correctness.                                                            *)

Complete(i) == /\ Content(i) \subseteq blobs
               /\ ManifestDigests(i) \subseteq manifests

\* The commit point is safe: the image at the tag is complete, whoever pushed it,
\* although the file may change between any two attempts, the answer to any PUT
\* may be lost and a late one may be processed in a later call.
TagComplete == tag # NoImage => Complete(tag)

\* Streaming promises the other publishers and the readers of the repository
\* what publish_registry does: content comes before the manifest that names it.
ImplementsRegistry == Reg!Spec

\* A PublishOutcome is the truth: Ok reports the config, the layer and the
\* manifest once each and in this order, and they are all in the registry, also
\* when a blob that HEAD did not find was pushed a second time.
OutcomeTruthful ==
  \A p \in Pushers : pc[p] = "done" =>
    LET config == EmptyConfig
        layer == LayerOf[p]
        manifest == Primary(ImageOf[p])
    IN /\ Complete(ImageOf[p])
       /\ \/ pushed[p] = <<config, layer, manifest>> /\ skipped[p] = <<>>
          \/ pushed[p] = <<config, manifest>> /\ skipped[p] = <<layer>>
          \/ pushed[p] = <<layer, manifest>> /\ skipped[p] = <<config>>
          \/ pushed[p] = <<manifest>> /\ skipped[p] = <<config, layer>>

\* A call that is not killed ends, whatever happens to its file and its requests.
CallEnds == \A p \in Pushers : pc[p] \in Waiting ~> pc[p] \in Ended
=============================================================================
