# A TLA+ model of justoci

justoci turns a TOML spec into an OCI image layout, attests it (SLSA provenance,
SBOM, signatures), publishes it to a static directory or an OCI Distribution
registry, and pulls and verifies it. Almost everything it promises is about
state that several processes share and that survives a failure: *no half-written
output directory*, *no partial image at a tag*, *a re-run resumes*, *every
request is bounded*. The rest is about functions that have to agree with each
other: what build attests, verify must find; what publish sends, pull must send;
what a spec hash names, a build must give. Those promises are what this directory
models and checks with TLC. TLAPS proves all of those that are safety properties
for every size of the system and every input.

Source paths below are relative to `src/main/features/`, docs to `docs/`.

## 1. Inventory

| component | state | operations | what makes it correct |
|---|---|---|---|
| **spec** `spec/src/` | none (pure) | parsing and validation, defaults, canonical form and `spec_hash` | a spec that validates builds; the hash pins the image |
| **build** `build/src/saf/build.rs`, `build/src/core/` | `<out>.partial`, `<out>` | `build()`: refuse an existing output, clear a stale partial, store layers, config, manifest, write `oci-layout` and `index.json`, rename; layers by tar walk or verbatim | an `<out>` that exists is a whole image; nothing of an earlier run is in it; the order of `files` does not matter |
| **attest** `attest/src/` | payload blobs in `<out>`, the Rekor log | `attest_with_invoker`: emit documents, sign and record, by cosign, sigstore-rs or justsign | a stored signature has been recorded; verify reads what attest wrote |
| **build command, referrers** `cli/src/cmd/build.rs`, `cli/src/referrers.rs` | referrer manifests and `index.json` in `<out>`; the exit code | `write_referrers_into_image_dir` | the index lists no referrer, or all of them; the exit code tells what is on disk |
| **image directory** `publish/src/api/image_dir.rs` | none (pure) | `ImageDir::open` | accepts exactly well-formed one-artifact layouts; its blob list is the closure of the index, in commit order |
| **http sink** `publish/src/core/http_sink.rs` | the served directory | `publish_http` | `index.json` never names a missing blob |
| **registry sink** `publish/src/core/registry_sink.rs` | upload sessions, the outcome; the registry's blobs, manifests and tag | `publish_registry`: HEAD, POST and PUT with retries | the tag never shows a partial image; the outcome is true; re-runs skip; calls end |
| **streaming sink** `publish/src/core/streaming_sink.rs` | upload sessions, the outcome; the file, read again for each attempt; the registry | `push_artifact_streaming`: config, layer, manifest | as the registry sink, also when the file changes meanwhile |
| **publish contract** `publish/src/saf/publish.rs`, `publish/src/api/` | - | `publish()` | both sinks are one abstract atomic publish |
| **credential providers** `cli/src/registry/credential_provider/`, `cli/src/main.rs`, `cli/src/cmd/` | environment, docker config, Vault (read only) | from the flags of a command to the Authorization header | a provider that is named and broken is an error, never an anonymous request; publish and pull agree |
| **registry wire client** `cli/src/registry/pull.rs`, `auth.rs` | retry loop, bearer cache | `send_with_retry`, the token dance, `cache_bearer` | bounded requests, retries used up before giving in, token reuse, nothing leaks to the realm |
| **registry pull** `cli/src/registry/pull.rs` | a temporary image directory | `execute_pull`: manifest, blobs, referrers, index | what is pulled is one image with its referrers, or an error |
| **verify engine, policy** `cli/src/verify_engine.rs`, `policy.rs` | none (pure over a directory) | the pillar walk, `apply_policy` | no verdict is better than its evidence |
| **cli shell** `cli/src/main.rs`, `cli/src/cmd/` | none | flags and their conflicts, exit codes, `sbom`, `inspect` | `sbom` shows what `verify` judges |
| **reference parser**, **bench** | none | splitting a string; measuring | - |

How they meet:

```
 spec --> build --rename--> <out> <--attest + referrers (in place)
                              |
                       ImageDir::open ------------------+
                        /          \                    |
              publish_http      publish_registry     verify, sbom (also of a pulled directory)
                  |                  |                  ^
            served dir         registry: blobs, --> execute_pull (wire client <- credentials)
                               manifests, tag
                                     ^
                 a file --> push_artifact_streaming
```

Components share state, they do not call each other back: `<out>` is written by
build, then attest, and read by the sinks; a destination is shared by every
publisher that names it; a registry is shared by publishers and pullers.

What is hard here: processes that share a directory or a tag without a lock;
requests whose answer is lost but whose effect is not; a crash or an error
between any two steps followed by a re-run; retry loops with several ways out;
files that are read twice; and two pieces of code, far apart, that have to read
one text alike. `PROJECT.json` lists each hazard at its line with the properties
that cover it.

## 2. Modules

| module | models | state |
|---|---|---|
| `AtomicPublish` | what a consumer of a sink may rely on (abstract) | the visible image, what each publisher wants, what it was told |
| `Descriptors` | what `ImageDir::open` reports of the images that are published | constants |
| `Registry` | a repository as its readers see it while publishers push (abstract) | `blobs`, `manifests`, `tag` |
| `RegistrySink` | `publish_registry` with its registry and network | `blobs`, `manifests`, `tag`, `late` requests; per publisher step, list position, retry, outcome |
| `StreamingSink` | `push_artifact_streaming` in a registry that others push to | the same, and the `source` file |
| `HttpSink` | `publish_http`, POSIX and Windows | destination `files`, `layout`, `index`; per publisher the directory it reads, and the image it opened |
| `ImageDir` | `ImageDir::open` | pure operators over a directory record |
| `SpecBuild` | validation, `spec_hash`, layers, config and manifest | pure operators over a spec and a disk |
| `Signing` | the three signers | pure operators over what a signer meets |
| `BuildOutput` | `justoci build`: build, attest, referrers, exit code | `partial`, `output`, `rekor`, `exit`; per builder step and list position |
| `Attestation` | the documents of attest, the referrers made of them, `justoci sbom` | pure operators; extends `VerifyEngine` |
| `VerifyEngine` | `verify` and `apply_policy` | pure operators over referrers, policy and cosign |
| `Credentials` | flags, environment, Vault and docker config to a header | pure operators over a command and a world |
| `RegistryPull` | `execute_pull` over a `Registry` that changes | the destination's `files`, `layout`, `index`; step, `todo`, `refs`, `seen`, `listed` |
| `WireClient` | `send_with_retry` with the bearer cache | loop variable, `last_err`, `did_dance_this_call`, cached token, what the registry accepts |
| `Stateless` | calls of the five modules of operators, and what their readers deliver to them | `topic` (the part called), `input`, `result` |
| `MCFunctions`, other `MC*` | the instances that TLC runs; `MCFunctions` gives `Stateless` the inputs of `MCImageDir`, `MCVerifyEngine`, `MCCredentials`, `MCSpecBuild` and `MCAttestation` | - |
| `FunctionProofs` | theorems about `Stateless`, and of its operators about any input | - |
| other `*Proofs` | theorems about the module of that name | - |

`RegistrySink` and `HttpSink` instantiate `AtomicPublish` with a refinement
mapping. `RegistrySink` and `StreamingSink` implement `Registry`, and
`StreamingSink` and `RegistryPull` take the steps of `Registry` for their
environment: a push and a pull are checked against everything that publishers can
do to a repository, without their state. `BuildOutput`, `RegistryPull` and
`MCRegistrySink` instantiate `ImageDir`: the first two to say that a directory
opens, the third to tie the descriptors it gives to `RegistrySink` to what `open`
returns for the directories. `BuildOutput` takes the outcomes of its signer from
`Signing`.

**Correspondence.** `map` in `PROJECT.json` gives the lines of every definition.
In short:

* `RegistrySink`: `pc` is the request a publisher is about to send or waits for.
  `HeadHit`/`HeadMiss` are `head_blob` and `head_manifest_by_digest`,
  `InitBlobUpload`, `PutBlobMonolithic` the upload session, `PutReferrer` and
  `PutPrimary` the two uses of `put_manifest`. Each of those functions is a loop
  over the same cases, so the cases are actions: answered, `Refused` (4xx),
  `Retry`, `ExhaustedByStatus` (5xx on the last attempt), `ExhaustedByTransport`.
  They keep their differences: `head_manifest_by_digest` takes every status but
  200 for "not there", only PUTs report 401 as `Auth`, and a blob PUT that is
  retried goes to a session that the first attempt may have closed (`spent`).
  `late` holds requests that got no answer and may yet take effect, also after
  their publisher has failed, died or begun another call. An image is its
  descriptor (`primary`, `referrers`, `blobs`, `content`); bytes, URLs, headers
  and sizes are left out.
* `StreamingSink`: the same shape, with its own differences: HEAD takes every
  status but 200 for "not there", the PUT of the empty config has no second
  attempt, and every attempt to PUT the layer opens the file anew. `source` says
  whether the file still has the bytes its caller hashed, has others (the registry
  refuses them by their digest) or is gone (an error before the request).
  `Elsewhere` are the steps of other publishers.
* `HttpSink`: one action per system call that changes what others see.
  `source` is the directory as it is now, `opened` what `ImageDir::open` listed,
  `read` what the second reading of `index.json` found.
* `ImageDir`: the checks are sequences of errors in the order of the code, and
  `FirstError` is the early return. `SpecBuild` and `Signing` use the same form.
* `SpecBuild`: an `Option` is a set of at most one element. A path is its text
  with the separator that the author wrote; a character of an id is its class. A
  blob stands for its digest, so two blobs have one digest if, and only if, they
  are equal. `Canonical` is what JCS does not tell apart. A directory of the disk
  lists all that is below it, at any depth, in the order of the walk, each with the
  kind that `stat` and `open` find it to be and with whether its name is text:
  `CanWalk` has the errors of `flatten_entry`, `TarError` those of the writer, which
  opens only the entries that stay, and `LayerBlobError` that of a source that does
  not open.
* `BuildOutput`: a directory is the set of its blobs, its `oci-layout` and the
  list in its `index.json`. Digests are content: the same layer of two specs is
  one element. `RemoveOutput` is the operator who removes an old output, which
  `build()` asks for and never does. `before` is history: the output directory
  when the run began.
* `Signing`: the `outcome` is the first failing check of the signer's list, and
  `entry` says whether Rekor has the signature by then: a signer may record and
  still fail.
* `Attestation`: a document is what `verify` and `sbom` read of it. Timestamps,
  tool names and URLs are left out. `SbomOfSpec` is the preview: its format is that
  of `--format` and its scope that of the spec.
* `Credentials`: a flag, a variable or a field is unset, empty, set or a text that
  no header may carry. A credential says who supplied it, and so whether it is
  the one that was asked for.
* `RegistryPull`: one action per request that succeeds and per file written;
  `Stop` is every way to end early. `files` maps a name under `blobs/sha256` to
  the digest of its bytes, or `Corrupt`. Under a tag any manifest of the
  repository may be served (proxies answer with old ones); bytes that do not
  match what was asked for are refused, which ends the pull. `Listings` is the
  referrers API: all referrers of the moment, in any order, perhaps with a
  repetition. `before` is history: the images that were whole when the pull began.
* `VerifyEngine`: a referrer is what the JSON readers find in its manifest and
  payload. `Evidence` is the walk (the last referrer of a class counts), `Report`
  the pillars, `Gates` `apply_policy`; `NoStricter` orders policies by what `verify_policy.md`
  says that they ask for, where a level of 0 and an empty list of formats are no
  gates, and `EmptyGateRefuses` says when the code refuses by one of those two. A
  media type is the set of words that `classify_artifact_type` and `validate_sbom`
  look for in it.
* `WireClient`: one action per way through the body of the loop. Tokens are
  numbered; `valid` is the one the registry accepts, `sent` the one that the
  request at hand carries.

## 3. Runs

| run | instance | shows |
|---|---|---|
| `registry_two_publishers` | 2 publishers, 2 images that share a config, one with a referrer; 1 retry, 1 late request, one publisher called twice (480k states) | `TagComplete`, `ManifestsClosed`, `OutcomeTruthful`, `ResumeSkips`, `ImplementsAtomicPublish`, `ImplementsRegistry` |
| `registry_call_ends` | 1 publisher, the code's 3 retries, twice called, any answers (7.5k states) | `CallEnds` under fairness |
| `registry_manifest_upload` | 1 publisher | **violation** of `ManifestUploadMeansInvisible` |
| `streaming` | 1 file streamed twice to a tag that others push to, too; the code's 3 retries, 2 late requests, the file edited, removed and put back (25k states) | `TagComplete`, `OutcomeTruthful`, `ImplementsRegistry`, `CallEnds` under fairness |
| `http_two_publishers` | 2 publishers, 3 images (one is another's attested form), both platforms, one publisher called twice (74k states) | `ServedComplete`, `OutcomeIsPartition`, `ResumeSkips`, `ImplementsAtomicPublish` |
| `http_live_source` | 1 publisher, its directory attested meanwhile | **violation** of `ServedComplete` |
| `build_restarts` | 1 builder, 3 runs, 2 specs that share a layer, signature and SBOM, any of the three signers (3.4k states) | `OutputOpens`, `ReferrersAllOrNothing`, `OutputHasNoLeftovers`, `SignatureIsRecorded`, `ExitTellsOutput` |
| `build_concurrent` | 2 builders, 1 run each | **violation** of `OutputOpens` |
| `wire_session` | 3 calls, the code's 3 retries, 2 expiries (609 states) | `SendsBounded`, `TransientFailuresAbsorbed`, `TokenSpared`, `RealmGetsCredentials`, `CallEnds` under fairness |
| `wire_panic` | the same | **violation** of `NeverPanics` |
| `registry_pull` | 3 images, two of them attestations of one primary manifest; 2 pulls into one directory, by tag or digest, strict or not (178k states) | `DestOpens`, `BytesMatchNames`, `AttestationsPulled` |
| `functions` | `Stateless` over small inputs, see below (572k calls, about two minutes) | `AcceptsExactly`, `ListIsClosure` (open); `AcceptanceIsBacked`, `PolicyOnlyRestricts`, `OrderIsIrrelevant` (verify); `NothingFallsThrough`, `PublishAndPullAgree` (credentials); `SpecHashPinsBuild`, `TarOrderIrrelevant`, `ValidatedSpecBuilds` (spec); `AttestedImageVerifies`, `SbomsAgree` (attest) |

The inputs of `functions`:

* open: every directory of up to 3 listed manifests over 2 manifest files of all
  shapes and a third referrer, files missing, broken digests. `Open` is compared
  with a reference definition that knows nothing of the order of its checks.
* verify: every list of up to 3 out of 15 referrers (good, bad in one way each,
  beside the point, a statement of a negative level), 27 policies, each compared with
  all of 48 that are no stricter, 3 states of cosign. Among both are policies with
  `level = 0` and with `formats = []`.
* credentials: every value of every flag and variable for the environment and the
  argument providers; for Vault, paths with and without a mount, and every shape
  of a secret; for docker config, every shape of an entry under each key that
  the code looks up, beside entries of other registries, and broken files.
* spec: every pair of specs that differ from one base in one thing each: a value
  written out or left to its default, a path, a value of `[config]`, the layers and
  their number, lists of `files` that clash or not; a disk with files, one that does
  not open, a directory of two levels, one that cannot be listed, a fifo and a
  dangling link, each of these four also two levels below a directory, and a name
  that is not text.
* attest: images of one layer or two, made of a file or of entries; `[attestation]`
  blocks over two levels, builder, format and scope; each signer or none; policies
  that demand each of these, `level = 0` or one of no formats; cosign at work, missing or failing; the referrers in
  different orders.

Every property of a passing run has a mutant in `PROJECT.json`: a slip of one
mapped definition, kept in the module right before it, with which TLC finds that
property violated under that run's own configuration. The type invariants are not
listed in runs, since the proofs below establish them for any instance.

**Bounds.** `MaxRuns` (calls or runs per process), `MaxLate` (requests in the
network with nobody waiting), `MaxCalls`, `MaxExpiries`, `MaxPulls`, and saturating
history counters in `WireClient` (`Many`). Two publishers are what an interleaving
on a shared tag or directory needs; two images with shared content are what makes a
skip of somebody else's blob possible; a second call is what a re-run needs; one
retry per request already separates first, later and last attempt, and one late
request at a time still meets every step of either publisher, in its own call and
in the next. `streaming` has one pusher, but the steps of all others in
`Elsewhere`. `registry_call_ends`, `streaming` and `wire_session` use the code's
own budget of three retries because their questions depend on it. Two pulls let one
meet what another, of another image or cut short, has left. Three referrers are one
of each class, or two of a class and something between them. `MaxRuns = 3` lets a
third build meet what a second one left half removed. `CHECK_DEADLOCK FALSE` is set
where a finite number of calls comes to an end.

**Fairness.** `FairSpec` assumes weak fairness of the steps a running call takes
(`Work`) and nothing else: `REQUEST_TIMEOUT` bounds every request,
`sleep_backoff` bounds every pause, and no step of a call waits for another
process. Nothing is assumed of the registry: it may refuse, fail or stay silent
for ever, and calls still end. Starting a call, crashing, a late delivery, an
expiry, another publisher and a change of the file are never fair.

## 4. Proofs

| module | theorems | for |
|---|---|---|
| `RegistrySinkProofs` | `TypeCorrect`, `TagAlwaysComplete`, `ManifestsAlwaysClosed`, `ResumeAlwaysSkips`, `OutcomeAlwaysTruthful`, `Refinement` (of `AtomicPublish`), `RegistryRefinement` (of `Registry`) | any publishers, images and bounds |
| `StreamingSinkProofs` | `TypeCorrect`, `TagAlwaysComplete`, `OutcomeAlwaysTruthful`, `RegistryRefinement` | any pushers, files, bounds and other publishers |
| `HttpSinkProofs` | `TypeCorrect`, `ServedAlwaysComplete`, `ResumeAlwaysSkips`, `OutcomeAlwaysPartition`, `Refinement` (of `AtomicPublish`) | any publishers, images and bounds; the second and the last for sources that nobody attests meanwhile |
| `ImageDirProofs` | `OpenAcceptsExactly`, `OpenListsClosure` | any directory |
| `BuildOutputProofs` | `TypeCorrect`, `SignedIsRecorded`, `SignatureAlwaysRecorded` | any images, number of builders and of runs |
| | `OutputAlwaysOpens`, `OutputNeverHasLeftovers`, `ReferrersAlwaysAllOrNothing`, `ExitAlwaysTellsOutput` | any images and number of runs, one builder at a time |
| `RegistryPullProofs` | `TypeCorrect`, `AttestationsAlwaysPulled`, `BytesAlwaysMatchNames`, `DestAlwaysOpens` | any repository, publishers and number of pulls |
| `WireClientProofs` | `TypeCorrect`, `SendsAlwaysBounded`, `FailuresAlwaysAbsorbed`, `TokenAlwaysSpared`, `RealmAlwaysGetsCredentials` | any retry budget, number of calls and of expiries |
| `FunctionProofs` | `AcceptsAlwaysExactly`, `ListIsAlwaysClosure` | any set of directories |
| | `AcceptanceIsAlwaysBacked`, `PolicyAlwaysOnlyRestricts`, `OrderIsAlwaysIrrelevant` | any list of referrers, image and policy |
| | `AttestedImageAlwaysVerifies`, `SbomsAlwaysAgree` | any image, `[attestation]` block and signer; referrers in any order, repeated or not |
| | `NothingEverFallsThrough`, `PublishAndPullAlwaysAgree` | any command line, environment, Vault and docker file |
| | `SpecHashAlwaysPinsBuild`, `TarOrderAlwaysIrrelevant`, `ValidatedSpecAlwaysBuilds` | any specs and disk |

Each module about a component with state has an inductive invariant `IInv`, one
lemma per action or group of actions that have the same effect on it, `NextIInv` to
put them together, and the theorems as consequences. Where a property needs much
more than another, it has an invariant of its own beside `IInv`. TLC finds no
violation of any of these invariants on the instance of the component's run.

The parts without state define each property once, over an input and its result
(`OpensExactly`, `Backed`, `NoFallThrough`, ...), and a theorem of `ImageDirProofs` or
`FunctionProofs` proves it of one input (`OpenAcceptsExactly`, `VerifyIsBacked`,
`HeadersAreOwn`, ...). `Stateless` says it of every call: its invariants are what the
run `functions` checks, and the theorems of the table, `Spec => []P`, follow from the
invariant `CallInv` (a call is on one of its inputs, and its result is what the part
computes of it; TLC finds no violation of it either) and from the theorem about one
input. The sets of inputs are parameters, with assumptions on them in the place of
hypotheses. What these theorems say of lists is proved by induction, from a least
counterexample (`MinIsLeast`), as the induction theorems of the library take an operator
and cannot be used.

**Registry sink.** `TagComplete` alone is not inductive: a publisher that is about
to PUT its primary manifest, or a request that is about to be delivered late, could
break it. `IInv` adds

* `Progress(p)`: what p's walk has behind it is in the registry - in step 1
  every entry before `pos` is there or is a manifest of the image; in step 2 the
  content is there and so are the referrers before `pos`; at the commit all of it;
* `LateSafe(r)`: what a late manifest request needs was in the registry when the
  request was first sent;
* `Resumes(p)`: what the call has uploaded was not there when the call began.

All three are monotone in the registry's contents (lemmas `OthersKept`,
`LateKept`), and no action removes a digest, so a step of one publisher cannot
disturb another. The refinement maps every put of the primary to `Publish`, a late
delivery of one to `Surface`, errors and crashes to `Fail`, and everything else to a
stutter; `TagComplete` is what makes `Visible` equal to `tag`. For `Registry`, every
PUT that is processed, in time or late, is `AddBlob`, `AddReferrer` or `Commit`
(lemma `PutIsRegistryStep`, by `Progress` or `LateSafe`), and all other steps
stutter (lemma `Quiet`). What a call has reported keeps pace with its walk
(`Reports`): the digests behind it and no others, each of them in the registry. That
no content digest is reported twice is due to the list having each digest once;
manifests may be in two lists, and the truth claims it of content only.
`RegistryRefinement`, here and below, is what entitles
`RegistryPull` and `StreamingSink` to their environment.

**Streaming sink.** The same argument with two blobs: `Stored(p)` has the config
behind every step after its PUT and both blobs behind the manifest, `LateSafe` the
same for late manifests. A changed file plays no part in it, as the registry takes
only bytes of the digest that it was promised. `Reports` lists what a call can have
reported at each step.

**HTTP sink.** `Behind(p)`: on a POSIX destination files only appear, so the
entries of the list before `pos` are served. `HasImage` says that a running call
has an image, `SameImage` that it commits the image whose list it has walked. That
is where `~LiveSource` comes in: it is the hypothesis of `ServedAlwaysComplete` and
`Refinement`, and `http_live_source` shows that without it they are false. The
accounting (`Accounts`) does without that hypothesis and without POSIX: what is
pushed and what is skipped are disjoint, in the order of the list, and together are
the part of it that the walk has reached.

**Image directory.** `open` stops at the first check that fails, and its checks are
three lists in a row. `NoCheckFails` says that the first error of a list is `none` if,
and only if, no check of it fails; one lemma for each list says what it asks for; and
together they are the reference definition `Publishable`. The list of blobs is a fold of
`Push`, which adds a digest when it is new: so the result has every digest that goes in
(`PushAdds`), each once, and one that comes after others in what is folded comes after
them in the result, whatever was there before (`FoldKeeps`, by induction on what is
folded). Every manifest goes in behind its content, the primary last (`ContentList`,
`OrderIs`). The hypothesis, `IsDirectory`, is what a file system can hold: lists are
lists, a file is in one of the states that reading it can give, and no file has a name
that is not a digest.

**Build.** Four arguments.

* `SInv`, for any number of builders at work in one directory: no signer tells
  `SignedAndRecorded` without an entry in the log (`SignedIsRecorded`), only that
  answer leads to a bundle, and no bundle gets into the output by way of the partial
  directory.
* `IInv`, for one builder at a time (`OneBuilder`; `build_concurrent` shows the
  contrary case). `Staged`: what a builder stages is of its image alone, because it
  has cleared the partial directory. `Promoted`: so is what it has promoted.
  `Extends`: the list that it is about to write to `index.json` follows its
  attestations. `Whole`: the output is of one image with all referrers or none.
* `TInv`, for the same: the output is what the run has found until it makes one where
  there was none, which is what each exit code then tells.
* `OInv`, for the same: what an index names was written before it. `StagedSoFar` and
  `StoredSoFar` follow the lists that a run walks, `Listed` says it of the output,
  and by `OpenAcceptsExactly` such a directory opens (`ListedOpens`).

**Pull.** `Registered`: a primary manifest is in the registry only with the
referrers of one of its images - the publishers' order of pushing, which is
`Registry`. So when a pull asks for the referrers, those of an image that it has
seen (and of every image that was whole before it began, `Known`) are there, and
from then on each is listed or yet to be dealt with (`Gathered`). That the files
match their names is inductive by itself. That the directory opens is `DInv`: a
manifest is listed when what it names has been written (`AtHand`, `Walked`), and
`index.json` is written last, from that list (`Indexed`), also over the files of
pulls that came before. `Walked` is where seen digests matter: a referrer that has
been seen is listed without being pulled, which is sound as long as it was seen as a
manifest.

**Wire client.** `Turns`: every turn of the loop behind the current one was a
failure or the dance. `UsedUp`: so a call that gives in has used up its attempts.
`Tokens`: the cached token is the newest, and every other one has expired.

**Verifier.** A verdict depends on the list of referrers by way of `Evidence`, which
is some referrer of its class if the list has one, and the only one if it has only
one; and `verify` accepts when each of seven checks passes (`AcceptsWhen`). Backing, and
that a weaker policy accepts no less (`StricterAcceptsLess`), go through these checks one
by one, the second with the gates that should ask for nothing as a case of their own
(`EmptyGatesOf`: where `EmptyGateRefuses` holds `verify` refuses, and elsewhere a level
of 0 refuses nothing); that the order does not matter (`OrderDoesNotMatter`) is that two listings have
one `Evidence`. Backing needs a policy that asks for formats (`IsPolicy`): the code
looks for a format in a text that contains the digest of the blob, too, and `sha256`
matches every SBOM.

**Attestation.** The referrers of an image are those of its three documents, of which
there is at most one each (`Attached`), so that what a pillar is judged by is the document
that was attested (`AttestedEvidence`, `AttestedPillars`); then `AttestedReport` and the
four gates are case analyses. For the SBOMs, `ShownIsAttached` finds the referrer that
`sbom` shows first, and the preview has the sources of the image (`PreviewHasSources`),
from which the lists of names are made (`ListedNames`, `EmittedNames`). The preview is
compared in each format that `--format` can ask for, and there is one also when the
image, with `format = "off"`, has no SBOM: that is all the theorem says of that case.

**Credentials.** Each provider gives a refusal or credentials that are its own (`Own`).
For Vault that rests on `ParseBasePath`: the mount is cut at the first `data` of the
path, so that no mount with a `data` in it is asked (`PathParts`); for docker, on the
order of the two keys that are looked up. What the registry's own entries are is the
assumption `IsWorld`: foreign secrets are at other hosts' keys, or at a mount that no
path names.

**Specs.** `CanonicalIsOfOne`: a validated spec without integral floats and backslashes
can be read off its canonical form, field by field (`LayerKept`, `ValueKept`). The order of
`files` is irrelevant because, without a clash, the tar is that of the *set* of entries
that were walked (`LastAtIsWalked`, `TarOfAll`). For a valid spec,
the checks of the build are those of validation (`ValidIsChecked`), but for three: a
source has to open, nothing on the way of the walk may stop it (`CanWalk`), and the
entries that stay must open and have a path that a tar can hold. `ValidSpecBuilds` is
therefore a statement about each of the three ways in which a build ends: with an I/O
error only if a source does not open, with a tar error only if something blocks a list
of `files` (`TarRefuses`), and without an error only if no source and no list had any
such thing, except that an entry that another one replaces is never opened (a
`Clash`).

**Assumed**: the named assumptions of the modules. Most type the constants. TLC
evaluates all of them on the runs of their modules. The others are:

* `ImageDirAssumption` of `Descriptors`: the list covers the content, each digest
  once, which `ListIsAlwaysClosure` proves of `open`; and no config or layer of an image
  is also one of its manifests, which holds of everything build and attest write.
* `ListAssumption` of `HttpSink`: a list is not empty and has no digest twice, which
  `ListIsAlwaysClosure` proves of `open`, too.
* `ManifestAssumption` of `RegistryPull`: descriptors agree with manifests, digests
  are neither the tag nor bytes that match no digest, and no manifest is the config or
  a layer of another. `DestAlwaysOpens` needs the last: of an image with such a layer
  `execute_pull` would list a referrer without what it holds
  (`cli/src/registry/pull.rs:404-411`).
* `StreamedAssumption` of `StreamingSink`: what the manifest of a streamed file names.
* The assumptions of `Stateless` say what the readers of directories, statements,
  specs and command lines deliver. Three of their clauses are more than types: a
  policy does not ask for a format that is a word of the detail itself (`IsPolicy`,
  the hazard at `verify_engine.rs:686`), the referrers of an attested image are those
  that build attaches (`IsAttested`), and the secrets of other registries are where
  this one does not look (`IsWorld`).
* `ImagesAssumption`, `SignatureAssumption` and `ManifestAssumption` of `BuildOutput`:
  an image that is not attested has no attestations; a bundle is of one manifest and
  is no other blob, and a manifest has the digests of what it names in it. Digests are
  content there, so that the contrary would be a collision.

**Only model-checked**: liveness (`CallEnds` in three modules), because fairness and
ENABLED are beyond the prover. Every other property of a passing run has a theorem.
Nothing is proved of the data that recursive readers (JSON, TOML, tar) produce: the
modules have what comes of them.

## 5. Findings

Four runs show a statement of the code or its docs that the code does not keep:

1. `registry_manifest_upload`: `ManifestUpload` is also returned when the last
   PUT timed out but was processed. The image is then visible, while
   `publish/src/api/error.rs:48` says that it stays invisible. (A later call
   repairs the caller's view; the registry's state is sound: `TagComplete`.)
2. `http_live_source`: `publish_http` reads `index.json` twice, and
   `justoci build` attests in place after the directory has appeared. A publish
   in between serves an index with a referrer that was not copied.
3. `build_concurrent`: two builds of one output directory share its `.partial`
   and can promote half an image.
4. `wire_panic`: a bearer challenge on the last attempt of `send_with_retry`,
   after 5xx answers, leaves the loop with no error to return and panics.

Others came up while modelling. The properties state what does hold; where a
property has an exception, its comment names it.

*Verification.*
* A level of 0 and an empty list of formats are gates that refuse. By
  `6-deployment/verify_policy.md:13-15` a level of 0 accepts "any (including absent
  SLSA)", and by lines 38-41 an empty list of formats is no gate; lines 135 and 141 use
  both for a permissive policy, and `6-deployment/integration_guide.md:222` has level 0
  for informational only. `apply_policy` refuses an image without a statement
  (`SlsaMissing`), or with one whose level is negative, under `level = 0`, and every
  image under `formats = []`: with `SbomMissing`, or because its SBOM is of none of no
  formats (`cli/src/verify_engine.rs:620-622,682-694`). `PolicyOnlyRestricts` orders
  policies as the document does and has the exception, of which it says that `verify`
  refuses there; so does `AttestedImageVerifies`.
* sigstore-rs and justsign write bundles of the v0.3 format, and `verify` looks for
  the log index in the legacy place only (`cli/src/verify_engine.rs:727`): the
  signature of a build with the default signer is `Failed`.
  `3-design/cosign_rekor.md:170-188` documents the two formats
  (`AttestedImageVerifies` has the exception).
* The keys `[sign].identity` and `[slsa].builder_id` of
  `6-deployment/verify_policy.md:18-36` are not among those that
  `cli/src/policy.rs:36-105` reads, and are ignored without a word.
* `3-design/cli_surface.md:89-93` has *each* signature, SLSA and SBOM referrer
  validated; `verify` looks at the last of each class (`OrderIsIrrelevant` says when
  that makes no difference), and `sbom` shows the first SBOM (`SbomsAgree` is about
  images that build has attested, which have one). `sbom` also passes over a
  referrer whose type only its layer gives.
* A pull by the digest of a referrer ends well although `ImageDir::open` refuses its
  directory, which the doc of `pull_into_image_dir` does not except (`DestOpens`
  does).

*Credentials.*
* `--auth env` leaves `--registry-token`, `--registry-username` and
  `--registry-password` aside without a word.
* `--no-auth` with an exported `REGISTRY_*` variable is refused as a conflict of
  flags, while `cli/src/main.rs:80-86` and `6-deployment/auth_providers.md:316-319`
  say that it skips the environment.
* A variable that is set but empty is, for a pull, no variable where the other half
  of a pair is unset (`6-deployment/auth_providers.md:51` makes it an error); and
  broken providers end with other exit codes than the 64 of lines 34-40 there.
* With an expired cached token the realm is asked with that token and not with the
  credentials of the chain (`cli/src/registry/pull.rs:862-866`;
  `RealmGetsCredentials` has the exception).

*Specs and builds.*
* A spec is loaded when `fs::metadata` finds its sources
  (`spec/src/core/validate.rs:192`), and the build fails on one that does not open
  (`build/src/core/layer.rs:83`), though `3-design/production_guarantees.md:73` and
  `3-design/spec_v0.md:248` promise of a loaded spec that a source "exists and is
  readable" (`ValidatedSpecBuilds` has the exception).
* `spec_hash` does not tell `1` from `1.0` in `[config]`, nor `a\b` from `a/b`, though
  the images differ (`SpecHashPinsBuild` has both exceptions).
* Two entries of `files` that claim one path of the tar make its order depend on the
  order of the spec (`build/src/core/tar_builder.rs:10-15`; `TarOrderIrrelevant` has
  the exception).
* Special files are refused during the build and not at validation time, as
  `build/src/core/tar_builder.rs:25` has it. Nor does validation look at the files below
  a directory, where
  one that does not open, a dangling link, a directory that cannot be listed or a
  name that is not UTF-8 ends the tar (`build/src/core/tar_builder.rs:135,163-195`;
  `ValidatedSpecBuilds` names all of these).
* `flatten_entry` drops what `read_dir` fails to deliver (`.filter_map(Result::ok)`,
  `build/src/core/tar_builder.rs:159`): a layer can lack files without an error.
* With `[attestation.sbom] format = "off"`, `justoci sbom <spec>` shows a preview all
  the same, by its `--format` (`cli/src/cmd/sbom.rs:77,133-137`), of an SBOM that the
  image will not have; and with the other format in the spec, one of another format than
  the image's (`SbomsAgree` says what the preview has in common with the image).
* `[config]` keys that are lifted to the image config are not in `extra` as well, as
  `build/src/core/oci_assembly.rs:100-103` says, values of lifted keys that are no
  strings are dropped, and the keys `os`, `architecture` and `config` make a config
  with a JSON key twice.
* A second `write_referrers_into_image_dir` appends every referrer again, although its
  comment (`cli/src/referrers.rs:72-76`) calls it idempotent.

*Publishing.*
* Publishing an unchanged image pushes its primary manifest again (`put_manifest` has
  no HEAD for the tag), so the outcome is never all skipped, as
  `publish/src/saf/publish.rs:18` has it; `OutcomeTruthful` states what does hold.

## 6. Not modelled

* **Windows in the claims about `HttpSink`**: its steps are explored, but
  `ServedComplete` and the refinement say nothing of them. The code removes the old
  file before the rename, so there is an interval without `index.json`.
* **Garbage collection in a registry** between a HEAD and the commit: the code has
  no defence, and what may be collected is the registry's affair.
* **Bytes**: compression, digests, syntax of JSON, TOML, references and URLs. Digests
  are names, or the content itself. A spec that is not TOML is one error.
* **Characters of a path below the slash** in the order of a tar, and errors of
  `readdir` in the middle of a directory.
* **Pages of the referrers API**: the code takes the first answer for the whole.
  `Listings` is whole.
* **Partial files** of a pull: no reader looks at them.
* **The protocols of signers** beyond the checks that decide their outcome.
* **Constants of documents**: timestamps, tool names, URLs.
* **Reference parser**: it splits one string and keeps no state. **inspect** and the
  formatting of output; **bench**.

## 7. Plan

Done: the three sinks with their contracts, the image directory, spec and build, the
build protocol with its signers and exit codes, attestation and its readers, the
credentials, the wire client, the pull over a changing registry and the verifier;
proofs of every safety property that a passing run checks.

What is left, in this order:

1. `RegistryPull` and `VerifyEngine` together: the verdict on a pulled directory is
   one that the published image would get. `AttestationsAlwaysPulled` and
   `OrderIsAlwaysIrrelevant` are its two halves.
2. Disagreements that are only noted above, each as a property of its own, first
   those of verification.
3. A registry that collects garbage, once the code has a defence to model.
