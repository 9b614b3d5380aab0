-------------------------- MODULE BuildOutputProofs --------------------------
(***************************************************************************)
(* Proofs about BuildOutput, for any images.  Four arguments:              *)
(*                                                                         *)
(* What is stored is recorded (SInv), for any number of builders at work   *)
(* in one output_dir: only a signer that told "SignedAndRecorded" leads to *)
(* a bundle, none tells it without an entry in the log (SignedIsRecorded), *)
(* and no bundle gets into a directory by way of the partial one.          *)
(*                                                                         *)
(* What output_dir is made of (IInv), for any number of runs of one        *)
(* builder after another, OneBuilder: two at work at a time mix their      *)
(* images; a run shows it.  What the builder stages is of its image alone, *)
(* because it has cleared the partial directory (Staged); so is what it    *)
(* has promoted (Promoted); and the index that it is about to write        *)
(* follows the list of its attestations (Extends).                         *)
(*                                                                         *)
(* What an exit code tells (TInv), for the same: output_dir is what the    *)
(* run has found, until it makes one where there was none (Told).          *)
(*                                                                         *)
(* What a consumer can open (OInv), for the same: whatever an index names  *)
(* has been written before it.  The builder has staged all that its index  *)
(* lists when it promotes it (StagedSoFar), and stored every payload and   *)
(* referrer manifest when it replaces it (StoredSoFar), so that the index  *)
(* of output_dir lists what is there (Listed); and such a directory        *)
(* ImageDir::open accepts, by the theorem of ImageDirProofs.               *)
(***************************************************************************)
EXTENDS BuildOutput, WellFoundedInduction, TLAPS

OneBuilder == \A a, b \in Builders : a = b

\* The blobs of image i and its attestations.
Own(i) == ToSet(i.layers) \cup {i.config, i.manifest, EmptyConfig}
            \cup UNION {{a.payload, a.manifest} : a \in ToSet(i.attestations)}

\* The index of the image, attested.
FullIndex(i) == <<i.manifest>> \o ReferrerManifests(i)

Staged(b) ==
  /\ pc[b] = "create" => partial = NoDir
  /\ pc[b] \in {"layer", "config", "manifest", "layout", "index", "promote"} =>
       partial.files \subseteq Own(image[b])
  /\ pc[b] = "promote" => partial.index = <<image[b].manifest>>

Promoted(b) ==
  pc[b] \in AttestSteps \cup CliSteps =>
    output.files \subseteq Own(image[b]) /\ output.index = <<image[b].manifest>>

Extends(b) ==
  /\ pc[b] = "emptyConfig" => read[b] = <<image[b].manifest>>
  /\ pc[b] = "referrer" =>
       /\ Len(read[b]) = pos[b]
       /\ \A k \in 1..pos[b] : read[b][k] = FullIndex(image[b])[k]
  /\ pc[b] = "rewrite" => read[b] = FullIndex(image[b])

\* Output_dir is of one image, with all its referrers or none.
Whole == output # NoDir =>
           \E i \in Images : /\ output.files \subseteq Own(i)
                             /\ output.index \in {<<i.manifest>>, FullIndex(i)}

IInv == /\ TypeOK
        /\ \A b \in Builders : Staged(b) /\ Promoted(b) /\ Extends(b)
        /\ Whole

-----------------------------------------------------------------------------
(* Images and their lists.                                                 *)

LEMMA ImageTypes ==
  ASSUME NEW i \in Images
  PROVE  /\ i.layers \in Seq(Digests) /\ i.config \in Digests /\ i.manifest \in Digests
         /\ i.attest \in BOOLEAN /\ i.attestations \in Seq(Attestations)
         /\ Len(i.layers) \in Nat /\ Len(i.attestations) \in Nat
         /\ i.layers # <<>> => Len(i.layers) > 0
         /\ i.attestations # <<>> => Len(i.attestations) > 0
BY ImagesAssumption

LEMMA LayerOwned ==
  ASSUME NEW i \in Images, NEW k \in 1..Len(i.layers)
  PROVE  i.layers[k] \in Digests /\ i.layers[k] \in Own(i)
BY ImageTypes DEF Own, ToSet

LEMMA AttestationOwned ==
  ASSUME NEW i \in Images, NEW k \in 1..Len(i.attestations)
  PROVE  LET a == i.attestations[k]
         IN /\ a \in Attestations /\ a.payload \in Digests /\ a.manifest \in Digests
            /\ a.payload \in Own(i) /\ a.manifest \in Own(i)
<1>1. i.attestations[k] \in Attestations /\ i.attestations[k] \in ToSet(i.attestations)
  BY ImageTypes DEF ToSet
<1>. QED  BY <1>1 DEF Own, Attestations

LEMMA FullIndexType ==
  ASSUME NEW i \in Images
  PROVE  /\ FullIndex(i) \in Seq(Digests)
         /\ Len(FullIndex(i)) = Len(i.attestations) + 1
         /\ FullIndex(i)[1] = i.manifest
         /\ \A k \in 1..Len(i.attestations) : FullIndex(i)[k + 1] = i.attestations[k].manifest
<1>1. /\ ReferrerManifests(i) \in Seq(Digests)
      /\ Len(ReferrerManifests(i)) = Len(i.attestations)
      /\ \A k \in 1..Len(i.attestations) : ReferrerManifests(i)[k] = i.attestations[k].manifest
  BY ImageTypes, AttestationOwned DEF ReferrerManifests
<1>. QED  BY <1>1, ImageTypes DEF FullIndex

-----------------------------------------------------------------------------
(* Signing.                                                                *)

\* A set of naturals has a least element, and Min chooses it.
LEMMA MinIsLeast ==
  ASSUME NEW S \in SUBSET Nat, S # {}
  PROVE  Min(S) \in S /\ \A k \in S : Min(S) <= k
<1>. DEFINE R == OpToRel(<, Nat)
<1>1. IsWellFoundedOn(R, Nat)
  BY NatLessThanWellFounded
<1>2. \A x, y \in Nat : <<x, y>> \in R <=> x < y
  BY DEF OpToRel
<1>. HIDE DEF R
<1>3. PICK x \in S : \A y \in S : <<y, x>> \notin R
  BY <1>1, WFMin
<1>4. \A y \in S : x <= y
  <2>1. TAKE y \in S
  <2>2. x \in Nat /\ y \in Nat /\ ~(y < x)
    BY <1>2, <1>3
  <2>. QED  BY <2>2
<1>. QED  BY <1>4 DEF Min

\* If FirstFailing names no check of a list, all of them pass.
LEMMA AllPass ==
  ASSUME NEW checks, FirstFailing(checks) \notin 1..Len(checks)
  PROVE  FirstFailing(checks) = 0 /\ \A j \in 1..Len(checks) : checks[j].ok
<1>. DEFINE I == {j \in 1..Len(checks) : ~checks[j].ok}
<1>1. FirstFailing(checks) = IF I # {} THEN Min(I) ELSE 0
  BY DEF FirstFailing, SelectInSeq
<1>2. I = {}
  <2>. SUFFICES ASSUME I # {} PROVE FALSE
    OBVIOUS
  <2>1. I \in SUBSET Nat
    OBVIOUS
  <2>2. Min(I) \in I
    BY <2>1, MinIsLeast
  <2>. QED  BY <1>1, <2>2
<1>. QED  BY <1>1, <1>2

\* What is told to be signed and recorded has passed each of the checks.
LEMMA SignedPasses ==
  ASSUME NEW signer \in Signers, NEW c \in Circumstances,
         Invoke(signer, c).outcome = "SignedAndRecorded"
  PROVE  /\ FirstFailing(ChecksOf(signer, c)) = 0
         /\ \A j \in 1..Len(ChecksOf(signer, c)) : ChecksOf(signer, c)[j].ok
<1>. DEFINE checks == ChecksOf(signer, c)
            n == FirstFailing(checks)
<1>1. Invoke(signer, c).outcome = IF n = 0 THEN "SignedAndRecorded" ELSE checks[n].otherwise
  BY DEF Invoke
<1>2. \A j \in 1..Len(checks) : checks[j].otherwise # "SignedAndRecorded"
  <2>1. CASE signer = "sigstore-rs"
    BY <2>1 DEF ChecksOf, SigstoreChecks, Check
  <2>2. CASE signer = "cosign-subprocess"
    BY <2>2 DEF ChecksOf, CosignChecks, Check
  <2>3. CASE signer = "justsign"
    BY <2>3 DEF ChecksOf, JustsignChecks, Check
  <2>. QED  BY <2>1, <2>2, <2>3 DEF Signers
<1>. HIDE DEF checks
<1>3. n \notin 1..Len(checks)
  BY <1>1, <1>2
<1>. QED  BY <1>3, AllPass DEF checks

\* No signer tells that Rekor has the signature when it has not.
THEOREM SignedIsRecorded ==
  ASSUME NEW s \in Signings, s.outcome = "SignedAndRecorded"
  PROVE  s.entry
<1>1. PICK signer \in Signers, c \in Circumstances : s = Invoke(signer, c)
  BY DEF Signings
<1>2. /\ FirstFailing(ChecksOf(signer, c)) = 0
      /\ \A j \in 1..Len(ChecksOf(signer, c)) : ChecksOf(signer, c)[j].ok
  BY <1>1, SignedPasses
<1>3. c.bundle # "broken" /\ c.bundle # "noIndex"
  <2>1. CASE signer = "sigstore-rs"
    <3>1. /\ Len(ChecksOf(signer, c)) = 9
          /\ ChecksOf(signer, c)[8].ok => c.bundle # "broken"
          /\ ChecksOf(signer, c)[9].ok => c.bundle # "noIndex"
      BY <2>1 DEF ChecksOf, SigstoreChecks, Check
    <3>. QED  BY <1>2, <3>1
  <2>2. CASE signer = "cosign-subprocess"
    <3>1. /\ Len(ChecksOf(signer, c)) = 7
          /\ ChecksOf(signer, c)[6].ok => c.bundle # "broken"
          /\ ChecksOf(signer, c)[7].ok => c.bundle # "noIndex"
      BY <2>2 DEF ChecksOf, CosignChecks, Check
    <3>. QED  BY <1>2, <3>1
  <2>3. CASE signer = "justsign"
    <3>1. /\ Len(ChecksOf(signer, c)) = 8
          /\ ChecksOf(signer, c)[8].ok => c.bundle # "broken"
          /\ ChecksOf(signer, c)[7].ok => c.bundle # "noIndex"
      BY <2>3 DEF ChecksOf, JustsignChecks, Check
    <3>. QED  BY <1>2, <3>1
  <2>. QED  BY <2>1, <2>2, <2>3 DEF Signers
<1>4. c.rekor = "records"
  BY <1>3 DEF Circumstances
<1>. QED  BY <1>1, <1>2, <1>4 DEF Invoke

-----------------------------------------------------------------------------
(* Steps.                                                                  *)

\* Only b's walk moves, to a program point.
Moved(b) ==
  /\ pc' \in [Builders -> Active \cup Ended] /\ pos' \in [Builders -> Nat \ {0}]
  /\ \A q \in Builders \ {b} : pc'[q] = pc[q] /\ pos'[q] = pos[q]

LEMMA GotoMoves ==
  ASSUME TypeOK, NEW b \in Builders, NEW next \in Active \cup Ended, Goto(b, next)
  PROVE  Moved(b) /\ pc'[b] = next /\ pos'[b] = 1
BY DEF TypeOK, Goto, Moved

LEMMA AdvanceMoves ==
  ASSUME TypeOK, NEW b \in Builders, NEW n \in Nat, NEW next \in Active, Advance(b, n, next)
  PROVE  /\ Moved(b)
         /\ \/ pos[b] < n /\ pos'[b] = pos[b] + 1 /\ pc'[b] = pc[b]
            \/ ~(pos[b] < n) /\ pos'[b] = 1 /\ pc'[b] = next
<1>1. CASE pos[b] < n
  BY <1>1 DEF TypeOK, Advance, Moved
<1>2. CASE ~(pos[b] < n)
  BY <1>2, GotoMoves DEF Advance
<1>. QED  BY <1>1, <1>2

\* b points into the list that it walks.
InList(b) ==
  /\ pc[b] = "layer" => pos[b] <= Len(image[b].layers)
  /\ pc[b] \in {"payload", "bundle", "referrer"} => pos[b] <= Len(image[b].attestations)

Exits == {Running, 0, 1, 2, 3, 64}

LEMMA Typed ==
  ASSUME TypeOK, NEW b \in Builders, Moved(b), InList(b)',
         partial' \in Directory \cup {NoDir}, output' \in Directory \cup {NoDir},
         rekor' \subseteq {i.manifest : i \in Images},
         read' \in [Builders -> Seq(Digests)],
         exit' \in [Builders -> Exits],
         UNCHANGED <<image, runs, before>>
  PROVE  TypeOK'
BY DEF TypeOK, Moved, InList, Exits

-----------------------------------------------------------------------------
(* Types, for any number of builders at a time.                            *)

\* A run that is over, or about to begin: nothing is claimed of its walk.
LEMMA Resting ==
  ASSUME NEW b \in Builders, pc'[b] \in Ended \cup {"spec", "check", "clear"}
  PROVE  Staged(b)' /\ Promoted(b)' /\ Extends(b)' /\ InList(b)'
BY DEF Ended, Staged, Promoted, Extends, InList, AttestSteps, CliSteps

LEMMA ImageOf ==
  ASSUME TypeOK, NEW b \in Builders
  PROVE  image[b] \in Images /\ pos[b] \in Nat \ {0}
BY DEF TypeOK

LEMMA StartTyped ==
  ASSUME TypeOK, NEW b \in Builders, Start(b)
  PROVE  TypeOK' /\ Moved(b) /\ pc'[b] = "spec"
<1>. USE DEF Start
<1>1. Moved(b) /\ pc'[b] = "spec"
  BY GotoMoves DEF Active, SpecSteps
<1>2. /\ image' \in [Builders -> Images] /\ runs' \in [Builders -> Nat]
      /\ exit' \in [Builders -> Exits] /\ read' \in [Builders -> Seq(Digests)]
      /\ before' \in [Builders -> Directory \cup {NoDir}]
      /\ \A q \in Builders \ {b} : image'[q] = image[q]
  BY DEF TypeOK, Exits
<1>3. \A q \in Builders : InList(q)'
  BY <1>1, <1>2, Resting DEF TypeOK, InList, Moved
<1>. QED  BY <1>1, <1>2, <1>3 DEF TypeOK, Moved, InList, Exits

\* What a run that stops in remove_dir_all leaves is a directory, and had been
\* there.
LEMMA LeavePartialType ==
  ASSUME TypeOK, NEW b \in Builders, LeavePartial(b)
  PROVE  /\ partial' \in Directory \cup {NoDir}
         /\ \/ UNCHANGED partial
            \/ pc[b] = "clear" /\ partial # NoDir /\ partial'.files \subseteq partial.files
<1>1. CASE UNCHANGED partial
  BY <1>1 DEF TypeOK
<1>2. ASSUME pc[b] = "clear", partial # NoDir, NEW kept \in SUBSET partial.files,
             partial' \in {[partial EXCEPT !.files = kept],
                          [files |-> kept, layout |-> FALSE, index |-> <<>>]}
      PROVE  partial' \in Directory /\ partial'.files \subseteq partial.files
  <2>1. partial \in Directory /\ kept \subseteq Digests
    BY <1>2 DEF TypeOK, Directory
  <2>2. /\ [partial EXCEPT !.files = kept] \in Directory
        /\ [partial EXCEPT !.files = kept].files = kept
    BY <2>1 DEF Directory
  <2>3. [files |-> kept, layout |-> FALSE, index |-> <<>>] \in Directory
    BY <2>1 DEF Directory
  <2>4. [files |-> kept, layout |-> FALSE, index |-> <<>>].files = kept
    OBVIOUS
  <2>. QED  BY <1>2, <2>2, <2>3, <2>4
<1>. QED  BY <1>1, <1>2 DEF LeavePartial

\* A run that ends without touching output_dir.
LEMMA EndingTyped ==
  ASSUME TypeOK, NEW b \in Builders, Fail(b) \/ Crash(b)
  PROVE  /\ TypeOK' /\ Moved(b) /\ pc'[b] \in {"failed", "crashed"}
         /\ pc[b] \in Active /\ LeavePartial(b)
         /\ UNCHANGED <<output, rekor, image, read, runs, before>>
<1>1. Moved(b) /\ pc'[b] \in {"failed", "crashed"}
  BY GotoMoves DEF Fail, Crash, Exit, Ended
<1>2. /\ UNCHANGED <<output, rekor, image, read, runs, before>>
      /\ LeavePartial(b) /\ pc[b] \in Active
  BY DEF Fail, Crash
<1>3. exit' \in [Builders -> Exits]
  <2>1. exit \in [Builders -> Exits]
    BY DEF TypeOK, Exits
  <2>2. pc[b] \in Active => ExitCode(pc[b]) \in Exits
    BY DEF ExitCode, Exits, Active
  <2>3. CASE Fail(b)
    BY <2>1, <2>2, <2>3 DEF Fail, Exit
  <2>4. CASE Crash(b)
    BY <2>1, <2>4 DEF Crash
  <2>. QED  BY <2>3, <2>4
<1>4. TypeOK'
  BY <1>1, <1>2, <1>3, Typed, Resting, LeavePartialType DEF TypeOK, Ended
<1>. QED  BY <1>1, <1>2, <1>4

LEMMA RemoveTyped ==
  ASSUME TypeOK, RemoveOutput
  PROVE  TypeOK'
BY DEF TypeOK, RemoveOutput

\* The steps before anything is staged.
LEMMA ClearingTyped ==
  ASSUME TypeOK, NEW b \in Builders, LoadSpec(b) \/ CheckOutput(b) \/ ClearPartial(b)
  PROVE  /\ TypeOK' /\ Moved(b) /\ pc'[b] \in Ended \cup {"check", "clear", "create"}
         /\ pc'[b] = "create" => partial' = NoDir
         /\ UNCHANGED <<output, rekor, image, read, runs, before>>
         /\ partial' \in {partial, NoDir}
<1>1. /\ Moved(b) /\ pc'[b] \in Ended \cup {"check", "clear", "create"}
      /\ pc'[b] = "create" => partial' = NoDir
  <2>1. {"check", "clear", "create", "failed"} \subseteq Active \cup Ended
    BY DEF Active, Ended, BuildSteps
  <2>2. CASE LoadSpec(b)
    BY <2>1, <2>2, GotoMoves DEF LoadSpec
  <2>3. CASE CheckOutput(b)
    BY <2>1, <2>3, GotoMoves DEF CheckOutput, Exit, Ended
  <2>4. CASE ClearPartial(b)
    BY <2>1, <2>4, GotoMoves DEF ClearPartial
  <2>. QED  BY <2>2, <2>3, <2>4
<1>2. /\ UNCHANGED <<output, rekor, image, read, runs, before>>
      /\ partial' \in {partial, NoDir}
  BY DEF LoadSpec, CheckOutput, ClearPartial
<1>3. exit' \in [Builders -> Exits]
  BY DEF TypeOK, LoadSpec, CheckOutput, ClearPartial, Exit, ExitCode, SpecSteps,
         BuildSteps, Exits
<1>4. InList(b)'
  BY <1>1, Resting DEF InList
<1>5. TypeOK'
  BY <1>1, <1>2, <1>3, <1>4, Typed DEF TypeOK
<1>. QED  BY <1>1, <1>2, <1>5

LEMMA CreateTyped ==
  ASSUME TypeOK, NEW b \in Builders, CreatePartial(b)
  PROVE  /\ TypeOK' /\ Moved(b) /\ pc'[b] \in {"layer", "config"}
         /\ EmptyDir \in Directory /\ EmptyDir.files = {}
<1>. USE DEF CreatePartial
<1>. DEFINE next == IF image[b].layers = <<>> THEN "config" ELSE "layer"
<1>1. Moved(b) /\ pc'[b] = next /\ pos'[b] = 1
  <2>1. next \in Active \cup Ended
    BY DEF Active, BuildSteps
  <2>. QED  BY <2>1, GotoMoves
<1>2. EmptyDir \in Directory /\ EmptyDir.files = {}
  BY DEF EmptyDir, Directory
<1>3. InList(b)'
  <2>1. image[b].layers # <<>> => 1 <= Len(image[b].layers)
    BY ImageOf, ImageTypes
  <2>. QED  BY <1>1, <2>1 DEF InList
<1>4. partial' \in Directory \cup {NoDir}
  BY <1>2 DEF TypeOK
<1>5. TypeOK'
  BY <1>1, <1>3, <1>4, Typed DEF TypeOK, Exits
<1>. QED  BY <1>1, <1>2, <1>5

\* What assemble_layer and the steps after it add: blobs of b's image that are no
\* attestation.
PlainBlobsOf(i) == ToSet(i.layers) \cup {i.config, i.manifest, EmptyConfig}

\* A blob or a file of b's image goes to the partial directory.
LEMMA StagingTyped ==
  ASSUME TypeOK, NEW b \in Builders,
         AssembleLayer(b) \/ PutConfig(b) \/ PutManifest(b) \/ WriteLayout(b) \/ WriteIndex(b)
  PROVE  /\ TypeOK' /\ Moved(b)
         /\ pc'[b] \in {"layer", "config", "manifest", "layout", "index", "promote"}
         /\ pc'[b] = "promote" => WriteIndex(b)
         /\ UNCHANGED <<output, rekor, image, read, runs, exit, before>>
         /\ partial # NoDir
         /\ partial'.files \subseteq partial.files \cup PlainBlobsOf(image[b])
         /\ WriteIndex(b) => partial'.index = <<image[b].manifest>>
<1>1. image[b] \in Images /\ pos[b] \in Nat \ {0}
  BY ImageOf
<1>2. /\ Moved(b)
      /\ pc'[b] \in {"layer", "config", "manifest", "layout", "index", "promote"}
      /\ pc'[b] = "layer" => pos'[b] <= Len(image[b].layers)
      /\ pc'[b] = "promote" => WriteIndex(b)
  <2>1. {"config", "manifest", "layout", "index", "promote"} \subseteq Active
    BY DEF Active, BuildSteps
  <2>2. CASE AssembleLayer(b)
    BY <1>1, <2>1, <2>2, AdvanceMoves, ImageTypes DEF AssembleLayer
  <2>3. CASE PutConfig(b)
    BY <1>1, <2>1, <2>3, GotoMoves DEF PutConfig
  <2>4. CASE PutManifest(b)
    BY <1>1, <2>1, <2>4, GotoMoves DEF PutManifest
  <2>5. CASE WriteLayout(b)
    BY <1>1, <2>1, <2>5, GotoMoves DEF WriteLayout
  <2>6. CASE WriteIndex(b)
    BY <1>1, <2>1, <2>6, GotoMoves DEF WriteIndex
  <2>. QED  BY <2>2, <2>3, <2>4, <2>5, <2>6
<1>3. UNCHANGED <<output, rekor, image, read, runs, exit, before>> /\ partial # NoDir
  BY DEF AssembleLayer, PutConfig, PutManifest, WriteLayout, WriteIndex, PutPartial
<1>4. partial \in Directory /\ image[b].manifest \in Digests
  BY <1>1, <1>3, ImageTypes DEF TypeOK
<1>5. /\ partial' \in Directory
      /\ partial'.files \subseteq partial.files \cup PlainBlobsOf(image[b])
      /\ WriteIndex(b) => partial'.index = <<image[b].manifest>>
  <2>1. ASSUME NEW d \in Digests \cap PlainBlobsOf(image[b]), PutPartial(d)
        PROVE  /\ partial' \in Directory
               /\ partial'.files \subseteq partial.files \cup PlainBlobsOf(image[b])
    BY <1>4, <2>1 DEF PutPartial, Directory
  <2>2. CASE AssembleLayer(b)
    <3>1. image[b].layers[pos[b]] \in Digests \cap PlainBlobsOf(image[b])
      BY <1>1, <2>2, LayerOwned, ImageTypes DEF AssembleLayer, TypeOK, PlainBlobsOf, ToSet
    <3>. QED  BY <2>1, <2>2, <3>1 DEF AssembleLayer, WriteIndex
  <2>3. CASE PutConfig(b)
    BY <1>1, <2>1, <2>3, ImageTypes DEF PutConfig, WriteIndex, PlainBlobsOf
  <2>4. CASE PutManifest(b)
    BY <1>1, <2>1, <2>4, ImageTypes DEF PutManifest, WriteIndex, PlainBlobsOf
  <2>5. CASE WriteLayout(b)
    <3>1. partial' = [partial EXCEPT !.layout = TRUE] /\ ~WriteIndex(b)
      BY <2>5 DEF WriteLayout, WriteIndex
    <3>2. [partial EXCEPT !.layout = TRUE] \in Directory
      BY <1>4 DEF Directory
    <3>3. [partial EXCEPT !.layout = TRUE].files = partial.files
      BY <1>4 DEF Directory
    <3>. QED  BY <3>1, <3>2, <3>3
  <2>6. CASE WriteIndex(b)
    <3>1. partial' = [partial EXCEPT !.index = <<image[b].manifest>>]
      BY <2>6 DEF WriteIndex
    <3>2. <<image[b].manifest>> \in Seq(Digests)
      BY <1>4
    <3>3. partial' \in Directory
      BY <1>4, <3>1, <3>2 DEF Directory
    <3>4. partial'.files = partial.files /\ partial'.index = <<image[b].manifest>>
      BY <1>4, <3>1 DEF Directory
    <3>. QED  BY <3>3, <3>4
  <2>. QED  BY <2>2, <2>3, <2>4, <2>5, <2>6
<1>6. InList(b)'
  BY <1>2, <1>3 DEF InList
<1>7. TypeOK'
  BY <1>2, <1>3, <1>5, <1>6, Typed DEF TypeOK, Exits
<1>. QED  BY <1>2, <1>3, <1>5, <1>7

LEMMA PromoteTyped ==
  ASSUME TypeOK, NEW b \in Builders, Promote(b)
  PROVE  /\ TypeOK' /\ Moved(b)
         /\ \/ image[b].attest /\ pc'[b] = "openCas" /\ UNCHANGED exit
            \/ ~image[b].attest /\ pc'[b] = "done" /\ exit'[b] = 0
<1>. USE DEF Promote
<1>1. image[b] \in Images
  BY ImageOf
<1>2. /\ Moved(b) /\ exit' \in [Builders -> Exits]
      /\ \/ image[b].attest /\ pc'[b] = "openCas" /\ UNCHANGED exit
         \/ ~image[b].attest /\ pc'[b] = "done" /\ exit'[b] = 0
  <2>1. {"openCas", "done"} \subseteq Active \cup Ended
    BY DEF Active, Ended, CliSteps
  <2>2. CASE image[b].attest
    BY <1>1, <2>1, <2>2, GotoMoves DEF AfterBuild, TypeOK, Exits
  <2>3. CASE ~image[b].attest
    <3>1. Goto(b, "done") /\ exit' = [exit EXCEPT ![b] = 0]
      BY <2>3 DEF AfterBuild, Exit
    <3>2. exit' \in [Builders -> Exits] /\ exit'[b] = 0
      BY <3>1 DEF TypeOK, Exits
    <3>. QED  BY <2>1, <2>3, <3>1, <3>2, GotoMoves
  <2>. QED  BY <2>2, <2>3
<1>3. InList(b)'
  BY <1>2 DEF InList
<1>4. TypeOK'
  BY <1>1, <1>2, <1>3, Typed DEF TypeOK
<1>. QED  BY <1>2, <1>4

\* A blob goes to output_dir.
LEMMA PutOutputType ==
  ASSUME TypeOK, NEW d \in Digests, PutOutput(d)
  PROVE  /\ output # NoDir /\ output' \in Directory
         /\ output'.files = output.files \cup {d}
         /\ output'.index = output.index /\ output'.layout = output.layout
<1>1. output \in Directory /\ output' = [output EXCEPT !.files = @ \cup {d}] /\ output # NoDir
  BY DEF TypeOK, PutOutput
<1>2. output' \in Directory
  BY <1>1 DEF Directory
<1>3. /\ output'.files = output.files \cup {d}
      /\ output'.index = output.index /\ output'.layout = output.layout
  BY <1>1 DEF Directory
<1>. QED  BY <1>1, <1>2, <1>3

\* The attestation that b is at.
LEMMA AtAttestation ==
  ASSUME TypeOK, NEW b \in Builders, pc[b] \in {"payload", "bundle", "referrer"}
  PROVE  /\ image[b] \in Images /\ pos[b] \in 1..Len(image[b].attestations)
         /\ Attestation(b) \in ToSet(image[b].attestations)
         /\ Attestation(b).payload \in Digests \cap Own(image[b])
         /\ Attestation(b).manifest \in Digests \cap Own(image[b])
         /\ Attestation(b).manifest = image[b].attestations[pos[b]].manifest
<1>1. /\ image[b] \in Images /\ pos[b] \in Nat \ {0}
      /\ pos[b] <= Len(image[b].attestations)
  BY ImageOf DEF TypeOK
<1>2. pos[b] \in 1..Len(image[b].attestations)
  BY <1>1, ImageTypes
<1>3. Attestation(b) \in ToSet(image[b].attestations)
  BY <1>1, <1>2, ImageTypes DEF ToSet, Attestation
<1>. QED  BY <1>1, <1>2, <1>3, AttestationOwned DEF Attestation

LEMMA OpenCasTyped ==
  ASSUME TypeOK, NEW b \in Builders, OpenCas(b)
  PROVE  /\ TypeOK' /\ Moved(b) /\ pos'[b] = 1
         /\ pc'[b] = IF image[b].attestations = <<>> THEN "readIndex" ELSE "payload"
<1>. USE DEF OpenCas
<1>. DEFINE next == IF image[b].attestations = <<>> THEN "readIndex" ELSE "payload"
<1>1. /\ image[b] \in Images /\ Len(image[b].attestations) \in Nat
      /\ image[b].attestations # <<>> => 1 <= Len(image[b].attestations)
  BY ImageOf, ImageTypes
<1>2. Moved(b) /\ pc'[b] = next /\ pos'[b] = 1
  <2>1. Goto(b, next) /\ next \in Active \cup Ended
    BY DEF IfAny, Active, AttestSteps, CliSteps
  <2>. QED  BY <2>1, GotoMoves
<1>3. InList(b)'
  BY <1>1, <1>2 DEF InList
<1>. QED  BY <1>2, <1>3, Typed DEF TypeOK, Exits

LEMMA EmitPayloadTyped ==
  ASSUME TypeOK, NEW b \in Builders, EmitPayload(b)
  PROVE  /\ TypeOK' /\ Moved(b)
         /\ \/ /\ pos[b] < Len(image[b].attestations)
               /\ pos'[b] = pos[b] + 1 /\ pc'[b] = "payload"
            \/ pos[b] = Len(image[b].attestations) /\ pc'[b] = "readIndex"
<1>. USE DEF EmitPayload
<1>1. /\ Attestation(b).payload \in Digests /\ pos[b] \in 1..Len(image[b].attestations)
      /\ image[b] \in Images /\ Len(image[b].attestations) \in Nat
  BY AtAttestation, ImageTypes
<1>2. /\ Moved(b)
      /\ \/ pos[b] < Len(image[b].attestations) /\ pos'[b] = pos[b] + 1 /\ pc'[b] = "payload"
         \/ ~(pos[b] < Len(image[b].attestations)) /\ pc'[b] = "readIndex"
  BY <1>1, AdvanceMoves DEF Active, CliSteps
<1>3. InList(b)'
  BY <1>1, <1>2 DEF InList
<1>4. output' \in Directory
  BY <1>1, PutOutputType
<1>5. TypeOK'
  BY <1>2, <1>3, <1>4, Typed DEF TypeOK, Exits
<1>. QED  BY <1>1, <1>2, <1>5

LEMMA SignTyped ==
  ASSUME TypeOK, NEW b \in Builders, Sign(b)
  PROVE  /\ TypeOK' /\ Moved(b) /\ rekor \subseteq rekor'
         /\ \/ pc'[b] = "failed" /\ exit'[b] = 3
            \/ /\ pc'[b] = "bundle" /\ pos'[b] = pos[b] /\ UNCHANGED exit
               /\ image[b].manifest \in rekor'
<1>. USE DEF Sign
<1>1. image[b] \in Images /\ pos[b] \in Nat \ {0} /\ pos[b] <= Len(image[b].attestations)
  BY ImageOf DEF TypeOK
<1>2. PICK s \in Signings :
        /\ rekor' = IF s.entry THEN rekor \cup {image[b].manifest} ELSE rekor
        /\ IF s.outcome = "SignedAndRecorded"
           THEN pc' = [pc EXCEPT ![b] = "bundle"] /\ UNCHANGED <<pos, exit>>
           ELSE Exit(b, "failed", ExitCode("payload"))
  OBVIOUS
<1>3. rekor' \subseteq {i.manifest : i \in Images} /\ rekor \subseteq rekor'
  BY <1>1, <1>2 DEF TypeOK
<1>4. CASE s.outcome = "SignedAndRecorded"
  <2>1. pc' = [pc EXCEPT ![b] = "bundle"] /\ UNCHANGED <<pos, exit>>
    BY <1>2, <1>4
  <2>2. Moved(b) /\ pc'[b] = "bundle" /\ pos'[b] = pos[b]
    BY <2>1 DEF TypeOK, Moved, Active, AttestSteps
  <2>3. image[b].manifest \in rekor'
    BY <1>2, <1>4, SignedIsRecorded
  <2>4. InList(b)'
    BY <1>1, <2>2 DEF InList
  <2>5. TypeOK'
    BY <1>3, <2>1, <2>2, <2>4, Typed DEF TypeOK, Exits
  <2>. QED  BY <1>3, <2>1, <2>2, <2>3, <2>5
<1>5. CASE s.outcome # "SignedAndRecorded"
  <2>1. Goto(b, "failed") /\ exit' = [exit EXCEPT ![b] = 3] /\ "failed" \in Active \cup Ended
    BY <1>2, <1>5 DEF Exit, ExitCode, SpecSteps, BuildSteps, AttestSteps, CliSteps, Ended
  <2>2. Moved(b) /\ pc'[b] = "failed"
    BY <2>1, GotoMoves
  <2>3. exit' \in [Builders -> Exits] /\ exit'[b] = 3
    BY <2>1 DEF TypeOK, Exits
  <2>4. InList(b)'
    BY <2>2, Resting DEF Ended
  <2>5. TypeOK'
    BY <1>3, <2>2, <2>3, <2>4, Typed DEF TypeOK
  <2>. QED  BY <1>3, <2>2, <2>3, <2>5
<1>. QED  BY <1>4, <1>5

LEMMA StoreBundleTyped ==
  ASSUME TypeOK, NEW b \in Builders, StoreBundle(b)
  PROVE  /\ TypeOK' /\ Moved(b)
         /\ \/ /\ pos[b] < Len(image[b].attestations)
               /\ pos'[b] = pos[b] + 1 /\ pc'[b] = "payload"
            \/ pos[b] = Len(image[b].attestations) /\ pc'[b] = "readIndex"
<1>. USE DEF StoreBundle
<1>. DEFINE n == Len(image[b].attestations)
<1>1. /\ Attestation(b).payload \in Digests /\ pos[b] \in 1..n
      /\ image[b] \in Images /\ n \in Nat
  BY AtAttestation, ImageTypes
<1>2. /\ Moved(b)
      /\ \/ pos[b] < n /\ pos'[b] = pos[b] + 1 /\ pc'[b] = "payload"
         \/ ~(pos[b] < n) /\ pc'[b] = "readIndex"
  <2>1. CASE pos[b] < n
    <3>1. /\ pc' = [pc EXCEPT ![b] = "payload"]
          /\ pos' = [pos EXCEPT ![b] = pos[b] + 1]
      BY <2>1
    <3>2. /\ pc \in [Builders -> Active \cup Ended]
          /\ pos \in [Builders -> Nat \ {0}]
      BY DEF TypeOK
    <3>3. pos[b] + 1 \in Nat \ {0} /\ "payload" \in Active \cup Ended
      BY <1>1 DEF Active, AttestSteps
    <3>. QED  BY <2>1, <3>1, <3>2, <3>3 DEF Moved
  <2>2. CASE ~(pos[b] < n)
    BY <2>2, GotoMoves DEF Active, CliSteps
  <2>. QED  BY <2>1, <2>2
<1>3. InList(b)'
  BY <1>1, <1>2 DEF InList
<1>4. output' \in Directory
  BY <1>1, PutOutputType
<1>5. TypeOK'
  BY <1>2, <1>3, <1>4, Typed DEF TypeOK, Exits
<1>. QED  BY <1>1, <1>2, <1>5

LEMMA ReadIndexTyped ==
  ASSUME TypeOK, NEW b \in Builders, ReadIndex(b)
  PROVE  /\ TypeOK' /\ Moved(b) /\ pc'[b] = "emptyConfig"
         /\ output \in Directory /\ read'[b] = output.index
<1>. USE DEF ReadIndex
<1>1. output \in Directory
  BY DEF TypeOK
<1>2. Moved(b) /\ pc'[b] = "emptyConfig"
  BY GotoMoves DEF Active, CliSteps
<1>3. read' \in [Builders -> Seq(Digests)] /\ read'[b] = output.index
  BY <1>1 DEF TypeOK, Directory
<1>4. InList(b)'
  BY <1>2 DEF InList
<1>. QED  BY <1>1, <1>2, <1>3, <1>4, Typed DEF TypeOK, Exits

LEMMA EmptyConfigTyped ==
  ASSUME TypeOK, NEW b \in Builders, WriteEmptyConfig(b)
  PROVE  /\ TypeOK' /\ Moved(b) /\ pos'[b] = 1
         /\ pc'[b] = IF image[b].attestations = <<>> THEN "rewrite" ELSE "referrer"
<1>. USE DEF WriteEmptyConfig
<1>. DEFINE next == IF image[b].attestations = <<>> THEN "rewrite" ELSE "referrer"
<1>1. Moved(b) /\ pc'[b] = next /\ pos'[b] = 1
  <2>1. Goto(b, next) /\ next \in Active \cup Ended
    BY DEF IfAny, Active, CliSteps
  <2>. QED  BY <2>1, GotoMoves
<1>2. InList(b)'
  <2>1. image[b].attestations # <<>> => 1 <= Len(image[b].attestations)
    BY ImageOf, ImageTypes
  <2>. QED  BY <1>1, <2>1 DEF InList
<1>3. output' \in Directory
  BY ImagesAssumption, PutOutputType
<1>. QED  BY <1>1, <1>2, <1>3, Typed DEF TypeOK, Exits

LEMMA WriteReferrerTyped ==
  ASSUME TypeOK, NEW b \in Builders, WriteReferrer(b)
  PROVE  /\ TypeOK' /\ Moved(b)
         /\ \/ /\ pos[b] < Len(image[b].attestations)
               /\ pos'[b] = pos[b] + 1 /\ pc'[b] = "referrer"
            \/ pos[b] = Len(image[b].attestations) /\ pc'[b] = "rewrite"
         /\ read'[b] = Append(read[b], Attestation(b).manifest)
<1>. USE DEF WriteReferrer
<1>1. /\ Attestation(b).manifest \in Digests /\ pos[b] \in 1..Len(image[b].attestations)
      /\ image[b] \in Images /\ Len(image[b].attestations) \in Nat
  BY AtAttestation, ImageTypes
<1>2. /\ Moved(b)
      /\ \/ /\ pos[b] < Len(image[b].attestations)
            /\ pos'[b] = pos[b] + 1 /\ pc'[b] = "referrer"
         \/ ~(pos[b] < Len(image[b].attestations)) /\ pc'[b] = "rewrite"
  BY <1>1, AdvanceMoves DEF Active, CliSteps
<1>3. /\ read' \in [Builders -> Seq(Digests)]
      /\ read'[b] = Append(read[b], Attestation(b).manifest)
  BY <1>1 DEF TypeOK
<1>4. InList(b)'
  BY <1>1, <1>2 DEF InList
<1>5. output' \in Directory
  BY <1>1, PutOutputType
<1>6. TypeOK'
  BY <1>2, <1>3, <1>4, <1>5, Typed DEF TypeOK, Exits
<1>. QED  BY <1>1, <1>2, <1>3, <1>6

LEMMA RewriteTyped ==
  ASSUME TypeOK, NEW b \in Builders, RewriteIndex(b)
  PROVE  /\ TypeOK' /\ Moved(b) /\ pc'[b] = "done" /\ exit'[b] = 0
         /\ output'.files = output.files /\ output'.layout = output.layout
         /\ output'.index = read[b]
<1>. USE DEF RewriteIndex
<1>1. output \in Directory /\ read[b] \in Seq(Digests)
  BY DEF TypeOK
<1>2. Moved(b) /\ pc'[b] = "done"
  BY GotoMoves DEF Exit, Ended
<1>3. /\ output' \in Directory /\ output'.files = output.files /\ output'.index = read[b]
      /\ output'.layout = output.layout
  <2>1. output' = [output EXCEPT !.index = read[b]]
    OBVIOUS
  <2>2. output' \in Directory
    BY <1>1, <2>1 DEF Directory
  <2>. QED  BY <1>1, <2>1, <2>2 DEF Directory
<1>4. exit' \in [Builders -> Exits] /\ exit'[b] = 0
  BY DEF Exit, TypeOK, Exits
<1>5. InList(b)'
  BY <1>2, Resting DEF Ended
<1>. QED  BY <1>2, <1>3, <1>4, <1>5, Typed DEF TypeOK

LEMMA InitTyped == Init => TypeOK
BY DEF Init, TypeOK, Ended

LEMMA NextTyped == TypeOK /\ [Next]_vars => TypeOK'
<1>. SUFFICES ASSUME TypeOK, [Next]_vars PROVE TypeOK'
  OBVIOUS
<1>1. CASE UNCHANGED vars
  BY <1>1 DEF vars, TypeOK
<1>2. ASSUME NEW b \in Builders, Start(b) \/ Build(b) \/ Attest(b) \/ Fail(b) \/ Crash(b)
      PROVE  TypeOK'
  BY <1>2, StartTyped, EndingTyped, ClearingTyped, CreateTyped, StagingTyped, PromoteTyped,
     OpenCasTyped, EmitPayloadTyped, SignTyped, StoreBundleTyped, ReadIndexTyped,
     EmptyConfigTyped, WriteReferrerTyped, RewriteTyped
  DEF Build, Attest
<1>. QED  BY <1>1, <1>2, RemoveTyped DEF Next

-----------------------------------------------------------------------------
(* What is stored next to an image is recorded: any number of builders.    *)

\* The blobs that are signature bundles of image i, and of any image.
BundlesOf(i) == {a.payload : a \in {x \in ToSet(i.attestations) : x.kind = "signature"}}
Bundles == UNION {BundlesOf(i) : i \in Images}

\* No bundle is staged; one that is about to be stored has been recorded.
Unsigned == partial # NoDir => partial.files \cap Bundles = {}
Signed(b) == pc[b] = "bundle" =>
               Attestation(b).kind = "signature" /\ image[b].manifest \in rekor

SInv == /\ TypeOK
        /\ Unsigned
        /\ \A b \in Builders : Signed(b)
        /\ SignatureIsRecorded

LEMMA BundleOf ==
  ASSUME NEW i \in Images, NEW d \in BundlesOf(i), NEW j \in Images
  PROVE  /\ d \in Bundles
         /\ d \notin ToSet(j.layers) \cup {j.config, j.manifest, EmptyConfig}
         /\ \A o \in ToSet(j.attestations) :
              /\ o.manifest # d
              /\ o.payload = d => o.kind = "signature" /\ j.manifest = i.manifest
<1>1. PICK a \in ToSet(i.attestations) : a.kind = "signature" /\ a.payload = d
  BY DEF BundlesOf
<1>2. d \in Bundles
  BY DEF Bundles
<1>. QED  BY <1>1, <1>2, SignatureAssumption

\* The property in these terms.
LEMMA RecordedMeans ==
  SignatureIsRecorded <=>
    (output # NoDir =>
       \A i \in Images : output.files \cap BundlesOf(i) # {} => i.manifest \in rekor)
BY DEF SignatureIsRecorded, BundlesOf

\* A blob that is in no bundle's place.
LEMMA PlainBlobs ==
  ASSUME NEW j \in Images
  PROVE  /\ (ToSet(j.layers) \cup {j.config, j.manifest, EmptyConfig}) \cap Bundles = {}
         /\ \A o \in ToSet(j.attestations) :
              o.manifest \notin Bundles /\ (o.kind # "signature" => o.payload \notin Bundles)
<1>1. \A d \in Bundles : \E i \in Images : d \in BundlesOf(i)
  BY DEF Bundles
<1>. QED  BY <1>1, BundleOf

\* A step of b that writes no bundle, and forgets no entry of the log.
LEMMA PlainStep ==
  ASSUME SInv, NEW b \in Builders, TypeOK', UNCHANGED image,
         Moved(b), pc'[b] # "bundle", rekor \subseteq rekor',
         partial' # NoDir => partial'.files \cap Bundles = {},
         output' # NoDir => \/ output # NoDir /\ output'.files \cap Bundles \subseteq output.files
                            \/ output'.files \cap Bundles = {}
  PROVE  SInv'
<1>1. \A q \in Builders : Signed(q)'
  BY DEF SInv, Signed, Moved, Attestation
<1>2. SignatureIsRecorded'
  <2>1. ASSUME output' # NoDir, NEW i \in Images, NEW d \in BundlesOf(i), d \in output'.files
        PROVE  i.manifest \in rekor'
    <3>1. d \in Bundles
      BY BundleOf
    <3>2. output # NoDir /\ d \in output.files
      BY <2>1, <3>1
    <3>. QED  BY <3>2, RecordedMeans DEF SInv
  <2>2. \A i \in Images : output' # NoDir /\ output'.files \cap BundlesOf(i) # {} =>
                            i.manifest \in rekor'
    BY <2>1
  <2>. QED  BY <2>2 DEF SignatureIsRecorded, BundlesOf
<1>. QED  BY <1>1, <1>2 DEF SInv, Unsigned

LEMMA InitSInv == Init => SInv
<1>. SUFFICES ASSUME Init PROVE SInv
  OBVIOUS
<1>1. TypeOK
  BY InitTyped
<1>. QED  BY <1>1 DEF Init, SInv, Unsigned, Signed, SignatureIsRecorded

\* The steps that touch nothing but the partial directory.
LEMMA StagingSigned ==
  ASSUME SInv, NEW b \in Builders,
         \/ LoadSpec(b) \/ CheckOutput(b) \/ ClearPartial(b) \/ CreatePartial(b)
         \/ AssembleLayer(b) \/ PutConfig(b) \/ PutManifest(b) \/ WriteLayout(b) \/ WriteIndex(b)
         \/ Fail(b) \/ Crash(b)
  PROVE  SInv'
<1>1. TypeOK
  BY DEF SInv
<1>2. /\ TypeOK' /\ Moved(b) /\ pc'[b] # "bundle"
      /\ UNCHANGED <<image, output, rekor>>
      /\ partial' # NoDir => partial'.files \cap Bundles = {}
  <2>1. CASE LoadSpec(b) \/ CheckOutput(b) \/ ClearPartial(b)
    BY <1>1, <2>1, ClearingTyped DEF SInv, Unsigned, Ended
  <2>2. CASE CreatePartial(b)
    BY <1>1, <2>2, CreateTyped DEF SInv, Unsigned, CreatePartial
  <2>3. CASE AssembleLayer(b) \/ PutConfig(b) \/ PutManifest(b) \/ WriteLayout(b) \/ WriteIndex(b)
    <3>1. /\ TypeOK' /\ Moved(b) /\ pc'[b] # "bundle" /\ partial # NoDir
          /\ UNCHANGED <<image, output, rekor>>
          /\ partial'.files \subseteq partial.files \cup PlainBlobsOf(image[b])
      BY <1>1, <2>3, StagingTyped
    <3>2. PlainBlobsOf(image[b]) \cap Bundles = {}
      BY <1>1, ImageOf, PlainBlobs DEF PlainBlobsOf
    <3>. QED  BY <3>1, <3>2 DEF SInv, Unsigned
  <2>4. CASE Fail(b) \/ Crash(b)
    BY <1>1, <2>4, EndingTyped, LeavePartialType DEF SInv, Unsigned
  <2>. QED  BY <2>1, <2>2, <2>3, <2>4
<1>. QED  BY <1>2, PlainStep

LEMMA PromoteSigned ==
  ASSUME SInv, NEW b \in Builders, Promote(b)
  PROVE  SInv'
<1>1. TypeOK' /\ Moved(b) /\ pc'[b] # "bundle"
  BY PromoteTyped DEF SInv
<1>2. /\ UNCHANGED <<image, rekor>> /\ output' = partial /\ partial # NoDir /\ partial' = NoDir
  BY DEF Promote
<1>. QED  BY <1>1, <1>2, PlainStep DEF SInv, Unsigned

\* The steps of attest and of the command that store no bundle.
LEMMA DocumentSigned ==
  ASSUME SInv, NEW b \in Builders,
         \/ OpenCas(b) \/ EmitPayload(b) \/ ReadIndex(b) \/ WriteEmptyConfig(b)
         \/ WriteReferrer(b) \/ RewriteIndex(b)
  PROVE  SInv'
<1>1. TypeOK /\ image[b] \in Images
  BY ImageOf DEF SInv
<1>2. UNCHANGED <<image, rekor, partial>>
  BY DEF OpenCas, EmitPayload, ReadIndex, WriteEmptyConfig, WriteReferrer, RewriteIndex
<1>3. TypeOK' /\ Moved(b) /\ pc'[b] # "bundle"
  BY <1>1, OpenCasTyped, EmitPayloadTyped, ReadIndexTyped, EmptyConfigTyped, WriteReferrerTyped,
     RewriteTyped
<1>4. output' # NoDir => output # NoDir /\ output'.files \cap Bundles \subseteq output.files
  <2>1. ASSUME NEW d \in Digests \ Bundles, PutOutput(d)
        PROVE  output # NoDir /\ output'.files \cap Bundles \subseteq output.files
    BY <1>1, <2>1, PutOutputType
  <2>2. CASE OpenCas(b)
    BY <2>2 DEF OpenCas
  <2>3. CASE EmitPayload(b)
    <3>1. Attestation(b).payload \in Digests \ Bundles
      BY <1>1, <2>3, AtAttestation, PlainBlobs DEF EmitPayload
    <3>. QED  BY <2>1, <2>3, <3>1 DEF EmitPayload
  <2>4. CASE ReadIndex(b)
    BY <2>4 DEF ReadIndex
  <2>5. CASE WriteEmptyConfig(b)
    <3>1. EmptyConfig \in Digests \ Bundles
      BY <1>1, ImagesAssumption, PlainBlobs
    <3>. QED  BY <2>1, <2>5, <3>1 DEF WriteEmptyConfig
  <2>6. CASE WriteReferrer(b)
    <3>1. Attestation(b).manifest \in Digests \ Bundles
      BY <1>1, <2>6, AtAttestation, PlainBlobs DEF WriteReferrer
    <3>. QED  BY <2>1, <2>6, <3>1 DEF WriteReferrer
  <2>7. CASE RewriteIndex(b)
    BY <1>1, <2>7, RewriteTyped DEF RewriteIndex
  <2>. QED  BY <2>2, <2>3, <2>4, <2>5, <2>6, <2>7
<1>. QED  BY <1>2, <1>3, <1>4, PlainStep DEF SInv, Unsigned

LEMMA SignSigned ==
  ASSUME SInv, NEW b \in Builders, Sign(b)
  PROVE  SInv'
<1>1. /\ TypeOK' /\ Moved(b) /\ rekor \subseteq rekor'
      /\ \/ pc'[b] = "failed"
         \/ pc'[b] = "bundle" /\ pos'[b] = pos[b] /\ image[b].manifest \in rekor'
  BY SignTyped DEF SInv
<1>2. Attestation(b).kind = "signature" /\ UNCHANGED <<partial, output, image>>
  BY DEF Sign
<1>3. \A q \in Builders : Signed(q)'
  BY <1>1, <1>2 DEF SInv, Signed, Moved, Attestation
<1>4. SignatureIsRecorded'
  BY <1>1, <1>2 DEF SInv, SignatureIsRecorded
<1>. QED  BY <1>1, <1>2, <1>3, <1>4 DEF SInv, Unsigned

\* The bundle that is stored is of an image whose signature has been recorded.
LEMMA StoreBundleSigned ==
  ASSUME SInv, NEW b \in Builders, StoreBundle(b)
  PROVE  SInv'
<1>. DEFINE d == Attestation(b).payload
<1>1. /\ TypeOK /\ TypeOK' /\ Moved(b) /\ pc'[b] # "bundle"
  BY StoreBundleTyped DEF SInv
<1>2. UNCHANGED <<image, rekor, partial>> /\ PutOutput(d) /\ pc[b] = "bundle"
  BY DEF StoreBundle
<1>3. /\ image[b] \in Images /\ Attestation(b) \in ToSet(image[b].attestations) /\ d \in Digests
  BY <1>1, <1>2, AtAttestation
<1>4. image[b].manifest \in rekor
  BY <1>2 DEF SInv, Signed
<1>5. output # NoDir /\ output'.files = output.files \cup {d}
  BY <1>1, <1>2, <1>3, PutOutputType
<1>6. \A q \in Builders : Signed(q)'
  BY <1>1, <1>2 DEF SInv, Signed, Moved, Attestation
<1>7. SignatureIsRecorded'
  <2>1. ASSUME NEW i \in Images, NEW x \in BundlesOf(i), x \in output'.files
        PROVE  i.manifest \in rekor
    <3>1. CASE x = d
      BY <1>3, <1>4, <3>1, BundleOf
    <3>2. CASE x \in output.files
      BY <1>5, <2>1, <3>2, RecordedMeans DEF SInv
    <3>. QED  BY <1>5, <2>1, <3>1, <3>2
  <2>. QED  BY <1>2, <2>1 DEF SignatureIsRecorded, BundlesOf
<1>. QED  BY <1>1, <1>2, <1>6, <1>7 DEF SInv, Unsigned

LEMMA NextSInv == SInv /\ [Next]_vars => SInv'
<1>. SUFFICES ASSUME SInv, [Next]_vars PROVE SInv'
  OBVIOUS
<1>1. TypeOK'
  BY NextTyped DEF SInv
<1>2. CASE UNCHANGED vars
  BY <1>1, <1>2 DEF vars, SInv, Unsigned, Signed, Attestation, SignatureIsRecorded
<1>3. ASSUME NEW b \in Builders, Start(b)
      PROVE  SInv'
  <2>1. Moved(b) /\ pc'[b] # "bundle" /\ UNCHANGED <<partial, output, rekor>>
    BY <1>3, StartTyped DEF SInv, Start
  <2>2. \A q \in Builders \ {b} : image'[q] = image[q]
    BY <1>3 DEF Start, SInv, TypeOK
  <2>3. \A q \in Builders : Signed(q)'
    BY <2>1, <2>2 DEF SInv, Signed, Moved, Attestation
  <2>. QED  BY <1>1, <2>1, <2>3 DEF SInv, Unsigned, SignatureIsRecorded
<1>4. ASSUME NEW b \in Builders, Build(b) \/ Attest(b) \/ Fail(b) \/ Crash(b)
      PROVE  SInv'
  BY <1>4, StagingSigned, PromoteSigned, DocumentSigned, SignSigned, StoreBundleSigned
     DEF Build, Attest
<1>5. CASE RemoveOutput
  BY <1>1, <1>5 DEF RemoveOutput, SInv, Unsigned, Signed, Attestation, SignatureIsRecorded
<1>. QED  BY <1>2, <1>3, <1>4, <1>5 DEF Next

-----------------------------------------------------------------------------
(* What output_dir is made of: one builder at a time.                      *)

LEMMA StepOf ==
  ASSUME OneBuilder, NEW b \in Builders, TypeOK', Staged(b)', Promoted(b)', Extends(b)', Whole'
  PROVE  IInv'
BY DEF IInv, OneBuilder

LEMMA PlainOwned ==
  ASSUME NEW i
  PROVE  PlainBlobsOf(i) \subseteq Own(i)
BY DEF PlainBlobsOf, Own

\* A run begins, or ends without touching output_dir.
LEMMA StartStep ==
  ASSUME IInv, OneBuilder, NEW b \in Builders, Start(b)
  PROVE  IInv'
<1>1. TypeOK' /\ pc'[b] = "spec"
  BY StartTyped DEF IInv
<1>2. Whole'
  BY DEF IInv, Whole, Start
<1>. QED  BY <1>1, <1>2, StepOf, Resting

LEMMA EndingStep ==
  ASSUME IInv, OneBuilder, NEW b \in Builders, Fail(b) \/ Crash(b)
  PROVE  IInv'
<1>1. TypeOK' /\ pc'[b] \in Ended /\ UNCHANGED output
  BY EndingTyped DEF IInv, Ended
<1>2. Whole'
  BY <1>1 DEF IInv, Whole
<1>. QED  BY <1>1, <1>2, StepOf, Resting

\* The operator removes output_dir.
LEMMA RemoveStep ==
  ASSUME IInv, RemoveOutput
  PROVE  IInv'
<1>. USE DEF RemoveOutput
<1>1. TypeOK'
  BY RemoveTyped DEF IInv
<1>2. \A b \in Builders : Staged(b)' /\ Promoted(b)' /\ Extends(b)'
  BY Resting
<1>. QED  BY <1>1, <1>2 DEF IInv, Whole

\* The steps before anything is staged.
LEMMA ClearingStep ==
  ASSUME IInv, OneBuilder, NEW b \in Builders,
         LoadSpec(b) \/ CheckOutput(b) \/ ClearPartial(b)
  PROVE  IInv'
<1>1. /\ TypeOK' /\ pc'[b] \in Ended \cup {"check", "clear", "create"} /\ UNCHANGED output
      /\ pc'[b] = "create" => partial' = NoDir
  BY ClearingTyped DEF IInv
<1>2. Staged(b)' /\ Promoted(b)' /\ Extends(b)'
  BY <1>1, Resting DEF Staged, Promoted, Extends, AttestSteps, CliSteps
<1>3. Whole'
  BY <1>1 DEF IInv, Whole
<1>. QED  BY <1>1, <1>2, <1>3, StepOf

\* The partial directory is new, because the old one has been removed.
LEMMA CreateStep ==
  ASSUME IInv, OneBuilder, NEW b \in Builders, CreatePartial(b)
  PROVE  IInv'
<1>1. TypeOK' /\ pc'[b] \in {"layer", "config"} /\ EmptyDir.files = {}
  BY CreateTyped DEF IInv
<1>2. partial' = EmptyDir /\ UNCHANGED output
  BY DEF IInv, Staged, CreatePartial
<1>3. Staged(b)' /\ Promoted(b)' /\ Extends(b)'
  BY <1>1, <1>2 DEF Staged, Promoted, Extends, AttestSteps, CliSteps
<1>4. Whole'
  BY <1>2 DEF IInv, Whole
<1>. QED  BY <1>1, <1>3, <1>4, StepOf

\* A blob or a file of b's image goes to the partial directory.
LEMMA StagingStep ==
  ASSUME IInv, OneBuilder, NEW b \in Builders,
         AssembleLayer(b) \/ PutConfig(b) \/ PutManifest(b) \/ WriteLayout(b) \/ WriteIndex(b)
  PROVE  IInv'
<1>1. /\ TypeOK'
      /\ pc'[b] \in {"layer", "config", "manifest", "layout", "index", "promote"}
      /\ pc'[b] = "promote" => WriteIndex(b)
      /\ UNCHANGED <<output, image, read>>
      /\ partial'.files \subseteq partial.files \cup PlainBlobsOf(image[b])
      /\ WriteIndex(b) => partial'.index = <<image[b].manifest>>
  BY StagingTyped DEF IInv
<1>2. partial.files \subseteq Own(image[b])
  BY DEF IInv, Staged, AssembleLayer, PutConfig, PutManifest, WriteLayout, WriteIndex
<1>3. Staged(b)'
  BY <1>1, <1>2, PlainOwned DEF Staged
<1>4. Promoted(b)' /\ Extends(b)'
  BY <1>1 DEF Promoted, Extends, AttestSteps, CliSteps
<1>5. Whole'
  BY <1>1 DEF IInv, Whole
<1>. QED  BY <1>1, <1>3, <1>4, <1>5, StepOf

\* The atomic flip: output_dir is what has been staged.
LEMMA PromoteStep ==
  ASSUME IInv, OneBuilder, NEW b \in Builders, Promote(b)
  PROVE  IInv'
<1>1. TypeOK' /\ pc'[b] \in {"openCas", "done"} /\ image[b] \in Images
  BY PromoteTyped, ImageOf DEF IInv
<1>2. /\ output' = partial /\ partial.files \subseteq Own(image[b])
      /\ partial.index = <<image[b].manifest>> /\ UNCHANGED image
  BY DEF IInv, Staged, Promote
<1>3. Staged(b)' /\ Promoted(b)' /\ Extends(b)'
  BY <1>1, <1>2 DEF Staged, Promoted, Extends, AttestSteps, CliSteps
<1>4. Whole'
  BY <1>1, <1>2 DEF Whole
<1>. QED  BY <1>1, <1>3, <1>4, StepOf

\* The index of output_dir has b's primary manifest alone, and b goes on.
LEMMA AttestingStep ==
  ASSUME IInv, OneBuilder, NEW b \in Builders, TypeOK', Extends(b)', UNCHANGED image,
         pc[b] \in AttestSteps \cup CliSteps,
         pc'[b] \in AttestSteps \cup CliSteps \cup Ended,
         \/ UNCHANGED output
         \/ \E d \in Digests \cap Own(image[b]) : PutOutput(d)
  PROVE  IInv'
<1>1. image[b] \in Images /\ TypeOK
  BY ImageOf DEF IInv
<1>2. output.files \subseteq Own(image[b]) /\ output.index = <<image[b].manifest>>
  BY DEF IInv, Promoted
<1>3. Staged(b)'
  BY DEF Staged, AttestSteps, CliSteps, Ended
<1>4. CASE UNCHANGED output
  <2>1. Whole' /\ Promoted(b)'
    BY <1>2, <1>4 DEF IInv, Whole, Promoted
  <2>. QED  BY <1>3, <2>1, StepOf
<1>5. ASSUME NEW d \in Digests \cap Own(image[b]), PutOutput(d)
      PROVE  IInv'
  <2>1. output'.files \subseteq Own(image[b]) /\ output'.index = <<image[b].manifest>>
    BY <1>1, <1>2, <1>5, PutOutputType
  <2>2. Whole' /\ Promoted(b)'
    BY <1>1, <2>1 DEF Whole, Promoted
  <2>. QED  BY <1>3, <2>2, StepOf
<1>. QED  BY <1>4, <1>5

\* Documents and signatures.
LEMMA EmitStep ==
  ASSUME IInv, OneBuilder, NEW b \in Builders,
         OpenCas(b) \/ EmitPayload(b) \/ Sign(b) \/ StoreBundle(b)
  PROVE  IInv'
<1>1. TypeOK /\ pc[b] \in AttestSteps \cup CliSteps /\ UNCHANGED image
  BY DEF IInv, OpenCas, EmitPayload, Sign, StoreBundle, AttestSteps, CliSteps
<1>2. TypeOK' /\ pc'[b] \in {"payload", "bundle", "readIndex", "failed"}
  BY <1>1, OpenCasTyped, EmitPayloadTyped, SignTyped, StoreBundleTyped
<1>3. \/ UNCHANGED output
      \/ \E d \in Digests \cap Own(image[b]) : PutOutput(d)
  <2>1. CASE OpenCas(b) \/ Sign(b)
    BY <2>1 DEF OpenCas, Sign
  <2>2. CASE EmitPayload(b) \/ StoreBundle(b)
    BY <1>1, <2>2, AtAttestation DEF EmitPayload, StoreBundle
  <2>. QED  BY <2>1, <2>2
<1>4. Extends(b)'
  BY <1>2 DEF Extends
<1>. QED  BY <1>1, <1>2, <1>3, <1>4, AttestingStep DEF AttestSteps, CliSteps, Ended

\* index.json is read, and the empty config is written.
LEMMA ReadIndexStep ==
  ASSUME IInv, OneBuilder, NEW b \in Builders, ReadIndex(b)
  PROVE  IInv'
<1>1. TypeOK' /\ pc'[b] = "emptyConfig" /\ read'[b] = output.index
  BY ReadIndexTyped DEF IInv
<1>2. pc[b] \in CliSteps /\ UNCHANGED <<output, image>>
  BY DEF ReadIndex, CliSteps
<1>3. output.index = <<image[b].manifest>>
  BY <1>2 DEF IInv, Promoted
<1>4. Extends(b)'
  BY <1>1, <1>2, <1>3 DEF Extends
<1>. QED  BY <1>1, <1>2, <1>4, AttestingStep DEF CliSteps

LEMMA EmptyConfigStep ==
  ASSUME IInv, OneBuilder, NEW b \in Builders, WriteEmptyConfig(b)
  PROVE  IInv'
<1>1. /\ TypeOK' /\ image[b] \in Images /\ pos'[b] = 1
      /\ pc'[b] = IF image[b].attestations = <<>> THEN "rewrite" ELSE "referrer"
  BY EmptyConfigTyped, ImageOf DEF IInv
<1>2. pc[b] \in CliSteps /\ PutOutput(EmptyConfig) /\ UNCHANGED <<image, read>>
  BY DEF WriteEmptyConfig, CliSteps
<1>3. EmptyConfig \in Digests \cap Own(image[b])
  BY ImagesAssumption DEF Own
<1>4. read[b] = <<image[b].manifest>> /\ Len(read[b]) = 1 /\ read[b][1] = image[b].manifest
  <2>1. read[b] = <<image[b].manifest>>
    BY DEF IInv, Extends, WriteEmptyConfig
  <2>. QED  BY <2>1
<1>5. Extends(b)'
  <2>1. CASE image[b].attestations = <<>>
    <3>1. FullIndex(image[b]) = <<image[b].manifest>>
      <4>1. ReferrerManifests(image[b]) = <<>>
        BY <2>1 DEF ReferrerManifests
      <4>. QED  BY <1>1, <4>1, ImageTypes DEF FullIndex
    <3>. QED  BY <1>1, <1>2, <1>4, <2>1, <3>1 DEF Extends
  <2>2. CASE image[b].attestations # <<>>
    <3>1. FullIndex(image[b])[1] = image[b].manifest
      BY <1>1, FullIndexType
    <3>. QED  BY <1>1, <1>2, <1>4, <2>2, <3>1 DEF Extends
  <2>. QED  BY <2>1, <2>2
<1>. QED  BY <1>1, <1>2, <1>3, <1>5, AttestingStep DEF CliSteps

\* Two lists with the same entries.
LEMMA SameList ==
  ASSUME NEW s \in Seq(Digests), NEW t \in Seq(Digests), Len(s) = Len(t),
         \A k \in 1..Len(t) : s[k] = t[k]
  PROVE  s = t
OBVIOUS

\* A referrer manifest is written, and its descriptor appended.
LEMMA WriteReferrerStep ==
  ASSUME IInv, OneBuilder, NEW b \in Builders, WriteReferrer(b)
  PROVE  IInv'
<1>. DEFINE n == Len(image[b].attestations)
            m == Attestation(b).manifest
            full == FullIndex(image[b])
<1>1. /\ TypeOK /\ pc[b] = "referrer" /\ UNCHANGED image /\ PutOutput(m)
      /\ read[b] \in Seq(Digests)
  BY DEF IInv, TypeOK, WriteReferrer
<1>2. /\ image[b] \in Images /\ pos[b] \in 1..n
      /\ m \in Digests \cap Own(image[b]) /\ m = image[b].attestations[pos[b]].manifest
  BY <1>1, AtAttestation
<1>3. n \in Nat /\ full \in Seq(Digests) /\ Len(full) = n + 1 /\ m = full[pos[b] + 1]
  BY <1>2, FullIndexType, ImageTypes
<1>4. Len(read[b]) = pos[b] /\ \A k \in 1..pos[b] : read[b][k] = full[k]
  BY <1>1 DEF IInv, Extends
<1>5. /\ TypeOK'
      /\ \/ pos[b] < n /\ pos'[b] = pos[b] + 1 /\ pc'[b] = "referrer"
         \/ pos[b] = n /\ pc'[b] = "rewrite"
      /\ read'[b] = Append(read[b], m)
  BY <1>1, WriteReferrerTyped
<1>. HIDE DEF n, m, full
<1>6. /\ read'[b] \in Seq(Digests) /\ Len(read'[b]) = pos[b] + 1
      /\ \A k \in 1..(pos[b] + 1) : read'[b][k] = full[k]
  BY <1>1, <1>2, <1>3, <1>4, <1>5
<1>7. Extends(b)'
  <2>1. CASE pos[b] < n /\ pos'[b] = pos[b] + 1 /\ pc'[b] = "referrer"
    BY <1>1, <1>6, <2>1 DEF Extends, full
  <2>2. CASE pos[b] = n /\ pc'[b] = "rewrite"
    <3>1. read'[b] = full
      BY <1>2, <1>3, <1>6, <2>2, SameList
    <3>. QED  BY <1>1, <2>2, <3>1 DEF Extends, full
  <2>. QED  BY <1>5, <2>1, <2>2
<1>. QED  BY <1>1, <1>2, <1>5, <1>7, AttestingStep DEF CliSteps

\* index.json is replaced by the whole list.
LEMMA RewriteStep ==
  ASSUME IInv, OneBuilder, NEW b \in Builders, RewriteIndex(b)
  PROVE  IInv'
<1>1. /\ TypeOK' /\ pc'[b] = "done" /\ image[b] \in Images
      /\ output'.files = output.files /\ output'.index = read[b]
  BY RewriteTyped, ImageOf DEF IInv
<1>2. output.files \subseteq Own(image[b]) /\ read[b] = FullIndex(image[b])
  BY DEF IInv, Promoted, Extends, CliSteps, RewriteIndex
<1>3. Whole'
  BY <1>1, <1>2 DEF Whole
<1>. QED  BY <1>1, <1>3, StepOf, Resting DEF Ended

LEMMA InitIInv == Init => IInv
<1>. SUFFICES ASSUME Init PROVE IInv
  OBVIOUS
<1>1. TypeOK
  BY InitTyped
<1>2. \A b \in Builders : Staged(b) /\ Promoted(b) /\ Extends(b)
  BY DEF Init, Staged, Promoted, Extends, AttestSteps, CliSteps
<1>. QED  BY <1>1, <1>2 DEF Init, IInv, Whole

LEMMA NextIInv == OneBuilder /\ IInv /\ [Next]_vars => IInv'
<1>. SUFFICES ASSUME OneBuilder, IInv, [Next]_vars PROVE IInv'
  OBVIOUS
<1>1. CASE UNCHANGED vars
  BY <1>1 DEF vars, IInv, TypeOK, Staged, Promoted, Extends, Whole
<1>2. ASSUME NEW b \in Builders, Start(b) \/ Build(b) \/ Attest(b) \/ Fail(b) \/ Crash(b)
      PROVE  IInv'
  BY <1>2, StartStep, EndingStep, ClearingStep, CreateStep, StagingStep, PromoteStep,
     EmitStep, ReadIndexStep, EmptyConfigStep, WriteReferrerStep, RewriteStep
  DEF Build, Attest
<1>. QED  BY <1>1, <1>2, RemoveStep DEF Next

-----------------------------------------------------------------------------
(* What an exit code tells: one builder at a time.                         *)

\* While builder b is at work it has no exit code, and output_dir is what it has
\* found, or has made where there was none.
Told(b) ==
  /\ pc[b] \in Active => exit[b] = Running
  /\ pc[b] \in SpecSteps \cup BuildSteps => output = before[b]
  /\ pc[b] \in Active \ (SpecSteps \cup {"check"}) => before[b] = NoDir
  /\ pc[b] \in AttestSteps \cup CliSteps => partial = NoDir

TInv == /\ IInv
        /\ \A b \in Builders : Told(b)

\* A step within build().
LEMMA BuildTold ==
  ASSUME TInv, NEW b \in Builders,
         \/ LoadSpec(b) \/ CheckOutput(b) \/ ClearPartial(b) \/ CreatePartial(b)
         \/ AssembleLayer(b) \/ PutConfig(b) \/ PutManifest(b) \/ WriteLayout(b) \/ WriteIndex(b)
  PROVE  Told(b)'
<1>. USE DEF Told
<1>1. TypeOK /\ UNCHANGED <<output, before>> /\ Told(b)
  BY DEF TInv, IInv, LoadSpec, CheckOutput, ClearPartial, CreatePartial, AssembleLayer, PutConfig,
         PutManifest, WriteLayout, WriteIndex
<1>2. CASE LoadSpec(b)
  <2>1. pc[b] = "spec" /\ pc'[b] = "check" /\ UNCHANGED exit
    BY <1>1, <1>2, GotoMoves DEF LoadSpec, Active, BuildSteps
  <2>. QED  BY <1>1, <2>1 DEF Active, SpecSteps, BuildSteps, AttestSteps, CliSteps
<1>3. CASE CheckOutput(b)
  <2>1. \/ pc[b] = "check" /\ pc'[b] = "clear" /\ UNCHANGED exit /\ output = NoDir
        \/ pc'[b] = "failed"
    BY <1>1, <1>3, GotoMoves DEF CheckOutput, Exit, Active, BuildSteps, Ended
  <2>. QED  BY <1>1, <2>1 DEF Active, SpecSteps, BuildSteps, AttestSteps, CliSteps
<1>4. CASE \/ ClearPartial(b) \/ CreatePartial(b)
           \/ AssembleLayer(b) \/ PutConfig(b) \/ PutManifest(b) \/ WriteLayout(b) \/ WriteIndex(b)
  <2>1. pc[b] \in BuildSteps \ {"check"} /\ UNCHANGED exit
    BY <1>4 DEF ClearPartial, CreatePartial, AssembleLayer, PutConfig, PutManifest, WriteLayout,
                WriteIndex, BuildSteps
  <2>2. pc'[b] \in BuildSteps \ {"check"}
    <3>1. CASE ClearPartial(b)
      BY <1>1, <3>1, GotoMoves DEF ClearPartial, Active, BuildSteps
    <3>2. CASE CreatePartial(b)
      BY <1>1, <3>2, CreateTyped DEF BuildSteps
    <3>3. CASE AssembleLayer(b) \/ PutConfig(b) \/ PutManifest(b) \/ WriteLayout(b) \/ WriteIndex(b)
      BY <1>1, <3>3, StagingTyped DEF BuildSteps
    <3>. QED  BY <1>4, <3>1, <3>2, <3>3
  <2>. QED  BY <1>1, <2>1, <2>2 DEF Active, SpecSteps, BuildSteps, AttestSteps, CliSteps
<1>. QED  BY <1>2, <1>3, <1>4

\* A step of attest or of the command.
LEMMA AttestTold ==
  ASSUME TInv, NEW b \in Builders, Attest(b)
  PROVE  Told(b)'
<1>1. /\ TypeOK /\ UNCHANGED <<partial, before>> /\ Told(b)
      /\ pc[b] \in AttestSteps \cup CliSteps
  BY DEF TInv, IInv, Attest, OpenCas, EmitPayload, Sign, StoreBundle, ReadIndex, WriteEmptyConfig,
         WriteReferrer, RewriteIndex, AttestSteps, CliSteps
<1>2. \/ pc'[b] \in AttestSteps \cup CliSteps /\ UNCHANGED exit
      \/ pc'[b] \in Ended
  <2>1. CASE OpenCas(b)
    BY <1>1, <2>1, OpenCasTyped DEF OpenCas, AttestSteps, CliSteps
  <2>2. CASE EmitPayload(b)
    BY <1>1, <2>2, EmitPayloadTyped DEF EmitPayload, AttestSteps, CliSteps
  <2>3. CASE Sign(b)
    BY <1>1, <2>3, SignTyped DEF AttestSteps, Ended
  <2>4. CASE StoreBundle(b)
    BY <1>1, <2>4, StoreBundleTyped DEF StoreBundle, AttestSteps, CliSteps
  <2>5. CASE ReadIndex(b)
    BY <1>1, <2>5, ReadIndexTyped DEF ReadIndex, CliSteps
  <2>6. CASE WriteEmptyConfig(b)
    BY <1>1, <2>6, EmptyConfigTyped DEF WriteEmptyConfig, CliSteps
  <2>7. CASE WriteReferrer(b)
    BY <1>1, <2>7, WriteReferrerTyped DEF WriteReferrer, CliSteps
  <2>8. CASE RewriteIndex(b)
    BY <1>1, <2>8, RewriteTyped DEF Ended
  <2>. QED  BY <2>1, <2>2, <2>3, <2>4, <2>5, <2>6, <2>7, <2>8 DEF Attest
<1>. QED  BY <1>1, <1>2 DEF Told, Active, Ended, SpecSteps, BuildSteps, AttestSteps, CliSteps

LEMMA NextTInv == OneBuilder /\ TInv /\ [Next]_vars => TInv'
<1>. SUFFICES ASSUME OneBuilder, TInv, [Next]_vars PROVE TInv'
  OBVIOUS
<1>1. IInv'
  BY NextIInv DEF TInv
<1>2. CASE UNCHANGED vars
  BY <1>1, <1>2 DEF vars, TInv, Told
<1>3. ASSUME NEW b \in Builders, Told(b)'
      PROVE  TInv'
  BY <1>1, <1>3 DEF OneBuilder, TInv
<1>4. ASSUME NEW b \in Builders, Start(b) \/ Build(b) \/ Attest(b) \/ Fail(b) \/ Crash(b)
      PROVE  Told(b)'
  <2>1. TypeOK /\ Told(b)
    BY DEF TInv, IInv
  <2>2. CASE Start(b)
    <3>1. pc'[b] = "spec"
      BY <2>1, <2>2, StartTyped
    <3>2. exit'[b] = Running /\ before'[b] = output /\ UNCHANGED output
      BY <2>1, <2>2 DEF Start, TypeOK
    <3>. QED  BY <3>1, <3>2 DEF Told, Active, SpecSteps, BuildSteps, AttestSteps, CliSteps
  <2>3. CASE Promote(b)
    <3>1. /\ \/ pc'[b] = "openCas" /\ UNCHANGED exit
             \/ pc'[b] = "done"
          /\ partial' = NoDir /\ pc[b] = "promote" /\ UNCHANGED before
      BY <2>1, <2>3, PromoteTyped DEF Promote
    <3>. QED  BY <2>1, <3>1 DEF Told, Active, SpecSteps, BuildSteps, AttestSteps, CliSteps
  <2>4. CASE Fail(b) \/ Crash(b)
    <3>1. pc'[b] \in {"failed", "crashed"}
      BY <2>1, <2>4, EndingTyped
    <3>. QED  BY <3>1 DEF Told, Active, SpecSteps, BuildSteps, AttestSteps, CliSteps
  <2>. QED  BY <1>4, <2>2, <2>3, <2>4, BuildTold, AttestTold DEF Build
<1>5. CASE RemoveOutput
  BY <1>1, <1>5 DEF RemoveOutput, TInv, Told, Active, Ended, SpecSteps, BuildSteps, AttestSteps,
                    CliSteps
<1>. QED  BY <1>2, <1>3, <1>4, <1>5 DEF Next

LEMMA InitTInv == Init => TInv
BY InitIInv DEF Init, TInv, Told, Active, SpecSteps, BuildSteps, AttestSteps, CliSteps

\* What holds of a step of b that gives it an exit code.
Tells(b) ==
  LET bare == <<image[b].manifest>>
  IN /\ exit'[b] = 0 => /\ partial' = NoDir
                        /\ output'.index = bare \o ReferrerManifests(image[b])
     /\ exit'[b] \in {1, 2} => output' = before[b]
     /\ exit'[b] \in {3, 64} => before[b] = NoDir /\ output'.index = bare

LEMMA BareIndex ==
  ASSUME NEW i \in Images, i.attestations = <<>>
  PROVE  <<i.manifest>> \o ReferrerManifests(i) = <<i.manifest>>
<1>1. ReferrerManifests(i) = <<>>
  BY DEF ReferrerManifests
<1>. QED  BY <1>1, ImageTypes

LEMMA FailTells ==
  ASSUME TInv, NEW b \in Builders, Fail(b)
  PROVE  Tells(b)
<1>1. TypeOK /\ Told(b) /\ Promoted(b)
  BY DEF TInv, IInv
<1>2. pc[b] \in Active /\ UNCHANGED output /\ exit' = [exit EXCEPT ![b] = ExitCode(pc[b])]
  BY DEF Fail, Exit
<1>3. exit'[b] = ExitCode(pc[b])
  BY <1>1, <1>2 DEF TypeOK
<1>4. CASE pc[b] \in SpecSteps \cup BuildSteps
  <2>1. exit'[b] \in {1, 2}
    <3>1. CASE pc[b] \in SpecSteps
      BY <1>3, <3>1 DEF ExitCode, SpecSteps, BuildSteps, AttestSteps, CliSteps
    <3>2. CASE pc[b] \in BuildSteps
      BY <1>3, <3>2 DEF ExitCode, SpecSteps, BuildSteps, AttestSteps, CliSteps
    <3>. QED  BY <1>4, <3>1, <3>2
  <2>2. output' = before[b]
    BY <1>1, <1>2, <1>4 DEF Told
  <2>. QED  BY <2>1, <2>2 DEF Tells
<1>5. CASE pc[b] \in AttestSteps \cup CliSteps
  <2>1. exit'[b] \in {3, 64}
    BY <1>3, <1>5 DEF ExitCode, SpecSteps, BuildSteps, AttestSteps, CliSteps
  <2>2. before[b] = NoDir
    BY <1>1, <1>2, <1>5 DEF Told, SpecSteps, AttestSteps, CliSteps
  <2>3. output'.index = <<image[b].manifest>>
    BY <1>1, <1>2, <1>5 DEF Promoted
  <2>. QED  BY <2>1, <2>2, <2>3 DEF Tells
<1>. QED  BY <1>2, <1>4, <1>5 DEF Active

LEMMA CheckTells ==
  ASSUME TInv, NEW b \in Builders, CheckOutput(b), exit'[b] # exit[b]
  PROVE  Tells(b)
<1>1. TypeOK /\ Told(b) /\ UNCHANGED output /\ pc[b] = "check"
  BY DEF TInv, IInv, CheckOutput
<1>2. exit'[b] = 2
  <2>1. ExitCode("check") = 2
    BY DEF ExitCode, SpecSteps, BuildSteps, AttestSteps, CliSteps
  <2>2. exit' = [exit EXCEPT ![b] = 2]
    BY <2>1 DEF CheckOutput, Exit
  <2>. QED  BY <1>1, <2>2 DEF TypeOK
<1>3. output' = before[b]
  BY <1>1 DEF Told, BuildSteps
<1>. QED  BY <1>2, <1>3 DEF Tells

LEMMA PromoteTells ==
  ASSUME TInv, NEW b \in Builders, Promote(b), exit'[b] # exit[b]
  PROVE  Tells(b)
<1>1. TypeOK /\ Staged(b) /\ image[b] \in Images
  BY ImageOf DEF TInv, IInv
<1>2. ~image[b].attest /\ exit'[b] = 0
  BY <1>1, PromoteTyped
<1>3. partial' = NoDir /\ output' = partial /\ partial.index = <<image[b].manifest>>
  BY <1>1 DEF Promote, Staged
<1>4. image[b].attestations = <<>>
  BY <1>1, <1>2, ImagesAssumption
<1>5. <<image[b].manifest>> \o ReferrerManifests(image[b]) = <<image[b].manifest>>
  BY <1>1, <1>4, BareIndex
<1>. QED  BY <1>2, <1>3, <1>5 DEF Tells

LEMMA SignTells ==
  ASSUME TInv, NEW b \in Builders, Sign(b), exit'[b] # exit[b]
  PROVE  Tells(b)
<1>1. TypeOK /\ Told(b) /\ Promoted(b) /\ UNCHANGED output /\ pc[b] = "payload"
  BY DEF TInv, IInv, Sign
<1>2. exit'[b] = 3
  BY <1>1, SignTyped
<1>3. before[b] = NoDir
  BY <1>1 DEF Told, Active, SpecSteps, AttestSteps
<1>4. output'.index = <<image[b].manifest>>
  BY <1>1 DEF Promoted, AttestSteps
<1>. QED  BY <1>2, <1>3, <1>4 DEF Tells

LEMMA RewriteTells ==
  ASSUME TInv, NEW b \in Builders, RewriteIndex(b)
  PROVE  Tells(b)
<1>1. /\ TypeOK /\ Told(b) /\ Extends(b) /\ pc[b] = "rewrite" /\ UNCHANGED partial
  BY DEF TInv, IInv, RewriteIndex
<1>2. exit'[b] = 0 /\ output'.index = read[b]
  BY <1>1, RewriteTyped
<1>3. read[b] = <<image[b].manifest>> \o ReferrerManifests(image[b])
  BY <1>1 DEF Extends, FullIndex
<1>4. partial' = NoDir
  BY <1>1 DEF Told, CliSteps
<1>. QED  BY <1>2, <1>3, <1>4 DEF Tells

LEMMA NextTells ==
  ASSUME OneBuilder, TInv, [Next]_vars, NEW b \in Builders, exit'[b] \notin {Running, exit[b]}
  PROVE  Tells(b)
<1>1. \E a \in Builders : Start(a) \/ Build(a) \/ Attest(a) \/ Fail(a) \/ Crash(a)
  BY DEF Next, vars, RemoveOutput
<1>2. Start(b) \/ Build(b) \/ Attest(b) \/ Fail(b) \/ Crash(b)
  BY <1>1 DEF OneBuilder
<1>3. ~Start(b) /\ ~Crash(b)
  <2>1. CASE Start(b)
    <3>1. exit' = [exit EXCEPT ![b] = Running] /\ exit \in [Builders -> Exits]
      BY <2>1 DEF Start, TInv, IInv, TypeOK, Exits
    <3>. QED  BY <3>1
  <2>2. CASE Crash(b)
    BY <2>2 DEF Crash
  <2>. QED  BY <2>1, <2>2
<1>4. CASE Build(b)
  <2>1. CheckOutput(b) \/ Promote(b)
    BY <1>4 DEF Build, LoadSpec, ClearPartial, CreatePartial, AssembleLayer, PutConfig, PutManifest,
                WriteLayout, WriteIndex
  <2>. QED  BY <2>1, CheckTells, PromoteTells
<1>5. CASE Attest(b)
  <2>1. Sign(b) \/ RewriteIndex(b)
    BY <1>5 DEF Attest, OpenCas, EmitPayload, StoreBundle, ReadIndex, WriteEmptyConfig,
                WriteReferrer
  <2>. QED  BY <2>1, SignTells, RewriteTells
<1>. QED  BY <1>2, <1>3, <1>4, <1>5, FailTells

-----------------------------------------------------------------------------
(* What a consumer can open: one builder at a time.                        *)

\* The blobs of the image without its attestations, and those of all its referrers.
HasImage(files, i) == ToSet(i.layers) \cup {i.config, i.manifest} \subseteq files
HasReferrers(files, i) ==
  /\ EmptyConfig \in files
  /\ \A k \in 1..Len(i.attestations) :
       i.attestations[k].payload \in files /\ i.attestations[k].manifest \in files

StagedSoFar(b) ==
  LET i == image[b]
  IN /\ pc[b] = "layer" => \A k \in 1..(pos[b] - 1) : i.layers[k] \in partial.files
     /\ pc[b] \in {"config", "manifest", "layout", "index", "promote"} =>
          ToSet(i.layers) \subseteq partial.files
     /\ pc[b] \in {"manifest", "layout", "index", "promote"} => i.config \in partial.files
     /\ pc[b] \in {"layout", "index", "promote"} => i.manifest \in partial.files
     /\ pc[b] \in {"index", "promote"} => partial.layout

StoredSoFar(b) ==
  LET as == image[b].attestations
  IN /\ pc[b] \in {"payload", "bundle"} =>
          \A k \in 1..(pos[b] - 1) : as[k].payload \in output.files
     /\ pc[b] \in {"readIndex", "emptyConfig", "referrer", "rewrite"} =>
          \A k \in 1..Len(as) : as[k].payload \in output.files
     /\ pc[b] \in {"referrer", "rewrite"} => EmptyConfig \in output.files
     /\ pc[b] = "referrer" => \A k \in 1..(pos[b] - 1) : as[k].manifest \in output.files
     /\ pc[b] = "rewrite" => \A k \in 1..Len(as) : as[k].manifest \in output.files

\* What the index of output_dir lists is all there.
Listed ==
  output # NoDir =>
    /\ output.layout
    /\ \E i \in Images :
         /\ HasImage(output.files, i)
         /\ \/ output.index = <<i.manifest>>
            \/ output.index = FullIndex(i) /\ HasReferrers(output.files, i)

OInv == /\ IInv
        /\ \A b \in Builders : StagedSoFar(b) /\ StoredSoFar(b)
        /\ Listed

LEMMA ListedStepOf ==
  ASSUME OneBuilder, NEW b \in Builders, IInv', StagedSoFar(b)', StoredSoFar(b)', Listed'
  PROVE  OInv'
BY DEF OInv, OneBuilder

\* Nothing is claimed of a builder outside the steps that store something.
LEMMA NothingStored ==
  ASSUME NEW b \in Builders, pc'[b] \in Ended \cup {"spec", "check", "clear", "create"}
  PROVE  StagedSoFar(b)' /\ StoredSoFar(b)'
BY DEF Ended, StagedSoFar, StoredSoFar

LEMMA QuietListed ==
  ASSUME OInv, OneBuilder, IInv', NEW b \in Builders,
         \/ Start(b) \/ Fail(b) \/ Crash(b)
         \/ LoadSpec(b) \/ CheckOutput(b) \/ ClearPartial(b)
  PROVE  OInv'
<1>1. UNCHANGED output
  BY DEF Start, Fail, Crash, LoadSpec, CheckOutput, ClearPartial
<1>2. pc'[b] \in Ended \cup {"spec", "check", "clear", "create"}
  BY StartTyped, EndingTyped, ClearingTyped DEF OInv, IInv, Ended
<1>3. Listed'
  BY <1>1 DEF OInv, Listed
<1>. QED  BY <1>2, <1>3, NothingStored, ListedStepOf

\* Staging: what is written is what the next step takes for written.
LEMMA StagingListed ==
  ASSUME OInv, OneBuilder, IInv', NEW b \in Builders,
         \/ CreatePartial(b) \/ AssembleLayer(b) \/ PutConfig(b) \/ PutManifest(b)
         \/ WriteLayout(b) \/ WriteIndex(b)
  PROVE  OInv'
<1>. DEFINE i == image[b]
<1>1. TypeOK /\ i \in Images /\ pos[b] \in Nat \ {0} /\ UNCHANGED <<output, image>>
  BY ImageOf
  DEF OInv, IInv, CreatePartial, AssembleLayer, PutConfig, PutManifest, WriteLayout, WriteIndex
<1>2. /\ Len(i.layers) \in Nat /\ DOMAIN i.layers = 1..Len(i.layers)
      /\ i.layers = <<>> => ToSet(i.layers) = {}
  BY <1>1, ImageTypes DEF ToSet
<1>3. ASSUME NEW d, PutPartial(d)
      PROVE  partial'.files = partial.files \cup {d} /\ partial'.layout = partial.layout
  BY <1>1, <1>3 DEF PutPartial, TypeOK, Directory
<1>4. StagedSoFar(b)'
  <2>1. CASE CreatePartial(b)
    <3>1. pos'[b] = 1 /\ pc'[b] = IF i.layers = <<>> THEN "config" ELSE "layer"
      BY <1>1, <2>1, GotoMoves DEF CreatePartial, Active, BuildSteps
    <3>. QED  BY <1>1, <1>2, <3>1 DEF StagedSoFar
  <2>2. CASE AssembleLayer(b)
    <3>1. /\ \A k \in 1..(pos[b] - 1) : i.layers[k] \in partial.files
          /\ pos[b] <= Len(i.layers)
      BY <2>2 DEF AssembleLayer, OInv, IInv, TypeOK, StagedSoFar
    <3>2. partial'.files = partial.files \cup {i.layers[pos[b]]}
      BY <1>3, <2>2 DEF AssembleLayer
    <3>3. \A k \in 1..pos[b] : i.layers[k] \in partial'.files
      BY <1>1, <3>1, <3>2
    <3>4. \/ pos'[b] = pos[b] + 1 /\ pc'[b] = "layer"
          \/ pos[b] = Len(i.layers) /\ pc'[b] = "config"
      BY <1>1, <1>2, <2>2, <3>1, AdvanceMoves DEF AssembleLayer, Active, BuildSteps
    <3>5. CASE pos'[b] = pos[b] + 1 /\ pc'[b] = "layer"
      BY <1>1, <3>3, <3>5 DEF StagedSoFar
    <3>6. CASE pos[b] = Len(i.layers) /\ pc'[b] = "config"
      <4>1. ToSet(i.layers) \subseteq partial'.files
        BY <1>2, <3>3, <3>6 DEF ToSet
      <4>. QED  BY <1>1, <3>6, <4>1 DEF StagedSoFar
    <3>. QED  BY <3>4, <3>5, <3>6
  <2>3. CASE PutConfig(b)
    <3>1. pc'[b] = "manifest" /\ ToSet(i.layers) \subseteq partial.files
      BY <1>1, <2>3, GotoMoves DEF PutConfig, Active, BuildSteps, OInv, StagedSoFar
    <3>2. partial'.files = partial.files \cup {i.config}
      BY <1>3, <2>3 DEF PutConfig
    <3>. QED  BY <1>1, <3>1, <3>2 DEF StagedSoFar
  <2>4. CASE PutManifest(b)
    <3>1. pc'[b] = "layout" /\ ToSet(i.layers) \cup {i.config} \subseteq partial.files
      BY <1>1, <2>4, GotoMoves DEF PutManifest, Active, BuildSteps, OInv, StagedSoFar
    <3>2. partial'.files = partial.files \cup {i.manifest}
      BY <1>3, <2>4 DEF PutManifest
    <3>. QED  BY <1>1, <3>1, <3>2 DEF StagedSoFar
  <2>5. CASE WriteLayout(b)
    <3>1. pc'[b] = "index" /\ HasImage(partial.files, i)
      BY <1>1, <2>5, GotoMoves DEF WriteLayout, Active, BuildSteps, OInv, StagedSoFar, HasImage
    <3>2. partial'.files = partial.files /\ partial'.layout
      BY <1>1, <2>5 DEF WriteLayout, TypeOK, Directory
    <3>. QED  BY <1>1, <3>1, <3>2 DEF StagedSoFar, HasImage
  <2>6. CASE WriteIndex(b)
    <3>1. pc'[b] = "promote" /\ HasImage(partial.files, i) /\ partial.layout
      BY <1>1, <2>6, GotoMoves DEF WriteIndex, Active, BuildSteps, OInv, StagedSoFar, HasImage
    <3>2. partial'.files = partial.files /\ partial'.layout = partial.layout
      BY <1>1, <2>6 DEF WriteIndex, TypeOK, Directory
    <3>. QED  BY <1>1, <3>1, <3>2 DEF StagedSoFar, HasImage
  <2>. QED  BY <2>1, <2>2, <2>3, <2>4, <2>5, <2>6
<1>5. StoredSoFar(b)'
  <2>1. pc'[b] \in {"layer", "config", "manifest", "layout", "index", "promote"}
    BY <1>1, CreateTyped, StagingTyped
  <2>. QED  BY <2>1 DEF StoredSoFar
<1>6. Listed'
  BY <1>1 DEF OInv, Listed
<1>. QED  BY <1>4, <1>5, <1>6, ListedStepOf

\* The flip: what has been staged is what a consumer finds.
LEMMA PromoteListed ==
  ASSUME OInv, OneBuilder, IInv', NEW b \in Builders, Promote(b)
  PROVE  OInv'
<1>1. image[b] \in Images /\ pc'[b] \in {"openCas", "done"}
  BY PromoteTyped, ImageOf DEF OInv, IInv
<1>2. /\ output' = partial /\ partial.layout /\ HasImage(partial.files, image[b])
      /\ partial.index = <<image[b].manifest>>
  BY DEF OInv, IInv, Staged, StagedSoFar, HasImage, Promote
<1>3. Listed'
  BY <1>1, <1>2 DEF Listed
<1>4. StagedSoFar(b)' /\ StoredSoFar(b)'
  BY <1>1 DEF StagedSoFar, StoredSoFar
<1>. QED  BY <1>3, <1>4, ListedStepOf

\* Output_dir only gets more files.
LEMMA GrowingListed ==
  ASSUME OInv, OneBuilder, IInv', NEW b \in Builders,
         \/ UNCHANGED output
         \/ \E d \in Digests : PutOutput(d),
         pc'[b] \in AttestSteps \cup CliSteps \cup Ended, StoredSoFar(b)'
  PROVE  OInv'
<1>1. Listed'
  <2>1. CASE UNCHANGED output
    BY <2>1 DEF OInv, Listed
  <2>2. ASSUME NEW d \in Digests, PutOutput(d)
        PROVE  Listed'
    <3>1. /\ output # NoDir /\ output.files \subseteq output'.files
          /\ output'.index = output.index /\ output'.layout = output.layout
      BY <2>2, PutOutputType DEF OInv, IInv
    <3>. QED  BY <3>1 DEF OInv, Listed, HasImage, HasReferrers
  <2>. QED  BY <2>1, <2>2
<1>2. StagedSoFar(b)'
  BY DEF StagedSoFar, AttestSteps, CliSteps, Ended
<1>. QED  BY <1>1, <1>2, ListedStepOf

\* Payloads: documents and bundles.
LEMMA PayloadListed ==
  ASSUME OInv, OneBuilder, IInv', NEW b \in Builders,
         OpenCas(b) \/ EmitPayload(b) \/ Sign(b) \/ StoreBundle(b)
  PROVE  OInv'
<1>. DEFINE as == image[b].attestations
            n == Len(as)
<1>1. TypeOK /\ UNCHANGED image /\ n \in Nat /\ pos[b] \in Nat \ {0}
  BY ImageOf, ImageTypes DEF OInv, IInv, OpenCas, EmitPayload, Sign, StoreBundle
<1>2. CASE OpenCas(b)
  <2>1. /\ UNCHANGED output /\ pos'[b] = 1
        /\ pc'[b] = IF as = <<>> THEN "readIndex" ELSE "payload"
    BY <1>1, <1>2, OpenCasTyped DEF OpenCas
  <2>2. as = <<>> => n = 0
    OBVIOUS
  <2>3. StoredSoFar(b)'
    <3>. HIDE DEF n
    <3>. QED  BY <1>1, <2>1, <2>2 DEF StoredSoFar, n
  <2>. QED  BY <2>1, <2>3, GrowingListed DEF AttestSteps, CliSteps
<1>3. CASE Sign(b)
  <2>1. UNCHANGED output /\ pc[b] = "payload"
    BY <1>3 DEF Sign
  <2>2. TypeOK
    BY <1>1
  <2>3. pc'[b] = "failed" \/ (pc'[b] = "bundle" /\ pos'[b] = pos[b])
    BY <1>3, <2>2, SignTyped
  <2>4. StoredSoFar(b)'
    BY <1>1, <2>1, <2>3 DEF OInv, StoredSoFar
  <2>. QED  BY <2>1, <2>3, <2>4, GrowingListed DEF AttestSteps, Ended
<1>4. CASE EmitPayload(b) \/ StoreBundle(b)
  <2>1. /\ pc[b] \in {"payload", "bundle"} /\ PutOutput(Attestation(b).payload)
        /\ Attestation(b).payload \in Digests /\ Attestation(b) = as[pos[b]]
    BY <1>1, <1>4, AtAttestation DEF EmitPayload, StoreBundle, Attestation
  <2>2. output'.files = output.files \cup {as[pos[b]].payload}
    BY <1>1, <2>1, PutOutputType
  <2>3. \A k \in 1..pos[b] : as[k].payload \in output'.files
    <3>1. \A k \in 1..(pos[b] - 1) : as[k].payload \in output.files
      BY <2>1 DEF OInv, StoredSoFar
    <3>. QED  BY <1>1, <2>2, <3>1
  <2>4. \/ pos'[b] = pos[b] + 1 /\ pc'[b] = "payload"
        \/ pos[b] = n /\ pc'[b] = "readIndex"
    BY <1>1, <1>4, EmitPayloadTyped, StoreBundleTyped
  <2>5. StoredSoFar(b)'
    BY <1>1, <2>3, <2>4 DEF StoredSoFar
  <2>. QED  BY <2>1, <2>4, <2>5, GrowingListed DEF AttestSteps, CliSteps
<1>. QED  BY <1>2, <1>3, <1>4

\* The empty config and the referrer manifests.
LEMMA ReferrerListed ==
  ASSUME OInv, OneBuilder, IInv', NEW b \in Builders,
         ReadIndex(b) \/ WriteEmptyConfig(b) \/ WriteReferrer(b)
  PROVE  OInv'
<1>. DEFINE as == image[b].attestations
            n == Len(as)
<1>1. TypeOK /\ UNCHANGED image /\ n \in Nat /\ pos[b] \in Nat \ {0}
  BY ImageOf, ImageTypes DEF OInv, IInv, ReadIndex, WriteEmptyConfig, WriteReferrer
<1>2. \A k \in 1..n : as[k].payload \in output.files
  BY DEF OInv, StoredSoFar, ReadIndex, WriteEmptyConfig, WriteReferrer
<1>3. CASE ReadIndex(b)
  <2>1. UNCHANGED output /\ pc'[b] = "emptyConfig"
    BY <1>1, <1>3, ReadIndexTyped DEF ReadIndex
  <2>2. StoredSoFar(b)'
    BY <1>1, <1>2, <2>1 DEF StoredSoFar
  <2>. QED  BY <2>1, <2>2, GrowingListed DEF CliSteps
<1>4. CASE WriteEmptyConfig(b)
  <2>1. /\ PutOutput(EmptyConfig) /\ EmptyConfig \in Digests /\ pos'[b] = 1
        /\ pc'[b] = IF as = <<>> THEN "rewrite" ELSE "referrer"
    BY <1>1, <1>4, EmptyConfigTyped, ImagesAssumption DEF WriteEmptyConfig
  <2>2. output'.files = output.files \cup {EmptyConfig}
    BY <1>1, <2>1, PutOutputType
  <2>3. as = <<>> => n = 0
    OBVIOUS
  <2>4. StoredSoFar(b)'
    <3>. HIDE DEF n
    <3>. QED  BY <1>1, <1>2, <2>1, <2>2, <2>3 DEF StoredSoFar, n
  <2>. QED  BY <2>1, <2>4, GrowingListed DEF CliSteps
<1>5. CASE WriteReferrer(b)
  <2>1. /\ pc[b] = "referrer" /\ PutOutput(Attestation(b).manifest)
        /\ Attestation(b).manifest \in Digests /\ Attestation(b) = as[pos[b]]
    BY <1>1, <1>5, AtAttestation DEF WriteReferrer, Attestation
  <2>2. output'.files = output.files \cup {as[pos[b]].manifest}
    BY <1>1, <2>1, PutOutputType
  <2>3. \A k \in 1..pos[b] : as[k].manifest \in output'.files
    <3>1. \A k \in 1..(pos[b] - 1) : as[k].manifest \in output.files
      BY <2>1 DEF OInv, StoredSoFar
    <3>. QED  BY <1>1, <2>2, <3>1
  <2>4. \/ pos'[b] = pos[b] + 1 /\ pc'[b] = "referrer"
        \/ pos[b] = n /\ pc'[b] = "rewrite"
    BY <1>1, <1>5, WriteReferrerTyped
  <2>5. EmptyConfig \in output.files
    BY <2>1 DEF OInv, StoredSoFar
  <2>6. StoredSoFar(b)'
    BY <1>1, <1>2, <2>2, <2>3, <2>4, <2>5 DEF StoredSoFar
  <2>. QED  BY <2>1, <2>4, <2>6, GrowingListed DEF CliSteps
<1>. QED  BY <1>3, <1>4, <1>5

\* index.json names the referrers when all of them are there.
LEMMA RewriteListed ==
  ASSUME OInv, OneBuilder, IInv', NEW b \in Builders, RewriteIndex(b)
  PROVE  OInv'
<1>. DEFINE i == image[b]
<1>1. /\ i \in Images /\ pc'[b] = "done" /\ output # NoDir
      /\ output'.files = output.files /\ output'.layout = output.layout
      /\ output'.index = read[b]
  BY RewriteTyped, ImageOf DEF OInv, IInv, RewriteIndex
<1>2. read[b] = FullIndex(i) /\ output.index = <<i.manifest>>
  BY DEF OInv, IInv, Promoted, Extends, CliSteps, RewriteIndex
<1>3. HasReferrers(output.files, i)
  BY DEF OInv, StoredSoFar, HasReferrers, RewriteIndex
<1>4. HasImage(output.files, i)
  <2>1. PICK j \in Images : /\ HasImage(output.files, j)
                            /\ output.index \in {<<j.manifest>>, FullIndex(j)}
    BY <1>1 DEF OInv, Listed
  <2>2. output.index[1] = i.manifest
    BY <1>2
  <2>3. <<j.manifest>>[1] = j.manifest /\ FullIndex(j)[1] = j.manifest
    BY FullIndexType
  <2>4. output.index[1] = j.manifest
    BY <2>1, <2>3
  <2>5. i.layers = j.layers /\ i.config = j.config /\ i.manifest = j.manifest
    BY <1>1, <2>1, <2>2, <2>4, ManifestAssumption
  <2>. QED  BY <2>1, <2>5 DEF HasImage
<1>5. Listed'
  BY <1>1, <1>2, <1>3, <1>4 DEF OInv, Listed
<1>. QED  BY <1>1, <1>5, NothingStored, ListedStepOf DEF Ended

LEMMA NextOInv == OneBuilder /\ OInv /\ IInv' /\ [Next]_vars => OInv'
<1>. SUFFICES ASSUME OneBuilder, OInv, IInv', [Next]_vars PROVE OInv'
  OBVIOUS
<1>1. CASE UNCHANGED vars
  BY <1>1 DEF vars, OInv, StagedSoFar, StoredSoFar, Listed
<1>2. CASE RemoveOutput
  <2>1. \A b \in Builders : StagedSoFar(b)' /\ StoredSoFar(b)'
    BY <1>2, NothingStored DEF RemoveOutput
  <2>. QED  BY <1>2, <2>1 DEF RemoveOutput, OInv, Listed
<1>3. ASSUME NEW b \in Builders, Start(b) \/ Build(b) \/ Attest(b) \/ Fail(b) \/ Crash(b)
      PROVE  OInv'
  BY <1>3, QuietListed, StagingListed, PromoteListed, PayloadListed, ReferrerListed,
     RewriteListed
  DEF Build, Attest
<1>. QED  BY <1>1, <1>2, <1>3 DEF Next

-----------------------------------------------------------------------------
(* The directory opens.                                                    *)

\* ImageDir::open, as its own proofs know it and as module BuildOutput does.
Opening == INSTANCE ImageDirProofs WITH BadDigests <- {}, UpperDigests <- {}

LEMMA SameOpen ==
  ASSUME NEW dir
  PROVE  OnDisk!Open(dir).err = Opening!Open(dir).err
<1>1. OnDisk!Absent = Opening!Absent /\ OnDisk!FileError = Opening!FileError
  BY DEF OnDisk!Absent, Opening!Absent, OnDisk!FileError, Opening!FileError
<1>2. \A checks : OnDisk!FirstError(checks) = Opening!FirstError(checks)
  BY DEF OnDisk!FirstError, Opening!FirstError, OnDisk!SelectInSeq, Opening!SelectInSeq,
         OnDisk!Min, Opening!Min
<1>3. \A d : OnDisk!ContentError(dir, d) = Opening!ContentError(dir, d)
  BY DEF OnDisk!ContentError, Opening!ContentError, OnDisk!Present, Opening!Present
<1>4. \A m : OnDisk!ManifestContentChecks(dir, m) = Opening!ManifestContentChecks(dir, m)
  BY <1>3 DEF OnDisk!ManifestContentChecks, Opening!ManifestContentChecks
<1>5. \A p, r : OnDisk!ReferrerChecks(dir, p, r) = Opening!ReferrerChecks(dir, p, r)
  BY <1>4 DEF OnDisk!ReferrerChecks, Opening!ReferrerChecks
<1>6. OnDisk!PrimaryCandidates(dir) = Opening!PrimaryCandidates(dir)
  BY <1>1 DEF OnDisk!PrimaryCandidates, Opening!PrimaryCandidates
<1>7. OnDisk!PrimaryManifest(dir) = Opening!PrimaryManifest(dir)
  BY <1>6 DEF OnDisk!PrimaryManifest, Opening!PrimaryManifest
<1>8. OnDisk!PrimaryCountError(dir) = Opening!PrimaryCountError(dir)
  BY <1>6
  DEF OnDisk!PrimaryCountError, Opening!PrimaryCountError, OnDisk!Cardinality,
      Opening!Cardinality
<1>9. OnDisk!ContentChecks(dir) = Opening!ContentChecks(dir)
  BY <1>2, <1>4, <1>5, <1>6, <1>7 DEF OnDisk!ContentChecks, Opening!ContentChecks
<1>10. \A desc : OnDisk!ListedError(dir, desc) = Opening!ListedError(dir, desc)
  BY <1>1 DEF OnDisk!ListedError, Opening!ListedError, OnDisk!Present, Opening!Present
<1>11. OnDisk!OpenError(dir) = Opening!OpenError(dir)
  BY <1>1, <1>2, <1>8, <1>9, <1>10 DEF OnDisk!OpenError, Opening!OpenError
<1>. QED  BY <1>11 DEF OnDisk!Open, Opening!Open

\* What a reader makes of the image's manifest, of a referrer's, and of any blob.
LEMMA PrimaryFile ==
  ASSUME NEW i \in Images
  PROVE  LET f == File(i.manifest)
         IN /\ f.state = "ok" /\ f.mediaType = "oci" /\ f.subject = OnDisk!Absent
            /\ f.layers = i.layers /\ f.config = i.config
<1>. DEFINE j == CHOOSE x \in Images : x.manifest = i.manifest
<1>1. j \in Images /\ j.manifest = i.manifest
  OBVIOUS
<1>2. j.layers = i.layers /\ j.config = i.config
  BY <1>1, ManifestAssumption
<1>3. File(i.manifest) = [state |-> "ok", mediaType |-> "oci", config |-> j.config,
                          layers |-> j.layers, subject |-> OnDisk!Absent]
  BY DEF File
<1>. HIDE DEF j
<1>. QED  BY <1>2, <1>3

LEMMA ReferrerFile ==
  ASSUME NEW i \in Images, NEW a \in ToSet(i.attestations)
  PROVE  LET f == File(a.manifest)
         IN /\ f.state = "ok" /\ f.mediaType = "oci" /\ f.subject = i.manifest
            /\ f.layers = <<a.payload>> /\ f.config = EmptyConfig
<1>. DEFINE d == a.manifest
            j == CHOOSE x \in Images : \E y \in ToSet(x.attestations) : y.manifest = d
            o == CHOOSE y \in ToSet(j.attestations) : y.manifest = d
<1>1. j \in Images /\ \E x \in ToSet(j.attestations) : x.manifest = d
  OBVIOUS
<1>2. o \in ToSet(j.attestations) /\ o.manifest = d
  BY <1>1
<1>3. File(d) = [state |-> "ok", mediaType |-> "oci", config |-> EmptyConfig,
                 layers |-> <<o.payload>>, subject |-> j.manifest]
  <2>1. ~ \E x \in Images : x.manifest = d
    BY ManifestAssumption
  <2>. QED  BY <1>1, <2>1 DEF File
<1>. HIDE DEF j, o
<1>4. o.payload = a.payload /\ j.manifest = i.manifest
  BY <1>1, <1>2, ManifestAssumption
<1>. QED  BY <1>3, <1>4

LEMMA AnyFile ==
  ASSUME NEW d
  PROVE  File(d).state \in {"ok", "malformed"} /\ Opening!IsList(File(d).layers)
<1>1. CASE \E i \in Images : i.manifest = d
  <2>1. PICK i \in Images : i.manifest = d
    BY <1>1
  <2>2. Opening!IsList(i.layers)
    <3>1. Len(i.layers) \in Nat /\ i.layers = [k \in 1..Len(i.layers) |-> i.layers[k]]
      BY ImageTypes
    <3>. QED  BY <3>1 DEF Opening!IsList
  <2>. QED  BY <2>1, <2>2, PrimaryFile
<1>2. CASE \E i \in Images : \E a \in ToSet(i.attestations) : a.manifest = d
  <2>1. PICK i \in Images : \E a \in ToSet(i.attestations) : a.manifest = d
    BY <1>2
  <2>2. PICK a \in ToSet(i.attestations) : a.manifest = d
    BY <2>1
  <2>. QED  BY <2>2, ReferrerFile, Opening!Single
<1>3. CASE /\ ~ \E i \in Images : i.manifest = d
           /\ ~ \E i \in Images : \E a \in ToSet(i.attestations) : a.manifest = d
  <2>1. File(d).state = "malformed" /\ File(d).layers = <<>>
    BY <1>3 DEF File
  <2>. QED  BY <2>1, Opening!Empty
<1>. QED  BY <1>1, <1>2, <1>3

\* The first entry of the index is an image that is there, every other one a
\* referrer of it that is there.
LEMMA IndexEntries ==
  ASSUME TypeOK, Listed, output # NoDir
  PROVE  /\ output.layout /\ output.files \subseteq Digests
         /\ output.index \in Seq(Digests) /\ 1 \in 1..Len(output.index)
         /\ \E i \in Images :
              /\ HasImage(output.files, i) /\ output.index[1] = i.manifest
              /\ \A k \in 2..Len(output.index) :
                   \E a \in ToSet(i.attestations) :
                     /\ output.index[k] = a.manifest
                     /\ {a.manifest, a.payload, EmptyConfig} \subseteq output.files
<1>1. output.layout /\ output.files \subseteq Digests /\ output.index \in Seq(Digests)
  BY DEF TypeOK, Listed, Directory
<1>2. PICK i \in Images :
        /\ HasImage(output.files, i)
        /\ \/ output.index = <<i.manifest>>
           \/ output.index = FullIndex(i) /\ HasReferrers(output.files, i)
  BY DEF Listed
<1>3. CASE output.index = <<i.manifest>>
  <2>1. Len(output.index) = 1 /\ output.index[1] = i.manifest
    BY <1>3
  <2>. QED  BY <1>1, <1>2, <2>1
<1>4. CASE output.index = FullIndex(i) /\ HasReferrers(output.files, i)
  <2>. DEFINE n == Len(i.attestations)
  <2>1. n \in Nat /\ Len(output.index) = n + 1 /\ output.index[1] = i.manifest
    BY <1>4, ImageTypes, FullIndexType
  <2>2. ASSUME NEW k \in 2..(n + 1)
        PROVE  \E a \in ToSet(i.attestations) :
                 /\ output.index[k] = a.manifest
                 /\ {a.manifest, a.payload, EmptyConfig} \subseteq output.files
    <3>. DEFINE a == i.attestations[k - 1]
    <3>1. k - 1 \in 1..n /\ (k - 1) + 1 = k
      BY <2>1
    <3>2. output.index[k] = a.manifest
      BY <1>4, <3>1, FullIndexType
    <3>3. a \in ToSet(i.attestations)
      BY <3>1, ImageTypes DEF ToSet
    <3>4. {a.manifest, a.payload, EmptyConfig} \subseteq output.files
      BY <1>4, <3>1 DEF HasReferrers
    <3>. HIDE DEF a
    <3>. QED  BY <3>2, <3>3, <3>4
  <2>. QED  BY <1>1, <1>2, <2>1, <2>2
<1>. QED  BY <1>2, <1>3, <1>4

LEMMA FileStates == {"ok", "malformed"} \subseteq DOMAIN Opening!FileError
BY DEF Opening!FileError

\* Such an index is what open accepts.
LEMMA ListedOpens ==
  ASSUME TypeOK, Listed
  PROVE  OutputOpens
<1>. SUFFICES ASSUME output # NoDir PROVE OnDisk!Open(AsImageDir(output)).err = "none"
  BY DEF OutputOpens
<1>. DEFINE dir == AsImageDir(output)
            index == output.index
            files == output.files
<1>1. /\ output.layout /\ files \subseteq Digests /\ index \in Seq(Digests)
      /\ Len(index) \in Nat /\ DOMAIN index = 1..Len(index) /\ 1 \in DOMAIN index
      /\ index # <<>>
  BY IndexEntries
<1>2. PICK i \in Images :
        /\ HasImage(files, i) /\ index[1] = i.manifest
        /\ \A k \in 2..Len(index) :
             \E a \in ToSet(i.attestations) :
               /\ index[k] = a.manifest
               /\ {a.manifest, a.payload, EmptyConfig} \subseteq files
  BY IndexEntries
<1>3. /\ dir.layout = "ok" /\ dir.index = "ok"
      /\ DOMAIN dir.listed = DOMAIN index /\ DOMAIN dir.blobs = files
      /\ dir.listed = [k \in DOMAIN index |-> dir.listed[k]]
      /\ \A k \in DOMAIN index :
           dir.listed[k].digest = index[k] /\ dir.listed[k].mediaType = "oci"
      /\ \A d \in files : dir.blobs[d] = File(d)
  BY <1>1 DEF AsImageDir
<1>4. OnDisk!Absent = Opening!Absent /\ OnDisk!Absent \notin files
  BY <1>1, ManifestAssumption DEF OnDisk!Absent, Opening!Absent
<1>. HIDE DEF dir, index, files
<1>5. Opening!IsDirectory(dir)
  <2>1. Opening!IsList(dir.listed)
    <3>1. Len(dir.listed) = Len(index)
      BY <1>1, <1>3
    <3>. QED  BY <1>1, <1>3, <3>1 DEF Opening!IsList
  <2>2. DOMAIN dir.blobs \cap ({} \cup {} \cup {Opening!Absent}) = {}
    BY <1>3, <1>4
  <2>3. \A d \in DOMAIN dir.blobs : /\ dir.blobs[d].state \in DOMAIN Opening!FileError
                                    /\ Opening!IsList(dir.blobs[d].layers)
    BY <1>3, AnyFile, FileStates
  <2>4. dir.layout \in DOMAIN Opening!FileError /\ dir.index \in DOMAIN Opening!FileError
    BY <1>3, FileStates
  <2>. QED  BY <2>1, <2>2, <2>3, <2>4 DEF Opening!IsDirectory
\* The primary and each referrer.
<1>6. /\ i.manifest \in files /\ ToSet(i.layers) \cup {i.config} \subseteq files
      /\ dir.blobs[i.manifest] = File(i.manifest)
  BY <1>2, <1>3 DEF HasImage
<1>7. /\ Opening!IsManifest(dir, dir.listed[1])
      /\ Opening!Content(dir, dir.listed[1].digest) \subseteq files
      /\ dir.blobs[dir.listed[1].digest].subject = Opening!Absent
  <2>1. dir.listed[1].digest = i.manifest /\ dir.listed[1].mediaType = "oci"
    BY <1>1, <1>2, <1>3
  <2>2. /\ dir.blobs[i.manifest].state = "ok" /\ dir.blobs[i.manifest].mediaType = "oci"
        /\ dir.blobs[i.manifest].subject = OnDisk!Absent
        /\ dir.blobs[i.manifest].layers = i.layers
        /\ dir.blobs[i.manifest].config = i.config
    BY <1>6, PrimaryFile
  <2>3. Opening!IsManifest(dir, dir.listed[1])
    BY <1>3, <1>6, <2>1, <2>2 DEF Opening!IsManifest, Opening!Present
  <2>4. Opening!Content(dir, i.manifest) = ToSet(i.layers) \cup {i.config}
    BY <2>2 DEF Opening!Content, Opening!ToSet, ToSet
  <2>. QED  BY <1>4, <1>6, <2>1, <2>2, <2>3, <2>4
<1>8. ASSUME NEW k \in DOMAIN index, k # 1
      PROVE  /\ Opening!IsManifest(dir, dir.listed[k])
             /\ Opening!Content(dir, dir.listed[k].digest) \subseteq files
             /\ dir.blobs[dir.listed[k].digest].subject = i.manifest
  <2>1. k \in 2..Len(index)
    BY <1>1, <1>8
  <2>2. PICK a \in ToSet(i.attestations) :
          index[k] = a.manifest /\ {a.manifest, a.payload, EmptyConfig} \subseteq files
    BY <1>2, <2>1
  <2>3. dir.listed[k].digest = a.manifest /\ dir.listed[k].mediaType = "oci"
    BY <1>3, <2>2
  <2>4. dir.blobs[a.manifest] = File(a.manifest)
    BY <1>3, <2>2
  <2>5. /\ dir.blobs[a.manifest].state = "ok" /\ dir.blobs[a.manifest].mediaType = "oci"
        /\ dir.blobs[a.manifest].subject = i.manifest
        /\ dir.blobs[a.manifest].layers = <<a.payload>>
        /\ dir.blobs[a.manifest].config = EmptyConfig
    BY <2>4, ReferrerFile
  <2>6. Opening!IsManifest(dir, dir.listed[k])
    BY <1>3, <2>2, <2>3, <2>5 DEF Opening!IsManifest, Opening!Present
  <2>7. Opening!Content(dir, a.manifest) = {a.payload, EmptyConfig}
    <3>1. Opening!ToSet(<<a.payload>>) = {a.payload}
      BY DEF Opening!ToSet
    <3>. QED  BY <2>5, <3>1 DEF Opening!Content
  <2>. QED  BY <2>2, <2>3, <2>5, <2>6, <2>7
<1>9. Opening!Publishable(dir)
  <2>1. 1 \in DOMAIN dir.listed /\ dir.listed[1].digest = i.manifest
    BY <1>1, <1>2, <1>3
  <2>2. \A j \in DOMAIN dir.listed \ {1} :
          dir.blobs[dir.listed[j].digest].subject = dir.listed[1].digest
    BY <1>3, <1>8, <2>1
  <2>3. \A k \in DOMAIN dir.listed :
          /\ Opening!IsManifest(dir, dir.listed[k])
          /\ Opening!Content(dir, dir.listed[k].digest) \subseteq DOMAIN dir.blobs
    BY <1>3, <1>7, <1>8
  <2>. QED  BY <1>3, <1>7, <2>1, <2>2, <2>3 DEF Opening!Publishable
<1>10. Opening!Open(dir).err = "none"
  BY <1>5, <1>9, Opening!OpenAcceptsExactly DEF Opening!OpensExactly
<1>. QED  BY <1>10, SameOpen DEF dir

-----------------------------------------------------------------------------
(* The theorems.                                                           *)

\* The state of a build always has its type, however many builders share the
\* directory: the lists they walk are in bounds.
THEOREM TypeCorrect == Spec => []TypeOK
BY InitTyped, NextTyped, PTL DEF Spec

\* sign_with couples signing and Rekor: for any images, and any number of builders
\* at work in one output_dir, failing and killed anywhere, a bundle that is in
\* output_dir has an entry in the log.
THEOREM SignatureAlwaysRecorded == Spec => []SignatureIsRecorded
<1>1. SInv => SignatureIsRecorded
  BY DEF SInv
<1>. QED  BY <1>1, InitSInv, NextSInv, PTL DEF Spec

LEMMA Invariance == ASSUME OneBuilder PROVE Spec => []IInv
BY InitIInv, NextIInv, PTL DEF Spec

\* build() replaces a stale partial directory: for any images, failures, kills
\* and runs one after another, no blob of another spec is in output_dir.
THEOREM OutputNeverHasLeftovers == ASSUME OneBuilder PROVE Spec => []OutputHasNoLeftovers
<1>1. IInv => OutputHasNoLeftovers
  <2>. SUFFICES ASSUME IInv, output # NoDir PROVE OutputHasNoLeftovers
    BY DEF OutputHasNoLeftovers
  <2>1. PICK i \in Images : /\ output.files \subseteq Own(i)
                            /\ output.index \in {<<i.manifest>>, FullIndex(i)}
    BY DEF IInv, Whole
  <2>2. output.index # <<>> /\ output.index[1] = i.manifest
    <3>1. CASE output.index = <<i.manifest>>
      BY <3>1
    <3>2. CASE output.index = FullIndex(i)
      <4>1. Len(FullIndex(i)) > 0 /\ FullIndex(i)[1] = i.manifest
        BY FullIndexType, ImageTypes
      <4>. QED  BY <3>2, <4>1
    <3>. QED  BY <2>1, <3>1, <3>2
  <2>. QED  BY <2>1, <2>2 DEF OutputHasNoLeftovers, Own
<1>. QED  BY <1>1, Invariance, PTL

\* write_referrers_into_image_dir: the index lists all the referrers of an image
\* or none of them, wherever a run has stopped.
THEOREM ReferrersAlwaysAllOrNothing ==
  ASSUME OneBuilder PROVE Spec => []ReferrersAllOrNothing
<1>1. IInv => ReferrersAllOrNothing
  BY DEF IInv, Whole, FullIndex, ReferrersAllOrNothing
<1>. QED  BY <1>1, Invariance, PTL

\* CliError::exit_code: for any images, failures, kills and runs one after another,
\* what the exit code says of output_dir is so when the run ends.
THEOREM ExitAlwaysTellsOutput == ASSUME OneBuilder PROVE Spec => ExitTellsOutput
<1>. DEFINE Told1 == \A b \in Builders : exit'[b] \notin {Running, exit[b]} =>
       LET bare == <<image[b].manifest>>
       IN /\ exit'[b] = 0 => /\ partial' = NoDir
                             /\ output'.index = bare \o ReferrerManifests(image[b])
          /\ exit'[b] \in {1, 2} => output' = before[b]
          /\ exit'[b] \in {3, 64} => before[b] = NoDir /\ output'.index = bare
<1>1. TInv /\ [Next]_vars => [Told1]_vars
  BY NextTells DEF Tells
<1>2. Spec => []TInv
  BY InitTInv, NextTInv, PTL DEF Spec
<1>3. Spec => [][Told1]_vars
  BY <1>1, <1>2, PTL DEF Spec
<1>. QED  BY <1>3 DEF ExitTellsOutput

\* build: "No half-written <output_dir> ever appears": for any images, failures,
\* kills and runs one after another, ImageDir::open accepts output_dir whenever it
\* exists, with the payloads of an attestation that is under way in it, and with
\* the referrers once the index names them.
THEOREM OutputAlwaysOpens == ASSUME OneBuilder PROVE Spec => []OutputOpens
<1>1. Init /\ IInv => OInv
  BY DEF Init, OInv, StagedSoFar, StoredSoFar, Listed
<1>2. OInv => OutputOpens
  BY ListedOpens DEF OInv, IInv
<1>. QED  BY <1>1, <1>2, NextOInv, Invariance, PTL DEF Spec
=============================================================================
