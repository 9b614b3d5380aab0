------------------------- MODULE RegistryPullProofs -------------------------
(***************************************************************************)
(* Proofs about RegistryPull, for any repository of images and any number  *)
(* of pulls into one directory while publishers push.                      *)
(*                                                                         *)
(* That a pull misses no attestation rests on the order in which           *)
(* publishers push (Registered): the manifest that the pull fetched first  *)
(* was there after the referrers of an image.  They are still there when   *)
(* the referrers are asked for, and from then on each is either listed or  *)
(* yet to be dealt with (Gathered).                                        *)
(*                                                                         *)
(* That the directory opens at any moment rests on the order in which the  *)
(* pull writes (DInv): a manifest gets into the list when what it names    *)
(* has been written (AtHand, Walked), and index.json is written last, from *)
(* that list (Indexed).  That such a directory is what ImageDir::open      *)
(* accepts is the theorem of ImageDirProofs.                               *)
(***************************************************************************)
EXTENDS RegistryPull, FiniteSetTheorems, TLAPS

\* A primary manifest is there only with the referrers of one of its images.
Registered ==
  /\ IsFiniteSet(manifests)
  /\ \A m \in manifests :
       /\ m \in DOMAIN Manifest
       /\ Manifest[m].subject = Absent =>
            \E i \in Images : Primary(i) = m /\ ToSet(Referrers(i)) \subseteq manifests

\* What had been published when the pull began is there, and what it works on.
Known ==
  /\ \A i \in before : i \in Images /\ ToSet(Referrers(i)) \subseteq manifests
  /\ pc \in Active \ {"manifest"} => primary \in manifests

Lists ==
  /\ refs \in Seq(Digests) /\ listed \in Seq(Digests)
  /\ pc = "refContent" => refs # <<>>
  /\ pc = "index" => refs = <<>>

\* Every referrer of image i has been listed or is yet to be dealt with.
Covered(i) == ToSet(Referrers(i)) \subseteq ToSet(listed) \cup ToSet(refs)

Gathered ==
  pc \in {"referrer", "refContent", "index"} =>
    /\ strict => api
    /\ api /\ Manifest[primary].subject = Absent =>
         /\ \E i \in Images : Primary(i) = primary /\ Covered(i)
         /\ \A i \in before : Primary(i) = primary => Covered(i)

IInv == /\ Registered
        /\ Known
        /\ Lists
        /\ Gathered
        /\ AttestationsPulled

-----------------------------------------------------------------------------
(* Images, lists and listings.                                             *)

LEMMA ImageManifests ==
  ASSUME NEW i \in Images
  PROVE  /\ Primary(i) \in DOMAIN Manifest /\ Manifest[Primary(i)].subject = Absent
         /\ \A r \in ToSet(Referrers(i)) : /\ r \in DOMAIN Manifest
                                           /\ Manifest[r].subject = Primary(i)
         /\ Primary(i) # Absent
BY ManifestAssumption DEF ManifestDigests

LEMMA EmptyList == <<>> \in Seq(Digests) /\ ToSet(<<>>) = {}
BY DEF ToSet

\* The entries of a list are its head and those of its tail.
LEMMA HeadTail ==
  ASSUME NEW s \in Seq(Digests), s # <<>>
  PROVE  /\ Head(s) \in Digests /\ Tail(s) \in Seq(Digests)
         /\ ToSet(s) = {Head(s)} \cup ToSet(Tail(s))
<1>1. /\ Len(s) \in Nat \ {0} /\ DOMAIN s = 1..Len(s) /\ Head(s) = s[1]
      /\ Head(s) \in Digests /\ Tail(s) \in Seq(Digests)
      /\ DOMAIN Tail(s) = 1..(Len(s) - 1)
      /\ \A k \in 1..(Len(s) - 1) : Tail(s)[k] = s[k + 1]
  OBVIOUS
<1>2. ToSet(Tail(s)) \subseteq ToSet(s)
  BY <1>1 DEF ToSet
<1>3. Head(s) \in ToSet(s)
  BY <1>1 DEF ToSet
<1>4. ASSUME NEW k \in 1..Len(s) PROVE s[k] \in {Head(s)} \cup ToSet(Tail(s))
  <2>1. CASE k = 1
    BY <1>1, <2>1
  <2>2. CASE k # 1
    <3>1. k - 1 \in 1..(Len(s) - 1) /\ (k - 1) + 1 = k
      BY <1>1, <2>2
    <3>2. Tail(s)[k - 1] = s[k]
      BY <1>1, <3>1
    <3>. QED  BY <1>1, <3>1, <3>2 DEF ToSet
  <2>. QED  BY <2>1, <2>2
<1>. QED  BY <1>1, <1>2, <1>3, <1>4 DEF ToSet

\* The entries of a list that gets one more.
LEMMA Appended ==
  ASSUME NEW t \in Seq(Digests), NEW d \in Digests
  PROVE  /\ Append(t, d) \in Seq(Digests)
         /\ ToSet(Append(t, d)) = ToSet(t) \cup {d}
<1>1. /\ Len(t) \in Nat /\ DOMAIN t = 1..Len(t)
      /\ Append(t, d) \in Seq(Digests)
      /\ DOMAIN Append(t, d) = 1..(Len(t) + 1)
      /\ Append(t, d)[Len(t) + 1] = d
      /\ \A k \in 1..Len(t) : Append(t, d)[k] = t[k]
  OBVIOUS
<1>2. ToSet(Append(t, d)) \subseteq ToSet(t) \cup {d}
  BY <1>1 DEF ToSet
<1>3. ToSet(t) \subseteq ToSet(Append(t, d)) /\ d \in ToSet(Append(t, d))
  BY <1>1 DEF ToSet
<1>. QED  BY <1>1, <1>2, <1>3

\* Moving the first entry of one list to the end of another one.
LEMMA MoveHead ==
  ASSUME NEW s \in Seq(Digests), s # <<>>, NEW t \in Seq(Digests)
  PROVE  /\ Tail(s) \in Seq(Digests) /\ Append(t, Head(s)) \in Seq(Digests)
         /\ ToSet(Append(t, Head(s))) \cup ToSet(Tail(s)) = ToSet(t) \cup ToSet(s)
BY HeadTail, Appended

\* Whatever the referrers API answers, it leaves nothing out and adds nothing.
LEMMA ListingsComplete ==
  ASSUME NEW m, IsFiniteSet(manifests), manifests \subseteq Digests, NEW s \in Listings(m)
  PROVE  /\ s \in Seq(Digests)
         /\ ToSet(s) = {d \in manifests : Manifest[d].subject = m}
<1>. DEFINE own == {d \in manifests : Manifest[d].subject = m}
            n == Cardinality(own)
            orders == {o \in [1..n -> own] : ToSet(o) = own}
<1>1. own \subseteq Digests /\ n \in Nat
  BY FS_Subset, FS_CardinalityType
<1>2. s \in orders \/ \E o \in orders : n > 0 /\ s = Append(o, o[1])
  BY DEF Listings
<1>. HIDE DEF n, own
<1>3. ASSUME NEW o \in orders
      PROVE  o \in Seq(Digests) /\ ToSet(o) = own /\ Len(o) = n
  BY <1>1
<1>4. ASSUME NEW o \in orders, n > 0
      PROVE  Append(o, o[1]) \in Seq(Digests) /\ ToSet(Append(o, o[1])) = own
  <2>1. o[1] \in own /\ o \in Seq(Digests) /\ ToSet(o) = own /\ Len(o) = n
    BY <1>1, <1>3, <1>4
  <2>2. o[1] \in Digests /\ o[1] \in ToSet(o)
    BY <1>1, <2>1
  <2>3. Append(o, o[1]) \in Seq(Digests) /\ ToSet(Append(o, o[1])) = ToSet(o) \cup {o[1]}
    BY <2>1, <2>2, Appended
  <2>. QED  BY <2>1, <2>2, <2>3
<1>5. s \in Seq(Digests) /\ ToSet(s) = own
  BY <1>2, <1>3, <1>4
<1>. QED  BY <1>5 DEF own

\* The steps of publishers, in the words of this module.
LEMMA PublishedEffect ==
  ASSUME Reg!Next
  PROVE  \/ UNCHANGED manifests
         \/ \E i \in Images : \E d \in ToSet(Referrers(i)) : manifests' = manifests \cup {d}
         \/ \E i \in Images : /\ ToSet(Referrers(i)) \subseteq manifests
                              /\ manifests' = manifests \cup {Primary(i)}
BY DEF Reg!Next, Reg!AddBlob, Reg!AddReferrer, Reg!Commit,
       Reg!ToSet, Reg!Referrers, Reg!Primary, ToSet, Referrers, Primary

-----------------------------------------------------------------------------
(* The steps.                                                              *)

\* Publishers push: nothing that a pull relies on goes away.
LEMMA PublishedStep ==
  ASSUME IInv, Published
  PROVE  IInv'
<1>. USE DEF Published
<1>1. UNCHANGED <<api, pc, strict, before, primary, refs, listed, index>>
  BY DEF dest, request, walk
<1>2. manifests \subseteq manifests'
  BY PublishedEffect
<1>3. IsFiniteSet(manifests')
  BY PublishedEffect, FS_AddElement DEF IInv, Registered
<1>4. ASSUME NEW m \in manifests'
      PROVE  /\ m \in DOMAIN Manifest
             /\ Manifest[m].subject = Absent =>
                  \E i \in Images : Primary(i) = m /\ ToSet(Referrers(i)) \subseteq manifests'
  <2>1. CASE m \in manifests
    BY <1>2, <2>1 DEF IInv, Registered
  <2>2. CASE \E i \in Images : m \in ToSet(Referrers(i))
    BY <2>2, ImageManifests
  <2>3. CASE \E i \in Images : m = Primary(i) /\ ToSet(Referrers(i)) \subseteq manifests
    BY <1>2, <2>3, ImageManifests
  <2>. QED  BY <2>1, <2>2, <2>3, PublishedEffect
<1>5. Registered'
  BY <1>3, <1>4 DEF Registered
<1>6. Known' /\ Lists' /\ Gathered' /\ AttestationsPulled'
  BY <1>1, <1>2 DEF IInv, Known, Lists, Gathered, Covered, AttestationsPulled
<1>. QED  BY <1>5, <1>6 DEF IInv

\* A pull begins: what has been published by now has its referrers there.
LEMMA StartStep ==
  ASSUME IInv, Start
  PROVE  IInv'
<1>. USE DEF Start
<1>1. pc' = "manifest" /\ UNCHANGED <<manifests, refs, listed>>
  BY DEF registry, walk
<1>2. Known'
  BY <1>1 DEF Known, Whole, ManifestDigests
<1>3. Registered' /\ Lists' /\ Gathered' /\ AttestationsPulled'
  BY <1>1 DEF IInv, Registered, Lists, Gathered, AttestationsPulled
<1>. QED  BY <1>2, <1>3 DEF IInv

\* The manifest and the content of the image.
LEMMA ContentStep ==
  ASSUME IInv, FetchManifest \/ SeenBlob \/ SkipBlob \/ PullBlob \/ ContentDone
  PROVE  IInv'
<1>. USE DEF FetchManifest, SeenBlob, SkipBlob, PullBlob, NextBlob, ContentDone
<1>1. UNCHANGED <<manifests, api, strict, before, refs, listed, index>>
  BY DEF registry, dest, request, walk
<1>2. \/ pc' = "content" /\ primary' \in manifests
      \/ pc = "content" /\ pc' = "referrers" /\ primary' = primary
      \/ pc \in {"content", "refContent"} /\ UNCHANGED <<pc, primary>>
  BY DEF walk
<1>3. Registered' /\ Known' /\ Lists'
  BY <1>1, <1>2 DEF IInv, Registered, Known, Lists, Active
<1>4. Gathered' /\ AttestationsPulled'
  BY <1>1, <1>2 DEF IInv, Gathered, Covered, AttestationsPulled
<1>. QED  BY <1>3, <1>4 DEF IInv

\* The referrers API is asked: the referrers of an image with this manifest were
\* there before it, and those of an image that had been published.
LEMMA FetchReferrersStep ==
  ASSUME IInv, FetchReferrers
  PROVE  IInv'
<1>. USE DEF FetchReferrers
<1>1. pc' = "referrer" /\ UNCHANGED <<manifests, api, strict, before, primary, listed, index>>
  BY DEF registry, dest, request
<1>2. primary \in manifests /\ manifests \subseteq Digests /\ IsFiniteSet(manifests)
  BY ManifestAssumption DEF IInv, Known, Registered, Active
<1>3. refs' \in Seq(Digests)
  BY <1>2, ListingsComplete, EmptyList
<1>4. ASSUME api, NEW i \in Images, Primary(i) = primary,
             ToSet(Referrers(i)) \subseteq manifests
      PROVE  Covered(i)'
  <2>1. {d \in manifests : Manifest[d].subject = primary} \subseteq ToSet(refs')
    BY <1>2, <1>4, ListingsComplete
  <2>2. ToSet(Referrers(i)) \subseteq ToSet(refs')
    BY <1>4, <2>1, ImageManifests
  <2>. QED  BY <2>2 DEF Covered
<1>5. Registered' /\ Known' /\ Lists'
  BY <1>1, <1>2, <1>3 DEF IInv, Registered, Known, Lists
<1>6. Gathered'
  <2>1. strict' => api'
    BY <1>1
  <2>2. ASSUME api, Manifest[primary].subject = Absent
        PROVE  /\ \E i \in Images : Primary(i) = primary /\ Covered(i)'
               /\ \A i \in before : Primary(i) = primary => Covered(i)'
    BY <1>2, <1>4, <2>2 DEF IInv, Registered, Known
  <2>. QED  BY <1>1, <2>1, <2>2 DEF Gathered, Covered
<1>7. AttestationsPulled'
  BY <1>1 DEF AttestationsPulled
<1>. QED  BY <1>5, <1>6, <1>7 DEF IInv

\* The walk over the referrers: what leaves refs is listed.
LEMMA ReferrerStep ==
  ASSUME IInv, SeenReferrer \/ FetchReferrer \/ ReferrerDone \/ WriteLayout
  PROVE  IInv'
<1>1. UNCHANGED <<manifests, api, strict, before, primary, index>>
  BY DEF SeenReferrer, FetchReferrer, ReferrerDone, WriteLayout, registry, dest, request, walk
<1>2. pc \in {"referrer", "refContent"} /\ pc' \in {"referrer", "refContent", "index"}
  BY DEF SeenReferrer, FetchReferrer, ReferrerDone, WriteLayout
<1>3. Lists' /\ ToSet(listed') \cup ToSet(refs') = ToSet(listed) \cup ToSet(refs)
  <2>1. CASE SeenReferrer \/ ReferrerDone
    <3>1. /\ refs # <<>> /\ refs \in Seq(Digests) /\ listed \in Seq(Digests)
          /\ listed' = Append(listed, Head(refs)) /\ refs' = Tail(refs)
          /\ pc' = "referrer"
      BY <2>1 DEF SeenReferrer, ReferrerDone, IInv, Lists
    <3>. QED  BY <3>1, MoveHead DEF Lists
  <2>2. CASE FetchReferrer \/ WriteLayout
    BY <2>2 DEF FetchReferrer, WriteLayout, walk, IInv, Lists
  <2>. QED  BY <2>1, <2>2
<1>4. Registered' /\ Known'
  BY <1>1, <1>2 DEF IInv, Registered, Known, Active
<1>5. Gathered'
  BY <1>1, <1>2, <1>3 DEF IInv, Gathered, Covered
<1>6. AttestationsPulled'
  BY <1>2 DEF AttestationsPulled
<1>. QED  BY <1>3, <1>4, <1>5, <1>6 DEF IInv

\* index.json: the primary manifest and all that has been listed.
LEMMA WriteIndexStep ==
  ASSUME IInv, WriteIndex
  PROVE  IInv'
<1>. USE DEF WriteIndex, Return
<1>1. pc' = "done" /\ UNCHANGED <<manifests, api, strict, before>>
  BY DEF registry, request
<1>2. Registered' /\ Known' /\ Lists' /\ Gathered'
  BY <1>1, EmptyList DEF IInv, Registered, Known, Lists, Gathered, Active
<1>3. index'[1] = primary /\ ToSet(listed) \subseteq ToSet(index')
  <2>1. listed \in Seq(Digests) /\ Len(listed) \in Nat /\ DOMAIN listed = 1..Len(listed)
    BY DEF IInv, Lists
  <2>2. /\ index' = <<primary>> \o listed /\ index'[1] = primary
        /\ DOMAIN index' = 1..(Len(listed) + 1)
        /\ \A k \in 1..Len(listed) : index'[k + 1] = listed[k]
    BY <2>1
  <2>3. \A k \in 1..Len(listed) : k + 1 \in DOMAIN index'
    BY <2>1, <2>2
  <2>. QED  BY <2>1, <2>2, <2>3 DEF ToSet
<1>4. refs = <<>> /\ ToSet(refs) = {}
  BY EmptyList DEF IInv, Lists
<1>5. AttestationsPulled'
  BY <1>1, <1>3, <1>4 DEF IInv, Gathered, Covered, AttestationsPulled
<1>. QED  BY <1>2, <1>5 DEF IInv

LEMMA StopStep ==
  ASSUME IInv, Stop
  PROVE  IInv'
<1>. USE DEF Stop, Return
<1>1. pc' = "failed" /\ refs' = <<>> /\ listed' = <<>> /\ UNCHANGED <<manifests, before>>
  BY DEF registry, request
<1>. QED
  BY <1>1, EmptyList
  DEF IInv, Registered, Known, Lists, Gathered, AttestationsPulled, Active

-----------------------------------------------------------------------------
(* The theorems.                                                           *)

LEMMA InitIInv == Init => IInv
<1>. SUFFICES ASSUME Init PROVE IInv
  OBVIOUS
<1>1. manifests = {} /\ before = {} /\ pc = "idle" /\ refs = <<>> /\ listed = <<>>
  BY DEF Init, Reg!Init
<1>. QED
  BY <1>1, FS_EmptySet, EmptyList
  DEF IInv, Registered, Known, Lists, Gathered, AttestationsPulled, Active

LEMMA NextIInv == IInv /\ [Next]_vars => IInv'
<1>. SUFFICES ASSUME IInv, [Next]_vars PROVE IInv'
  OBVIOUS
<1>1. CASE UNCHANGED vars
  BY <1>1
  DEF vars, registry, dest, request, walk, IInv, Registered, Known, Lists, Gathered, Covered,
      AttestationsPulled
<1>. QED
  BY <1>1, PublishedStep, StartStep, ContentStep, FetchReferrersStep, ReferrerStep,
     WriteIndexStep, StopStep
  DEF Next, Pull

LEMMA Invariance == Spec => []IInv
BY InitIInv, NextIInv, PTL DEF Spec

\* execute_pull misses no attestation: for any images and any publishers that
\* push meanwhile, the index that a pull writes has every referrer of a published
\* image with its manifest.
THEOREM AttestationsAlwaysPulled == Spec => []AttestationsPulled
<1>1. IInv => AttestationsPulled
  BY DEF IInv
<1>. QED  BY <1>1, Invariance, PTL

-----------------------------------------------------------------------------
(* Types.                                                                  *)

\* Files are written under digests only.
LEMMA StoreTyped ==
  ASSUME NEW d \in Digests, NEW bytes, DOMAIN files \subseteq Digests, Store(d, bytes)
  PROVE  DOMAIN files' \subseteq Digests
BY DEF Store

LEMMA ContentTyped ==
  ASSUME NEW d \in DOMAIN Manifest
  PROVE  /\ ContentOf(d) \in Seq(Digests) /\ ToSet(ContentOf(d)) \subseteq Digests
         /\ d \in Digests
<1>1. /\ Manifest[d].config \in Digests /\ Manifest[d].layers \in Seq(Digests)
      /\ d \in Digests
  BY ManifestAssumption
<1>2. ContentOf(d) \in Seq(Digests)
  BY <1>1 DEF ContentOf
<1>. QED  BY <1>1, <1>2 DEF ToSet

LEMMA PublishedTyped ==
  ASSUME TypeOK, Published
  PROVE  TypeOK'
<1>1. UNCHANGED <<api, strict, layout, files, index, pc, target, primary, todo, refs, listed,
                  seen, pulls, before>>
  BY DEF Published, dest, request, walk
<1>2. blobs' \subseteq Digests /\ tag' \in Images \cup {NoImage}
  <2>1. ASSUME NEW i \in Images PROVE ToSet(Blobs(i)) \subseteq Digests
    BY DescriptorAssumption DEF Blobs, ToSet
  <2>. QED
    BY <2>1
    DEF TypeOK, Published, Reg!Next, Reg!AddBlob, Reg!AddReferrer, Reg!Commit,
        Reg!ToSet, Reg!Blobs, ToSet, Blobs
<1>3. manifests' \subseteq DOMAIN Manifest
  BY PublishedEffect, ImageManifests DEF TypeOK, Published
<1>. QED  BY <1>1, <1>2, <1>3 DEF TypeOK

LEMMA RequestTyped ==
  ASSUME TypeOK, Start \/ ContentDone \/ SeenBlob \/ SkipBlob \/ PullBlob
  PROVE  TypeOK'
<1>1. CASE Start
  <2>1. /\ pulls' \in 0..MaxPulls /\ before' \subseteq Images /\ strict' \in BOOLEAN
        /\ target' \in Pinned \cup {Tag} /\ pc' = "manifest" /\ todo = <<>>
    BY <1>1, PullsAssumption DEF Start, TypeOK, Ended
  <2>2. UNCHANGED <<registry, dest, walk>>
    BY <1>1 DEF Start
  <2>. QED  BY <2>1, <2>2 DEF TypeOK, registry, dest, walk, Active
<1>2. CASE ContentDone
  BY <1>2 DEF ContentDone, TypeOK, registry, dest, request, walk, Active
<1>3. ASSUME NEW d, NextBlob(d)
      PROVE  /\ d \in Digests /\ todo' \in Seq(Digests) /\ seen' \subseteq Digests
             /\ pc \in {"content", "refContent"}
  <2>1. pc \in {"content", "refContent"} /\ todo # <<>> /\ d = Head(todo) /\ todo' = Tail(todo)
    BY <1>3 DEF NextBlob
  <2>2. d \in Digests /\ todo' \in Seq(Digests)
    BY <2>1, HeadTail DEF TypeOK
  <2>. QED  BY <1>3, <2>1, <2>2 DEF NextBlob, TypeOK
<1>4. CASE SeenBlob
  <2>1. todo' \in Seq(Digests)
    BY <1>4, HeadTail DEF SeenBlob, TypeOK
  <2>. QED  BY <1>4, <2>1 DEF SeenBlob, TypeOK, registry, dest, request
<1>5. CASE SkipBlob
  BY <1>3, <1>5 DEF SkipBlob, TypeOK, registry, dest, request
<1>6. CASE PullBlob
  <2>1. PICK d : NextBlob(d) /\ Store(d, d)
    BY <1>6 DEF PullBlob
  <2>2. DOMAIN files' \subseteq Digests
    BY <1>3, <2>1, StoreTyped DEF TypeOK
  <2>. QED  BY <1>3, <1>6, <2>1, <2>2 DEF PullBlob, TypeOK, registry, request
<1>. QED  BY <1>1, <1>2, <1>4, <1>5, <1>6

LEMMA ManifestTyped ==
  ASSUME TypeOK, FetchManifest \/ FetchReferrer
  PROVE  TypeOK'
<1>1. CASE FetchManifest
  <2>1. PICK served \in manifests : /\ primary' = served /\ Store(served, served)
                                  /\ todo' = ContentOf(served)
    BY <1>1 DEF FetchManifest
  <2>2. served \in DOMAIN Manifest /\ served \in Digests
    BY ContentTyped DEF TypeOK
  <2>4. todo' \in Seq(Digests)
    BY <2>1, <2>2, ContentTyped
  <2>3. DOMAIN files' \subseteq Digests
    BY <2>1, <2>2, StoreTyped DEF TypeOK
  <2>. QED
    BY <1>1, <2>1, <2>2, <2>3, <2>4 DEF FetchManifest, TypeOK, registry, request, Active
<1>2. CASE FetchReferrer
  <2>1. /\ Head(refs) \in DOMAIN Manifest /\ Head(refs) \in Digests
        /\ ContentOf(Head(refs)) \in Seq(Digests)
    BY <1>2, ContentTyped DEF FetchReferrer, TypeOK
  <2>2. DOMAIN files' \subseteq Digests /\ seen' \subseteq Digests /\ todo' \in Seq(Digests)
    BY <1>2, <2>1, StoreTyped DEF FetchReferrer, TypeOK
  <2>. QED
    BY <1>2, <2>2 DEF FetchReferrer, TypeOK, registry, request, Active
<1>. QED  BY <1>1, <1>2

LEMMA ReferrersTyped ==
  ASSUME TypeOK, IInv, FetchReferrers
  PROVE  TypeOK'
<1>1. primary \in DOMAIN Manifest
  BY DEF FetchReferrers, IInv, Known, Registered, Active
<1>2. seen' \subseteq Digests
  BY <1>1, ContentTyped DEF FetchReferrers
<1>3. IsFiniteSet(manifests) /\ manifests \subseteq Digests
  BY ManifestAssumption DEF IInv, Registered
<1>4. refs' \in Seq(Digests)
  BY <1>3, ListingsComplete, EmptyList DEF FetchReferrers
<1>. QED
  BY <1>2, <1>4 DEF FetchReferrers, TypeOK, registry, dest, request, Active

LEMMA ReferrerTyped ==
  ASSUME TypeOK, SeenReferrer \/ ReferrerDone
  PROVE  TypeOK'
<1>1. refs # <<>> /\ refs' = Tail(refs) /\ listed' = Append(listed, Head(refs))
  BY DEF SeenReferrer, ReferrerDone, TypeOK
<1>2. refs' \in Seq(Digests) /\ listed' \in Seq(Digests)
  BY <1>1, MoveHead DEF TypeOK
<1>3. /\ pc' = "referrer" /\ todo' = <<>>
      /\ UNCHANGED <<registry, dest, request, primary, seen>>
  BY DEF SeenReferrer, ReferrerDone, TypeOK
<1>. QED  BY <1>2, <1>3 DEF TypeOK, registry, dest, request, Active

LEMMA LastTyped ==
  ASSUME TypeOK, IInv, WriteLayout \/ WriteIndex \/ Stop
  PROVE  TypeOK'
<1>1. CASE WriteLayout
  BY <1>1 DEF WriteLayout, TypeOK, registry, request, walk, Active
<1>2. CASE WriteIndex
  <2>1. primary \in Digests
    BY <1>2, ManifestAssumption DEF WriteIndex, IInv, Known, Registered, Active
  <2>2. index' \in Seq(Digests)
    BY <1>2, <2>1 DEF WriteIndex, TypeOK
  <2>. QED
    BY <1>2, <2>2, EmptyList DEF WriteIndex, Return, TypeOK, registry, request, Ended
<1>3. CASE Stop
  BY <1>3, EmptyList DEF Stop, Return, TypeOK, registry, dest, request, Ended
<1>. QED  BY <1>1, <1>2, <1>3

\* The state of a pull always has its type.
THEOREM TypeCorrect == Spec => []TypeOK
<1>1. Init => TypeOK
  <2>. SUFFICES ASSUME Init PROVE TypeOK
    OBVIOUS
  <2>1. blobs = {} /\ manifests = {} /\ tag = NoImage
    BY DEF Init, Reg!Init
  <2>2. DOMAIN files = {} /\ 0 \in 0..MaxPulls
    BY PullsAssumption DEF Init
  <2>3. /\ pc = "idle" /\ primary = Absent /\ refs = <<>> /\ listed = <<>> /\ index = <<>>
        /\ todo = <<>> /\ seen = {} /\ before = {} /\ pulls = 0 /\ target = Tag
        /\ api \in BOOLEAN /\ strict = FALSE /\ layout = FALSE
    BY DEF Init
  <2>. QED  BY <2>1, <2>2, <2>3, EmptyList DEF TypeOK, Ended
<1>2. TypeOK /\ IInv /\ [Next]_vars => TypeOK'
  <2>. SUFFICES ASSUME TypeOK, IInv, [Next]_vars PROVE TypeOK'
    OBVIOUS
  <2>1. CASE UNCHANGED vars
    BY <2>1 DEF vars, registry, dest, request, walk, TypeOK
  <2>. QED
    BY <2>1, PublishedTyped, RequestTyped, ManifestTyped, ReferrersTyped, ReferrerTyped,
       LastTyped
    DEF Next, Pull
<1>. QED  BY <1>1, <1>2, Invariance, PTL DEF Spec

\* Every file under blobs/sha256 has the bytes that its name says, at any moment
\* of any number of pulls into one directory.
THEOREM BytesAlwaysMatchNames == Spec => []BytesMatchNames
<1>1. Init => BytesMatchNames
  BY DEF Init, BytesMatchNames
<1>2. ASSUME NEW d, BytesMatchNames, Store(d, d)
      PROVE  BytesMatchNames'
  BY <1>2 DEF Store, BytesMatchNames
<1>3. BytesMatchNames /\ [Next]_vars => BytesMatchNames'
  <2>. SUFFICES ASSUME BytesMatchNames, [Next]_vars PROVE BytesMatchNames'
    OBVIOUS
  <2>1. CASE FetchManifest \/ PullBlob \/ FetchReferrer
    BY <1>2, <2>1 DEF FetchManifest, PullBlob, FetchReferrer
  <2>2. CASE UNCHANGED files
    BY <2>2 DEF BytesMatchNames
  <2>. QED
    BY <2>1, <2>2
    DEF Next, Pull, vars, dest, Published, Start, SeenBlob, SkipBlob, ContentDone,
        FetchReferrers, SeenReferrer, ReferrerDone, WriteLayout, WriteIndex, Stop
<1>. QED  BY <1>1, <1>3, PTL DEF Spec

-----------------------------------------------------------------------------
(* What the index lists is whole.                                          *)

\* The manifest under digest d is there with its config and layers.
Complete(d) == /\ d \in DOMAIN Manifest /\ d \in DOMAIN files
               /\ ToSet(ContentOf(d)) \subseteq DOMAIN files

\* index.json comes after oci-layout and after all that it lists; the first of
\* its manifests is the subject of the others.
Indexed ==
  index # <<>> =>
    /\ layout
    /\ \A k \in DOMAIN index : /\ Complete(index[k])
                               /\ k # 1 => Manifest[index[k]].subject = index[1]

\* The primary manifest of the pull is there, its content is there or to be pulled.
AtHand ==
  /\ pc \in Active \ {"manifest"} => primary \in DOMAIN Manifest /\ primary \in DOMAIN files
  /\ pc = "content" => ToSet(ContentOf(primary)) \subseteq DOMAIN files \cup ToSet(todo)
  /\ pc \in {"referrers", "referrer", "refContent", "index"} => Complete(primary)
  /\ pc = "index" => layout

\* The walk over the referrers.  A digest is seen when its file is there: that a
\* seen referrer may be listed at once rests on a manifest not being the content
\* of another, so that it was seen as the primary or as a referrer.
Walked ==
  pc \in {"referrer", "refContent", "index"} =>
    /\ \A d \in ToSet(refs) : d \in DOMAIN Manifest /\ Manifest[d].subject = primary
    /\ \A d \in ToSet(listed) : Complete(d) /\ Manifest[d].subject = primary
    /\ seen \subseteq DOMAIN files
    /\ \A d \in seen \cap DOMAIN Manifest :
         \/ d = primary \/ d \in ToSet(listed)
         \/ pc = "refContent" /\ d = Head(refs)
    /\ pc = "refContent" =>
         /\ Head(refs) \in DOMAIN files
         /\ ToSet(ContentOf(Head(refs))) \subseteq DOMAIN files \cup ToSet(todo)
         /\ ToSet(todo) \cap DOMAIN Manifest = {}

\* Before the walk nothing has been listed.
Unwalked == pc \notin {"referrer", "refContent", "index"} => listed = <<>>

DInv == Indexed /\ AtHand /\ Walked /\ Unwalked

\* No manifest is the content of another.
LEMMA ContentIsNoManifest ==
  ASSUME NEW d \in DOMAIN Manifest
  PROVE  ToSet(ContentOf(d)) \cap DOMAIN Manifest = {}
<1>1. /\ Manifest[d].config \in Digests \ DOMAIN Manifest
      /\ Manifest[d].layers \in Seq(Digests \ DOMAIN Manifest)
  BY ManifestAssumption
<1>2. ContentOf(d) \in Seq(Digests \ DOMAIN Manifest)
  BY <1>1 DEF ContentOf
<1>. QED  BY <1>2 DEF ToSet

\* Files stay.
LEMMA StoreKeeps ==
  ASSUME NEW d, NEW bytes, Store(d, bytes)
  PROVE  DOMAIN files' = DOMAIN files \cup {d}
BY DEF Store

LEMMA CompleteKept ==
  ASSUME DOMAIN files \subseteq DOMAIN files', NEW d, Complete(d)
  PROVE  Complete(d)'
BY DEF Complete, ContentOf

LEMMA IndexedKept ==
  ASSUME Indexed, DOMAIN files \subseteq DOMAIN files', layout => layout', UNCHANGED index
  PROVE  Indexed'
BY CompleteKept DEF Indexed

\* Steps that leave the destination and the walk alone, or end the walk.
LEMMA IdleKeeps ==
  ASSUME DInv, Published \/ Start \/ Stop
  PROVE  DInv'
<1>1. UNCHANGED <<files, layout, index>>
  BY DEF Published, Start, Stop, dest
<1>2. Indexed'
  BY <1>1, IndexedKept DEF DInv
<1>3. CASE Published
  <2>1. UNCHANGED <<files, layout, index, pc, primary, todo, refs, seen, listed>>
    BY <1>3 DEF Published, dest, walk
  <2>. QED  BY <1>2, <2>1 DEF DInv, AtHand, Walked, Complete, ContentOf, Unwalked
<1>4. CASE Start
  <2>1. pc \in Ended /\ pc' = "manifest" /\ listed' = listed
    BY <1>4 DEF Start, walk
  <2>. QED  BY <1>2, <2>1 DEF DInv, AtHand, Walked, Active, Ended, Unwalked
<1>5. CASE Stop
  <2>1. pc' = "failed" /\ listed' = <<>>
    BY <1>5 DEF Stop, Return
  <2>. QED  BY <1>2, <2>1 DEF DInv, AtHand, Walked, Active, Unwalked
<1>. QED  BY <1>3, <1>4, <1>5

LEMMA FetchManifestKeeps ==
  ASSUME TypeOK, DInv, FetchManifest
  PROVE  DInv'
<1>1. PICK d \in manifests : primary' = d /\ Store(d, d) /\ todo' = ContentOf(d)
  BY DEF FetchManifest
<1>2. d \in DOMAIN Manifest /\ DOMAIN files' = DOMAIN files \cup {d}
  BY <1>1, StoreKeeps DEF TypeOK
<1>3. pc = "manifest" /\ pc' = "content" /\ UNCHANGED <<layout, index, listed>>
  BY DEF FetchManifest
<1>4. Indexed'
  BY <1>2, <1>3, IndexedKept DEF DInv
<1>5. AtHand' /\ Walked' /\ Unwalked'
  BY <1>1, <1>2, <1>3 DEF DInv, AtHand, Walked, ContentOf, Unwalked
<1>. QED  BY <1>4, <1>5 DEF DInv

\* A blob of the manifest at hand is there, and no longer to be pulled.
LEMMA NextBlobKeeps ==
  ASSUME TypeOK, DInv, NEW d, NextBlob(d), d \in DOMAIN files',
         DOMAIN files \subseteq DOMAIN files',
         UNCHANGED <<layout, index, pc, primary, refs, listed>>
  PROVE  DInv'
<1>1. /\ pc \in {"content", "refContent"} /\ todo # <<>> /\ d = Head(todo)
      /\ todo' = Tail(todo) /\ todo \in Seq(Digests)
      /\ seen' = IF pc = "refContent" THEN seen \cup {d} ELSE seen
  BY DEF NextBlob, TypeOK
<1>2. ToSet(todo) = {d} \cup ToSet(todo')
  BY <1>1, HeadTail
<1>3. Indexed'
  BY IndexedKept DEF DInv
<1>4. AtHand'
  BY <1>1, <1>2, CompleteKept DEF DInv, AtHand, ContentOf
<1>5. ASSUME pc = "content" PROVE Walked'
  BY <1>5 DEF Walked
<1>6. ASSUME pc = "refContent" PROVE Walked'
  BY <1>1, <1>2, <1>6, CompleteKept DEF DInv, Walked, ContentOf
<1>. QED  BY <1>1, <1>3, <1>4, <1>5, <1>6 DEF DInv, Unwalked

LEMMA BlobKeeps ==
  ASSUME TypeOK, DInv, SeenBlob \/ SkipBlob \/ PullBlob
  PROVE  DInv'
<1>1. CASE SeenBlob
  <2>1. /\ pc = "refContent" /\ Head(todo) \in seen /\ todo \in Seq(Digests) /\ todo # <<>>
        /\ todo' = Tail(todo)
        /\ UNCHANGED <<files, layout, index, pc, primary, refs, seen, listed>>
    BY <1>1 DEF SeenBlob, TypeOK, dest
  <2>2. ToSet(todo) = {Head(todo)} \cup ToSet(todo')
    BY <2>1, HeadTail
  <2>3. Head(todo) \in DOMAIN files
    BY <2>1 DEF DInv, Walked
  <2>. QED
    BY <2>1, <2>2, <2>3
    DEF DInv, Indexed, AtHand, Walked, Complete, ContentOf, Unwalked
<1>2. CASE SkipBlob
  <2>1. PICK d \in DOMAIN files : NextBlob(d)
    BY <1>2 DEF SkipBlob
  <2>2. UNCHANGED <<files, layout, index, pc, primary, refs, listed>>
    BY <1>2 DEF SkipBlob, dest
  <2>. QED  BY <2>1, <2>2, NextBlobKeeps
<1>3. CASE PullBlob
  <2>1. PICK d : NextBlob(d) /\ Store(d, d)
    BY <1>3 DEF PullBlob
  <2>2. DOMAIN files' = DOMAIN files \cup {d}
    BY <2>1, StoreKeeps
  <2>3. UNCHANGED <<layout, index, pc, primary, refs, listed>>
    BY <1>3 DEF PullBlob
  <2>. QED  BY <2>1, <2>2, <2>3, NextBlobKeeps
<1>. QED  BY <1>1, <1>2, <1>3

\* The primary manifest is complete, and its referrers are asked for.
LEMMA ReferrersKeep ==
  ASSUME TypeOK, IInv, DInv, ContentDone \/ FetchReferrers
  PROVE  DInv'
<1>1. CASE ContentDone
  <2>1. /\ pc = "content" /\ todo = <<>> /\ pc' = "referrers"
        /\ UNCHANGED <<files, layout, index, primary, listed>>
    BY <1>1 DEF ContentDone, dest, walk
  <2>2. Complete(primary)
    BY <2>1, EmptyList DEF DInv, AtHand, Complete, Active
  <2>. QED
    BY <2>1, <2>2 DEF DInv, Indexed, AtHand, Walked, Complete, ContentOf, Active, Unwalked
<1>2. CASE FetchReferrers
  <2>1. /\ pc = "referrers" /\ pc' = "referrer"
        /\ UNCHANGED <<files, layout, index, primary, listed>>
        /\ seen' = {primary} \cup ToSet(ContentOf(primary))
        /\ IF api THEN refs' \in Listings(primary) ELSE refs' = <<>>
    BY <1>2 DEF FetchReferrers, dest
  <2>2. Complete(primary) /\ ToSet(ContentOf(primary)) \cap DOMAIN Manifest = {}
    BY <2>1, ContentIsNoManifest DEF DInv, AtHand, Complete
  <2>3. IsFiniteSet(manifests) /\ manifests \subseteq Digests /\ manifests \subseteq DOMAIN Manifest
    BY ManifestAssumption DEF IInv, Registered
  <2>4. \A d \in ToSet(refs') : d \in DOMAIN Manifest /\ Manifest[d].subject = primary
    BY <2>1, <2>3, ListingsComplete, EmptyList
  <2>5. ToSet(listed) = {}
    BY <2>1, EmptyList DEF DInv, Unwalked
  <2>6. Walked'
    BY <2>1, <2>2, <2>4, <2>5 DEF Walked, Complete
  <2>7. Indexed' /\ Complete(primary)'
    BY <2>1, <2>2, CompleteKept, IndexedKept DEF DInv
  <2>8. AtHand'
    BY <2>1, <2>2, <2>7 DEF AtHand, Complete
  <2>. QED  BY <2>1, <2>6, <2>7, <2>8 DEF DInv, Unwalked
<1>. QED  BY <1>1, <1>2

LEMMA FetchReferrerKeeps ==
  ASSUME TypeOK, DInv, FetchReferrer
  PROVE  DInv'
<1>. DEFINE r == Head(refs)
<1>1. /\ pc = "referrer" /\ pc' = "refContent" /\ refs # <<>> /\ refs \in Seq(Digests)
      /\ Store(r, r) /\ todo' = ContentOf(r) /\ seen' = seen \cup {r}
      /\ UNCHANGED <<layout, index, primary, refs, listed>>
  BY DEF FetchReferrer, TypeOK
<1>2. DOMAIN files' = DOMAIN files \cup {r}
  BY <1>1, StoreKeeps
<1>3. r \in ToSet(refs) /\ r \in DOMAIN Manifest
  BY <1>1, HeadTail DEF DInv, Walked
<1>4. ToSet(ContentOf(r)) \cap DOMAIN Manifest = {}
  BY <1>3, ContentIsNoManifest
<1>5. Indexed'
  BY <1>1, <1>2, IndexedKept DEF DInv
<1>6. AtHand'
  BY <1>1, <1>2, CompleteKept DEF DInv, AtHand, Active
<1>7. Walked'
  BY <1>1, <1>2, <1>4, CompleteKept DEF DInv, Walked, ContentOf
<1>. QED  BY <1>1, <1>5, <1>6, <1>7 DEF DInv, Unwalked

\* A referrer is listed when it is complete.
LEMMA ListedKeeps ==
  ASSUME TypeOK, DInv, SeenReferrer \/ ReferrerDone
  PROVE  DInv'
<1>. DEFINE r == Head(refs)
<1>1. /\ pc \in {"referrer", "refContent"} /\ pc' = "referrer"
      /\ refs # <<>> /\ refs \in Seq(Digests) /\ listed \in Seq(Digests)
      /\ listed' = Append(listed, r) /\ refs' = Tail(refs)
      /\ UNCHANGED <<files, layout, index, primary, seen>>
  BY DEF SeenReferrer, ReferrerDone, TypeOK, dest
<1>2. /\ r \in Digests /\ ToSet(refs) = {r} \cup ToSet(refs')
      /\ ToSet(listed') = ToSet(listed) \cup {r}
  BY <1>1, HeadTail, Appended
<1>3. r \in DOMAIN Manifest /\ Manifest[r].subject = primary
  BY <1>1, <1>2 DEF DInv, Walked
<1>4. Complete(r)
  <2>1. CASE SeenReferrer
    <3>1. pc = "referrer" /\ r \in seen
      BY <2>1 DEF SeenReferrer
    <3>2. r = primary \/ r \in ToSet(listed)
      BY <1>3, <3>1 DEF DInv, Walked
    <3>. QED  BY <3>1, <3>2 DEF DInv, Walked, AtHand
  <2>2. CASE ReferrerDone
    <3>1. pc = "refContent" /\ todo = <<>>
      BY <2>2 DEF ReferrerDone
    <3>. QED  BY <1>3, <3>1, EmptyList DEF DInv, Walked, Complete
  <2>. QED  BY <2>1, <2>2
<1>5. Walked'
  <2>1. \A d \in seen \cap DOMAIN Manifest : d = primary \/ d \in ToSet(listed')
    BY <1>1, <1>2 DEF DInv, Walked
  <2>. HIDE DEF r
  <2>. QED  BY <1>1, <1>2, <1>3, <1>4, <2>1 DEF DInv, Walked, Complete, ContentOf
<1>6. Indexed' /\ AtHand' /\ Unwalked'
  BY <1>1 DEF DInv, Indexed, AtHand, Complete, ContentOf, Active, Unwalked
<1>. QED  BY <1>5, <1>6 DEF DInv

\* oci-layout, then index.json.
LEMMA WriteKeeps ==
  ASSUME TypeOK, DInv, WriteLayout \/ WriteIndex
  PROVE  DInv'
<1>1. CASE WriteLayout
  <2>1. /\ pc = "referrer" /\ pc' = "index" /\ layout' = TRUE
        /\ UNCHANGED <<files, index, primary, todo, refs, seen, listed>>
    BY <1>1 DEF WriteLayout, walk
  <2>. QED
    BY <2>1 DEF DInv, Indexed, AtHand, Walked, Complete, ContentOf, Active, Unwalked
<1>2. CASE WriteIndex
  <2>1. /\ pc = "index" /\ pc' = "done" /\ listed' = <<>>
        /\ index' = <<primary>> \o listed /\ listed \in Seq(Digests)
        /\ UNCHANGED <<files, layout>>
    BY <1>2 DEF WriteIndex, Return, TypeOK
  <2>2. /\ Complete(primary) /\ layout
        /\ \A d \in ToSet(listed) : Complete(d) /\ Manifest[d].subject = primary
    BY <2>1 DEF DInv, AtHand, Walked
  <2>3. /\ Len(listed) \in Nat /\ DOMAIN listed = 1..Len(listed)
        /\ DOMAIN index' = 1..(Len(listed) + 1) /\ index'[1] = primary
        /\ \A k \in 1..Len(listed) : index'[k + 1] = listed[k]
    BY <2>1
  <2>4. ASSUME NEW k \in DOMAIN index', k # 1
        PROVE  index'[k] \in ToSet(listed)
    <3>1. k - 1 \in 1..Len(listed) /\ (k - 1) + 1 = k
      BY <2>3, <2>4
    <3>2. index'[k] = listed[k - 1]
      BY <2>3, <3>1
    <3>. QED  BY <2>3, <3>1, <3>2 DEF ToSet
  <2>5. Indexed'
    BY <2>1, <2>2, <2>3, <2>4 DEF Indexed, Complete, ContentOf
  <2>6. AtHand' /\ Walked' /\ Unwalked'
    BY <2>1 DEF AtHand, Walked, Active, Unwalked
  <2>. QED  BY <2>5, <2>6 DEF DInv
<1>. QED  BY <1>1, <1>2

LEMMA NextDInv == TypeOK /\ IInv /\ DInv /\ [Next]_vars => DInv'
<1>. SUFFICES ASSUME TypeOK, IInv, DInv, [Next]_vars PROVE DInv'
  OBVIOUS
<1>1. CASE UNCHANGED vars
  BY <1>1
  DEF vars, dest, walk, DInv, Indexed, AtHand, Walked, Complete, ContentOf, Unwalked
<1>. QED
  BY <1>1, IdleKeeps, FetchManifestKeeps, BlobKeeps, ReferrersKeep, FetchReferrerKeeps,
     ListedKeeps, WriteKeeps
  DEF Next, Pull

-----------------------------------------------------------------------------
(* The destination opens.                                                  *)

\* ImageDir::open, as its own proofs know it and as this module does.
Opening == INSTANCE ImageDirProofs WITH BadDigests <- {}, UpperDigests <- {}

LEMMA SameOpen ==
  ASSUME NEW dir
  PROVE  OnDisk!Open(dir).err = Opening!Open(dir).err
<1>1. OnDisk!Absent = Opening!Absent /\ OnDisk!FileError = Opening!FileError
  BY DEF OnDisk!Absent, Opening!Absent, OnDisk!FileError, Opening!FileError
<1>2. \A checks : OnDisk!FirstError(checks) = Opening!FirstError(checks)
  BY DEF OnDisk!FirstError, Opening!FirstError, OnDisk!SelectInSeq, Opening!SelectInSeq,
         OnDisk!Min, Opening!Min
<1>3. \A d : OnDisk!ContentError(dir, d) = Opening!ContentError(dir, d)
  BY DEF OnDisk!ContentError, Opening!ContentError, OnDisk!Present, Opening!Present
<1>4. \A m : OnDisk!ManifestContentChecks(dir, m) = Opening!ManifestContentChecks(dir, m)
  BY <1>3 DEF OnDisk!ManifestContentChecks, Opening!ManifestContentChecks
<1>5. \A p, r : OnDisk!ReferrerChecks(dir, p, r) = Opening!ReferrerChecks(dir, p, r)
  BY <1>4 DEF OnDisk!ReferrerChecks, Opening!ReferrerChecks
<1>6. OnDisk!PrimaryCandidates(dir) = Opening!PrimaryCandidates(dir)
  BY <1>1 DEF OnDisk!PrimaryCandidates, Opening!PrimaryCandidates
<1>7. OnDisk!PrimaryManifest(dir) = Opening!PrimaryManifest(dir)
  BY <1>6 DEF OnDisk!PrimaryManifest, Opening!PrimaryManifest
<1>8. OnDisk!PrimaryCountError(dir) = Opening!PrimaryCountError(dir)
  BY <1>6
  DEF OnDisk!PrimaryCountError, Opening!PrimaryCountError, OnDisk!Cardinality,
      Opening!Cardinality
<1>9. OnDisk!ContentChecks(dir) = Opening!ContentChecks(dir)
  BY <1>2, <1>4, <1>5, <1>6, <1>7 DEF OnDisk!ContentChecks, Opening!ContentChecks
<1>10. \A desc : OnDisk!ListedError(dir, desc) = Opening!ListedError(dir, desc)
  BY <1>1 DEF OnDisk!ListedError, Opening!ListedError, OnDisk!Present, Opening!Present
<1>11. OnDisk!OpenError(dir) = Opening!OpenError(dir)
  BY <1>1, <1>2, <1>8, <1>9, <1>10 DEF OnDisk!OpenError, Opening!OpenError
<1>. QED  BY <1>11 DEF OnDisk!Open, Opening!Open

\* An index of complete manifests with one subject is what open accepts.
LEMMA IndexOpens ==
  ASSUME TypeOK, BytesMatchNames, Indexed
  PROVE  DestOpens
<1>. SUFFICES ASSUME index # <<>>, Manifest[index[1]].subject = Absent
              PROVE  OnDisk!Open(Directory).err = "none"
  BY DEF DestOpens
<1>. DEFINE dir == Directory
<1>1. /\ dir.layout = "ok" /\ dir.index = "ok"
      /\ DOMAIN dir.listed = DOMAIN index /\ DOMAIN dir.blobs = DOMAIN files
      /\ dir.listed = [k \in DOMAIN index |-> dir.listed[k]]
      /\ \A k \in DOMAIN index :
           dir.listed[k].digest = index[k] /\ dir.listed[k].mediaType = "oci"
      /\ \A d \in DOMAIN files : dir.blobs[d] = File(d)
  BY DEF Directory, Indexed
<1>2. /\ Len(index) \in Nat /\ DOMAIN index = 1..Len(index) /\ 1 \in DOMAIN index
      /\ index \in Seq(Digests)
  BY DEF TypeOK
<1>3. ASSUME NEW d \in DOMAIN files, d \in DOMAIN Manifest
      PROVE  /\ dir.blobs[d].state = "ok" /\ dir.blobs[d].mediaType = "oci"
             /\ dir.blobs[d].config = Manifest[d].config
             /\ dir.blobs[d].layers = Manifest[d].layers
             /\ dir.blobs[d].subject = Manifest[d].subject
  <2>1. files[d] = d
    BY DEF BytesMatchNames
  <2>2. dir.blobs[d] = File(d)
    BY <1>1
  <2>. HIDE DEF dir
  <2>. QED  BY <1>3, <2>1, <2>2 DEF File
<1>4. ASSUME NEW d \in DOMAIN files
      PROVE  /\ dir.blobs[d].state \in {"ok", "malformed"}
             /\ Opening!IsList(dir.blobs[d].layers)
  <2>1. CASE d \in DOMAIN Manifest
    <3>1. Manifest[d].layers \in Seq(Digests \ DOMAIN Manifest)
      BY <2>1, ManifestAssumption
    <3>2. /\ Len(Manifest[d].layers) \in Nat
          /\ Manifest[d].layers = [k \in 1..Len(Manifest[d].layers) |-> Manifest[d].layers[k]]
      BY <3>1
    <3>3. Opening!IsList(Manifest[d].layers)
      BY <3>2 DEF Opening!IsList
    <3>. QED  BY <1>3, <2>1, <3>3
  <2>2. CASE d \notin DOMAIN Manifest
    <3>1. dir.blobs[d].state = "malformed" /\ dir.blobs[d].layers = <<>>
      <4>1. files[d] = d
        BY DEF BytesMatchNames
      <4>2. dir.blobs[d] = File(d)
        BY <1>1
      <4>. HIDE DEF dir
      <4>. QED  BY <2>2, <4>1, <4>2 DEF File
    <3>. QED  BY <3>1, Opening!Empty
  <2>. QED  BY <2>1, <2>2
<1>5. Absent = Opening!Absent /\ Absent \notin DOMAIN files
  BY ManifestAssumption DEF Absent, OnDisk!Absent, Opening!Absent, TypeOK
<1>. HIDE DEF dir
<1>6. Opening!IsDirectory(dir)
  <2>1. {"ok", "malformed"} \subseteq DOMAIN Opening!FileError
    BY DEF Opening!FileError
  <2>2. Opening!IsList(dir.listed)
    <3>1. Len(dir.listed) = Len(index)
      BY <1>1, <1>2
    <3>. QED  BY <1>1, <1>2, <3>1 DEF Opening!IsList
  <2>3. DOMAIN dir.blobs \cap ({} \cup {} \cup {Opening!Absent}) = {}
    BY <1>1, <1>5
  <2>4. \A d \in DOMAIN dir.blobs : /\ dir.blobs[d].state \in DOMAIN Opening!FileError
                                   /\ Opening!IsList(dir.blobs[d].layers)
    BY <1>1, <1>4, <2>1
  <2>. QED  BY <1>1, <2>1, <2>2, <2>3, <2>4 DEF Opening!IsDirectory
<1>7. ASSUME NEW k \in DOMAIN index
      PROVE  /\ Opening!IsManifest(dir, dir.listed[k])
             /\ Opening!Content(dir, dir.listed[k].digest) \subseteq DOMAIN dir.blobs
             /\ dir.blobs[dir.listed[k].digest].subject = Manifest[index[k]].subject
  <2>. DEFINE d == index[k]
  <2>1. /\ Complete(d)
        /\ dir.listed[k].digest = d /\ dir.listed[k].mediaType = "oci"
    <3>1. Complete(d)
      BY DEF Indexed
    <3>. QED  BY <1>1, <3>1
  <2>2. Opening!IsManifest(dir, dir.listed[k])
    BY <1>1, <1>3, <2>1 DEF Complete, Opening!IsManifest, Opening!Present
  <2>3. ToSet(Manifest[d].layers) \cup {Manifest[d].config} = ToSet(ContentOf(d))
    <3>1. /\ Manifest[d].config \in Digests \ DOMAIN Manifest
          /\ Manifest[d].layers \in Seq(Digests \ DOMAIN Manifest)
      BY <2>1, ManifestAssumption DEF Complete
    <3>2. /\ Head(ContentOf(d)) = Manifest[d].config
          /\ Tail(ContentOf(d)) = Manifest[d].layers
          /\ ContentOf(d) \in Seq(Digests) /\ ContentOf(d) # <<>>
      BY <3>1 DEF ContentOf
    <3>. QED  BY <3>2, HeadTail
  <2>4. Opening!Content(dir, d) \subseteq DOMAIN dir.blobs
    <3>1. Opening!Content(dir, d) = ToSet(dir.blobs[d].layers) \cup {dir.blobs[d].config}
      BY DEF Opening!Content, Opening!ToSet, ToSet
    <3>2. dir.blobs[d].layers = Manifest[d].layers /\ dir.blobs[d].config = Manifest[d].config
      BY <1>3, <2>1 DEF Complete
    <3>3. Opening!Content(dir, d) = ToSet(ContentOf(d))
      BY <2>3, <3>1, <3>2
    <3>. QED  BY <1>1, <2>1, <3>3 DEF Complete
  <2>. QED  BY <1>3, <2>1, <2>2, <2>4 DEF Complete
<1>8. Opening!Publishable(dir)
  <2>1. dir.blobs[dir.listed[1].digest].subject = Opening!Absent /\ dir.listed[1].digest = index[1]
    <3>1. 1 \in DOMAIN index /\ Absent = Opening!Absent
      BY <1>2, <1>5
    <3>. QED  BY <1>1, <1>7, <3>1
  <2>2. \A j \in DOMAIN dir.listed \ {1} :
          dir.blobs[dir.listed[j].digest].subject = dir.listed[1].digest
    BY <1>1, <1>7, <2>1 DEF Indexed
  <2>. QED  BY <1>1, <1>2, <1>7, <2>1, <2>2 DEF Opening!Publishable
<1>9. Opening!Open(dir).err = "none"
  BY <1>6, <1>8, Opening!OpenAcceptsExactly DEF Opening!OpensExactly
<1>. QED  BY <1>9, SameOpen DEF dir

\* execute_pull: "On success, `dest` validates as ImageDir::open", and so it does
\* at any other moment when it has an index.json: for any images and registry
\* contents, and after any number of pulls that failed or were killed.
THEOREM DestAlwaysOpens == Spec => []DestOpens
<1>1. Init => DInv
  <2>. SUFFICES ASSUME Init PROVE DInv
    OBVIOUS
  <2>1. index = <<>> /\ pc = "idle" /\ listed = <<>>
    BY DEF Init
  <2>. QED  BY <2>1 DEF DInv, Indexed, AtHand, Walked, Unwalked, Active
<1>2. TypeOK /\ BytesMatchNames /\ DInv => DestOpens
  BY IndexOpens DEF DInv
<1>. QED
  BY <1>1, <1>2, NextDInv, Invariance, TypeCorrect, BytesAlwaysMatchNames, PTL DEF Spec
=============================================================================
