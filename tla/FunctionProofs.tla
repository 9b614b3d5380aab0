--------------------------- MODULE FunctionProofs ---------------------------
(***************************************************************************)
(* Proofs about the parts that compute and keep no state: verify, what     *)
(* attest and sbom make of an image, the choice of credentials, and a spec *)
(* and its image.  First the property of each part is proved of any input  *)
(* that its readers (of JSON, TOML, the command line) can deliver; at the  *)
(* end, with the invariant of Stateless, of every call of these parts and  *)
(* of ImageDir::open.                                                      *)
(*                                                                         *)
(* What is proved of a list by induction is proved from a least            *)
(* counterexample, with MinIsLeast of ImageDirProofs.                      *)
(***************************************************************************)
EXTENDS Stateless, ImageDirProofs

-----------------------------------------------------------------------------
(* Lists.                                                                  *)

\* The first of a list of errors is `none' when all of them are.
LEMMA NoneFails ==
  ASSUME NEW errors, IsList(errors)
  PROVE  /\ FirstOf(errors) = "none" <=> \A k \in DOMAIN errors : errors[k] = "none"
         /\ FirstOf(errors) = "none" \/ FirstOf(errors) \in ToSet(errors)
<1>. DEFINE I == {k \in 1..Len(errors) : errors[k] # "none"}
            m == IF I # {} THEN Min(I) ELSE 0
<1>1. FirstOf(errors) = IF m = 0 THEN "none" ELSE errors[m]
  BY DEF FirstOf, SelectInSeq
<1>2. DOMAIN errors = 1..Len(errors) /\ Len(errors) \in Nat
  BY DEF IsList
<1>3. CASE I = {}
  BY <1>1, <1>2, <1>3
<1>4. CASE I # {}
  <2>1. I \in SUBSET Nat /\ 0 \notin I
    OBVIOUS
  <2>2. m \in I
    BY <1>4, <2>1, MinIsLeast
  <2>. QED  BY <1>1, <1>2, <2>1, <2>2 DEF ToSet
<1>. QED  BY <1>3, <1>4

\* What verify makes of its checks is the same.
LEMMA FirstErrorIsFirst ==
  ASSUME NEW checks
  PROVE  FirstErrorOf(checks) = FirstOf(checks)
<1>. DEFINE I == {k \in 1..Len(checks) : checks[k] # "none"}
            m == IF I # {} THEN Min(I) ELSE 0
<1>1. FirstErrorOf(checks) = IF m = 0 THEN "none" ELSE checks[m]
  BY DEF FirstErrorOf, SelectInSeq
<1>2. FirstOf(checks) = IF m = 0 THEN "none" ELSE checks[m]
  BY DEF FirstOf, SelectInSeq
<1>. QED  BY <1>1, <1>2

\* Two lists of errors, one behind the other, have none when neither has.
LEMMA NoneOfBoth ==
  ASSUME NEW s, IsList(s), NEW t, IsList(t)
  PROVE  FirstOf(s \o t) = "none" <=> FirstOf(s) = "none" /\ FirstOf(t) = "none"
<1>1. \A errors : (\A k \in DOMAIN errors : errors[k] = "none") <=> ToSet(errors) \subseteq {"none"}
  BY DEF ToSet
<1>2. ToSet(s \o t) = ToSet(s) \cup ToSet(t) /\ IsList(s \o t)
  BY Joined
<1>. QED  BY <1>1, <1>2, NoneFails

-----------------------------------------------------------------------------
(* Evidence.                                                               *)

Judged(r) == [type |-> TypeOf(r), payload |-> r.layers[1].payload]

\* What a pillar is judged by is a referrer of its class, if the list has one.
LEMMA EvidenceIsReferring ==
  ASSUME NEW refs, IsList(refs), NEW class
  PROVE  \/ Referring(refs, class) = {} /\ Evidence(refs, class) = {}
         \/ \E r \in Referring(refs, class) : Evidence(refs, class) = {Judged(r)}
<1>. DEFINE I == {k \in 1..Len(refs) : OfClass(refs[k], class)}
            m == IF I # {} THEN Max(I) ELSE 0
<1>1. Evidence(refs, class) =
        IF m = 0 THEN {} ELSE {[type |-> TypeOf(refs[m]), payload |-> refs[m].layers[1].payload]}
  BY DEF Evidence, SelectLastInSeq
<1>2. DOMAIN refs = 1..Len(refs) /\ Len(refs) \in Nat
  BY ListDomain
<1>3. Referring(refs, class) = {refs[k] : k \in I}
  BY <1>2 DEF Referring, ToSet
<1>4. CASE I = {}
  BY <1>1, <1>4, <1>3
<1>5. CASE I # {}
  <2>1. m \in I
    BY <1>2, <1>5, MaxIsGreatest
  <2>2. 0 \notin I
    OBVIOUS
  <2>. HIDE DEF I, m
  <2>3. refs[m] \in Referring(refs, class)
    BY <1>3, <2>1
  <2>4. Evidence(refs, class) = {Judged(refs[m])}
    BY <1>1, <2>1, <2>2 DEF Judged
  <2>. QED  BY <2>3, <2>4
<1>. QED  BY <1>4, <1>5

\* With one referrer of a class it does not depend on the order.
LEMMA EvidenceIsOnly ==
  ASSUME NEW refs, NEW other, IsList(refs), IsList(other), ToSet(refs) = ToSet(other),
         NEW class \in Classes, OneOfEach(refs)
  PROVE  Evidence(refs, class) = Evidence(other, class)
<1>1. Referring(refs, class) = Referring(other, class)
  BY DEF Referring
<1>2. \A r, s \in Referring(refs, class) : r = s
  BY DEF OneOfEach
<1>. QED  BY <1>1, <1>2, EvidenceIsReferring

-----------------------------------------------------------------------------
(* Pillars, checks and gates.                                              *)

\* What a pillar says of the referrer that it is judged by.
LEMMA Pillars ==
  ASSUME NEW refs, NEW primary, NEW cosign
  PROVE  LET report == Report(refs, primary, cosign)
             slsa == Evidence(refs, "slsa")
             sbom == Evidence(refs, "sbom")
             signature == Evidence(refs, "signature")
         IN /\ report.slsa = IF slsa = {} THEN "Missing"
                             ELSE IF \A e \in slsa : ValidStatement(e.payload, primary)
                             THEN "Found" ELSE "Failed"
            /\ report.sbom = IF sbom = {} THEN "Missing"
                             ELSE IF \A e \in sbom : ValidSbom(e.payload, e.type)
                             THEN "Found" ELSE "Failed"
            /\ report.signature =
                 IF signature = {} THEN "Missing"
                 ELSE IF \A e \in signature :
                           CosignVerify(e.payload, primary, cosign) = "VerifiedAndRecorded"
                 THEN "Found" ELSE "Failed"
BY DEF Report, Pillar

\* verify accepts when everything can be read, no document is invalid, and no gate
\* gives an error.
Accepts(refs, primary, policy, cosign) ==
  /\ \A r \in ToSet(refs) : r.readable
  /\ Report(refs, primary, cosign).slsa # "Failed"
  /\ Report(refs, primary, cosign).sbom # "Failed"
  /\ LevelGate(refs, policy) = "none"
  /\ BuilderGate(refs, policy) = "none"
  /\ SignatureGate(Report(refs, primary, cosign), policy) = "none"
  /\ FormatGate(refs, policy) = "none"

LEMMA AcceptsWhen ==
  ASSUME NEW refs, NEW primary, NEW policy, NEW cosign
  PROVE  LET verdict == Verify(refs, primary, policy, cosign)
         IN /\ verdict.err = "none" <=> Accepts(refs, primary, policy, cosign)
            /\ verdict.report = IF verdict.err = "none" THEN Report(refs, primary, cosign) ELSE {}
<1>. DEFINE report == Report(refs, primary, cosign)
            readable == IF \A k \in DOMAIN refs : refs[k].readable THEN "none" ELSE "MalformedBlob"
            slsa == IF report.slsa = "Failed" THEN "SlsaMalformed" ELSE "none"
            sbom == IF report.sbom = "Failed" THEN "MalformedBlob" ELSE "none"
            checks == <<readable, slsa, sbom>> \o Gates(refs, policy, report)
<1>1. /\ Verify(refs, primary, policy, cosign).err = FirstErrorOf(checks)
      /\ Verify(refs, primary, policy, cosign).report =
           IF FirstErrorOf(checks) = "none" THEN report ELSE {}
  BY DEF Verify
<1>2. /\ Len(checks) = 7 /\ DOMAIN checks = 1..7
      /\ checks[1] = readable /\ checks[2] = slsa /\ checks[3] = sbom
      /\ checks[4] = LevelGate(refs, policy) /\ checks[5] = BuilderGate(refs, policy)
      /\ checks[6] = SignatureGate(report, policy) /\ checks[7] = FormatGate(refs, policy)
  <2>. HIDE DEF report, readable, slsa, sbom
  <2>. QED  BY DEF Gates
<1>3. readable = "none" <=> \A r \in ToSet(refs) : r.readable
  BY DEF ToSet
<1>4. slsa = "none" <=> report.slsa # "Failed"
  OBVIOUS
<1>5. sbom = "none" <=> report.sbom # "Failed"
  OBVIOUS
<1>6. IsList(checks)
  <2>. HIDE DEF report, readable, slsa, sbom
  <2>1. IsList(<<readable, slsa, sbom>>)
    BY DEF IsList
  <2>2. IsList(Gates(refs, policy, report))
    BY DEF Gates, IsList
  <2>. QED  BY <2>1, <2>2, Joined
<1>. HIDE DEF checks, readable, slsa, sbom
<1>7. FirstErrorOf(checks) = "none" <=> \A k \in 1..7 : checks[k] = "none"
  BY <1>2, <1>6, FirstErrorIsFirst, NoneFails
<1>8. (\A k \in 1..7 : checks[k] = "none") <=>
        /\ checks[1] = "none" /\ checks[2] = "none" /\ checks[3] = "none" /\ checks[4] = "none"
        /\ checks[5] = "none" /\ checks[6] = "none" /\ checks[7] = "none"
  <2>1. \A k \in 1..7 : \/ k = 1 \/ k = 2 \/ k = 3 \/ k = 4 \/ k = 5 \/ k = 6 \/ k = 7
    OBVIOUS
  <2>. QED  BY <2>1
<1>9. FirstErrorOf(checks) = "none" <=> Accepts(refs, primary, policy, cosign)
  BY <1>2, <1>3, <1>4, <1>5, <1>7, <1>8 DEF Accepts
<1>. QED  BY <1>1, <1>9

-----------------------------------------------------------------------------
(* Verdicts.                                                               *)

\* The level of a statement is an integer.
LEMMA LevelOfEvidence ==
  ASSUME NEW refs, IsListing(refs)
  PROVE  \A e \in Evidence(refs, "slsa") : e.payload.level \in Int
<1>. SUFFICES ASSUME NEW e \in Evidence(refs, "slsa")
              PROVE  e.payload.level \in Int
  OBVIOUS
<1>1. PICK r \in Referring(refs, "slsa") : e = Judged(r)
  BY EvidenceIsReferring DEF IsListing
<1>2. r \in ToSet(refs) /\ r.layers # <<>> /\ e.payload = r.layers[1].payload
  BY <1>1 DEF Referring, OfClass, Judged
<1>. QED  BY <1>2 DEF IsListing

\* By a gate of the policy file that should ask for nothing, verify refuses where
\* EmptyGateRefuses says, and no gate of level 0 refuses anything else.
LEMMA EmptyGatesOf ==
  ASSUME NEW refs, IsListing(refs), NEW primary, NEW cosign, NEW policy, IsPolicy(policy)
  PROVE  /\ EmptyGateRefuses(refs, policy) => ~Accepts(refs, primary, policy, cosign)
         /\ ~EmptyGateRefuses(refs, policy) /\ 0 \in policy.level =>
              /\ Evidence(refs, "slsa") # {}
              /\ \A e \in Evidence(refs, "slsa") : e.payload.level >= 0
<1>. IsList(refs)
  BY DEF IsListing
<1>1. \A e \in Evidence(refs, "slsa") : e.payload.level \in Int
  BY LevelOfEvidence
<1>2. \A e, f \in Evidence(refs, "slsa") : e = f
  BY EvidenceIsReferring
<1>3. ASSUME {} \in policy.formats  PROVE  FormatGate(refs, policy) # "none"
  BY <1>3 DEF FormatGate
<1>4. ASSUME 0 \in policy.level, \A e \in Evidence(refs, "slsa") : e.payload.level < 0
      PROVE  LevelGate(refs, policy) # "none"
  <2>1. CASE Evidence(refs, "slsa") = {}
    BY <1>4, <2>1 DEF LevelGate
  <2>2. CASE Evidence(refs, "slsa") # {}
    <3>1. PICK e \in Evidence(refs, "slsa") : TRUE
      BY <2>2
    <3>2. ~(e.payload.level >= 0)
      BY <1>1, <1>4, <3>1
    <3>. QED  BY <1>4, <2>2, <3>1, <3>2 DEF LevelGate
  <2>. QED  BY <2>1, <2>2
<1>5. ASSUME ~EmptyGateRefuses(refs, policy), 0 \in policy.level
      PROVE  /\ Evidence(refs, "slsa") # {}
             /\ \A e \in Evidence(refs, "slsa") : e.payload.level >= 0
  <2>1. PICK e \in Evidence(refs, "slsa") : ~(e.payload.level < 0)
    BY <1>5 DEF EmptyGateRefuses
  <2>2. e.payload.level >= 0
    BY <1>1, <2>1
  <2>. QED  BY <1>2, <2>1, <2>2
<1>. QED  BY <1>3, <1>4, <1>5 DEF EmptyGateRefuses, Accepts

\* A policy that asks for no more, gate by gate, accepts all that a stricter one
\* accepts, with the same report, unless a gate that should ask for nothing refuses.
LEMMA StricterAcceptsLess ==
  ASSUME NEW refs, IsListing(refs), NEW primary, NEW cosign,
         NEW policy, IsPolicy(policy), NEW weak, IsPolicy(weak), NoStricter(weak, policy),
         Verify(refs, primary, policy, cosign).err = "none", ~EmptyGateRefuses(refs, weak)
  PROVE  Verify(refs, primary, weak, cosign) = Verify(refs, primary, policy, cosign)
<1>. DEFINE report == Report(refs, primary, cosign)
<1>. IsList(refs)
  BY DEF IsListing
<1>1. Accepts(refs, primary, policy, cosign)
  BY AcceptsWhen
<1>2. LevelGate(refs, weak) = "none"
  <2>. SUFFICES ASSUME NEW n \in weak.level
                PROVE  /\ Evidence(refs, "slsa") # {}
                       /\ \A e \in Evidence(refs, "slsa") : e.payload.level >= n
    BY DEF LevelGate
  <2>1. CASE n = 0
    BY <2>1, EmptyGatesOf
  <2>2. CASE n # 0
    <3>1. PICK m \in policy.level : n <= m
      BY <2>2 DEF NoStricter
    <3>2. LevelGate(refs, policy) = "none"
      BY <1>1 DEF Accepts
    <3>3. /\ Evidence(refs, "slsa") # {}
          /\ \A e \in Evidence(refs, "slsa") : e.payload.level >= m
      BY <3>1, <3>2 DEF LevelGate
    <3>4. n \in Int /\ m \in Int /\ \A e \in Evidence(refs, "slsa") : e.payload.level \in Int
      BY LevelOfEvidence DEF IsPolicy
    <3>. QED  BY <3>1, <3>3, <3>4
  <2>. QED  BY <2>1, <2>2
<1>3. BuilderGate(refs, weak) = "none"
  BY <1>1 DEF Accepts, BuilderGate, NoStricter
<1>4. SignatureGate(report, weak) = "none"
  BY <1>1 DEF Accepts, SignatureGate, NoStricter
<1>5. FormatGate(refs, weak) = "none"
  <2>. SUFFICES ASSUME weak.formats # {}
                PROVE  /\ Evidence(refs, "sbom") # {}
                       /\ \A e \in Evidence(refs, "sbom"), fs \in weak.formats :
                            fs \cap SbomDetail(e) # {}
    BY DEF FormatGate
  <2>1. \A fs \in weak.formats : \E gs \in policy.formats : gs \subseteq fs
    BY DEF NoStricter, EmptyGateRefuses
  <2>2. policy.formats # {} /\ FormatGate(refs, policy) = "none"
    BY <1>1, <2>1 DEF Accepts
  <2>3. /\ Evidence(refs, "sbom") # {}
        /\ \A e \in Evidence(refs, "sbom"), gs \in policy.formats : gs \cap SbomDetail(e) # {}
    BY <2>2 DEF FormatGate
  <2>. QED  BY <2>1, <2>3
<1>6. Accepts(refs, primary, weak, cosign)
  BY <1>1, <1>2, <1>3, <1>4, <1>5 DEF Accepts
<1>. QED  BY <1>6, AcceptsWhen DEF Verify

\* verify, apply_policy: what it accepts under a policy it accepts, with the same
\* report, under any that asks for no more as verify_policy.md has it, a level of 0
\* and an empty list of formats for nothing; unless it refuses by one of those two:
\* for any list of referrers, policies and state of cosign.
THEOREM VerifyOnlyRestricts ==
  ASSUME NEW refs, IsListing(refs), NEW primary, NEW cosign, NEW policy, IsPolicy(policy),
         NEW policies, \A weak \in policies : IsPolicy(weak)
  PROVE  OnlyRestricts(refs, primary, policy, cosign,
                             Verify(refs, primary, policy, cosign), policies)
BY StricterAcceptsLess, EmptyGatesOf, AcceptsWhen DEF OnlyRestricts

\* The verdict depends on what is listed, not on the order, if no two referrers are
\* of one class.
LEMMA OrderDoesNotMatter ==
  ASSUME NEW refs, NEW other, IsList(refs), IsList(other), ToSet(refs) = ToSet(other),
         OneOfEach(refs), NEW primary, NEW policy, NEW cosign
  PROVE  Verify(other, primary, policy, cosign) = Verify(refs, primary, policy, cosign)
<1>1. \A class \in Classes : Evidence(refs, class) = Evidence(other, class)
  BY EvidenceIsOnly
<1>2. /\ Evidence(refs, "slsa") = Evidence(other, "slsa")
      /\ Evidence(refs, "sbom") = Evidence(other, "sbom")
      /\ Evidence(refs, "signature") = Evidence(other, "signature")
  BY <1>1 DEF Classes
<1>3. Report(refs, primary, cosign) = Report(other, primary, cosign)
  BY <1>2 DEF Report
<1>4. \A report : Gates(refs, policy, report) = Gates(other, policy, report)
  BY <1>2 DEF Gates, LevelGate, BuilderGate, FormatGate
<1>5. (\A k \in DOMAIN refs : refs[k].readable) <=> (\A k \in DOMAIN other : other[k].readable)
  BY DEF ToSet
<1>. QED  BY <1>3, <1>4, <1>5 DEF Verify

\* verify: the order of index.json, and how often a referrer is in it, do not change
\* the verdict if no two referrers are of one class: for any lists of the same
\* referrers, any policy and state of cosign.
THEOREM VerifyIgnoresOrder ==
  ASSUME NEW refs, IsList(refs), NEW primary, NEW policy, NEW cosign,
         NEW listings, \A other \in listings : IsList(other)
  PROVE  OrderIrrelevant(refs, primary, policy, cosign,
                           Verify(refs, primary, policy, cosign), listings)
BY OrderDoesNotMatter DEF OrderIrrelevant

\* verify: what it accepts is backed by the referrers of this very image, the
\* level and the builder by one statement: for any list of referrers, any state of
\* cosign, and any policy whose formats are not words of the detail.
THEOREM VerifyIsBacked ==
  ASSUME NEW refs, IsListing(refs), NEW primary, NEW cosign \in Cosigns,
         NEW policy, IsPolicy(policy)
  PROVE  Backed(refs, primary, policy, cosign, Verify(refs, primary, policy, cosign))
<1>. DEFINE report == Report(refs, primary, cosign)
            verdict == Verify(refs, primary, policy, cosign)
<1>. SUFFICES ASSUME verdict.err = "none"
              PROVE  Backed(refs, primary, policy, cosign, verdict)
  BY DEF Backed
<1>. IsList(refs)
  BY DEF IsListing
<1>1. Accepts(refs, primary, policy, cosign) /\ verdict.report = report
  BY AcceptsWhen
<1>. HIDE DEF verdict, report
<1>2. ASSUME report.slsa = "Found" \/ policy.level \cup policy.builder # {}
      PROVE  \E p \in Payloads(refs, "slsa") :
               /\ p.predicateType = "slsa-v1" /\ primary \in p.subjects
               /\ \A n \in policy.level : p.level >= n
               /\ policy.builder \subseteq {p.builder}
  <2>1. LevelGate(refs, policy) = "none" /\ BuilderGate(refs, policy) = "none"
        /\ report.slsa # "Failed"
    BY <1>1 DEF Accepts, report
  <2>2. Evidence(refs, "slsa") # {}
    <3>1. report.slsa = "Found" => Evidence(refs, "slsa") # {}
      BY Pillars DEF report
    <3>2. policy.level # {} => Evidence(refs, "slsa") # {}
      BY <2>1 DEF LevelGate
    <3>3. policy.builder # {} => Evidence(refs, "slsa") # {}
      BY <2>1 DEF BuilderGate
    <3>. QED  BY <1>2, <3>1, <3>2, <3>3
  <2>3. PICK r \in Referring(refs, "slsa") : Evidence(refs, "slsa") = {Judged(r)}
    BY <2>2, EvidenceIsReferring
  <2>. DEFINE p == r.layers[1].payload
  <2>4. p \in Payloads(refs, "slsa") /\ Judged(r).payload = p
    BY DEF Payloads, Judged
  <2>5. ValidStatement(p, primary)
    <3>1. \A e \in Evidence(refs, "slsa") : ValidStatement(e.payload, primary)
      BY <2>1, <2>2, Pillars DEF report
    <3>. QED  BY <2>3, <2>4, <3>1
  <2>6. \A n \in policy.level : p.level >= n
    BY <2>1, <2>3, <2>4 DEF LevelGate
  <2>7. policy.builder \subseteq {p.builder}
    BY <2>1, <2>3, <2>4 DEF BuilderGate
  <2>. HIDE DEF p
  <2>. QED  BY <2>4, <2>5, <2>6, <2>7 DEF ValidStatement
<1>3. ASSUME report.signature = "Found" \/ policy.signature
      PROVE  cosign = "works" /\ \E p \in Payloads(refs, "signature") :
                                   primary \in p.signs /\ p.recorded
  <2>1. report.signature = "Found"
    BY <1>1, <1>3 DEF Accepts, SignatureGate, report
  <2>2. /\ Evidence(refs, "signature") # {}
        /\ \A e \in Evidence(refs, "signature") :
             CosignVerify(e.payload, primary, cosign) = "VerifiedAndRecorded"
    BY <2>1, Pillars DEF report
  <2>3. PICK r \in Referring(refs, "signature") : Evidence(refs, "signature") = {Judged(r)}
    BY <2>2, EvidenceIsReferring
  <2>. DEFINE p == r.layers[1].payload
  <2>4. p \in Payloads(refs, "signature") /\ Judged(r).payload = p
    BY DEF Payloads, Judged
  <2>5. CosignVerify(p, primary, cosign) = "VerifiedAndRecorded"
    BY <2>2, <2>3, <2>4
  <2>. HIDE DEF p
  <2>6. cosign = "works" /\ primary \in p.signs /\ p.recorded
    BY <2>5 DEF CosignVerify, Cosigns
  <2>. QED  BY <2>4, <2>6
<1>4. ASSUME report.sbom = "Found" \/ policy.formats # {}
      PROVE  \E r \in Referring(refs, "sbom") :
               /\ r.layers[1].payload.format = (IF "cyclonedx" \in TypeOf(r)
                                                THEN "CycloneDX" ELSE "SPDX")
               /\ \A fs \in policy.formats : \E f \in fs : f \in TypeOf(r)
  <2>1. FormatGate(refs, policy) = "none" /\ report.sbom # "Failed"
    BY <1>1 DEF Accepts, report
  <2>2. Evidence(refs, "sbom") # {}
    <3>1. report.sbom = "Found" => Evidence(refs, "sbom") # {}
      BY Pillars DEF report
    <3>2. policy.formats # {} => Evidence(refs, "sbom") # {}
      BY <2>1 DEF FormatGate
    <3>. QED  BY <1>4, <3>1, <3>2
  <2>3. PICK r \in Referring(refs, "sbom") : Evidence(refs, "sbom") = {Judged(r)}
    BY <2>2, EvidenceIsReferring
  <2>4. Judged(r).payload = r.layers[1].payload /\ Judged(r).type = TypeOf(r)
    BY DEF Judged
  <2>5. ValidSbom(r.layers[1].payload, TypeOf(r))
    <3>1. \A e \in Evidence(refs, "sbom") : ValidSbom(e.payload, e.type)
      BY <2>1, <2>2, Pillars DEF report
    <3>. QED  BY <2>3, <2>4, <3>1
  <2>6. "cyclonedx" \in TypeOf(r) \/ "spdx" \in TypeOf(r)
    <3>1. Classify(TypeOf(r)) = "sbom"
      BY DEF Referring, OfClass
    <3>. QED  BY <3>1 DEF Classify
  <2>7. ASSUME NEW fs \in policy.formats PROVE \E f \in fs : f \in TypeOf(r)
    <3>1. fs \cap SbomDetail(Judged(r)) # {}
      BY <2>1, <2>3 DEF FormatGate
    <3>2. SbomDetail(Judged(r)) = TypeOf(r) \cup {"blob", "sha256"}
      BY <2>4 DEF SbomDetail
    <3>. QED  BY <3>1, <3>2 DEF IsPolicy
  <2>. QED  BY <2>5, <2>6, <2>7 DEF ValidSbom
<1>. QED  BY <1>1, <1>2, <1>3, <1>4 DEF Backed

-----------------------------------------------------------------------------
(* What build attaches.                                                    *)

\* At most one document is at most one referrer.
LEMMA AsReferrerOf ==
  ASSUME NEW type, NEW documents, IsOption(documents)
  PROVE  /\ IsList(AsReferrer(type, documents))
         /\ ToSet(AsReferrer(type, documents)) = {Referrer(type, d) : d \in documents}
<1>. DEFINE S == {Referrer(type, d) : d \in documents}
            n == Cardinality(S)
            f == AsReferrer(type, documents)
<1>1. f = CHOOSE g \in [1..n -> S] : IsInjective(g)
  BY DEF AsReferrer, SetToSeq
<1>2. CASE documents = {}
  <2>1. S = {} /\ n = 0
    BY <1>2, FS_EmptySet
  <2>. HIDE DEF n, S, f
  <2>2. [i \in 1..n |-> i] \in [1..n -> S] /\ IsInjective([i \in 1..n |-> i])
    BY <2>1 DEF IsInjective
  <2>3. f \in [1..n -> S]
    BY <1>1, <2>2
  <2>4. DOMAIN f = {} /\ f = [k \in 1..n |-> f[k]]
    BY <2>1, <2>3
  <2>. QED  BY <2>1, <2>4 DEF IsList, ToSet, S, f
<1>3. CASE documents # {}
  <2>1. PICK d : documents = {d}
    BY <1>3 DEF IsOption
  <2>. DEFINE x == Referrer(type, d)
  <2>2. S = {x} /\ n = 1
    BY <2>1, FS_Singleton
  <2>. HIDE DEF n, S, f, x
  <2>3. [i \in 1..n |-> x] \in [1..n -> S] /\ IsInjective([i \in 1..n |-> x])
    BY <2>2 DEF IsInjective
  <2>4. f \in [1..n -> S]
    BY <1>1, <2>3
  <2>5. DOMAIN f = {1} /\ f[1] = x /\ f = [k \in 1..n |-> f[k]]
    BY <2>2, <2>4
  <2>6. ToSet(f) = S
    BY <2>2, <2>5 DEF ToSet
  <2>7. IsList(f)
    BY <2>2, <2>5 DEF IsList
  <2>. QED  BY <2>6, <2>7 DEF S, f
<1>. QED  BY <1>2, <1>3

\* The documents of each pillar, of which there is at most one.
Bundles(built, signer) == {Bundle(built, s) : s \in signer}

LEMMA Emitted ==
  ASSUME NEW built, NEW config, IsConfig(config), NEW signer, IsOption(signer)
  PROVE  /\ IsOption(EmitSlsa(built, config))
         /\ IsOption(EmitSbom(built, config.format, config.scope))
         /\ IsOption(Bundles(built, signer))
         /\ Attest(built, config, signer) =
              [slsa |-> EmitSlsa(built, config),
               sbom |-> EmitSbom(built, config.format, config.scope),
               signature |-> Bundles(built, signer)]
<1>1. IsOption(EmitSlsa(built, config))
  BY DEF EmitSlsa, IsOption
<1>2. IsOption(EmitSbom(built, config.format, config.scope))
  BY DEF EmitSbom, IsOption, IsConfig
<1>3. IsOption(Bundles(built, signer))
  BY DEF IsOption, Bundles
<1>. QED  BY <1>1, <1>2, <1>3 DEF Attest, Bundles

\* The referrers of an image are made of these documents, whatever their order.
LEMMA Attached ==
  ASSUME NEW built, NEW config, IsConfig(config), NEW signer, IsOption(signer),
         NEW refs, Lists(refs, built, config, signer)
  PROVE  ToSet(refs) = {Referrer(InToto, d) : d \in EmitSlsa(built, config)}
                         \cup {Referrer({config.format}, d) :
                                 d \in EmitSbom(built, config.format, config.scope)}
                         \cup {Referrer({"cosign"}, d) : d \in Bundles(built, signer)}
<1>. DEFINE slsa == EmitSlsa(built, config)
            sbom == EmitSbom(built, config.format, config.scope)
            bundles == Bundles(built, signer)
            x == AsReferrer(InToto, slsa)
            y == AsReferrer({config.format}, sbom)
            z == AsReferrer({"cosign"}, bundles)
<1>1. Referrers(Attest(built, config, signer), config.format) = x \o y \o z
  <2>. DEFINE outputs == Attest(built, config, signer)
  <2>1. outputs.slsa = slsa /\ outputs.sbom = sbom /\ outputs.signature = bundles
    BY Emitted
  <2>. HIDE DEF outputs, slsa, sbom, bundles
  <2>. QED  BY <2>1 DEF Referrers, outputs
<1>2. IsOption(slsa) /\ IsOption(sbom) /\ IsOption(bundles)
  BY Emitted
<1>. HIDE DEF slsa, sbom, bundles
<1>3. /\ IsList(x) /\ ToSet(x) = {Referrer(InToto, d) : d \in slsa}
      /\ IsList(y) /\ ToSet(y) = {Referrer({config.format}, d) : d \in sbom}
      /\ IsList(z) /\ ToSet(z) = {Referrer({"cosign"}, d) : d \in bundles}
  BY <1>2, AsReferrerOf
<1>. HIDE DEF x, y, z
<1>4. ToSet(x \o y \o z) = ToSet(x) \cup ToSet(y) \cup ToSet(z)
  BY <1>3, Joined
<1>5. ToSet(refs) = ToSet(x \o y \o z)
  BY <1>1 DEF Lists
<1>6. ToSet(refs) = ToSet(x) \cup ToSet(y) \cup ToSet(z)
  BY <1>4, <1>5
<1>. QED  BY <1>3, <1>6 DEF slsa, sbom, bundles

\* What verify makes of a referrer that build has written.
LEMMA ReferrerFields ==
  ASSUME NEW type, type # {}, NEW d
  PROVE  /\ Referrer(type, d).readable = TRUE
         /\ Judged(Referrer(type, d)) = [type |-> type, payload |-> d]
         /\ \A class : OfClass(Referrer(type, d), class) <=> Classify(type) = class
<1>. DEFINE r == Referrer(type, d)
            layers == <<[mediaType |-> type, payload |-> d]>>
<1>1. r.readable = TRUE /\ r.artifactType = type /\ r.layers = layers
  BY DEF Referrer
<1>2. layers # <<>> /\ layers[1].payload = d
  <2>1. Len(layers) = 1
    OBVIOUS
  <2>. QED  BY <2>1
<1>. HIDE DEF r, layers
<1>3. TypeOf(r) = type
  BY <1>1 DEF TypeOf
<1>4. \A class : OfClass(r, class) <=> Classify(type) = class
  BY <1>1, <1>2, <1>3 DEF OfClass
<1>5. Judged(r) = [type |-> type, payload |-> d]
  BY <1>1, <1>2, <1>3 DEF Judged
<1>. QED  BY <1>1, <1>4, <1>5 DEF r

\* Documents, as the evidence of a pillar.
Judgements(type, documents) == {[type |-> type, payload |-> d] : d \in documents}

LEMMA JudgementsOf ==
  ASSUME NEW type, NEW documents
  PROVE  /\ Judgements(type, documents) = {} <=> documents = {}
         /\ \A e \in Judgements(type, documents) : e.payload \in documents /\ e.type = type
<1>1. Judgements(type, documents) = {} <=> documents = {}
  BY DEF Judgements
<1>2. ASSUME NEW e \in Judgements(type, documents)
      PROVE  e.payload \in documents /\ e.type = type
  <2>1. PICK d \in documents : e = [type |-> type, payload |-> d]
    BY DEF Judgements
  <2>. QED  BY <2>1
<1>. QED  BY <1>1, <1>2

\* What each pillar is judged by is the document that was attested.
LEMMA AttestedEvidence ==
  ASSUME NEW built, NEW config, IsConfig(config), NEW signer, IsOption(signer),
         NEW refs, Lists(refs, built, config, signer)
  PROVE  /\ Evidence(refs, "slsa") = Judgements(InToto, EmitSlsa(built, config))
         /\ Evidence(refs, "sbom") =
              Judgements({config.format}, EmitSbom(built, config.format, config.scope))
         /\ Evidence(refs, "signature") = Judgements({"cosign"}, Bundles(built, signer))
         /\ \A r \in ToSet(refs) : r.readable
<1>. DEFINE slsa == EmitSlsa(built, config)
            sbom == EmitSbom(built, config.format, config.scope)
            bundles == Bundles(built, signer)
            S(type, documents) == {Referrer(type, d) : d \in documents}
<1>1. IsOption(slsa) /\ IsOption(sbom) /\ IsOption(bundles)
  BY Emitted
<1>2. ToSet(refs) = S(InToto, slsa) \cup S({config.format}, sbom) \cup S({"cosign"}, bundles)
  BY Attached
<1>3. sbom # {} => config.format \in {"cyclonedx", "spdx"}
  BY DEF EmitSbom, IsConfig
<1>. HIDE DEF slsa, sbom, bundles
<1>4. /\ InToto # {} /\ Classify(InToto) = "slsa"
      /\ {"cosign"} # {} /\ Classify({"cosign"}) = "signature"
      /\ {config.format} # {}
      /\ sbom # {} => Classify({config.format}) = "sbom"
  BY <1>3 DEF Classify, InToto
<1>5. ASSUME NEW class, NEW type, type # {}, NEW documents, IsOption(documents),
             Referring(refs, class) = S(type, documents)
      PROVE  Evidence(refs, class) = Judgements(type, documents)
  <2>1. CASE documents = {}
    BY <1>5, <2>1, EvidenceIsReferring DEF Lists, Judgements
  <2>2. CASE documents # {}
    <3>1. PICK d : documents = {d}
      BY <1>5, <2>2 DEF IsOption
    <3>2. Referring(refs, class) = {Referrer(type, d)}
      BY <1>5, <3>1
    <3>3. Evidence(refs, class) = {Judged(Referrer(type, d))}
      BY <3>2, EvidenceIsReferring DEF Lists
    <3>4. Judged(Referrer(type, d)) = [type |-> type, payload |-> d]
      BY <1>5, ReferrerFields
    <3>. QED  BY <3>1, <3>3, <3>4 DEF Judgements
  <2>. QED  BY <2>1, <2>2
<1>6. /\ \A r \in S(InToto, slsa) : r.readable /\ \A class : OfClass(r, class) <=> class = "slsa"
      /\ \A r \in S({config.format}, sbom) :
           r.readable /\ \A class : OfClass(r, class) <=> class = "sbom"
      /\ \A r \in S({"cosign"}, bundles) :
           r.readable /\ \A class : OfClass(r, class) <=> class = "signature"
  <2>1. ASSUME NEW type, type # {}, NEW documents, NEW r \in S(type, documents)
        PROVE  r.readable /\ \A class : OfClass(r, class) <=> class = Classify(type)
    <3>1. PICK d \in documents : r = Referrer(type, d)
      OBVIOUS
    <3>. QED  BY <2>1, <3>1, ReferrerFields
  <2>2. S({config.format}, sbom) # {} => sbom # {}
    OBVIOUS
  <2>. HIDE DEF S
  <2>. QED  BY <1>4, <2>1, <2>2
<1>7. /\ Referring(refs, "slsa") = S(InToto, slsa)
      /\ Referring(refs, "sbom") = S({config.format}, sbom)
      /\ Referring(refs, "signature") = S({"cosign"}, bundles)
  <2>. HIDE DEF S
  <2>. QED  BY <1>2, <1>6 DEF Referring
<1>8. /\ Evidence(refs, "slsa") = Judgements(InToto, slsa)
      /\ Evidence(refs, "sbom") = Judgements({config.format}, sbom)
      /\ Evidence(refs, "signature") = Judgements({"cosign"}, bundles)
  <2>. HIDE DEF S
  <2>. QED  BY <1>1, <1>4, <1>5, <1>7
<1>9. \A r \in ToSet(refs) : r.readable
  <2>. HIDE DEF S
  <2>. QED  BY <1>2, <1>6
<1>. QED  BY <1>8, <1>9 DEF slsa, sbom, bundles

-----------------------------------------------------------------------------
(* What verify makes of it.                                                *)

\* What the readers of verify find in a statement that build has emitted.
LEMMA StatementFields ==
  ASSUME NEW built, NEW config, IsConfig(config)
  PROVE  /\ ValidStatement(Statement(built, config), built.manifest)
         /\ Statement(built, config).level = config.level
         /\ BuilderOf(config) = {Statement(built, config).builder}
<1>. DEFINE p == Statement(built, config)
            urn == "urn:justoci:builder:unknown"
            builder == IF config.builder = {} THEN urn ELSE CHOOSE b \in config.builder : TRUE
<1>1. /\ p.json = TRUE /\ p.predicateType = "slsa-v1" /\ p.subjects = {built.manifest}
      /\ p.specHash = TRUE /\ p.level = config.level /\ p.builder = builder
  BY DEF Statement, NothingRead
<1>2. BuilderOf(config) = {builder}
  <2>1. CASE config.builder = {}
    BY <2>1 DEF BuilderOf
  <2>2. CASE config.builder # {}
    <3>1. builder \in config.builder
      BY <2>2
    <3>2. config.builder = {builder}
      <4>. HIDE DEF builder
      <4>. QED  BY <3>1 DEF IsConfig, IsOption
    <3>. QED  BY <2>2, <3>2 DEF BuilderOf
  <2>. QED  BY <2>1, <2>2
<1>. HIDE DEF p, builder
<1>3. ValidStatement(p, built.manifest)
  BY <1>1 DEF ValidStatement
<1>. QED  BY <1>1, <1>2, <1>3 DEF p

\* What they find in an SBOM.
LEMMA SbomFields ==
  ASSUME NEW built, NEW scope
  PROVE  /\ ValidSbom(CycloneDx(built, scope), {"cyclonedx"})
         /\ CycloneDx(built, scope).items = Components(built, scope)
         /\ ValidSbom(Spdx(built, scope), {"spdx"})
         /\ Spdx(built, scope).items = SpdxFiles(built, scope)
<1>1. ASSUME NEW d, d = CycloneDx(built, scope)
      PROVE  ValidSbom(d, {"cyclonedx"}) /\ d.items = Components(built, scope)
  <2>1. d.json = TRUE /\ d.format = "CycloneDX" /\ d.items = Components(built, scope)
    BY <1>1 DEF CycloneDx, NothingRead
  <2>. QED  BY <2>1 DEF ValidSbom
<1>2. ASSUME NEW d, d = Spdx(built, scope)
      PROVE  ValidSbom(d, {"spdx"}) /\ d.items = SpdxFiles(built, scope)
  <2>1. d.json = TRUE /\ d.format = "SPDX" /\ d.items = SpdxFiles(built, scope)
    BY <1>2 DEF Spdx, NothingRead
  <2>. QED  BY <2>1 DEF ValidSbom
<1>. QED  BY <1>1, <1>2

\* What they find in a bundle.
LEMMA BundleFields ==
  ASSUME NEW built, NEW s
  PROVE  /\ Bundle(built, s).json = TRUE /\ Bundle(built, s).signs = {built.manifest}
         /\ Bundle(built, s).recorded = (s = "cosign-subprocess")
BY DEF Bundle, NothingRead

\* Whether a pillar has evidence, and what it is.
AsAttested(refs, built, config, signer) ==
  /\ Evidence(refs, "slsa") = {} <=> config.level = 0
  /\ \A e \in Evidence(refs, "slsa") : e.payload = Statement(built, config)
  /\ Evidence(refs, "sbom") = {} <=> config.format = "off"
  /\ \A e \in Evidence(refs, "sbom") : ValidSbom(e.payload, e.type) /\ e.type = {config.format}
  /\ Evidence(refs, "signature") = {} <=> signer = {}
  /\ \A e \in Evidence(refs, "signature"), s \in signer : e.payload = Bundle(built, s)

LEMMA AttestedPillars ==
  ASSUME NEW built, NEW config, IsConfig(config), NEW signer, IsOption(signer),
         NEW refs, Lists(refs, built, config, signer)
  PROVE  AsAttested(refs, built, config, signer)
<1>. DEFINE slsa == EmitSlsa(built, config)
            sbom == EmitSbom(built, config.format, config.scope)
            bundles == Bundles(built, signer)
<1>1. /\ slsa = {} <=> config.level = 0
      /\ \A d \in slsa : d = Statement(built, config)
  BY DEF EmitSlsa
<1>2. /\ sbom = {} <=> config.format = "off"
      /\ \A d \in sbom : ValidSbom(d, {config.format})
  <2>1. CASE config.format = "cyclonedx"
    <3>1. sbom = {CycloneDx(built, config.scope)}
      BY <2>1 DEF EmitSbom
    <3>2. ValidSbom(CycloneDx(built, config.scope), {config.format})
      BY <2>1, SbomFields
    <3>. QED  BY <2>1, <3>1, <3>2
  <2>2. CASE config.format = "spdx"
    <3>1. sbom = {Spdx(built, config.scope)}
      BY <2>2 DEF EmitSbom
    <3>2. ValidSbom(Spdx(built, config.scope), {config.format})
      BY <2>2, SbomFields
    <3>. QED  BY <2>2, <3>1, <3>2
  <2>3. CASE config.format = "off"
    BY <2>3 DEF EmitSbom
  <2>. QED  BY <2>1, <2>2, <2>3 DEF IsConfig
<1>3. /\ bundles = {} <=> signer = {}
      /\ \A d \in bundles, s \in signer : d = Bundle(built, s)
  BY DEF Bundles, IsOption
<1>4. /\ Evidence(refs, "slsa") = Judgements(InToto, slsa)
      /\ Evidence(refs, "sbom") = Judgements({config.format}, sbom)
      /\ Evidence(refs, "signature") = Judgements({"cosign"}, bundles)
  BY AttestedEvidence
<1>. HIDE DEF slsa, sbom, bundles
<1>5. /\ Evidence(refs, "slsa") = {} <=> config.level = 0
      /\ \A e \in Evidence(refs, "slsa") : e.payload = Statement(built, config)
  BY <1>1, <1>4, JudgementsOf
<1>6. /\ Evidence(refs, "sbom") = {} <=> config.format = "off"
      /\ \A e \in Evidence(refs, "sbom") : ValidSbom(e.payload, e.type) /\ e.type = {config.format}
  BY <1>2, <1>4, JudgementsOf
<1>7. /\ Evidence(refs, "signature") = {} <=> signer = {}
      /\ \A e \in Evidence(refs, "signature"), s \in signer : e.payload = Bundle(built, s)
  BY <1>3, <1>4, JudgementsOf
<1>. QED  BY <1>5, <1>6, <1>7 DEF AsAttested

\* The pillars are found as they were attested.
LEMMA AttestedReport ==
  ASSUME NEW built, NEW config, IsConfig(config), NEW signer, IsOption(signer),
         NEW refs, Lists(refs, built, config, signer), NEW cosign \in Cosigns
  PROVE  Report(refs, built.manifest, cosign) =
           [slsa |-> IF config.level = 0 THEN "Missing" ELSE "Found",
            sbom |-> IF config.format = "off" THEN "Missing" ELSE "Found",
            signature |-> IF signer = {} THEN "Missing"
                          ELSE IF Signed(signer, cosign) THEN "Found" ELSE "Failed"]
<1>. DEFINE report == Report(refs, built.manifest, cosign)
            slsa == Evidence(refs, "slsa")
            sbom == Evidence(refs, "sbom")
            signature == Evidence(refs, "signature")
            verified(e) == CosignVerify(e.payload, built.manifest, cosign) = "VerifiedAndRecorded"
<1>. AsAttested(refs, built, config, signer)
  BY AttestedPillars
<1>1. report = [slsa |-> report.slsa, sbom |-> report.sbom, signature |-> report.signature]
  BY DEF Report
<1>2. /\ report.slsa = IF slsa = {} THEN "Missing"
                       ELSE IF \A e \in slsa : ValidStatement(e.payload, built.manifest)
                       THEN "Found" ELSE "Failed"
      /\ report.sbom = IF sbom = {} THEN "Missing"
                       ELSE IF \A e \in sbom : ValidSbom(e.payload, e.type) THEN "Found" ELSE "Failed"
      /\ report.signature = IF signature = {} THEN "Missing"
                            ELSE IF \A e \in signature : verified(e) THEN "Found" ELSE "Failed"
  BY Pillars
<1>3. \A e \in slsa : ValidStatement(e.payload, built.manifest)
  BY StatementFields DEF AsAttested
<1>4. \A e \in sbom : ValidSbom(e.payload, e.type)
  BY DEF AsAttested
<1>5. \A e \in signature : verified(e) <=> Signed(signer, cosign)
  <2>1. TAKE e \in signature
  <2>2. PICK s : signer = {s} /\ e.payload = Bundle(built, s)
    <3>1. signer # {} /\ \A s \in signer : e.payload = Bundle(built, s)
      BY DEF AsAttested
    <3>. QED  BY <3>1 DEF IsOption
  <2>. DEFINE p == Bundle(built, s)
  <2>3. p.json = TRUE /\ p.signs = {built.manifest} /\ p.recorded = (s = "cosign-subprocess")
    BY BundleFields
  <2>. HIDE DEF p
  <2>4. CosignVerify(p, built.manifest, cosign) = "VerifiedAndRecorded"
          <=> s = "cosign-subprocess" /\ cosign = "works"
    BY <2>3 DEF CosignVerify, Cosigns
  <2>5. Signed(signer, cosign) <=> s = "cosign-subprocess" /\ cosign = "works"
    BY <2>2 DEF Signed
  <2>. QED  BY <2>2, <2>4, <2>5 DEF p
<1>6. /\ slsa = {} <=> config.level = 0
      /\ sbom = {} <=> config.format = "off"
      /\ signature = {} <=> signer = {}
  BY DEF AsAttested
<1>. HIDE DEF report, slsa, sbom, signature, verified
<1>7. report.slsa = IF config.level = 0 THEN "Missing" ELSE "Found"
  BY <1>2, <1>3, <1>6
<1>8. report.sbom = IF config.format = "off" THEN "Missing" ELSE "Found"
  BY <1>2, <1>4, <1>6
<1>9. report.signature = IF signer = {} THEN "Missing"
                         ELSE IF Signed(signer, cosign) THEN "Found" ELSE "Failed"
  <2>1. CASE signer = {}
    BY <1>2, <1>6, <2>1
  <2>2. CASE signer # {}
    <3>1. PICK e \in signature : TRUE
      BY <1>6, <2>2
    <3>2. (\A x \in signature : verified(x)) <=> Signed(signer, cosign)
      BY <1>5, <3>1
    <3>. QED  BY <1>2, <1>6, <2>2, <3>2
  <2>. QED  BY <2>1, <2>2
<1>. QED  BY <1>1, <1>7, <1>8, <1>9 DEF report

\* attest, build, verify: an image that build attests is accepted under the policies
\* that its spec satisfies and under no other, and its pillars are found as they were
\* attested: for any image, [attestation] block, signer, state of cosign, and order
\* in which its referrers are listed.
THEOREM AttestedVerifies ==
  ASSUME NEW built, NEW config, IsConfig(config), NEW signer, IsOption(signer),
         NEW refs, Lists(refs, built, config, signer), NEW cosign \in Cosigns,
         NEW policy, IsPolicy(policy)
  PROVE  Verifies(config, signer, policy, cosign,
                               Verify(refs, built.manifest, policy, cosign))
<1>. DEFINE report == Report(refs, built.manifest, cosign)
            verdict == Verify(refs, built.manifest, policy, cosign)
            slsa == Evidence(refs, "slsa")
            sbom == Evidence(refs, "sbom")
<1>. AsAttested(refs, built, config, signer)
  BY AttestedPillars
<1>1. /\ verdict.err = "none" <=> Accepts(refs, built.manifest, policy, cosign)
      /\ verdict.report = IF verdict.err = "none" THEN report ELSE {}
  BY AcceptsWhen
<1>2. report = [slsa |-> IF config.level = 0 THEN "Missing" ELSE "Found",
                sbom |-> IF config.format = "off" THEN "Missing" ELSE "Found",
                signature |-> IF signer = {} THEN "Missing"
                              ELSE IF Signed(signer, cosign) THEN "Found" ELSE "Failed"]
  BY AttestedReport
<1>. HIDE DEF verdict, report
<1>3. LevelGate(refs, policy) = "none"
        <=> \A n \in policy.level : config.level # 0 /\ config.level >= n
  <2>1. (slsa = {} <=> config.level = 0) /\ \A e \in slsa : e.payload.level = config.level
    BY StatementFields DEF AsAttested
  <2>2. LevelGate(refs, policy) = "none" <=>
          \/ policy.level = {}
          \/ slsa # {} /\ \A e \in slsa, n \in policy.level : e.payload.level >= n
    BY DEF LevelGate
  <2>. HIDE DEF slsa
  <2>. QED  BY <2>1, <2>2
<1>4. BuilderGate(refs, policy) = "none"
        <=> (policy.builder # {} => config.level # 0 /\ policy.builder = BuilderOf(config))
  <2>1. (slsa = {} <=> config.level = 0) /\ \A e \in slsa : BuilderOf(config) = {e.payload.builder}
    BY StatementFields DEF AsAttested
  <2>2. BuilderGate(refs, policy) = "none" <=>
          \A b \in policy.builder : \E e \in slsa : e.payload.builder = b
    BY DEF BuilderGate
  <2>. HIDE DEF slsa
  <2>3. CASE slsa = {}
    BY <2>1, <2>2, <2>3
  <2>4. CASE slsa # {}
    <3>1. PICK e \in slsa : TRUE
      BY <2>4
    <3>. DEFINE x == e.payload.builder
    <3>2. BuilderOf(config) = {x} /\ \A f \in slsa : f.payload.builder = x
      BY <2>1
    <3>. HIDE DEF x
    <3>3. BuilderGate(refs, policy) = "none" <=> policy.builder \subseteq {x}
      BY <2>2, <3>1, <3>2
    <3>. QED  BY <2>1, <2>4, <3>2, <3>3
  <2>. QED  BY <2>3, <2>4
<1>5. SignatureGate(report, policy) = "none" <=> (policy.signature => Signed(signer, cosign))
  <2>1. Signed(signer, cosign) => signer # {}
    BY DEF Signed
  <2>2. report.signature = "Found" <=> Signed(signer, cosign)
    BY <1>2, <2>1
  <2>. QED  BY <2>2 DEF SignatureGate, IsPolicy
<1>6. FormatGate(refs, policy) = "none"
        <=> \A fs \in policy.formats : config.format # "off" /\ config.format \in fs
  <2>1. (sbom = {} <=> config.format = "off") /\ \A e \in sbom : e.type = {config.format}
    BY DEF AsAttested
  <2>2. FormatGate(refs, policy) = "none" <=>
          \/ policy.formats = {}
          \/ sbom # {} /\ \A e \in sbom, fs \in policy.formats : fs \cap SbomDetail(e) # {}
    BY DEF FormatGate
  <2>3. ASSUME NEW fs \in policy.formats, NEW e \in sbom
        PROVE  fs \cap SbomDetail(e) # {} <=> config.format \in fs
    <3>1. SbomDetail(e) = {config.format} \cup {"blob", "sha256"}
      BY <2>1 DEF SbomDetail
    <3>2. fs \cap {"blob", "sha256"} = {}
      BY DEF IsPolicy
    <3>. QED  BY <3>1, <3>2
  <2>. HIDE DEF sbom
  <2>. QED  BY <2>1, <2>2, <2>3
<1>7. /\ \A r \in ToSet(refs) : r.readable
      /\ report.slsa # "Failed" /\ report.sbom # "Failed"
  BY <1>2, AttestedEvidence
<1>8. verdict.err = "none" <=>
        /\ LevelGate(refs, policy) = "none"
        /\ BuilderGate(refs, policy) = "none"
        /\ SignatureGate(report, policy) = "none"
        /\ FormatGate(refs, policy) = "none"
  BY <1>1, <1>7 DEF Accepts, report
<1>9. verdict.err = "none" =>
        verdict.report = [slsa |-> IF config.level = 0 THEN "Missing" ELSE "Found",
                         sbom |-> IF config.format = "off" THEN "Missing" ELSE "Found",
                         signature |-> IF signer = {} THEN "Missing"
                                       ELSE IF Signed(signer, cosign) THEN "Found" ELSE "Failed"]
  BY <1>1, <1>2
<1>. QED  BY <1>3, <1>4, <1>5, <1>6, <1>8, <1>9 DEF Verifies, verdict

-----------------------------------------------------------------------------
(* What sbom shows.                                                        *)

\* The components of an SBOM of sources are a list.
LEMMA SourceItemsAreList ==
  ASSUME NEW built, IsBuilt(built)
  PROVE  IsList(SourceItems(built.layers))
<1>. DEFINE layers == built.layers
            items(k) == IF layers[k].source.t = "blob" THEN <<>>
                        ELSE [j \in DOMAIN layers[k].source.entries |->
                                [layer |-> k - 1, file |-> j - 1,
                                 entry |-> layers[k].source.entries[j]]]
            seqs == [k \in DOMAIN layers |-> items(k)]
<1>1. SourceItems(layers) = FlattenSeq(seqs)
  BY DEF SourceItems
<1>2. IsList(seqs)
  BY DEF IsBuilt, IsList
<1>3. ASSUME NEW k \in DOMAIN layers PROVE IsList(items(k))
  <2>1. CASE layers[k].source.t = "blob"
    BY <2>1 DEF IsList
  <2>2. CASE layers[k].source.t # "blob"
    <3>1. IsList(layers[k].source.entries)
      BY <2>2 DEF IsBuilt, ToSet
    <3>. QED  BY <2>2, <3>1 DEF IsList
  <2>. QED  BY <2>1, <2>2
<1>4. \A s \in ToSet(seqs) : IsList(s)
  BY <1>3 DEF ToSet
<1>. HIDE DEF seqs
<1>. QED  BY <1>1, <1>2, <1>4, FlattenHas

\* The names of what an SBOM lists.
NameOf(i) == IF "digest" \in DOMAIN i THEN i.name ELSE <<i.layer, i.entry.dest>>
NamesIn(items) == {NameOf(i) : i \in ToSet(items)}

\* The layers of `justoci sbom' before the build: the same, but for the digests.
Preview(built) ==
  [built EXCEPT !.manifest = "spec hash",
                !.layers = [k \in DOMAIN @ |-> [@[k] EXCEPT !.digest = "of its source"]]]

SameSources(a, b) == DOMAIN a = DOMAIN b /\ \A k \in DOMAIN a : a[k].source = b[k].source

\* The preview is of an image that has the same sources.
LEMMA PreviewHasSources ==
  ASSUME NEW built, IsBuilt(built)
  PROVE  IsBuilt(Preview(built)) /\ SameSources(built.layers, Preview(built).layers)
<1>. DEFINE layers == built.layers
            seen(k) == [layers[k] EXCEPT !.digest = "of its source"]
            preview == [k \in DOMAIN layers |-> seen(k)]
<1>1. Preview(built).layers = preview /\ DOMAIN Preview(built) = {"manifest", "layers"}
  BY DEF Preview, IsBuilt
<1>2. ASSUME NEW k \in DOMAIN layers
      PROVE  /\ DOMAIN seen(k) = {"digest", "mediaType", "source"}
             /\ seen(k).source = layers[k].source
             /\ layers[k].source.t # "blob" => IsList(layers[k].source.entries)
  <2>1. layers[k] \in ToSet(layers)
    BY DEF ToSet
  <2>. QED  BY <2>1 DEF IsBuilt
<1>. HIDE DEF seen
<1>3. IsList(preview) /\ DOMAIN preview = DOMAIN layers
  BY DEF IsBuilt, IsList
<1>4. \A k \in DOMAIN layers : preview[k].source = layers[k].source
  BY <1>2
<1>5. ASSUME NEW layer \in ToSet(preview)
      PROVE  /\ DOMAIN layer = {"digest", "mediaType", "source"}
             /\ layer.source.t # "blob" => IsList(layer.source.entries)
  <2>1. PICK k \in DOMAIN layers : layer = seen(k)
    BY DEF ToSet
  <2>. QED  BY <1>2, <2>1
<1>. HIDE DEF preview
<1>6. IsBuilt(Preview(built))
  BY <1>1, <1>3, <1>5 DEF IsBuilt
<1>. QED  BY <1>1, <1>3, <1>4, <1>6 DEF SameSources

\* Layers with the same sources are listed by the same names.
LEMMA SameNames ==
  ASSUME NEW a, NEW b, SameSources(a, b)
  PROVE  /\ SourceItems(a) = SourceItems(b)
         /\ NamesIn(LayerItems(a)) = NamesIn(LayerItems(b))
<1>. DEFINE items(layers, k) ==
              IF layers[k].source.t = "blob" THEN <<>>
              ELSE [j \in DOMAIN layers[k].source.entries |->
                      [layer |-> k - 1, file |-> j - 1, entry |-> layers[k].source.entries[j]]]
            seqs(layers) == [k \in DOMAIN layers |-> items(layers, k)]
<1>1. \A layers : SourceItems(layers) = FlattenSeq(seqs(layers))
  BY DEF SourceItems
<1>2. \A k \in DOMAIN a : items(a, k) = items(b, k) /\ LayerName(a, k) = LayerName(b, k)
  BY DEF SameSources, LayerName
<1>. HIDE DEF items
<1>3. seqs(a) = seqs(b)
  BY <1>2 DEF SameSources
<1>4. ASSUME NEW layers
      PROVE  NamesIn(LayerItems(layers)) = {LayerName(layers, k) : k \in DOMAIN layers}
  <2>1. ToSet(LayerItems(layers)) = {LayerItem(layers, k) : k \in DOMAIN layers}
    BY DEF LayerItems, ToSet
  <2>2. \A k : NameOf(LayerItem(layers, k)) = LayerName(layers, k)
    BY DEF NameOf, LayerItem
  <2>. QED  BY <2>1, <2>2 DEF NamesIn
<1>5. {LayerName(a, k) : k \in DOMAIN a} = {LayerName(b, k) : k \in DOMAIN b}
  BY <1>2 DEF SameSources
<1>. HIDE DEF seqs
<1>6. SourceItems(a) = SourceItems(b)
  BY <1>1, <1>3
<1>. QED  BY <1>4, <1>5, <1>6

\* Either format lists the same, and by these names.
LEMMA ListedNames ==
  ASSUME NEW built, IsBuilt(built), NEW scope
  PROVE  /\ Components(built, scope) = SpdxFiles(built, scope)
         /\ NamesIn(Components(built, scope)) =
              (IF scope \in {"layers", "both"} THEN NamesIn(LayerItems(built.layers)) ELSE {})
                \cup (IF scope \in {"sources", "both"} THEN NamesIn(SourceItems(built.layers)) ELSE {})
<1>. DEFINE x == IF scope \in {"layers", "both"} THEN LayerItems(built.layers) ELSE <<>>
            y == IF scope \in {"sources", "both"} THEN SourceItems(built.layers) ELSE <<>>
<1>1. IsList(LayerItems(built.layers))
  BY DEF LayerItems, IsBuilt, IsList
<1>2. IsList(SourceItems(built.layers))
  BY SourceItemsAreList
<1>3. IsList(<<>>) /\ NamesIn(<<>>) = {}
  BY DEF IsList, NamesIn, ToSet
<1>4. IsList(x) /\ IsList(y)
  BY <1>1, <1>2, <1>3
<1>5. Components(built, scope) = x \o y /\ SpdxFiles(built, scope) = x \o y
  BY DEF Components, SpdxFiles
<1>6. NamesIn(x) = IF scope \in {"layers", "both"} THEN NamesIn(LayerItems(built.layers)) ELSE {}
  BY <1>3
<1>7. NamesIn(y) = IF scope \in {"sources", "both"} THEN NamesIn(SourceItems(built.layers)) ELSE {}
  BY <1>3
<1>. HIDE DEF x, y
<1>8. ToSet(x \o y) = ToSet(x) \cup ToSet(y)
  BY <1>4, Joined
<1>9. NamesIn(x \o y) = NamesIn(x) \cup NamesIn(y)
  BY <1>8 DEF NamesIn
<1>. QED  BY <1>5, <1>6, <1>7, <1>9

\* What either format emits, and the preview of it.
LEMMA EmittedNames ==
  ASSUME NEW built, IsBuilt(built), NEW format \in {"cyclonedx", "spdx", "off"}, NEW scope
  PROVE  NamesOf(EmitSbom(built, format, scope)) =
           IF format = "off" THEN {} ELSE {NamesIn(Components(built, scope))}
<1>1. \A documents : NamesOf(documents) = {NamesIn(d.items) : d \in documents}
  BY DEF NamesOf, NamesIn, NameOf
<1>2. EmitSbom(built, format, scope) =
        CASE format = "cyclonedx" -> {CycloneDx(built, scope)}
          [] format = "spdx"      -> {Spdx(built, scope)}
          [] format = "off"       -> {}
  BY DEF EmitSbom
<1>3. /\ CycloneDx(built, scope).items = Components(built, scope)
      /\ Spdx(built, scope).items = Components(built, scope)
  BY SbomFields, ListedNames
<1>. QED  BY <1>1, <1>2, <1>3

\* sbom takes the document that build attached.
LEMMA ShownIsAttached ==
  ASSUME NEW built, NEW config, IsConfig(config), NEW signer, IsOption(signer),
         NEW refs, Lists(refs, built, config, signer)
  PROVE  SbomOfImage(refs) = EmitSbom(built, config.format, config.scope)
<1>. DEFINE slsa == EmitSlsa(built, config)
            sbom == EmitSbom(built, config.format, config.scope)
            bundles == Bundles(built, signer)
            declared(r) == IF r.artifactType # {} THEN r.artifactType ELSE r.listedType
            I == {k \in 1..Len(refs) : declared(refs[k]) \cap {"cyclonedx", "spdx"} # {}}
            n == IF I # {} THEN Min(I) ELSE 0
            S(type, documents) == {Referrer(type, d) : d \in documents}
<1>1. SbomOfImage(refs) =
        IF n = 0 \/ refs[n].layers = <<>> THEN {} ELSE {refs[n].layers[1].payload}
  BY DEF SbomOfImage, SelectInSeq
<1>2. DOMAIN refs = 1..Len(refs) /\ Len(refs) \in Nat
  BY ListDomain DEF Lists
<1>3. ToSet(refs) = S(InToto, slsa) \cup S({config.format}, sbom) \cup S({"cosign"}, bundles)
  BY Attached
<1>4. IsOption(sbom) /\ (sbom # {} => config.format \in {"cyclonedx", "spdx"})
  BY Emitted DEF EmitSbom, IsConfig
<1>. HIDE DEF slsa, sbom, bundles, declared
<1>5. ASSUME NEW type, type # {}, NEW documents, NEW r \in S(type, documents)
      PROVE  declared(r) = type /\ r.layers # <<>> /\ r.layers[1].payload \in documents
  <2>1. PICK d \in documents : r = Referrer(type, d)
    OBVIOUS
  <2>2. r.artifactType = type /\ r.layers = <<[mediaType |-> type, payload |-> d]>>
    BY <2>1 DEF Referrer
  <2>3. Len(r.layers) = 1 /\ r.layers[1].payload = d
    BY <2>2
  <2>4. r.layers # <<>>
    BY <2>3
  <2>. QED  BY <1>5, <2>2, <2>3, <2>4 DEF declared
<1>. HIDE DEF S
<1>6. InToto # {} /\ InToto \cap {"cyclonedx", "spdx"} = {} /\ {"cosign"} # {}
      /\ {"cosign"} \cap {"cyclonedx", "spdx"} = {} /\ {config.format} # {}
  BY DEF InToto
<1>7. ASSUME NEW r \in ToSet(refs), declared(r) \cap {"cyclonedx", "spdx"} # {}
      PROVE  r.layers # <<>> /\ r.layers[1].payload \in sbom
  BY <1>3, <1>5, <1>6, <1>7
<1>8. CASE I = {}
  <2>1. \A r \in ToSet(refs) : declared(r) \cap {"cyclonedx", "spdx"} = {}
    BY <1>2, <1>8 DEF ToSet
  <2>2. ASSUME NEW d \in sbom PROVE FALSE
    <3>1. Referrer({config.format}, d) \in S({config.format}, sbom)
      BY DEF S
    <3>2. declared(Referrer({config.format}, d)) = {config.format}
      BY <1>5, <1>6, <3>1
    <3>. QED  BY <1>3, <1>4, <2>1, <3>1, <3>2
  <2>3. n = 0
    BY <1>8
  <2>. QED  BY <1>1, <2>2, <2>3 DEF sbom
<1>9. CASE I # {}
  <2>1. I \in SUBSET Nat /\ 0 \notin I
    BY <1>2
  <2>2. n \in I
    BY <1>9, <2>1, MinIsLeast
  <2>3. n # 0 /\ refs[n] \in ToSet(refs) /\ declared(refs[n]) \cap {"cyclonedx", "spdx"} # {}
    BY <1>2, <2>1, <2>2 DEF ToSet
  <2>. HIDE DEF n, I
  <2>4. refs[n].layers # <<>> /\ refs[n].layers[1].payload \in sbom
    BY <1>7, <2>3
  <2>5. SbomOfImage(refs) = {refs[n].layers[1].payload}
    BY <1>1, <2>3, <2>4
  <2>. QED  BY <1>4, <2>4, <2>5 DEF IsOption, sbom
<1>. QED  BY <1>8, <1>9

\* `justoci sbom' (run_image_mode) shows of a built image the SBOM that verify judges,
\* and shows one unless [attestation.sbom] has turned it off; it lists the same in
\* CycloneDX as in SPDX; and the preview made from the spec (run_spec_mode), in
\* whichever of the two --format asks for, lists the same names.
THEOREM AttestedHasOneSbom ==
  ASSUME NEW built, IsBuilt(built), NEW config, IsConfig(config),
         NEW signer, IsOption(signer), NEW refs, Lists(refs, built, config, signer)
  PROVE  OneSbom(built, config, refs, SbomOfImage(refs))
<1>. DEFINE shown == SbomOfImage(refs)
            format == config.format
            scope == config.scope
<1>1. shown = EmitSbom(built, format, scope)
  BY ShownIsAttached
<1>2. shown = {e.payload : e \in Evidence(refs, "sbom")}
  <2>1. Evidence(refs, "sbom") = Judgements({format}, EmitSbom(built, format, scope))
    BY AttestedEvidence
  <2>2. ASSUME NEW documents
        PROVE  documents = {e.payload : e \in Judgements({format}, documents)}
    <3>1. ASSUME NEW d \in documents
          PROVE  \E e \in Judgements({format}, documents) : d = e.payload
      <4>. DEFINE e == [type |-> {format}, payload |-> d]
      <4>1. e.payload = d /\ e \in Judgements({format}, documents)
        BY DEF Judgements
      <4>. HIDE DEF e
      <4>. QED  BY <4>1
    <3>2. \A e \in Judgements({format}, documents) : e.payload \in documents
      BY JudgementsOf
    <3>. QED  BY <3>1, <3>2
  <2>. QED  BY <1>1, <2>1, <2>2
<1>3. ItemsOf(EmitSbom(built, "cyclonedx", scope)) = ItemsOf(EmitSbom(built, "spdx", scope))
  <2>1. /\ EmitSbom(built, "cyclonedx", scope) = {CycloneDx(built, scope)}
        /\ EmitSbom(built, "spdx", scope) = {Spdx(built, scope)}
    BY DEF EmitSbom
  <2>2. CycloneDx(built, scope).items = Spdx(built, scope).items
    BY SbomFields, ListedNames
  <2>. QED  BY <2>1, <2>2 DEF ItemsOf
<1>4. shown = {} <=> format = "off"
  BY <1>1 DEF EmitSbom, IsConfig
<1>5. ASSUME NEW asked \in {"cyclonedx", "spdx"}
      PROVE  LET preview == SbomOfSpec(built, asked, scope)
             IN preview # {} /\ (shown # {} => NamesOf(preview) = NamesOf(shown))
  <2>. DEFINE preview == Preview(built)
  <2>1. SbomOfSpec(built, asked, scope) = EmitSbom(preview, asked, scope)
    BY DEF SbomOfSpec, Preview
  <2>2. IsBuilt(preview) /\ SameSources(built.layers, preview.layers)
    BY PreviewHasSources
  <2>3. /\ SourceItems(built.layers) = SourceItems(preview.layers)
        /\ NamesIn(LayerItems(built.layers)) = NamesIn(LayerItems(preview.layers))
    BY <2>2, SameNames
  <2>. HIDE DEF preview
  <2>4. NamesIn(Components(preview, scope)) = NamesIn(Components(built, scope))
    BY <2>2, <2>3, ListedNames
  <2>5. EmitSbom(preview, asked, scope) # {}
    BY DEF EmitSbom
  <2>6. NamesOf(EmitSbom(preview, asked, scope)) = {NamesIn(Components(preview, scope))}
    BY <2>2, EmittedNames
  <2>7. ASSUME format # "off"
        PROVE  NamesOf(EmitSbom(built, format, scope)) = {NamesIn(Components(built, scope))}
    BY <2>7, EmittedNames DEF IsConfig
  <2>. QED  BY <1>1, <1>4, <2>1, <2>4, <2>5, <2>6, <2>7
<1>. QED  BY <1>2, <1>3, <1>4, <1>5 DEF OneSbom

-----------------------------------------------------------------------------
(* Credentials.                                                            *)

\* What a source may come to: a refusal, or credentials of its own.
Own(cred, from) ==
  \/ cred = Refused("Cli")
  \/ cred = Basic(from)
  \/ \E token : token # "foreign" /\ cred = Bearer(from, token)

\* The mount that a base path names has no segment "data", and the key ends with the
\* host.
LEMMA PathParts ==
  ASSUME NEW base \in Seq(STRING), NEW host \in STRING, ParseBasePath(base) # <<>>
  PROVE  LET path == ParseBasePath(base)
             key  == Append(path[2], host)
         IN /\ path[1] \in Seq(STRING) /\ key \in Seq(STRING)
            /\ \A k \in 2..Len(path[1]) : path[1][k] # "data"
            /\ key[Len(key)] = host
<1>. DEFINE at == {k \in 2..Len(base) : base[k] = "data"}
            m  == Min(at)
            mount == SubSeq(base, 1, m - 1)
            rest == SubSeq(base, m + 1, Len(base))
<1>1. ParseBasePath(base) = IF at = {} \/ mount = <<"">> THEN <<>> ELSE <<mount, rest>>
  BY DEF ParseBasePath
<1>2. at # {} /\ ParseBasePath(base) = <<mount, rest>>
  BY <1>1
<1>3. at \in SUBSET Nat
  OBVIOUS
<1>4. m \in at /\ \A k \in at : m <= k
  BY <1>2, <1>3, MinIsLeast
<1>. HIDE DEF m
<1>5. m \in 2..Len(base)
  BY <1>4
<1>6. /\ Len(mount) = m - 1
      /\ \A k \in 1..(m - 1) : mount[k] = base[k]
  BY <1>5
<1>7. \A k \in 2..Len(mount) : mount[k] # "data"
  <2>1. TAKE k \in 2..Len(mount)
  <2>2. k \in 2..Len(base) /\ k < m /\ k \in 1..(m - 1)
    BY <1>5, <1>6
  <2>3. k \notin at
    BY <1>4, <1>5, <2>2
  <2>. QED  BY <1>6, <2>2, <2>3
<1>8. mount \in Seq(STRING) /\ rest \in Seq(STRING)
  BY <1>5
<1>. HIDE DEF at, mount, rest
<1>9. Append(rest, host) \in Seq(STRING) /\ Append(rest, host)[Len(Append(rest, host))] = host
  <2>1. /\ Append(rest, host) \in Seq(STRING)
        /\ Len(Append(rest, host)) = Len(rest) + 1
        /\ Append(rest, host)[Len(rest) + 1] = host
    BY <1>8, AppendProperties
  <2>. QED  BY <2>1
<1>. QED  BY <1>2, <1>7, <1>8, <1>9

\* What Vault gives is of the host that was asked for.
LEMMA VaultIsOwn ==
  ASSUME NEW world, NEW base \in Seq(STRING), NEW host \in STRING, VaultHasOwn(world.vault, base, host)
  PROVE  Own(ResolveVault(world, base, host), "vault")
<1>. DEFINE path == ParseBasePath(base)
            answer == world.vault[<<path[1], Append(path[2], host)>>]
<1>1. CASE path = <<>>
  BY <1>1 DEF ResolveVault, Own
<1>2. CASE path # <<>>
  <2>. DEFINE mount == path[1]
              key == Append(path[2], host)
  <2>1. answer.status = "ok" => answer.token # "foreign"
    <3>1. (\A k \in 2..Len(mount) : mount[k] # "data") /\ key[Len(key)] = host
      BY <1>2, PathParts
    <3>2. <<mount, key>> \in DOMAIN world.vault
      BY <1>2 DEF VaultHasOwn
    <3>. HIDE DEF mount, key
    <3>. DEFINE at == <<mount, key>>
    <3>3. at[1] = mount /\ at[2] = key
      OBVIOUS
    <3>. HIDE DEF at
    <3>4. world.vault[at].status = "ok" => world.vault[at].token # "foreign"
      BY <3>1, <3>2, <3>3 DEF VaultHasOwn, at
    <3>. QED  BY <3>4 DEF at, mount, key
  <2>2. answer.status = "ok" => Own(VaultAuth(answer), "vault")
    BY <2>1 DEF VaultAuth, Own
  <2>. QED  BY <2>2 DEF ResolveVault, Own
<1>. QED  BY <1>1, <1>2

\* And so is what the docker file gives.
LEMMA DockerIsOwn ==
  ASSUME NEW world, NEW configPath, NEW host, DockerHasOwn(world.docker, host)
  PROVE  Own(ResolveDocker(world, configPath, host), "docker")
<1>. DEFINE auths == world.docker.auths
            entry == LookupEntry(auths, host)
<1>1. CASE Hits(auths, host) = {} \/ world.docker.state # "ok"
  BY <1>1 DEF ResolveDocker, Own
<1>2. CASE Hits(auths, host) # {} /\ world.docker.state = "ok"
  <2>. DEFINE k == Min(Hits(auths, host))
  <2>1. DOMAIN Keys(host) = {1, 2}
    BY DEF Keys
  <2>2. k \in Hits(auths, host) /\ \A j \in Hits(auths, host) : k <= j
    BY <1>2, <2>1, MinIsLeast DEF Hits
  <2>. HIDE DEF k
  <2>3. \/ k = 1
        \/ k = 2 /\ Keys(host)[1] \notin DOMAIN auths
    BY <2>1, <2>2 DEF Hits
  <2>4. Keys(host)[k] \in DOMAIN auths /\ entry = auths[Keys(host)[k]]
    BY <2>2 DEF Hits, LookupEntry, k
  <2>5. Keys(host)[1] # Keys(host)[2]
    BY DEF Keys
  <2>6. entry.identityToken # "foreign"
    BY <1>2, <2>3, <2>4, <2>5 DEF DockerHasOwn
  <2>7. Own(DockerAuth(entry), "docker")
    BY <2>6 DEF DockerAuth, Own
  <2>. QED  BY <2>7 DEF ResolveDocker, Own
<1>. QED  BY <1>1, <1>2

\* A mode gives what its source has, and no other's.
LEMMA ModeIsOwn ==
  ASSUME NEW cmd, IsCommand(cmd), NEW world, IsWorld(world, cmd), NEW fromEnv
  PROVE  LET cred == ResolveMode(cmd, world, fromEnv)
         IN IF cmd.auth = "env" THEN cred = fromEnv ELSE Own(cred, Source(cmd.auth))
<1>. DEFINE token == Arg(cmd.token, world.env.token)
            username == Arg(cmd.username, world.env.username)
            password == Arg(cmd.password, world.env.password)
            cred == ResolveMode(cmd, world, fromEnv)
<1>1. token # "foreign"
  BY DEF IsCommand, IsWorld, Arg, Values
<1>. HIDE DEF token, username, password
<1>2. CASE cmd.auth = "env"
  BY <1>2 DEF ResolveMode
<1>3. CASE cmd.auth = "basic"
  <2>1. cred = Basic("args") \/ cred = Refused("Cli")
    BY <1>3 DEF ResolveMode
  <2>. QED  BY <1>3, <2>1 DEF Own, Source
<1>4. CASE cmd.auth = "bearer"
  <2>1. cred = Bearer("args", token) \/ cred = Refused("Cli")
    BY <1>4 DEF ResolveMode, token
  <2>. QED  BY <1>1, <1>4, <2>1 DEF Own, Source
<1>5. CASE cmd.auth = "vault"
  <2>1. cred = ResolveVault(world, cmd.base, cmd.host) \/ cred = Refused("Cli")
    BY <1>5 DEF ResolveMode
  <2>. QED  BY <1>5, <2>1, VaultIsOwn DEF Own, Source, IsCommand, IsWorld
<1>6. CASE cmd.auth = "docker-config"
  <2>1. cred = ResolveDocker(world, cmd.configPath, cmd.host) \/ cred = Refused("Cli")
    BY <1>6 DEF ResolveMode
  <2>. QED  BY <1>6, <2>1, DockerIsOwn DEF Own, Source, IsWorld
<1>. QED  BY <1>2, <1>3, <1>4, <1>5, <1>6 DEF IsCommand, Modes

\* What the two readers of the environment come to.
LEMMA EnvCredentials ==
  ASSUME NEW env, {env.token, env.username, env.password} \subseteq Values
  PROVE  /\ IF EnvIncomplete(env) THEN SinkEnv(env) = Refused("Auth") /\ PullEnv(env) = Anonymous
            ELSE SinkEnv(env) = PullEnv(env)
         /\ \A cred \in {SinkEnv(env), PullEnv(env)} :
              \/ cred = Refused("Auth")
              \/ cred = Anonymous /\ EnvIncomplete(env)
              \/ cred = Basic("env")
              \/ \E token : token # "foreign" /\ cred = Bearer("env", token)
<1>1. CASE env.token # "unset"
  BY <1>1 DEF SinkEnv, PullEnv, EnvIncomplete, Values
<1>2. CASE env.token = "unset"
  BY <1>2 DEF SinkEnv, PullEnv, EnvIncomplete, NonEmpty
<1>. QED  BY <1>1, <1>2

\* publish, verify: a request never goes out anonymously, or with the credentials of
\* another source or registry, because the provider that was named is broken or
\* empty: for any command line, environment, Vault and docker file.
THEOREM HeadersAreOwn ==
  ASSUME NEW cmd, IsCommand(cmd), NEW world, IsWorld(world, cmd)
  PROVE  NoFallThrough(cmd, world, PublishHeader(cmd, world), PullHeader(cmd, world))
<1>. DEFINE env == world.env
            publish == PublishHeader(cmd, world)
            pull == PullHeader(cmd, world)
<1>. SUFFICES ASSUME NEW c \in {publish, pull}, c.err = "none"
              PROVE  IF c.kind = "none"
                     THEN cmd.noAuth \/ (c = pull /\ cmd.auth = "env" /\ EnvIncomplete(env))
                     ELSE ~cmd.noAuth /\ c.from = Source(cmd.auth) /\ c.text # "foreign"
  BY DEF NoFallThrough
<1>1. CASE cmd.noAuth
  BY <1>1 DEF PublishHeader, PullHeader, AuthHeader, Anonymous, Refused
<1>2. CASE ~cmd.noAuth /\ cmd.auth # "env"
  <2>1. PICK fromEnv : c = Header(ResolveMode(cmd, world, fromEnv))
    BY <1>2 DEF PublishHeader, PullHeader, AuthHeader
  <2>2. Own(ResolveMode(cmd, world, fromEnv), Source(cmd.auth))
    BY <1>2, ModeIsOwn
  <2>3. Own(c, Source(cmd.auth)) \/ c = Refused("Auth")
    BY <2>1, <2>2 DEF Header
  <2>. QED  BY <1>2, <2>3 DEF Own, Refused, Anonymous, Basic, Bearer
<1>3. CASE ~cmd.noAuth /\ cmd.auth = "env"
  <2>1. publish = Header(SinkEnv(env)) /\ pull = Header(PullEnv(env))
    BY <1>3, ModeIsOwn DEF PublishHeader, PullHeader, AuthHeader
  <2>2. /\ {env.token, env.username, env.password} \subseteq Values
        /\ Source(cmd.auth) = "env"
    BY <1>3 DEF IsWorld, Source
  <2>3. EnvIncomplete(env) => publish.err # "none" /\ pull = Anonymous
    BY <2>1, <2>2, EnvCredentials DEF Header, Anonymous, Refused
  <2>4. ASSUME ~EnvIncomplete(env) PROVE c.kind # "none" /\ c.from = "env" /\ c.text # "foreign"
    <3>1. PICK cred \in {SinkEnv(env), PullEnv(env)} : c = Header(cred)
      BY <2>1
    <3>2. \/ cred = Refused("Auth")
          \/ cred = Basic("env")
          \/ \E token : token # "foreign" /\ cred = Bearer("env", token)
      BY <2>2, <2>4, EnvCredentials
    <3>. QED  BY <3>1, <3>2 DEF Header, Refused, Anonymous, Basic, Bearer
  <2>. QED  BY <1>3, <2>2, <2>3, <2>4 DEF Anonymous
<1>. QED  BY <1>1, <1>2, <1>3 DEF IsCommand

\* publish, verify: under one command line the two commands send the same header, or
\* both refuse, but for a pull that finds nothing in the environment.
THEOREM PublishAndPullHeaders ==
  ASSUME NEW cmd, IsCommand(cmd), NEW world, IsWorld(world, cmd)
  PROVE  HeadersAgree(cmd, world, PublishHeader(cmd, world), PullHeader(cmd, world))
<1>. DEFINE env == world.env
<1>1. CASE cmd.noAuth
  BY <1>1 DEF HeadersAgree, PublishHeader, PullHeader, AuthHeader
<1>2. CASE ~cmd.noAuth /\ cmd.auth # "env"
  <2>1. \A x, y : ResolveMode(cmd, world, x) = ResolveMode(cmd, world, y)
    BY <1>2 DEF ResolveMode
  <2>. QED  BY <1>2, <2>1 DEF HeadersAgree, PublishHeader, PullHeader, AuthHeader
<1>3. CASE ~cmd.noAuth /\ cmd.auth = "env"
  <2>1. /\ PublishHeader(cmd, world) = Header(SinkEnv(env))
        /\ PullHeader(cmd, world) = Header(PullEnv(env))
    BY <1>3, ModeIsOwn DEF PublishHeader, PullHeader, AuthHeader
  <2>2. {env.token, env.username, env.password} \subseteq Values
    BY DEF IsWorld
  <2>3. Header(Refused("Auth")) = Refused("Auth") /\ Header(Anonymous) = Anonymous
    BY DEF Header, Refused, Anonymous
  <2>. QED  BY <1>3, <2>1, <2>2, <2>3, EnvCredentials DEF HeadersAgree
<1>. QED  BY <1>1, <1>2, <1>3 DEF IsCommand

-----------------------------------------------------------------------------
(* The canonical form.                                                     *)

\* JCS changes no scalar but a float with an integral value.
LEMMA ScalarKept ==
  ASSUME NEW v, ~Integral(v)
  PROVE  Jcs(v) = v
BY DEF Jcs

\* A value without integral floats is its own canonical form.
LEMMA ValueKept ==
  ASSUME NEW raw, IsValue(raw), ~IntegralFloats(OverScalars(raw, FromToml))
  PROVE  OverScalars(OverScalars(raw, FromToml), Jcs) = OverScalars(raw, FromToml)
<1>. DEFINE v == OverScalars(raw, FromToml)
<1>1. CASE raw.t = "array"
  <2>. DEFINE items == [k \in DOMAIN raw.items |-> FromToml(raw.items[k])]
  <2>1. v = [t |-> "array", items |-> items]
    BY <1>1 DEF OverScalars, IsValue
  <2>2. \A k \in DOMAIN items : ~Integral(items[k])
    BY <2>1 DEF IntegralFloats, ToSet
  <2>. HIDE DEF v, items
  <2>3. OverScalars(v, Jcs) = [t |-> "array", items |-> [k \in DOMAIN items |-> Jcs(items[k])]]
    BY <2>1 DEF OverScalars
  <2>4. items = [k \in DOMAIN items |-> Jcs(items[k])]
    <3>1. \A k \in DOMAIN items : Jcs(items[k]) = items[k]
      BY <2>2, ScalarKept
    <3>. QED  BY <3>1 DEF items
  <2>. QED  BY <2>1, <2>3, <2>4 DEF v
<1>2. CASE raw.t = "table"
  <2>. DEFINE map == [k \in DOMAIN raw.map |-> FromToml(raw.map[k])]
  <2>1. v = [t |-> "table", map |-> map]
    BY <1>2 DEF OverScalars, IsValue
  <2>2. \A k \in DOMAIN map : ~Integral(map[k])
    BY <2>1 DEF IntegralFloats
  <2>. HIDE DEF v, map
  <2>3. OverScalars(v, Jcs) = [t |-> "table", map |-> [k \in DOMAIN map |-> Jcs(map[k])]]
    BY <2>1 DEF OverScalars
  <2>4. map = [k \in DOMAIN map |-> Jcs(map[k])]
    <3>1. \A k \in DOMAIN map : Jcs(map[k]) = map[k]
      BY <2>2, ScalarKept
    <3>. QED  BY <3>1 DEF map
  <2>. QED  BY <2>1, <2>3, <2>4 DEF v
<1>3. CASE raw.t \notin {"array", "table"}
  <2>1. v = FromToml(raw) /\ v.t \notin {"array", "table"}
    BY <1>3 DEF OverScalars, FromToml
  <2>. HIDE DEF v
  <2>2. ~Integral(v)
    BY DEF IntegralFloats, v
  <2>3. OverScalars(v, Jcs) = Jcs(v)
    BY <2>1 DEF OverScalars
  <2>. QED  BY <2>2, <2>3, ScalarKept DEF v
<1>. QED  BY <1>1, <1>2, <1>3

\* An option with something in it gives that.
LEMMA OrIsIn ==
  ASSUME NEW o, NEW default
  PROVE  IF o = {} THEN Or(o, default) = default ELSE Or(o, default) \in o
BY DEF Or

\* The files of a layer, with the paths of their sources as they are shown.
ShownFiles(files) ==
  [k \in DOMAIN files |->
     [source |-> Shown(files[k].source), dest |-> files[k].dest, mode |-> files[k].mode]]

\* Two layers of one canonical form are equal, if their paths have slashes only.
LEMMA LayerKept ==
  ASSUME NEW x, NEW y, IsLayer(x), IsLayer(y),
         \A p \in x.source \cup y.source : p.sep = "/",
         \A fs \in x.files \cup y.files : \A f \in ToSet(fs) : f.source.sep = "/",
         CanonicalLayer(ValidLayer(x)) = CanonicalLayer(ValidLayer(y))
  PROVE  ValidLayer(x) = ValidLayer(y)
<1>. DEFINE k == ValidLayer(x)
            l == ValidLayer(y)
<1>1. /\ k = [source |-> x.source, files |-> k.files, mediaType |-> k.mediaType,
              compression |-> k.compression]
      /\ l = [source |-> y.source, files |-> l.files, mediaType |-> l.mediaType,
              compression |-> l.compression]
      /\ k.files = Or(x.files, <<>>) /\ l.files = Or(y.files, <<>>)
  BY DEF ValidLayer
<1>. HIDE DEF k, l
<1>2. /\ k.mediaType = l.mediaType /\ k.compression = l.compression
      /\ {Shown(p) : p \in x.source} = {Shown(p) : p \in y.source}
      /\ ShownFiles(k.files) = ShownFiles(l.files)
  <2>1. \A z : /\ CanonicalLayer(z).mediaType = z.mediaType
               /\ CanonicalLayer(z).compression = z.compression
               /\ CanonicalLayer(z).source = {Shown(p) : p \in z.source}
               /\ CanonicalLayer(z).files = ShownFiles(z.files)
    BY DEF CanonicalLayer, ShownFiles
  <2>2. k.source = x.source /\ l.source = y.source
    BY <1>1
  <2>. QED  BY <2>1, <2>2 DEF k, l
<1>3. \A p, q : IsPath(p) /\ IsPath(q) /\ p.sep = q.sep /\ Shown(p) = Shown(q) => p = q
  BY DEF IsPath, Shown
<1>4. x.source = y.source
  <2>1. \A p \in x.source \cup y.source : IsPath(p) /\ p.sep = "/"
    BY DEF IsLayer
  <2>2. ASSUME NEW p \in x.source PROVE p \in y.source
    <3>1. PICK q \in y.source : Shown(p) = Shown(q)
      BY <1>2
    <3>. QED  BY <1>3, <2>1, <3>1
  <2>3. ASSUME NEW p \in y.source PROVE p \in x.source
    <3>1. PICK q \in x.source : Shown(p) = Shown(q)
      BY <1>2
    <3>. QED  BY <1>3, <2>1, <3>1
  <2>. QED  BY <2>2, <2>3
<1>5. ASSUME NEW z \in {x, y}, NEW files, files = Or(z.files, <<>>)
      PROVE  /\ IsList(files)
             /\ \A f \in ToSet(files) : IsEntry(f) /\ f.source.sep = "/"
  <2>1. CASE z.files = {}
    <3>1. files = <<>>
      BY <1>5, <2>1, OrIsIn
    <3>. QED  BY <3>1 DEF IsList, ToSet
  <2>2. CASE z.files # {}
    <3>1. files \in z.files
      BY <1>5, <2>2, OrIsIn
    <3>. QED  BY <1>5, <3>1 DEF IsLayer
  <2>. QED  BY <2>1, <2>2
<1>6. k.files = l.files
  <2>. DEFINE f == k.files
              g == l.files
  <2>1. /\ IsList(f) /\ \A e \in ToSet(f) : IsEntry(e) /\ e.source.sep = "/"
        /\ IsList(g) /\ \A e \in ToSet(g) : IsEntry(e) /\ e.source.sep = "/"
    BY <1>1, <1>5
  <2>2. ShownFiles(f) = ShownFiles(g)
    BY <1>2
  <2>. HIDE DEF f, g
  <2>3. DOMAIN f = DOMAIN g
    BY <2>2 DEF ShownFiles
  <2>4. ASSUME NEW i \in DOMAIN f PROVE f[i] = g[i]
    <3>1. /\ IsEntry(f[i]) /\ f[i].source.sep = "/"
          /\ IsEntry(g[i]) /\ g[i].source.sep = "/"
      BY <2>1, <2>3 DEF ToSet
    <3>2. ShownFiles(f)[i] = ShownFiles(g)[i]
      BY <2>2
    <3>3. Shown(f[i].source) = Shown(g[i].source) /\ f[i].dest = g[i].dest /\ f[i].mode = g[i].mode
      BY <2>3, <3>2 DEF ShownFiles
    <3>4. f[i].source = g[i].source
      BY <1>3, <3>1, <3>3 DEF IsEntry
    <3>. QED  BY <3>1, <3>3, <3>4 DEF IsEntry
  <2>5. PICK m \in Nat : f = [i \in 1..m |-> f[i]]
    BY <2>1 DEF IsList
  <2>6. PICK n \in Nat : g = [i \in 1..n |-> g[i]]
    BY <2>1 DEF IsList
  <2>. QED  BY <2>3, <2>4, <2>5, <2>6 DEF f, g
<1>. QED  BY <1>1, <1>2, <1>4, <1>6 DEF k, l

CanonicalLayers(z) == [k \in DOMAIN z.layers |-> CanonicalLayer(z.layers[k])]
CanonicalConfig(z) == [key \in DOMAIN z.config |-> OverScalars(z.config[key], Jcs)]

\* A record with the fields of a spec.
IsWhole(z) ==
  z = [id |-> z.id, kind |-> z.kind, description |-> z.description, os |-> z.os,
       arch |-> z.arch, layers |-> z.layers, config |-> z.config,
       annotations |-> z.annotations, level |-> z.level, builder |-> z.builder,
       format |-> z.format, scope |-> z.scope, sign |-> z.sign, identity |-> z.identity]

\* The canonical form changes the layers and the config, and nothing else.
LEMMA CanonicalFields ==
  ASSUME NEW z, IsWhole(z)
  PROVE  LET c == Canonical(z)
         IN /\ c.layers = CanonicalLayers(z) /\ c.config = CanonicalConfig(z)
            /\ c.id = z.id /\ c.kind = z.kind /\ c.description = z.description /\ c.os = z.os
            /\ c.arch = z.arch /\ c.annotations = z.annotations /\ c.level = z.level
            /\ c.builder = z.builder /\ c.format = z.format /\ c.scope = z.scope
            /\ c.sign = z.sign /\ c.identity = z.identity
<1>1. Canonical(z) = [z EXCEPT !.layers = CanonicalLayers(z), !.config = CanonicalConfig(z)]
  BY DEF Canonical, CanonicalLayers, CanonicalConfig
<1>. QED  BY <1>1 DEF IsWhole

\* The same for whole specs: a form that spec_hash digests is of one valid spec.
LEMMA CanonicalIsOfOne ==
  ASSUME NEW a, NEW b, IsSpec(a), IsSpec(b), Unambiguous(a), Unambiguous(b),
         Canonical(Validated(a)) = Canonical(Validated(b))
  PROVE  Validated(a) = Validated(b)
<1>. DEFINE x == Validated(a)
            y == Validated(b)
<1>1. \A raw : LET z == Validated(raw)
               IN /\ IsWhole(z)
                  /\ z.layers = [k \in DOMAIN raw.layers |-> ValidLayer(raw.layers[k])]
                  /\ z.config = [key \in DOMAIN raw.config |-> OverScalars(raw.config[key], FromToml)]
  BY DEF Validated, IsWhole
<1>. HIDE DEF x, y
<1>2. /\ CanonicalLayers(x) = CanonicalLayers(y) /\ CanonicalConfig(x) = CanonicalConfig(y)
      /\ x.id = y.id /\ x.kind = y.kind /\ x.description = y.description /\ x.os = y.os
      /\ x.arch = y.arch /\ x.annotations = y.annotations /\ x.level = y.level
      /\ x.builder = y.builder /\ x.format = y.format /\ x.scope = y.scope
      /\ x.sign = y.sign /\ x.identity = y.identity
  <2>1. IsWhole(x) /\ IsWhole(y) /\ Canonical(x) = Canonical(y)
    BY <1>1 DEF x, y
  <2>. QED  BY <2>1, CanonicalFields
<1>3. x.config = y.config
  <2>1. ASSUME NEW raw \in {a, b} PROVE CanonicalConfig(Validated(raw)) = Validated(raw).config
    <3>. DEFINE config == Validated(raw).config
    <3>1. config = [key \in DOMAIN raw.config |-> OverScalars(raw.config[key], FromToml)]
      BY <1>1
    <3>2. ASSUME NEW key \in DOMAIN raw.config
          PROVE  OverScalars(config[key], Jcs) = config[key]
      <4>1. IsValue(raw.config[key]) /\ ~IntegralFloats(config[key])
        BY <2>1 DEF IsSpec, Unambiguous
      <4>2. config[key] = OverScalars(raw.config[key], FromToml)
        BY <3>1
      <4>. QED  BY <4>1, <4>2, ValueKept
    <3>. HIDE DEF config
    <3>3. CanonicalConfig(Validated(raw)) = [key \in DOMAIN config |-> OverScalars(config[key], Jcs)]
      BY DEF CanonicalConfig, config
    <3>. QED  BY <3>1, <3>2, <3>3 DEF config
  <2>. QED  BY <1>2, <2>1 DEF x, y
<1>4. x.layers = y.layers
  <2>1. /\ x.layers = [k \in DOMAIN a.layers |-> ValidLayer(a.layers[k])]
        /\ y.layers = [k \in DOMAIN b.layers |-> ValidLayer(b.layers[k])]
    BY <1>1 DEF x, y
  <2>2. DOMAIN a.layers = DOMAIN b.layers
    <3>1. DOMAIN CanonicalLayers(x) = DOMAIN a.layers /\ DOMAIN CanonicalLayers(y) = DOMAIN b.layers
      BY <2>1 DEF CanonicalLayers
    <3>. QED  BY <1>2, <3>1
  <2>3. ASSUME NEW k \in DOMAIN a.layers
        PROVE  ValidLayer(a.layers[k]) = ValidLayer(b.layers[k])
    <3>1. IsLayer(a.layers[k]) /\ IsLayer(b.layers[k])
      BY <2>2 DEF IsSpec
    <3>2. CanonicalLayers(x)[k] = CanonicalLayer(ValidLayer(a.layers[k]))
      BY <2>1 DEF CanonicalLayers
    <3>3. CanonicalLayers(y)[k] = CanonicalLayer(ValidLayer(b.layers[k]))
      BY <2>1, <2>2 DEF CanonicalLayers
    <3>4. ASSUME NEW raw \in {a, b}
          PROVE  /\ \A p \in raw.layers[k].source : p.sep = "/"
                 /\ \A fs \in raw.layers[k].files : \A f \in ToSet(fs) : f.source.sep = "/"
      <4>1. k \in DOMAIN raw.layers /\ \A p \in PathsOf(raw) : p.sep = "/"
        BY <2>2 DEF Unambiguous
      <4>2. raw.layers[k].source \subseteq PathsOf(raw)
        BY <4>1 DEF PathsOf
      <4>3. ASSUME NEW fs \in raw.layers[k].files, NEW f \in ToSet(fs)
            PROVE  f.source \in PathsOf(raw)
        <5>1. fs \in FileListsOf(raw)
          BY <4>1 DEF FileListsOf
        <5>. QED  BY <5>1 DEF PathsOf
      <4>. QED  BY <4>1, <4>2, <4>3
    <3>. QED  BY <1>2, <3>1, <3>2, <3>3, <3>4, LayerKept
  <2>. QED  BY <2>1, <2>2, <2>3
<1>5. IsWhole(x) /\ IsWhole(y)
  BY <1>1 DEF x, y
<1>6. x = y
  BY <1>2, <1>3, <1>4, <1>5 DEF IsWhole
<1>. QED  BY <1>6 DEF x, y

\* spec_hash, build: two spec files of one hash build one image, on any disk.
THEOREM HashPinsOutcome ==
  ASSUME NEW a, NEW b, IsSpec(a), IsSpec(b), NEW disk
  PROVE  HashPinsBuild(a, b, disk, Outcome(a, disk))
<1>. SUFFICES ASSUME SameHash(a, b, disk), Unambiguous(a), Unambiguous(b)
              PROVE  Outcome(a, disk) = Outcome(b, disk)
  BY DEF HashPinsBuild
<1>1. /\ SpecErrorOf(a, disk) = "none" /\ SpecErrorOf(b, disk) = "none"
      /\ Validated(a) = Validated(b)
  BY CanonicalIsOfOne DEF SameHash
<1>. QED  BY <1>1 DEF Outcome

-----------------------------------------------------------------------------
(* Validation, and what it promises to the build.                          *)

\* What a valid spec has been checked for, so far as the build relies on it.
LEMMA ValidIsChecked ==
  ASSUME NEW raw, IsSpec(raw), NEW disk, SpecErrorOf(raw, disk) = "none"
  PROVE  /\ LayerCountOk(raw.kind, Len(raw.layers))
         /\ \A k \in DOMAIN raw.layers : SourceError(raw.layers[k], disk) = "none"
<1>. DEFINE count == Require(raw.kind \in Kinds => LayerCountOk(raw.kind, Len(raw.layers)),
                             "WrongLayerCount")
            kind == Require(raw.kind \in Kinds, "UnknownKind")
            toml == Require(raw.toml = "ok", "Toml")
            version == Require(raw.version = "0", "UnsupportedSpecVersion")
            id == IdError(raw.id)
            head == <<toml, version, id, kind, count>>
            layers == [k \in DOMAIN raw.layers |-> LayerError(raw.layers[k], disk)]
            order == IF Len(raw.layers) = 3 THEN OrderError(raw.kind, raw.layers) ELSE "none"
            annotation == AnnotationError(raw.annotations)
            attestation == AttestationError(raw.attestation)
            tail == <<order, annotation, attestation>>
<1>1. SpecErrorOf(raw, disk) = FirstOf(head \o layers \o tail)
  BY DEF SpecErrorOf
<1>2. IsList(layers)
  BY DEF IsSpec, IsList
<1>. HIDE DEF count, kind, toml, version, id, layers, order, annotation, attestation
<1>3. IsList(head) /\ IsList(tail)
  BY DEF IsList
<1>4. FirstOf(head) = "none" /\ FirstOf(layers) = "none"
  <2>. HIDE DEF head, tail
  <2>1. IsList(head \o layers)
    BY <1>2, <1>3, Joined
  <2>. QED  BY <1>1, <1>2, <1>3, <2>1, NoneOfBoth
<1>5. kind = "none" /\ count = "none"
  <2>1. head[4] = kind /\ head[5] = count /\ DOMAIN head = 1..5
    OBVIOUS
  <2>. HIDE DEF head
  <2>. QED  BY <1>3, <1>4, <2>1, NoneFails
<1>6. LayerCountOk(raw.kind, Len(raw.layers))
  <2>1. raw.kind \in Kinds
    BY <1>5 DEF kind, Require
  <2>. QED  BY <1>5, <2>1 DEF count, Require
<1>7. ASSUME NEW k \in DOMAIN raw.layers PROVE SourceError(raw.layers[k], disk) = "none"
  <2>. DEFINE layer == raw.layers[k]
              source == SourceError(layer, disk)
              mediaType == Require(layer.mediaType.valid, "MalformedMediaType")
              compression == Require(layer.compression \subseteq {"none", "gzip", "zstd"},
                                     "UnknownCompression")
              checks == <<source, mediaType, compression>>
  <2>1. FirstOf(checks) = "none"
    <3>1. layers[k] = "none"
      BY <1>2, <1>4, NoneFails DEF layers
    <3>. QED  BY <3>1 DEF layers, LayerError
  <2>. HIDE DEF source, mediaType, compression
  <2>2. IsList(checks) /\ DOMAIN checks = 1..3 /\ checks[1] = source
    BY DEF IsList
  <2>. HIDE DEF checks
  <2>3. source = "none"
    BY <2>1, <2>2, NoneFails
  <2>. QED  BY <2>3 DEF source
<1>. QED  BY <1>6, <1>7

\* So each entry of `files' is of a path that exists.
LEMMA ValidFilesExist ==
  ASSUME NEW raw, IsSpec(raw), NEW disk, SpecErrorOf(raw, disk) = "none",
         NEW fs \in FileListsOf(raw)
  PROVE  IsList(fs) /\ \A f \in ToSet(fs) : IsEntry(f) /\ Exists(f.source, disk)
<1>1. PICK k \in DOMAIN raw.layers : fs \in raw.layers[k].files
  BY DEF FileListsOf
<1>2. IsLayer(raw.layers[k]) /\ SourceError(raw.layers[k], disk) = "none"
  BY ValidIsChecked DEF IsSpec
<1>3. \A f \in ToSet(fs) : Exists(f.source, disk)
  BY <1>1, <1>2 DEF SourceError, Require
<1>. QED  BY <1>1, <1>2, <1>3 DEF IsLayer

-----------------------------------------------------------------------------
(* The tar.                                                                *)

\* An entry, and what stands below it.
LEMMA WalkOf ==
  ASSUME NEW disk, IsDisk(disk), NEW f, IsEntry(f), Exists(f.source, disk)
  PROVE  LET file == disk[f.source]
             walk == ToSet(Walk(f, disk))
         IN /\ IsList(Walk(f, disk))
            /\ \E e \in walk : e.path = f.dest.names /\ e.kind = file.kind
            /\ \A node \in ToSet(file.below) :
                 \E e \in walk : e.path = f.dest.names \o node.names /\ e.kind = node.kind
            /\ \A e \in walk :
                 \/ e.path = f.dest.names /\ e.kind = file.kind
                 \/ \E node \in ToSet(file.below) :
                      e.path = f.dest.names \o node.names /\ e.kind = node.kind
<1>. DEFINE file == disk[f.source]
            at(path, node) == [path |-> path, kind |-> node.kind, mode |-> f.mode,
                               bytes |-> node.bytes]
            top == at(f.dest.names, file)
            below == [k \in DOMAIN file.below |->
                        at(f.dest.names \o file.below[k].names, file.below[k])]
<1>1. IsList(file.below)
  BY DEF IsDisk, Exists
<1>2. IsList(below)
  <2>. DEFINE entry(k) == at(f.dest.names \o file.below[k].names, file.below[k])
              n == Len(file.below)
  <2>1. n \in Nat /\ DOMAIN file.below = 1..n
    BY <1>1, ListDomain
  <2>. HIDE DEF at, n
  <2>2. below = [k \in 1..n |-> entry(k)]
    BY <2>1
  <2>. HIDE DEF entry, below
  <2>. QED  BY <2>1, <2>2 DEF IsList
<1>3. ToSet(below) = {at(f.dest.names \o node.names, node) : node \in ToSet(file.below)}
  <2>1. ToSet(below) = {at(f.dest.names \o file.below[k].names, file.below[k]) : k \in DOMAIN file.below}
    BY DEF ToSet
  <2>2. ToSet(file.below) = {file.below[k] : k \in DOMAIN file.below}
    BY DEF ToSet
  <2>. HIDE DEF at
  <2>. QED  BY <2>1, <2>2
<1>4. Walk(f, disk) = <<top>> \o below
  BY DEF Walk
<1>5. \A path, node : at(path, node).path = path /\ at(path, node).kind = node.kind
  OBVIOUS
<1>. HIDE DEF at, below, file
<1>6. IsList(<<top>>) /\ ToSet(<<top>>) = {top}
  BY DEF IsList, ToSet
<1>7. IsList(Walk(f, disk)) /\ ToSet(Walk(f, disk)) = {top} \cup ToSet(below)
  BY <1>2, <1>4, <1>6, Joined
<1>8. top.path = f.dest.names /\ top.kind = file.kind
  BY <1>5
<1>. HIDE DEF top
<1>9. \E e \in ToSet(Walk(f, disk)) : e.path = f.dest.names /\ e.kind = file.kind
  BY <1>7, <1>8
<1>10. ASSUME NEW node \in ToSet(file.below)
       PROVE  \E e \in ToSet(Walk(f, disk)) : e.path = f.dest.names \o node.names /\ e.kind = node.kind
  <2>. DEFINE e == at(f.dest.names \o node.names, node)
  <2>1. e \in ToSet(Walk(f, disk))
    BY <1>3, <1>7
  <2>2. e.path = f.dest.names \o node.names /\ e.kind = node.kind
    BY <1>5
  <2>. HIDE DEF e
  <2>. QED  BY <2>1, <2>2
<1>11. ASSUME NEW e \in ToSet(Walk(f, disk))
       PROVE  \/ e.path = f.dest.names /\ e.kind = file.kind
              \/ \E node \in ToSet(file.below) :
                   e.path = f.dest.names \o node.names /\ e.kind = node.kind
  <2>1. CASE e = top
    BY <1>8, <2>1
  <2>2. CASE e \in ToSet(below)
    <3>1. PICK node \in ToSet(file.below) : e = at(f.dest.names \o node.names, node)
      BY <1>3, <2>2
    <3>2. e.path = f.dest.names \o node.names /\ e.kind = node.kind
      BY <1>5, <3>1
    <3>. QED  BY <3>2
  <2>. QED  BY <1>7, <2>1, <2>2
<1>. QED  BY <1>7, <1>9, <1>10, <1>11 DEF file

\* The entry that stays of those that claim a path is one of them.
LEMMA LastAtIsWalked ==
  ASSUME NEW disk, NEW files, IsList(files), \A f \in ToSet(files) : IsList(Walk(f, disk)),
         NEW e \in Walked(files, disk)
  PROVE  LastAt(files, disk, e.path) \in Walked(files, disk)
           /\ LastAt(files, disk, e.path).path = e.path
<1>. DEFINE claims(f) == \E x \in ToSet(Walk(f, disk)) : x.path = e.path
            I == {i \in 1..Len(files) : claims(files[i])}
            k == IF I # {} THEN Max(I) ELSE 0
            walk == Walk(files[k], disk)
            J == {i \in 1..Len(walk) : walk[i].path = e.path}
            j == IF J # {} THEN Max(J) ELSE 0
<1>1. LastAt(files, disk, e.path) = walk[j]
  BY DEF LastAt, SelectLastInSeq
<1>2. DOMAIN files = 1..Len(files) /\ Len(files) \in Nat
  BY DEF IsList
<1>3. I # {}
  <2>1. PICK f \in ToSet(files) : e \in ToSet(Walk(f, disk))
    BY DEF Walked
  <2>2. PICK i \in 1..Len(files) : f = files[i]
    BY <1>2, <2>1 DEF ToSet
  <2>. QED  BY <2>1, <2>2
<1>4. k \in I
  <2>1. I \in SUBSET (1..Len(files))
    OBVIOUS
  <2>. HIDE DEF I
  <2>. QED  BY <1>2, <1>3, <2>1, MaxIsGreatest
<1>5. files[k] \in ToSet(files) /\ claims(files[k])
  BY <1>2, <1>4 DEF ToSet
<1>. HIDE DEF k
<1>6. IsList(walk)
  BY <1>5
<1>7. DOMAIN walk = 1..Len(walk) /\ Len(walk) \in Nat
  <2>. HIDE DEF walk
  <2>. QED  BY <1>6 DEF IsList
<1>8. J # {}
  <2>1. PICK x \in ToSet(walk) : x.path = e.path
    BY <1>5
  <2>. HIDE DEF walk
  <2>. QED  BY <1>7, <2>1 DEF ToSet
<1>9. j \in J
  <2>1. J \in SUBSET (1..Len(walk))
    OBVIOUS
  <2>. HIDE DEF J
  <2>. QED  BY <1>7, <1>8, <2>1, MaxIsGreatest
<1>10. walk[j] \in ToSet(walk) /\ walk[j].path = e.path
  <2>. HIDE DEF walk, j
  <2>. QED  BY <1>7, <1>9 DEF ToSet
<1>. HIDE DEF j
<1>11. walk[j] \in Walked(files, disk)
  BY <1>5, <1>10 DEF Walked
<1>. QED  BY <1>1, <1>10, <1>11

\* Without a clash every entry stays.
LEMMA TarOfAll ==
  ASSUME NEW disk, NEW files, IsList(files), \A f \in ToSet(files) : IsList(Walk(f, disk)),
         ~Clash(files, disk)
  PROVE  TarEntries(files, disk) = Walked(files, disk)
<1>1. \A e \in Walked(files, disk) : LastAt(files, disk, e.path) = e
  BY LastAtIsWalked DEF Clash
<1>. QED  BY <1>1 DEF TarEntries

\* build_deterministic_tar: a layer does not depend on the order of its
\* [[layers.files]], unless two of them claim one path: for any valid spec and disk.
THEOREM TarIsOfEntries ==
  ASSUME NEW raw, IsSpec(raw), NEW disk, IsDisk(disk)
  PROVE  TarIgnoresOrder(raw, disk, Outcome(raw, disk))
<1>. SUFFICES ASSUME Outcome(raw, disk).err = "none",
                     NEW fs \in FileListsOf(raw), ~Clash(fs, disk), NEW other \in Rearranged(fs)
              PROVE  Tar(other, disk) = Tar(fs, disk)
  BY DEF TarIgnoresOrder
<1>1. SpecErrorOf(raw, disk) = "none"
  BY DEF Outcome
<1>2. IsList(fs) /\ \A f \in ToSet(fs) : IsList(Walk(f, disk))
  BY <1>1, ValidFilesExist, WalkOf
<1>3. IsList(other) /\ ToSet(other) = ToSet(fs)
  <2>1. PICK p \in [DOMAIN fs -> DOMAIN fs] :
          ToSet(p) = DOMAIN fs /\ other = [k \in DOMAIN fs |-> fs[p[k]]]
    BY DEF Rearranged
  <2>2. IsList(other)
    BY <1>2, <2>1 DEF IsList
  <2>3. ToSet(other) = ToSet(fs)
    BY <2>1 DEF ToSet
  <2>. QED  BY <2>2, <2>3
<1>4. Walked(other, disk) = Walked(fs, disk)
  BY <1>3 DEF Walked
<1>5. ~Clash(other, disk)
  BY <1>4 DEF Clash
<1>. QED  BY <1>2, <1>3, <1>4, <1>5, TarOfAll DEF Tar

\* What makes a tar of a list of `files' possible, and what one that is made shows.
Tars(files, disk) ==
  /\ ~Blocked(files, disk, Walkable)
  /\ Blocked(files, disk, {"file", "dir"}) => Clash(files, disk)

\* A path below a destination is one that a tar can hold if the destination is.
LEMMA PathsBelow ==
  ASSUME NEW names \in Seq(Nat), NEW rest \in Seq(Nat \ {0}), rest # <<>>
  PROVE  names \o rest # <<>> /\ (0 \in ToSet(names \o rest) => 0 \in ToSet(names))
<1>. DEFINE path == names \o rest
<1>1. /\ path \in Seq(Nat) /\ Len(path) = Len(names) + Len(rest)
      /\ \A i \in 1..Len(path) :
           path[i] = IF i <= Len(names) THEN names[i] ELSE rest[i - Len(names)]
  BY ConcatProperties
<1>2. Len(names) \in Nat /\ Len(rest) \in Nat \ {0}
  BY EmptySeq
<1>. HIDE DEF path
<1>3. path # <<>>
  BY <1>1, <1>2
<1>4. ASSUME NEW i \in 1..Len(path), path[i] = 0
      PROVE  i \in 1..Len(names) /\ names[i] = 0
  BY <1>1, <1>2, <1>4
<1>5. ASSUME 0 \in ToSet(path)  PROVE  0 \in ToSet(names)
  <2>1. PICK i \in 1..Len(path) : path[i] = 0
    BY <1>1, <1>5 DEF ToSet
  <2>. QED  BY <1>4, <2>1 DEF ToSet
<1>. QED  BY <1>3, <1>5 DEF path

\* So what the walk of an entry comes to is what Blocked looks at.
LEMMA WalkedIs ==
  ASSUME NEW disk, IsDisk(disk), NEW f, IsEntry(f), Exists(f.source, disk),
         NEW e \in ToSet(Walk(f, disk))
  PROVE  /\ \/ e.kind = disk[f.source].kind
            \/ \E node \in ToSet(disk[f.source].below) : e.kind = node.kind
         /\ e.path = <<>> \/ 0 \in ToSet(e.path) =>
              f.dest.names = <<>> \/ 0 \in ToSet(f.dest.names)
<1>1. CASE e.path = f.dest.names /\ e.kind = disk[f.source].kind
  BY <1>1
<1>2. CASE \E node \in ToSet(disk[f.source].below) :
             e.path = f.dest.names \o node.names /\ e.kind = node.kind
  <2>1. PICK node \in ToSet(disk[f.source].below) :
          e.path = f.dest.names \o node.names /\ e.kind = node.kind
    BY <1>2
  <2>2. f.dest.names \in Seq(Nat) /\ node.names \in Seq(Nat \ {0}) /\ node.names # <<>>
    BY DEF IsEntry, IsDisk, Exists
  <2>. QED  BY <2>1, <2>2, PathsBelow
<1>. QED  BY <1>1, <1>2, WalkOf

\* What the tar writer refuses of files that exist, and what it does not.
LEMMA TarRefuses ==
  ASSUME NEW disk, IsDisk(disk), NEW files, IsList(files),
         \A f \in ToSet(files) : IsEntry(f) /\ Exists(f.source, disk)
  PROVE  \/ TarError(files, disk) = "none" /\ Tars(files, disk)
         \/ TarError(files, disk) = "TarBuild" /\ Blocked(files, disk, {"file", "dir"})
<1>. DEFINE held(path) == path # <<>> /\ 0 \notin ToSet(path)
            good == /\ \A f \in ToSet(files) : CanWalk(f, disk)
                    /\ \A e \in TarEntries(files, disk) : e.kind # "unreadable" /\ held(e.path)
<1>1. TarError(files, disk) = IF good THEN "none" ELSE "TarBuild"
  BY DEF TarError, Require
<1>2. \A f \in ToSet(files) : IsList(Walk(f, disk))
  BY WalkOf
<1>3. ASSUME ~good  PROVE  Blocked(files, disk, {"file", "dir"})
  <2>1. CASE \E f \in ToSet(files) : ~CanWalk(f, disk)
    BY <2>1 DEF CanWalk, Walkable, Regular, Blocked
  <2>2. CASE \E e \in TarEntries(files, disk) : e.kind = "unreadable" \/ ~held(e.path)
    <3>1. PICK e \in Walked(files, disk) : e.kind = "unreadable" \/ ~held(e.path)
      BY <1>2, <2>2, LastAtIsWalked DEF TarEntries
    <3>2. PICK f \in ToSet(files) : e \in ToSet(Walk(f, disk))
      BY DEF Walked
    <3>3. CASE e.kind = "unreadable"
      BY <3>2, <3>3, WalkedIs DEF Blocked
    <3>4. CASE ~held(e.path)
      BY <3>2, <3>4, WalkedIs DEF Blocked
    <3>. QED  BY <3>1, <3>3, <3>4
  <2>. QED  BY <1>3, <2>1, <2>2
<1>4. ASSUME good  PROVE  Tars(files, disk)
  <2>1. ASSUME NEW f \in ToSet(files)
        PROVE  held(f.dest.names)
    <3>1. PICK e \in ToSet(Walk(f, disk)) : e.path = f.dest.names
      BY WalkOf
    <3>2. e \in Walked(files, disk)
      BY DEF Walked
    <3>3. LastAt(files, disk, e.path) \in TarEntries(files, disk)
            /\ LastAt(files, disk, e.path).path = e.path
      BY <1>2, <3>2, LastAtIsWalked DEF TarEntries
    <3>. QED  BY <1>4, <3>1, <3>3
  <2>2. ~Blocked(files, disk, Walkable)
    BY <1>4, <2>1 DEF Blocked, CanWalk
  <2>3. ASSUME ~Clash(files, disk)  PROVE  ~Blocked(files, disk, {"file", "dir"})
    <3>1. \A e \in Walked(files, disk) : e.kind # "unreadable"
      BY <1>2, <1>4, <2>3, TarOfAll
    <3>2. ASSUME NEW f \in ToSet(files)
          PROVE  /\ disk[f.source].kind # "unreadable"
                 /\ \A node \in ToSet(disk[f.source].below) : node.kind # "unreadable"
      <4>1. \A e \in ToSet(Walk(f, disk)) : e.kind # "unreadable"
        BY <3>1 DEF Walked
      <4>2. disk[f.source].kind # "unreadable"
        <5>1. \E e \in ToSet(Walk(f, disk)) :
                e.path = f.dest.names /\ e.kind = disk[f.source].kind
          BY WalkOf
        <5>. QED  BY <4>1, <5>1
      <4>3. ASSUME NEW node \in ToSet(disk[f.source].below)
            PROVE  node.kind # "unreadable"
        <5>1. \A x \in ToSet(disk[f.source].below) :
                \E e \in ToSet(Walk(f, disk)) :
                  e.path = f.dest.names \o x.names /\ e.kind = x.kind
          BY WalkOf
        <5>. QED  BY <4>1, <5>1
      <4>. QED  BY <4>2, <4>3
    <3>. QED  BY <2>2, <3>2 DEF Blocked, Walkable, Regular
  <2>. QED  BY <2>2, <2>3 DEF Tars
<1>. QED  BY <1>1, <1>3, <1>4

\* A layer that validation has let through fails in its source, which does not open,
\* or in its tar.
LEMMA LayerFails ==
  ASSUME NEW raw, IsSpec(raw), NEW disk, IsDisk(disk), SpecErrorOf(raw, disk) = "none",
         NEW k \in DOMAIN raw.layers
  PROVE  LET err == LayerBlobError(ValidLayer(raw.layers[k]), disk)
             layer == raw.layers[k]
         IN \/ /\ err = "none"
               /\ \A p \in layer.source : disk[p].kind = "file"
               /\ \A fs \in layer.files : Tars(fs, disk)
            \/ err = "Io" /\ \E p \in layer.source : disk[p].kind = "unreadable"
            \/ err = "TarBuild" /\ \E fs \in layer.files : Blocked(fs, disk, {"file", "dir"})
<1>. DEFINE layer == raw.layers[k]
            l == ValidLayer(layer)
<1>1. SourceError(layer, disk) = "none" /\ IsLayer(layer)
  BY ValidIsChecked DEF IsSpec
<1>2. l.source = layer.source /\ l.files = Or(layer.files, <<>>)
  BY DEF ValidLayer
<1>3. (layer.source = {}) # (layer.files = {})
  BY <1>1 DEF SourceError
<1>. HIDE DEF l
<1>4. CASE layer.source = {}
  <2>1. l.files \in layer.files
    BY <1>2, <1>3, <1>4, OrIsIn
  <2>2. layer.files = {l.files}
    BY <1>1, <2>1 DEF IsLayer, IsOption
  <2>3. LayerBlobError(l, disk) = TarError(l.files, disk)
    BY <1>2, <1>4 DEF LayerBlobError
  <2>4. IsList(l.files) /\ \A f \in ToSet(l.files) : IsEntry(f) /\ Exists(f.source, disk)
    <3>1. l.files \in FileListsOf(raw)
      BY <2>1 DEF FileListsOf
    <3>. QED  BY <3>1, ValidFilesExist
  <2>. QED  BY <1>4, <2>2, <2>3, <2>4, TarRefuses DEF l
<1>5. CASE layer.source # {}
  <2>. DEFINE p == Or(l.source, "none")
  <2>1. p \in layer.source
    BY <1>2, <1>5, OrIsIn
  <2>2. layer.source = {p} /\ layer.files = {}
    BY <1>1, <1>3, <1>5, <2>1 DEF IsLayer, IsOption
  <2>. HIDE DEF p
  <2>3. disk[p].kind \in {"file", "unreadable"}
    BY <1>1, <2>1 DEF SourceError, Regular
  <2>4. LayerBlobError(l, disk) = IF disk[p].kind = "unreadable" THEN "Io" ELSE "none"
    BY <1>2, <1>5, <2>3 DEF LayerBlobError, Require, p
  <2>. QED  BY <2>2, <2>3, <2>4 DEF l
<1>. QED  BY <1>4, <1>5

\* parse_and_validate, build: on the disk that a spec was validated on it fails to
\* build only at a source that does not open or in a tar that something blocks, and
\* what is left out of a tar that is built another entry has claimed the path of: for
\* any valid spec, and any files, directories of any depth and special files.
THEOREM ValidSpecBuilds ==
  ASSUME NEW raw, IsSpec(raw), NEW disk, IsDisk(disk)
  PROVE  ValidBuilds(raw, disk, Outcome(raw, disk))
<1>. DEFINE spec == Validated(raw)
            errors == [k \in DOMAIN spec.layers |-> LayerBlobError(spec.layers[k], disk)]
            count == Require(LayerCountOk(spec.kind, Len(spec.layers)), "Spec")
            sources == UNION {raw.layers[k].source : k \in DOMAIN raw.layers}
            io == \E p \in sources : disk[p].kind = "unreadable"
            blocked == \E fs \in FileListsOf(raw) : Blocked(fs, disk, {"file", "dir"})
<1>. SUFFICES ASSUME SpecErrorOf(raw, disk) = "none"
              PROVE  LET err == Outcome(raw, disk).err
                     IN \/ err = "Io" /\ io
                        \/ err = "TarBuild" /\ blocked
                        \/ /\ err = "none"
                           /\ \A p \in sources : disk[p].kind = "file"
                           /\ \A fs \in FileListsOf(raw) : Tars(fs, disk)
  BY DEF ValidBuilds, Tars
<1>1. Outcome(raw, disk).err = FirstOf(errors \o <<count>>)
  BY DEF Outcome, BuildErrorOf
<1>2. /\ spec.kind = raw.kind
      /\ spec.layers = [k \in DOMAIN raw.layers |-> ValidLayer(raw.layers[k])]
  BY DEF Validated
<1>. HIDE DEF spec
<1>3. count = "none"
  <2>1. PICK n \in Nat : raw.layers = [k \in 1..n |-> raw.layers[k]]
    BY DEF IsSpec, IsList
  <2>2. Len(raw.layers) = n /\ Len(spec.layers) = n
    BY <1>2, <2>1
  <2>. QED  BY <1>2, <2>2, ValidIsChecked DEF Require
<1>4. IsList(errors)
  <2>1. IsList(raw.layers)
    BY DEF IsSpec
  <2>. QED  BY <1>2, <2>1 DEF IsList
<1>5. errors = [k \in DOMAIN raw.layers |-> LayerBlobError(ValidLayer(raw.layers[k]), disk)]
  BY <1>2
<1>. HIDE DEF errors, count
<1>6. \A err \in ToSet(errors) : \/ err = "none"
                                 \/ err = "Io" /\ io
                                 \/ err = "TarBuild" /\ blocked
  <2>. SUFFICES ASSUME NEW k \in DOMAIN raw.layers
                PROVE  LET err == LayerBlobError(ValidLayer(raw.layers[k]), disk)
                       IN \/ err = "none"
                          \/ err = "Io" /\ io
                          \/ err = "TarBuild" /\ blocked
    BY <1>5 DEF ToSet
  <2>. QED  BY LayerFails DEF FileListsOf
<1>7. ASSUME \A k \in DOMAIN errors : errors[k] = "none"
      PROVE  /\ \A p \in sources : disk[p].kind = "file"
             /\ \A fs \in FileListsOf(raw) : Tars(fs, disk)
  <2>1. ASSUME NEW k \in DOMAIN raw.layers
        PROVE  /\ \A p \in raw.layers[k].source : disk[p].kind = "file"
               /\ \A fs \in raw.layers[k].files : Tars(fs, disk)
    <3>1. LayerBlobError(ValidLayer(raw.layers[k]), disk) = "none"
      BY <1>5, <1>7
    <3>. QED  BY <3>1, LayerFails
  <2>. QED  BY <2>1 DEF FileListsOf
<1>8. IsList(<<count>>) /\ FirstOf(<<count>>) = "none"
  <2>1. IsList(<<count>>) /\ ToSet(<<count>>) = {"none"}
    BY <1>3 DEF IsList, ToSet
  <2>. QED  BY <2>1, NoneFails
<1>. HIDE DEF io, blocked, sources
<1>9. CASE FirstOf(errors \o <<count>>) = "none"
  <2>1. FirstOf(errors) = "none"
    BY <1>4, <1>8, <1>9, NoneOfBoth
  <2>. QED  BY <1>1, <1>4, <1>7, <1>9, <2>1, NoneFails
<1>10. CASE FirstOf(errors \o <<count>>) # "none"
  <2>1. IsList(errors \o <<count>>) /\ ToSet(errors \o <<count>>) = ToSet(errors) \cup {"none"}
    <3>1. ToSet(<<count>>) = {"none"}
      BY <1>3 DEF ToSet
    <3>. QED  BY <1>4, <1>8, <3>1, Joined
  <2>2. FirstOf(errors \o <<count>>) \in ToSet(errors)
    BY <1>10, <2>1, NoneFails
  <2>. QED  BY <1>1, <1>6, <1>10, <2>2
<1>. QED  BY <1>9, <1>10

-----------------------------------------------------------------------------
(* Calls: the invariant.                                                   *)

Answer ==
  CASE topic = "open"        -> Open(input)
    [] topic = "credentials" -> Headers(input)
    [] topic = "spec"        -> Outcome(input.a, Disk)
    [] topic = "attest"      -> Used(input)
    [] topic = "verify"      -> Verify(input.refs, Primary, input.policy, input.cosign)

\* A call is of a part, on one of its inputs, and returns what that part computes.
CallInv ==
  /\ \/ topic = "open" /\ input \in Directories
     \/ topic = "credentials" /\ input \in Commands
     \/ topic = "spec" /\ input \in [a : SpecFiles, b : SpecFiles]
     \/ topic = "attest" /\ input \in Attestations
     \/ topic = "verify" /\ input \in [refs : Listings, policy : Policies, cosign : Cosigns]
  /\ result \in {NotYet, Answer}

LEMMA CallsAreAnswered == Spec => []CallInv
<1>1. Init => CallInv
  BY DEF Init, CallInv
<1>2. CallInv /\ [Next]_vars => CallInv'
  <2>. SUFFICES ASSUME CallInv, [Next]_vars
                PROVE  CallInv'
    OBVIOUS
  <2>1. ASSUME NEW part, NEW output, Return(part, output), topic = part => output = Answer
        PROVE  CallInv'
    <3>1. topic' = topic /\ input' = input /\ result' = Answer
      BY <2>1 DEF Return
    <3>2. Answer' = Answer
      BY <3>1 DEF Answer
    <3>. QED  BY <3>1, <3>2 DEF CallInv
  <2>2. CASE OpenDir
    BY <2>1, <2>2 DEF OpenDir, Answer
  <2>3. CASE Resolve
    BY <2>1, <2>3 DEF Resolve, Answer
  <2>4. CASE BuildSpec
    BY <2>1, <2>4 DEF BuildSpec, Answer
  <2>5. CASE UseImage
    BY <2>1, <2>5 DEF UseImage, Answer
  <2>6. CASE VerifyDir
    BY <2>1, <2>6 DEF VerifyDir, Answer
  <2>7. CASE UNCHANGED vars
    BY <2>7 DEF vars, CallInv, Answer
  <2>. QED  BY <2>2, <2>3, <2>4, <2>5, <2>6, <2>7 DEF Next
<1>. QED  BY <1>1, <1>2, PTL DEF Spec

\* So what a call has returned is what its part makes of a legal input.
LEMMA ReturnedIsAnswer ==
  ASSUME CallInv
  PROVE  /\ Returned("open") => input \in Directories /\ result = Open(input)
         /\ Returned("credentials") => input \in Commands /\ result = Headers(input)
         /\ Returned("spec") => /\ input.a \in SpecFiles /\ input.b \in SpecFiles
                                /\ result = Outcome(input.a, Disk)
         /\ Returned("attest") => input \in Attestations /\ result = Used(input)
         /\ Returned("verify") =>
              /\ input.refs \in Listings /\ input.policy \in Policies /\ input.cosign \in Cosigns
              /\ result = Verify(input.refs, Primary, input.policy, input.cosign)
<1>1. Returned("open") => input \in Directories /\ result = Open(input)
  BY DEF CallInv, Returned, Answer
<1>2. Returned("credentials") => input \in Commands /\ result = Headers(input)
  BY DEF CallInv, Returned, Answer
<1>3. Returned("spec") => /\ input.a \in SpecFiles /\ input.b \in SpecFiles
                          /\ result = Outcome(input.a, Disk)
  BY DEF CallInv, Returned, Answer
<1>4. Returned("attest") => input \in Attestations /\ result = Used(input)
  BY DEF CallInv, Returned, Answer
<1>5. Returned("verify") =>
        /\ input.refs \in Listings /\ input.policy \in Policies /\ input.cosign \in Cosigns
        /\ result = Verify(input.refs, Primary, input.policy, input.cosign)
  BY DEF CallInv, Returned, Answer
<1>. QED  BY <1>1, <1>2, <1>3, <1>4, <1>5

-----------------------------------------------------------------------------
(* Calls: the theorems.                                                    *)

\* ImageDir::open, of any directory: it accepts a well-formed layout with one
\* artifact and whole referrers of it, and nothing else.
THEOREM AcceptsAlwaysExactly == Spec => []AcceptsExactly
<1>1. CallInv => AcceptsExactly
  BY ReturnedIsAnswer, DirectoriesAssumption, OpenAcceptsExactly DEF AcceptsExactly
<1>. QED  BY <1>1, CallsAreAnswered, PTL

\* ImageDir::open, of any directory: the list that the sinks go through is the
\* closure of index.json, each manifest after its content and the primary last.
THEOREM ListIsAlwaysClosure == Spec => []ListIsClosure
<1>1. CallInv => ListIsClosure
  BY ReturnedIsAnswer, DirectoriesAssumption, OpenListsClosure DEF ListIsClosure
<1>. QED  BY <1>1, CallsAreAnswered, PTL

\* verify, of any list of referrers: it accepts only what a referrer of this very
\* image supports.
THEOREM AcceptanceIsAlwaysBacked == Spec => []AcceptanceIsBacked
<1>1. CallInv => AcceptanceIsBacked
  BY ReturnedIsAnswer, VerifyAssumption, VerifyIsBacked DEF AcceptanceIsBacked
<1>. QED  BY <1>1, CallsAreAnswered, PTL

\* verify, apply_policy: a policy never accepts what one that asks for less, as
\* verify_policy.md has it, refuses; but for a level of 0 and an empty list of formats,
\* by which verify refuses what a policy without them accepts.
THEOREM PolicyAlwaysOnlyRestricts == Spec => []PolicyOnlyRestricts
<1>1. CallInv => PolicyOnlyRestricts
  <2>1. ASSUME CallInv, Returned("verify")
        PROVE  OnlyRestricts(input.refs, Primary, input.policy, input.cosign, result, WeakPolicies)
    <3>1. IsListing(input.refs) /\ IsPolicy(input.policy) /\ \A weak \in WeakPolicies : IsPolicy(weak)
      BY <2>1, ReturnedIsAnswer, VerifyAssumption
    <3>2. OnlyRestricts(input.refs, Primary, input.policy, input.cosign,
                        Verify(input.refs, Primary, input.policy, input.cosign), WeakPolicies)
      BY <3>1, VerifyOnlyRestricts
    <3>. QED  BY <2>1, <3>2, ReturnedIsAnswer
  <2>. QED  BY <2>1 DEF PolicyOnlyRestricts
<1>. QED  BY <1>1, CallsAreAnswered, PTL

\* Another order of a list, or the same with a repetition, is a list.
LEMMA RelistingsAreLists ==
  ASSUME NEW refs, IsList(refs), NEW other \in Relistings(refs)
  PROVE  IsList(other)
<1>. DEFINE Orders == {[k \in DOMAIN refs |-> refs[p[k]]] :
                         p \in {q \in [DOMAIN refs -> DOMAIN refs] : ToSet(q) = DOMAIN refs}}
<1>1. \/ other \in Orders
      \/ \E order \in Orders, k \in DOMAIN refs : other = Append(order, refs[k])
  BY DEF Relistings
<1>2. \A order \in Orders : IsList(order)
  BY DEF IsList
<1>. HIDE DEF Orders
<1>3. ASSUME NEW order \in Orders, NEW x PROVE IsList(Append(order, x))
  <2>. DEFINE S == ToSet(order) \cup {x}
              longer == Append(order, x)
  <2>1. order \in Seq(S)
    <3>1. order \in Seq(ToSet(order))
      BY <1>2, ListIsSeq
    <3>. QED  BY <3>1
  <2>2. longer \in Seq(S)
    BY <2>1, AppendProperties
  <2>. HIDE DEF longer, S
  <2>3. Len(longer) \in Nat /\ longer = [k \in 1..Len(longer) |-> longer[k]]
    BY <2>2
  <2>. QED  BY <2>3 DEF IsList, longer
<1>. QED  BY <1>1, <1>2, <1>3

\* verify: the order and the repetitions of index.json do not change the verdict, if
\* no two referrers are of one class.
THEOREM OrderIsAlwaysIrrelevant == Spec => []OrderIsIrrelevant
<1>1. CallInv => OrderIsIrrelevant
  <2>1. ASSUME CallInv, Returned("verify")
        PROVE  OrderIrrelevant(input.refs, Primary, input.policy, input.cosign, result,
                               Relistings(input.refs))
    <3>1. IsList(input.refs)
      BY <2>1, ReturnedIsAnswer, VerifyAssumption DEF IsListing
    <3>2. \A other \in Relistings(input.refs) : IsList(other)
      BY <3>1, RelistingsAreLists
    <3>3. OrderIrrelevant(input.refs, Primary, input.policy, input.cosign,
                          Verify(input.refs, Primary, input.policy, input.cosign),
                          Relistings(input.refs))
      BY <3>1, <3>2, VerifyIgnoresOrder
    <3>. QED  BY <2>1, <3>3, ReturnedIsAnswer
  <2>. QED  BY <2>1 DEF OrderIsIrrelevant
<1>. QED  BY <1>1, CallsAreAnswered, PTL

\* publish, verify: no provider that is broken or empty makes a request go out
\* anonymously, or with the credentials of another source or registry.
THEOREM NothingEverFallsThrough == Spec => []NothingFallsThrough
<1>1. CallInv => NothingFallsThrough
  BY ReturnedIsAnswer, CommandsAssumption, HeadersAreOwn DEF NothingFallsThrough, Headers
<1>. QED  BY <1>1, CallsAreAnswered, PTL

\* publish, verify: the two commands send the same header under one command line and
\* environment, but for a pull that finds nothing there.
THEOREM PublishAndPullAlwaysAgree == Spec => []PublishAndPullAgree
<1>1. CallInv => PublishAndPullAgree
  BY ReturnedIsAnswer, CommandsAssumption, PublishAndPullHeaders DEF PublishAndPullAgree, Headers
<1>. QED  BY <1>1, CallsAreAnswered, PTL

\* spec_hash, build: two spec files of one hash build one image.
THEOREM SpecHashAlwaysPinsBuild == Spec => []SpecHashPinsBuild
<1>1. CallInv => SpecHashPinsBuild
  BY ReturnedIsAnswer, SpecsAssumption, HashPinsOutcome DEF SpecHashPinsBuild
<1>. QED  BY <1>1, CallsAreAnswered, PTL

\* build_deterministic_tar: the order of [[layers.files]] does not change a layer,
\* unless two entries claim one path.
THEOREM TarOrderAlwaysIrrelevant == Spec => []TarOrderIrrelevant
<1>1. CallInv => TarOrderIrrelevant
  BY ReturnedIsAnswer, SpecsAssumption, TarIsOfEntries DEF TarOrderIrrelevant
<1>. QED  BY <1>1, CallsAreAnswered, PTL

\* parse_and_validate, build: a spec that validation accepts fails to build only at
\* what validation does not look at: a file that does not open, special files and
\* names anywhere below a directory, and destinations that no tar can hold.
THEOREM ValidatedSpecAlwaysBuilds == Spec => []ValidatedSpecBuilds
<1>1. CallInv => ValidatedSpecBuilds
  BY ReturnedIsAnswer, SpecsAssumption, ValidSpecBuilds DEF ValidatedSpecBuilds
<1>. QED  BY <1>1, CallsAreAnswered, PTL

\* attest, verify: an image that build has attested is accepted under the policies
\* that its spec satisfies, and under no other.
THEOREM AttestedImageAlwaysVerifies == Spec => []AttestedImageVerifies
<1>1. CallInv => AttestedImageVerifies
  <2>1. ASSUME CallInv, Returned("attest")
        PROVE  Verifies(input.image.config, input.image.signer, input.policy, input.cosign,
                        result.verified)
    <3>1. /\ IsConfig(input.image.config) /\ IsOption(input.image.signer)
          /\ Lists(input.image.refs, input.image.built, input.image.config, input.image.signer)
          /\ IsPolicy(input.policy) /\ input.cosign \in Cosigns
      BY <2>1, ReturnedIsAnswer, AttestationsAssumption DEF IsAttested
    <3>2. result.verified =
            Verify(input.image.refs, input.image.built.manifest, input.policy, input.cosign)
      BY <2>1, ReturnedIsAnswer DEF Used
    <3>. QED  BY <3>1, <3>2, AttestedVerifies
  <2>. QED  BY <2>1 DEF AttestedImageVerifies
<1>. QED  BY <1>1, CallsAreAnswered, PTL

\* attest, sbom: the SBOM that `justoci sbom' shows is the one that verify judges, and
\* the preview from the spec, in the format that --format asks for, lists the same
\* names; with the SBOM turned off only the preview is there.
THEOREM SbomsAlwaysAgree == Spec => []SbomsAgree
<1>1. CallInv => SbomsAgree
  <2>1. ASSUME CallInv, Returned("attest")
        PROVE  OneSbom(input.image.built, input.image.config, input.image.refs, result.shown)
    <3>1. /\ IsBuilt(input.image.built) /\ IsConfig(input.image.config)
          /\ IsOption(input.image.signer)
          /\ Lists(input.image.refs, input.image.built, input.image.config, input.image.signer)
      BY <2>1, ReturnedIsAnswer, AttestationsAssumption DEF IsAttested
    <3>2. result.shown = SbomOfImage(input.image.refs)
      BY <2>1, ReturnedIsAnswer DEF Used
    <3>. QED  BY <3>1, <3>2, AttestedHasOneSbom
  <2>. QED  BY <2>1 DEF SbomsAgree
<1>. QED  BY <1>1, CallsAreAnswered, PTL
=============================================================================
