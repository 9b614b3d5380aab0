---------------------------- MODULE VerifyEngine ----------------------------
(***************************************************************************)
(* verify (cli/src/verify_engine.rs) after ImageDir::open: the walk over   *)
(* the referrers, the three pillars and the policy gates.                  *)
(*                                                                         *)
(* A referrer is                                                           *)
(*   readable     : its manifest parses, and its first layer can be read,  *)
(*   artifactType : what its manifest declares,                            *)
(*   listedType   : what its descriptor in index.json declares,            *)
(*   layers       : a sequence of [mediaType, payload].                    *)
(* A media type is the set of the words it contains that matter here, and  *)
(* {} if it is absent.  A payload is what the readers of JSON find in it:  *)
(*   json, predicateType, subjects, specHash, level, builder  (statement)  *)
(*   format                             (bomFormat, or SPDX in spdxVersion)*)
(*   signs, recorded                    (a bundle, and its Rekor logIndex) *)
(* An Option of the policy is a set of at most one element.                *)
(***************************************************************************)
EXTENDS Integers, Sequences, FiniteSets, SequencesExt

\* The exact media type of an in-toto statement; no longer name counts as one.
InToto == {"in-toto"}

\* Vendor suffixes of the others are tolerated; SBOMs come first.
Classify(type) == IF type = InToto THEN "slsa"
                  ELSE IF {"cyclonedx", "spdx"} \cap type # {} THEN "sbom"
                  ELSE IF "cosign" \in type THEN "signature"
                  ELSE "unknown"

\* The manifest's own type, or else the listed one, or else that of the payload.
TypeOf(r) == IF r.artifactType # {} THEN r.artifactType
             ELSE IF r.listedType # {} THEN r.listedType
             ELSE r.layers[1].mediaType

OfClass(r, class) == r.layers # <<>> /\ Classify(TypeOf(r)) = class

\* Mutant: the walk ends at a referrer without a payload.
EvidenceUpToEmpty(refs, class) ==
  LET n == SelectInSeq(refs, LAMBDA r : r.layers = <<>>)
      k == SelectLastInSeq(IF n = 0 THEN refs ELSE SubSeq(refs, 1, n - 1),
                           LAMBDA r : OfClass(r, class))
  IN IF k = 0 THEN {}
     ELSE {[type |-> TypeOf(refs[k]), payload |-> refs[k].layers[1].payload]}

\* What a pillar is judged by: the last referrer of its class, if there is one.
\* Earlier ones are not looked at.
Evidence(refs, class) ==
  LET k == SelectLastInSeq(refs, LAMBDA r : OfClass(r, class))
  IN IF k = 0 THEN {}
     ELSE {[type |-> TypeOf(refs[k]), payload |-> refs[k].layers[1].payload]}

\* Mutant: a statement about any image will do.
ValidStatementOfAny(p, primary) == p.json /\ p.predicateType = "slsa-v1" /\ p.specHash

\* validate_slsa_statement.
ValidStatement(p, primary) ==
  p.json /\ p.predicateType = "slsa-v1" /\ primary \in p.subjects /\ p.specHash

\* validate_sbom: the document is of the format that the media type declares.
ValidSbom(p, type) ==
  /\ p.json
  /\ IF "cyclonedx" \in type THEN p.format = "CycloneDX"
     ELSE "spdx" \in type => p.format = "SPDX"

\* RealCosignVerifyInvoker::verify.  cosign `works', is `missing' on this host,
\* or `fails' to run.
CosignVerify(p, primary, cosign) ==
  CASE cosign = "missing"                          -> "CosignNotInstalled"
    [] cosign = "fails" \/ primary \notin p.signs  -> "InvalidSignature"
    [] OTHER -> IF p.json /\ p.recorded THEN "VerifiedAndRecorded" ELSE "VerifiedNotRecorded"

Pillar(evidence, good(_)) ==
  IF evidence = {} THEN "Missing"
  ELSE IF \A e \in evidence : good(e) THEN "Found" ELSE "Failed"

Report(refs, primary, cosign) ==
  [slsa |-> Pillar(Evidence(refs, "slsa"), LAMBDA e : ValidStatement(e.payload, primary)),
   sbom |-> Pillar(Evidence(refs, "sbom"), LAMBDA e : ValidSbom(e.payload, e.type)),
   signature |-> Pillar(Evidence(refs, "signature"),
                        LAMBDA e : CosignVerify(e.payload, primary, cosign) = "VerifiedAndRecorded")]

\* A policy without gates, which is also what verify does without a policy.
NoPolicy == [level |-> {}, builder |-> {}, signature |-> FALSE, formats |-> {}]

\* apply_policy, gate by gate: the error that a gate gives, or "none".
LevelGate(refs, policy) ==
  IF policy.level = {} THEN "none"
  ELSE IF Evidence(refs, "slsa") = {} THEN "SlsaMissing"
  ELSE IF \A e \in Evidence(refs, "slsa"), n \in policy.level : e.payload.level >= n
       THEN "none" ELSE "slsa.level"

BuilderGate(refs, policy) ==
  IF \A b \in policy.builder : \E e \in Evidence(refs, "slsa") : e.payload.builder = b
  THEN "none" ELSE "sign.builder_id"

SignatureGate(report, policy) ==
  IF ~policy.signature \/ report.signature = "Found" THEN "none"
  ELSE IF report.signature = "Missing" THEN "SignatureMissing" ELSE "SignatureInvalid"

\* The formats are looked for in the pillar's detail, which names the blob, too.
SbomDetail(e) == e.type \cup {"blob", "sha256"}

FormatGate(refs, policy) ==
  IF policy.formats = {} THEN "none"
  ELSE IF Evidence(refs, "sbom") = {} THEN "SbomMissing"
  ELSE IF \A e \in Evidence(refs, "sbom"), fs \in policy.formats : fs \cap SbomDetail(e) # {}
       THEN "none" ELSE "sbom.format"

FirstErrorOf(checks) ==
  LET n == SelectInSeq(checks, LAMBDA e : e # "none") IN IF n = 0 THEN "none" ELSE checks[n]

\* Mutant: a builder that matches ends the gates.
GatesShort(refs, policy, report) ==
  <<LevelGate(refs, policy)>>
    \o IF policy.builder # {} /\ BuilderGate(refs, policy) = "none" THEN <<>>
       ELSE <<BuilderGate(refs, policy), SignatureGate(report, policy), FormatGate(refs, policy)>>

Gates(refs, policy, report) ==
  <<LevelGate(refs, policy), BuilderGate(refs, policy),
    SignatureGate(report, policy), FormatGate(refs, policy)>>

\* verify: what cannot be read, and a statement or an SBOM that is not valid, is
\* an error under any policy; a bad signature is one if the policy wants one.
Verify(refs, primary, policy, cosign) ==
  LET report == Report(refs, primary, cosign)
      err == FirstErrorOf(
               <<IF \A k \in DOMAIN refs : refs[k].readable THEN "none" ELSE "MalformedBlob",
                 IF report.slsa = "Failed" THEN "SlsaMalformed" ELSE "none",
                 IF report.sbom = "Failed" THEN "MalformedBlob" ELSE "none">>
               \o Gates(refs, policy, report))
  IN [err |-> err, report |-> IF err = "none" THEN report ELSE {}]

-----------------------------------------------------------------------------
(* Correctness of verify, for a list of referrers and what verify returned. *)

Classes == {"slsa", "sbom", "signature"}

\* The referrers of a class, whatever their place in the list.
Referring(refs, class) == {r \in ToSet(refs) : OfClass(r, class)}
Payloads(refs, class) == {r.layers[1].payload : r \in Referring(refs, class)}

\* Each gate of the policy file, and each pillar reported as found, is met by a
\* referrer of this very image: `verify' never accepts on the strength of an
\* attestation of another one, of a document that is not what its type says, of a
\* signature that cosign did not check or that Rekor did not record, or of two
\* statements of which one has the level and the other the builder.
Backed(refs, primary, policy, cosign, result) ==
  result.err = "none" =>
    /\ result.report.slsa = "Found" \/ policy.level \cup policy.builder # {} =>
         \E p \in Payloads(refs, "slsa") :
           /\ p.predicateType = "slsa-v1" /\ primary \in p.subjects
           /\ \A n \in policy.level : p.level >= n
           /\ policy.builder \subseteq {p.builder}
    /\ result.report.signature = "Found" \/ policy.signature =>
         cosign = "works" /\ \E p \in Payloads(refs, "signature") : primary \in p.signs /\ p.recorded
    /\ result.report.sbom = "Found" \/ policy.formats # {} =>
         \E r \in Referring(refs, "sbom") :
           /\ r.layers[1].payload.format = (IF "cyclonedx" \in TypeOf(r) THEN "CycloneDX" ELSE "SPDX")
           /\ \A fs \in policy.formats : \E f \in fs : f \in TypeOf(r)

\* A policy that asks for no more than another one, gate by gate, by what
\* docs/6-deployment/verify_policy.md says that gates ask for: a level of 0 and an
\* empty list of formats ask for nothing.
NoStricter(weak, policy) ==
  /\ \A n \in weak.level : n = 0 \/ \E m \in policy.level : n <= m
  /\ weak.builder \subseteq policy.builder
  /\ weak.signature => policy.signature
  /\ \A fs \in weak.formats : fs = {} \/ \E gs \in policy.formats : gs # {} /\ gs \subseteq fs

\* The code asks for something in either case: for a statement, whose level is not
\* negative, and for an SBOM of one of no formats.
EmptyGateRefuses(refs, policy) ==
  \/ 0 \in policy.level /\ \A e \in Evidence(refs, "slsa") : e.payload.level < 0
  \/ {} \in policy.formats

\* "Policy turns the dial up": a gate more, or a stricter one, never makes verify
\* accept, or report better of, what it refuses without it; except where the gate
\* that is weaker is one that should ask for nothing: by that one verify refuses.
OnlyRestricts(refs, primary, policy, cosign, result, policies) ==
  result.err = "none" =>
    \A weak \in policies : NoStricter(weak, policy) =>
      IF EmptyGateRefuses(refs, weak) THEN Verify(refs, primary, weak, cosign).err # "none"
      ELSE Verify(refs, primary, weak, cosign) = result

\* No two referrers of one class are listed, or one of them twice.
OneOfEach(refs) == \A class \in Classes : \A r, s \in Referring(refs, class) : r = s

\* A pulled directory lists the referrers in the order, and with the repetitions,
\* of the registry's answer.  With at most one of each class, as build writes
\* them, the verdict is the same for all of these and whatever else is listed.
\* With two of a class it is not: the last one decides.
OrderIrrelevant(refs, primary, policy, cosign, result, listings) ==
  OneOfEach(refs) =>
    \A other \in listings : ToSet(other) = ToSet(refs) =>
      Verify(other, primary, policy, cosign) = result
=============================================================================
