--------------------------- MODULE MCVerifyEngine ---------------------------
(***************************************************************************)
(* verify on every list of up to MaxReferrers referrers that are good, bad *)
(* in one way each, or beside the point; every policy over two levels, two *)
(* builders and two formats, with level = 0 and formats = [] among them;   *)
(* and every state of cosign on the host.                                  *)
(***************************************************************************)
EXTENDS VerifyEngine

CONSTANT MaxReferrers

MCPrimary == "m"

Plain == [json |-> TRUE, predicateType |-> "none", subjects |-> {}, specHash |-> FALSE,
          level |-> 0, builder |-> "<unknown>", format |-> "none", signs |-> {},
          recorded |-> FALSE]
Garbage == [Plain EXCEPT !.json = FALSE]

Statement(subject, level, builder) ==
  [Plain EXCEPT !.predicateType = "slsa-v1", !.subjects = {subject}, !.specHash = TRUE,
                !.level = level, !.builder = builder]
Sbom(format) == [Plain EXCEPT !.format = format]
Bundle(digest, recorded) == [Plain EXCEPT !.signs = {digest}, !.recorded = recorded]

Referrer(type, payload) ==
  [readable |-> TRUE, artifactType |-> type, listedType |-> {},
   layers |-> <<[mediaType |-> {"json"}, payload |-> payload]>>]

GoodStatement == Referrer(InToto, Statement("m", 2, "ci"))
GoodSbom      == Referrer({"cyclonedx"}, Sbom("CycloneDX"))
GoodBundle    == Referrer({"cosign"}, Bundle("m", TRUE))

MCReferrers ==
  {GoodStatement, GoodSbom, GoodBundle,
   \* statements that are weaker, typed by index.json, about another image, bad
   [Referrer({}, Statement("m", 1, "laptop")) EXCEPT !.listedType = InToto],
   Referrer(InToto, Statement("other", 3, "ci")),
   Referrer(InToto, [Statement("m", 3, "ci") EXCEPT !.predicateType = "slsa-v0.2"]),
   Referrer(InToto, Garbage), Referrer(InToto, Statement("m", -1, "ci")),
   \* SBOMs: a vendor's, typed by its layer; of another format than declared
   [readable |-> TRUE, artifactType |-> {}, listedType |-> {},
    layers |-> <<[mediaType |-> {"vendor", "spdx"}, payload |-> Sbom("SPDX")]>>],
   Referrer({"spdx"}, Sbom("CycloneDX")),
   \* bundles: not in Rekor, and of another image
   Referrer({"cosign"}, Bundle("m", FALSE)),
   Referrer({"cosign", "vendor"}, Bundle("other", TRUE)),
   \* nothing that is verified
   Referrer({"in-toto", "vendor"}, Statement("other", 0, "ci")),
   [GoodStatement EXCEPT !.layers = <<>>],
   [GoodBundle EXCEPT !.readable = FALSE]}

PoliciesFor(levels) ==
  [level : levels, builder : {{}, {"ci"}}, signature : BOOLEAN,
   formats : {{}, {{"cyclonedx"}}, {{"cyclonedx", "spdx"}}}]

\* Gates that are written to ask for nothing, alone and beside others.
EmptyGates(builders, signatures) ==
  [level : {{}, {0}}, builder : builders, signature : signatures, formats : {{}, {{}}}]

MCPolicies     == PoliciesFor({{}, {2}}) \cup EmptyGates({{}}, {FALSE})
MCWeakPolicies == PoliciesFor({{}, {1}, {2}}) \cup EmptyGates({{}, {"ci"}}, BOOLEAN)

MCListings == UNION {[1..n -> MCReferrers] : n \in 0..MaxReferrers}
=============================================================================
