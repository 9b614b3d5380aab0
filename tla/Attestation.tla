---------------------------- MODULE Attestation ----------------------------
(***************************************************************************)
(* What attest (attest/src/core) says of a built image, how build attaches *)
(* it to the image directory (cli/src/referrers.rs), and what `justoci     *)
(* sbom' (cli/src/cmd/sbom.rs) shows of it.  VerifyEngine reads it back.   *)
(*                                                                         *)
(* built is [manifest, layers], a layer [digest, mediaType, source], and   *)
(* its source [t : "blob", path] or [t : "files", entries], with an entry  *)
(* [source, dest, mode].  config is the [attestation] block after          *)
(* validation: [level, builder, format, scope].  A document carries, beside*)
(* what VerifyEngine reads, the `items' that it lists and those that the   *)
(* package contains.                                                       *)
(***************************************************************************)
EXTENDS VerifyEngine, TLC

NothingRead == [json |-> TRUE, predicateType |-> "none", subjects |-> {}, specHash |-> FALSE,
                level |-> 0, builder |-> "<unknown>", format |-> "none", signs |-> {},
                recorded |-> FALSE, items |-> <<>>, contains |-> {}]

\* layer_name, layer_display_name, layer_file_name: its number and its source.
LayerName(layers, k) ==
  <<k - 1, IF layers[k].source.t = "blob" THEN layers[k].source.path
           ELSE ToString(Len(layers[k].source.entries))>>

LayerItem(layers, k) ==
  [name |-> LayerName(layers, k), digest |-> layers[k].digest, mediaType |-> layers[k].mediaType]

\* build_statement_value: the subject, the claims of the spec, and one resolved
\* dependency per layer.
Statement(built, config) ==
  [NothingRead EXCEPT
     !.predicateType = "slsa-v1", !.subjects = {built.manifest}, !.specHash = TRUE,
     !.level = config.level,
     !.builder = IF config.builder = {} THEN "urn:justoci:builder:unknown"
                 ELSE CHOOSE b \in config.builder : TRUE,
     !.items = [k \in DOMAIN built.layers |-> LayerItem(built.layers, k)]]

\* emit_slsa: nothing at level 0.
EmitSlsa(built, config) == IF config.level = 0 THEN {} ELSE {Statement(built, config)}

\* The entries of the layers that are made of files, layer by layer.
SourceItems(layers) ==
  FlattenSeq([k \in DOMAIN layers |->
                IF layers[k].source.t = "blob" THEN <<>>
                ELSE [j \in DOMAIN layers[k].source.entries |->
                        [layer |-> k - 1, file |-> j - 1, entry |-> layers[k].source.entries[j]]]])

LayerItems(layers) == [k \in DOMAIN layers |-> LayerItem(layers, k)]

\* build_components.
Components(built, scope) ==
  (IF scope \in {"layers", "both"} THEN LayerItems(built.layers) ELSE <<>>)
    \o (IF scope \in {"sources", "both"} THEN SourceItems(built.layers) ELSE <<>>)

CycloneDx(built, scope) ==
  [NothingRead EXCEPT !.format = "CycloneDX", !.subjects = {built.manifest},
                      !.items = Components(built, scope)]

\* Mutant: `both' counts as `sources'.
SpdxFilesOfSources(built, scope) ==
  (IF scope = "layers" THEN LayerItems(built.layers) ELSE <<>>)
    \o (IF scope \in {"sources", "both"} THEN SourceItems(built.layers) ELSE <<>>)

\* build_files.
SpdxFiles(built, scope) ==
  (IF scope \in {"layers", "both"} THEN LayerItems(built.layers) ELSE <<>>)
    \o (IF scope \in {"sources", "both"} THEN SourceItems(built.layers) ELSE <<>>)

\* build_relationships: the package contains the layers; the sources are in no
\* relationship.
Contained(built, scope) == IF scope = "sources" THEN {} ELSE {k - 1 : k \in DOMAIN built.layers}

Spdx(built, scope) ==
  [NothingRead EXCEPT !.format = "SPDX", !.subjects = {built.manifest},
                      !.items = SpdxFiles(built, scope), !.contains = Contained(built, scope)]

EmitSbom(built, format, scope) ==
  CASE format = "cyclonedx" -> {CycloneDx(built, scope)}
    [] format = "spdx"      -> {Spdx(built, scope)}
    [] format = "off"       -> {}

\* sign_with: the bundle of the signer.  That of sigstore-rs and of justsign has
\* its logIndex where extract_rekor_log_index does not look.
Bundle(built, signer) ==
  [NothingRead EXCEPT !.signs = {built.manifest}, !.recorded = (signer = "cosign-subprocess")]

\* attest: the documents of the three pillars, in the order of the referrers.
\* signer is {} with sign.kind = "off"; a signer that fails ends the build.
Attest(built, config, signer) ==
  [slsa |-> EmitSlsa(built, config), sbom |-> EmitSbom(built, config.format, config.scope),
   signature |-> {Bundle(built, s) : s \in signer}]

\* build_and_write_referrer_manifest: a manifest with the document as its one
\* layer, of which the media type is the artifact type, here and in index.json.
Referrer(type, document) ==
  [readable |-> TRUE, artifactType |-> type, listedType |-> type,
   layers |-> <<[mediaType |-> type, payload |-> document]>>]

AsReferrer(type, documents) == SetToSeq({Referrer(type, d) : d \in documents})

\* Mutant: every SBOM is declared as the default format.
ReferrersAllCycloneDx(outputs, format) ==
  AsReferrer(InToto, outputs.slsa) \o AsReferrer({"cyclonedx"}, outputs.sbom)
    \o AsReferrer({"cosign"}, outputs.signature)

\* write_referrers_into_image_dir.
Referrers(outputs, format) ==
  AsReferrer(InToto, outputs.slsa) \o AsReferrer({format}, outputs.sbom)
    \o AsReferrer({"cosign"}, outputs.signature)

\* run_image_mode: the document of the first referrer whose declared type is one
\* of an SBOM; that of its layer does not count here.
SbomOfImage(refs) ==
  LET declared(r) == IF r.artifactType # {} THEN r.artifactType ELSE r.listedType
      n == SelectInSeq(refs, LAMBDA r : declared(r) \cap {"cyclonedx", "spdx"} # {})
  IN IF n = 0 \/ refs[n].layers = <<>> THEN {} ELSE {refs[n].layers[1].payload}

\* run_spec_mode: a document in the format of the option --format, whatever format the
\* spec asks for; the digests are those of the sources, not of what is built.
SbomOfSpec(built, format, scope) ==
  LET preview == [built EXCEPT !.manifest = "spec hash",
                               !.layers = [k \in DOMAIN @ |-> [@[k] EXCEPT !.digest = "of its source"]]]
  IN EmitSbom(preview, format, scope)

-----------------------------------------------------------------------------
(* Correctness, for what build attested and what verify, or sbom, made of a *)
(* list of the referrers.                                                   *)

\* The builder that a statement names.
BuilderOf(config) == IF config.builder = {} THEN {"urn:justoci:builder:unknown"} ELSE config.builder

\* Only the bundle of cosign itself counts, and no bundle does without cosign.
Signed(signer, cosign) == signer = {"cosign-subprocess"} /\ cosign = "works"

\* Build and verify mean the same: an image is accepted if, and only if, its spec
\* asked for what the policy demands, and its pillars are found as they were
\* attested; except for a signature, which has to be Signed, and for the gates that
\* should ask for nothing (EmptyGateRefuses): level = 0 needs a statement, and no SBOM is of
\* one of no formats.
Verifies(config, signer, policy, cosign, result) ==
  LET found(asked, good) == IF ~asked THEN "Missing" ELSE IF good THEN "Found" ELSE "Failed"
  IN /\ (result.err = "none") <=>
          /\ \A n \in policy.level : config.level # 0 /\ config.level >= n
          /\ policy.builder # {} => config.level # 0 /\ policy.builder = BuilderOf(config)
          /\ policy.signature => Signed(signer, cosign)
          /\ \A fs \in policy.formats : config.format # "off" /\ config.format \in fs
     /\ result.err = "none" =>
          result.report = [slsa |-> found(config.level # 0, TRUE),
                           sbom |-> found(config.format # "off", TRUE),
                           signature |-> found(signer # {}, Signed(signer, cosign))]

\* The things that an SBOM lists, and their names.
ItemsOf(documents) == {d.items : d \in documents}
NamesOf(documents) ==
  {{IF "digest" \in DOMAIN i THEN i.name ELSE <<i.layer, i.entry.dest>> : i \in ToSet(d.items)} : d \in documents}

\* The SBOM that `justoci sbom' shows is the one that verify judges, and there is one
\* unless the spec has turned it off; it lists the same things in either format; and
\* the preview made before the build, in either format, lists them by the same names.
\* With the SBOM turned off there is a preview all the same, of what no image has.
OneSbom(built, config, refs, shown) ==
  /\ shown = {e.payload : e \in Evidence(refs, "sbom")}
  /\ ItemsOf(EmitSbom(built, "cyclonedx", config.scope)) = ItemsOf(EmitSbom(built, "spdx", config.scope))
  /\ shown = {} <=> config.format = "off"
  /\ \A format \in {"cyclonedx", "spdx"} :
       LET preview == SbomOfSpec(built, format, config.scope)
       IN preview # {} /\ (shown # {} => NamesOf(preview) = NamesOf(shown))
=============================================================================
