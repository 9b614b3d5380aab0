--------------------------- MODULE MCAttestation ---------------------------
(***************************************************************************)
(* From build to verify: images of two layers or one, every [attestation]  *)
(* block over two levels and two builders, every signer; then the          *)
(* referrers in any order, as a registry may list them, under every policy *)
(* and with cosign in every state.                                         *)
(***************************************************************************)
EXTENDS Attestation

Blob(path)     == [t |-> "blob", path |-> path]
Files(entries) == [t |-> "files", entries |-> entries]
Layer(digest, source) == [digest |-> digest, mediaType |-> "tar", source |-> source]
Entry(source, dest) == [source |-> source, dest |-> dest, mode |-> 420]

OneLayer == {<<Layer("l1", Blob("rootfs"))>>}
TwoLayers ==
  {<<Layer("l1", Files(<<Entry("a", "/a"), Entry("b", "/b")>>)), Layer("l2", Blob("rootfs"))>>,
   <<Layer("l1", Files(<<Entry("a", "/a")>>)), Layer("l2", Files(<<Entry("a", "/a")>>))>>}

Configs ==
  [level : {0, 1, 2}, builder : {{}, {"ci"}}, format : {"cyclonedx", "spdx", "off"},
   scope : {"layers", "sources", "both"}]

Demands ==
  [level : {{}, {0}, {2}}, builder : {{}, {"ci"}, {"urn:justoci:builder:unknown"}},
   signature : BOOLEAN, formats : {{}, {{}}, {{"cyclonedx"}}, {{"cyclonedx", "spdx"}}}]

Signers == {{}, {"cosign-subprocess"}, {"sigstore-rs"}, {"justsign"}}

\* The referrers in an order that begins with one or another.
Orders(refs) == {refs} \cup {<<refs[k]>> \o RemoveAt(refs, k) : k \in DOMAIN refs}

Images(sources, configs, signers) ==
  UNION {{[built |-> [manifest |-> "m", layers |-> layers], config |-> config, signer |-> signer,
           refs |-> refs] :
            refs \in Orders(Referrers(Attest([manifest |-> "m", layers |-> layers], config, signer),
                                     config.format))} :
         layers \in sources, config \in configs, signer \in signers}

\* The policy matters to what is attested of the layers, the scope to what sbom shows;
\* builder and signer are tried with an image of one layer.
ByLayer  == {c \in Configs : c.scope = "layers"}
Unnamed(configs) == {c \in configs : c.builder = {}}

Verified == Images(OneLayer, ByLayer, Signers) \cup Images(TwoLayers, Unnamed(ByLayer), {{}})
Shown    == Images(OneLayer, Configs \ ByLayer, Signers)
              \cup Images(TwoLayers, Unnamed(Configs \ ByLayer), {{}})

MCAttestations ==
  [image : Verified, policy : Demands, cosign : {"works", "missing", "fails"}]
    \cup [image : Shown, policy : {NoPolicy}, cosign : {"works"}]
=============================================================================
