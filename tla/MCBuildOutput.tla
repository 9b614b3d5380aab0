--------------------------- MODULE MCBuildOutput ---------------------------
(***************************************************************************)
(* Small instances of BuildOutput: an image with two layers and two        *)
(* attestations, one of them a signature; the same image built with        *)
(* --no-attest; and the image of a changed spec, which shares a layer with *)
(* it and asks for no attestation.                                         *)
(***************************************************************************)
EXTENDS BuildOutput

CONSTANTS b1, b2

First == [layers |-> <<"kernel", "rootfs">>, config |-> "config1", manifest |-> "manifest1",
          attest |-> TRUE,
          attestations |-> <<[kind |-> "sbom", payload |-> "sbom", manifest |-> "sbomRef"],
                             [kind |-> "signature", payload |-> "bundle", manifest |-> "sigRef"]>>]
Bare == [First EXCEPT !.attest = FALSE, !.attestations = <<>>]
Second == [layers |-> <<"kernel">>, config |-> "config2", manifest |-> "manifest2",
           attest |-> TRUE, attestations |-> <<>>]

MCImages == {First, Bare, Second}
MCDigests == {"kernel", "rootfs", "config1", "config2", "manifest1", "manifest2",
              "sbom", "sbomRef", "bundle", "sigRef", "empty"}
=============================================================================
