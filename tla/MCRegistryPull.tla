--------------------------- MODULE MCRegistryPull ---------------------------
(***************************************************************************)
(* A small repository for RegistryPull: an image with an SBOM, the same    *)
(* image attested anew (another referrer of the same primary manifest),    *)
(* and a plain one that shares the content of both.                        *)
(***************************************************************************)
EXTENDS RegistryPull

MCImages == {"signed", "resigned", "plain"}

MCDescriptor ==
  [i \in MCImages |->
     CASE i = "signed"   -> [primary |-> "m1", referrers |-> <<"r1">>,
                             blobs |-> <<"c", "sbom", "r1", "m1">>, content |-> {"c", "sbom"}]
       [] i = "resigned" -> [primary |-> "m1", referrers |-> <<"r2">>,
                             blobs |-> <<"c", "sbom", "r2", "m1">>, content |-> {"c", "sbom"}]
       [] i = "plain"    -> [primary |-> "m2", referrers |-> <<>>,
                             blobs |-> <<"c", "m2">>, content |-> {"c"}]]

MCManifest ==
  [d \in {"m1", "m2", "r1", "r2"} |->
     [config  |-> "c",
      layers  |-> CASE d = "r1" -> <<"sbom">> [] d = "r2" -> <<"c", "sbom">> [] OTHER -> <<>>,
      subject |-> IF d \in {"r1", "r2"} THEN "m1" ELSE Absent]]

MCDigests == {"m1", "m2", "r1", "r2", "c", "sbom"}
=============================================================================
