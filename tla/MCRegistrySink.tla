--------------------------- MODULE MCRegistrySink ---------------------------
(***************************************************************************)
(* Small instances of RegistrySink.  Two images share their one piece of   *)
(* content `c'; the first carries a referrer `r1' (an SBOM, say), which    *)
(* adds the layer `sbom'.  OpenedAssumption ties what the sink knows       *)
(* of them to what ImageDir!Open returns for their directories.            *)
(***************************************************************************)
EXTENDS RegistrySink

CONSTANTS p1, p2, signed, plain

OnDisk == INSTANCE ImageDir WITH BadDigests <- {}, UpperDigests <- {}

Manifest(layers, subject) ==
  [state |-> "ok", mediaType |-> "oci", config |-> "c", layers |-> layers, subject |-> subject]
Bytes == [state |-> "malformed", mediaType |-> OnDisk!Absent, config |-> OnDisk!Absent,
          layers |-> <<>>, subject |-> OnDisk!Absent]
Listed(d) == [digest |-> d, mediaType |-> "oci"]
Layout(listed, files) ==
  [layout |-> "ok", index |-> "ok", listed |-> listed, blobs |-> files]

Directory ==
  [i \in Images |->
     IF i = signed
     THEN Layout(<<Listed("m1"), Listed("r1")>>,
                 [d \in {"m1", "r1", "c", "sbom"} |->
                    IF d = "m1" THEN Manifest(<<>>, OnDisk!Absent)
                    ELSE IF d = "r1" THEN Manifest(<<"sbom">>, "m1") ELSE Bytes])
     ELSE Layout(<<Listed("m2")>>,
                 [d \in {"m2", "c"} |->
                    IF d = "m2" THEN Manifest(<<>>, OnDisk!Absent) ELSE Bytes])]

MCDescriptor ==
  [i \in Images |->
     IF i = signed
     THEN [primary |-> "m1", referrers |-> <<"r1">>,
           blobs |-> <<"c", "sbom", "r1", "m1">>, content |-> {"c", "sbom"}]
     ELSE [primary |-> "m2", referrers |-> <<>>,
           blobs |-> <<"c", "m2">>, content |-> {"c"}]]

ASSUME OpenedAssumption ==
  \A i \in Images :
    LET opened == OnDisk!Open(Directory[i])
    IN /\ opened.err = "none"
       /\ MCDescriptor[i] = [f \in DOMAIN opened \ {"err"} |-> opened[f]]

MCDigests == {"m1", "m2", "r1", "c", "sbom"}

MCImageOf == [p \in Publishers |-> IF p = p1 THEN signed ELSE plain]

\* p1 is called again after its first call ends or dies.
MCMaxRuns == [p \in Publishers |-> IF p = p1 THEN 2 ELSE 1]

MCOneRun == [p \in Publishers |-> 1]
=============================================================================
