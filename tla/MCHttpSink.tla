----------------------------- MODULE MCHttpSink -----------------------------
(***************************************************************************)
(* Small instances of HttpSink.  p1 publishes an image that build attests  *)
(* at some point, p2 another image with the same layer.                    *)
(***************************************************************************)
EXTENDS HttpSink

CONSTANTS p1, p2, bare, signed, plain

MCBlobs == [i \in Images |-> IF i = bare THEN <<"layer", "m1">>
                             ELSE IF i = signed THEN <<"layer", "r1", "m1">>
                             ELSE <<"layer", "m2">>]
MCDigests == {"layer", "r1", "m1", "m2"}
MCSourceOf == [p \in Publishers |-> IF p = p1 THEN bare ELSE plain]
MCAttested == [i \in Images |-> IF i = bare THEN signed ELSE i]

\* p1 is called again after its first call ends or dies.
MCMaxRuns == [p \in Publishers |-> IF p = p1 THEN 2 ELSE 1]
=============================================================================
