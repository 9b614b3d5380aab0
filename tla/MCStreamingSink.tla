-------------------------- MODULE MCStreamingSink --------------------------
(***************************************************************************)
(* A small instance of StreamingSink: p1 streams a file, and again.  Other *)
(* publishers move the tag to that image and to `signed', which shares its *)
(* layer and has a referrer.                                               *)
(***************************************************************************)
EXTENDS StreamingSink

CONSTANTS p1, streamed, signed

MCDescriptor ==
  [i \in Images |->
     IF i = streamed
     THEN [primary |-> "m1", referrers |-> <<>>,
           blobs |-> <<"layer", "empty", "m1">>, content |-> {"empty", "layer"}]
     ELSE [primary |-> "m2", referrers |-> <<"r2">>,
           blobs |-> <<"layer", "empty", "r2", "m2">>, content |-> {"empty", "layer"}]]

MCDigests == {"m1", "m2", "r2", "layer", "empty"}

MCImageOf == [p \in Pushers |-> streamed]
MCLayerOf == [p \in Pushers |-> "layer"]
MCMaxRuns == [p \in Pushers |-> 2]
=============================================================================
