--------------------------- MODULE AtomicPublish ---------------------------
(***************************************************************************)
(* What a publish sink promises its consumers, whatever the sink is.       *)
(*                                                                         *)
(* A publisher runs publish calls one after another, each for an image of  *)
(* its choice.  A consumer looks at one place (the registry's tag, the     *)
(* index.json of a served directory) and sees either nothing or one        *)
(* COMPLETE image that somebody asked to publish.  A call that reports     *)
(* success made its image visible in the very step in which it reported;   *)
(* a call that reports an error has promised nothing: its commit request   *)
(* may still surface later.                                                *)
(***************************************************************************)

CONSTANTS Publishers,   \* the processes that call publish
          Images,       \* the images they publish
          NoImage       \* what a consumer sees before the first publish

VARIABLES visible,      \* the image a consumer sees
          wanted,       \* the image of each publisher's latest call
          status        \* what that call has reported

vars == <<visible, wanted, status>>

Init == /\ visible = NoImage
        /\ wanted = [p \in Publishers |-> NoImage]
        /\ status = [p \in Publishers |-> "idle"]

\* A publisher calls publish, for the first time or again.
Begin(p) == /\ status[p] # "pending"
            /\ \E i \in Images : wanted' = [wanted EXCEPT ![p] = i]
            /\ status' = [status EXCEPT ![p] = "pending"]
            /\ UNCHANGED visible

\* The call commits and reports success, in one step.
Publish(p) == /\ status[p] = "pending"
              /\ visible' = wanted[p]
              /\ status' = [status EXCEPT ![p] = "ok"]
              /\ UNCHANGED wanted

\* The call reports an error, or its process dies.
Fail(p) == /\ status[p] = "pending"
           /\ status' = [status EXCEPT ![p] = "failed"]
           /\ UNCHANGED <<visible, wanted>>

\* A commit request whose answer the publisher never saw takes effect: during
\* the call that sent it, or after that call has ended.
Surface(p) == /\ status[p] # "idle"
              /\ visible' = wanted[p]
              /\ UNCHANGED <<wanted, status>>

Next == \E p \in Publishers : Begin(p) \/ Publish(p) \/ Fail(p) \/ Surface(p)

Spec == Init /\ [][Next]_vars
=============================================================================
