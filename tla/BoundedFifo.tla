----------------------------- MODULE BoundedFifo -----------------------------
(***************************************************************************)
(* What a token queue with backpressure promises: tokens leave in the      *)
(* order they entered, none is lost or duplicated, never more than Size of *)
(* them are inside, and none enters after the queue is closed.             *)
(***************************************************************************)
EXTENDS Integers, Sequences

CONSTANTS Token, Size

VARIABLES inside,   \* the tokens queued, oldest first
          shut      \* whether the queue has been closed

vars == <<inside, shut>>

Init == inside = <<>> /\ shut = FALSE

Put == /\ ~shut /\ Len(inside) < Size
       /\ \E t \in Token : inside' = Append(inside, t)
       /\ UNCHANGED shut

Take == inside # <<>> /\ inside' = Tail(inside) /\ UNCHANGED shut

Close == shut' = TRUE /\ UNCHANGED inside

Next == Put \/ Take \/ Close

Spec == Init /\ [][Next]_vars
=============================================================================
