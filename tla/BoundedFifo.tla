---------------------------- MODULE BoundedFifo ----------------------------
(***************************************************************************)
(* What the queue under the pipe promises: a first-in-first-out queue of   *)
(* at most Capacity items, to which one item is appended or from which the *)
(* oldest is removed, and which nothing else changes.                      *)
(***************************************************************************)
EXTENDS Integers, Sequences

CONSTANT Capacity

VARIABLE q

Init == q = <<>>

(* The new item is whatever the last element of q' is. *)
Put ==
    /\ Len(q) < Capacity
    /\ Len(q') = Len(q) + 1
    /\ \A j \in 1 .. Len(q) : q'[j] = q[j]

Get ==
    /\ Len(q) > 0
    /\ q' = Tail(q)

Next == Put \/ Get

Spec == Init /\ [][Next]_q
=============================================================================
