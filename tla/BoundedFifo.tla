---------------------------- MODULE BoundedFifo ----------------------------
(***************************************************************************)
(* What the event buffer promises: a queue of at most Capacity elements    *)
(* that keeps arrival order, gives up its oldest element to make room, and *)
(* counts what it gave up since it was last emptied.                       *)
(***************************************************************************)
EXTENDS Integers, Sequences

CONSTANTS Events, Capacity

VARIABLES queue, dropped

Init == queue = << >> /\ dropped = 0

AddWithRoom(e) ==
    /\ Len(queue) < Capacity
    /\ queue' = Append(queue, e)
    /\ UNCHANGED dropped

AddDroppingOldest(e) ==
    /\ Len(queue) = Capacity
    /\ queue' = Append(Tail(queue), e)
    /\ dropped' = dropped + 1

Empty == queue' = << >> /\ dropped' = 0

Next == Empty \/ \E e \in Events : AddWithRoom(e) \/ AddDroppingOldest(e)

Spec == Init /\ [][Next]_<<queue, dropped>>
===========================================================================
