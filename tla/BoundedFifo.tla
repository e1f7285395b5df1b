---------------------------- MODULE BoundedFifo -----------------------------
(***************************************************************************)
(* What a bounded queue promises: elements leave in the order in which     *)
(* they came, each is handed to one taker, and there are never more of     *)
(* them than the capacity.  A failed or interrupted call is a stutter.     *)
(***************************************************************************)
EXTENDS Naturals, Sequences

CONSTANTS Data, Capacity, Null

VARIABLES
    fifo,   \* the elements, oldest first
    got     \* the last element handed to a taker

vars == <<fifo, got>>

Init == fifo = <<>> /\ got = Null

Put(d) ==
    /\ Len(fifo) < Capacity
    /\ fifo' = Append(fifo, d)
    /\ UNCHANGED got

Take ==
    /\ fifo # <<>>
    /\ got' = Head(fifo)
    /\ fifo' = Tail(fifo)

Next == (\E d \in Data : Put(d)) \/ Take

Spec == Init /\ [][Next]_vars
=============================================================================
