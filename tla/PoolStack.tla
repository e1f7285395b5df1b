----------------------------- MODULE PoolStack ------------------------------
(***************************************************************************)
(* What the list of recycled transaction pools promises to its users: a    *)
(* stack whose push and pop are atomic, and pools that belong either to    *)
(* the stack or to exactly one thread.                                     *)
(***************************************************************************)
EXTENDS Naturals, Sequences

CONSTANTS Pools, Pushers, Listener

Threads == Pushers \cup {Listener}

VARIABLES stack, held

Init == stack = <<>> /\ held = [t \in Threads |-> {}]

(* A thread gives back a pool it holds. *)
Push(t, p) ==
    /\ p \in held[t]
    /\ stack' = Append(stack, p)
    /\ held' = [held EXCEPT ![t] = @ \ {p}]

(* The listener takes the pool on top. *)
Pop ==
    /\ stack # <<>>
    /\ held' = [held EXCEPT ![Listener] = @ \cup {stack[Len(stack)]}]
    /\ stack' = SubSeq(stack, 1, Len(stack) - 1)

(* Only when the stack is empty does the listener create a pool. *)
Create(p) ==
    /\ stack = <<>>
    /\ \A t \in Threads : p \notin held[t]
    /\ held' = [held EXCEPT ![Listener] = @ \cup {p}]
    /\ UNCHANGED stack

(* A pool moves between threads with its connection. *)
HandOver(s, t, p) ==
    /\ s # t
    /\ p \in held[s]
    /\ held' = [held EXCEPT ![s] = @ \ {p}, ![t] = @ \cup {p}]
    /\ UNCHANGED stack

Next ==
    \/ Pop
    \/ \E p \in Pools : Create(p)
    \/ \E t \in Threads, p \in Pools : Push(t, p)
    \/ \E s, t \in Threads, p \in Pools : HandOver(s, t, p)

Spec == Init /\ [][Next]_<<stack, held>>
=============================================================================
