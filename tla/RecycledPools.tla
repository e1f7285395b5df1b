--------------------------- MODULE RecycledPools ----------------------------
(***************************************************************************)
(* The list of recycled pools of fdqueue.c (queue_info->recycled_pools):   *)
(* a linked list changed by compare-and-swap, pushed on by every thread    *)
(* and popped by the listener alone.  The list's node lies inside the pool *)
(* it links, so a thread that uses a pool overwrites the node's next.      *)
(*                                                                         *)
(* stack is a history variable: the pools in the order of the successful   *)
(* compare-and-swaps.  Nothing reads it.                                   *)
(***************************************************************************)
EXTENDS Naturals, Sequences

CONSTANTS
    Pools,      \* transaction pools
    Pushers,    \* worker threads
    Listener,   \* the only thread that calls zevent_pop_pool
    Null

Threads == Pushers \cup {Listener}

ASSUME ListenerAssumption == Listener \notin Pushers
ASSUME NullAssumption == Null \notin Pools

VARIABLES
    head,   \* queue_info->recycled_pools
    next,   \* the nodes' next fields
    held,   \* the pools each thread owns
    pc,     \* where each thread is in push_pool or pop_pool
    cur,    \* new_recycle in push_pool, first_pool in pop_pool
    seen,   \* next in push_pool, the value of first_pool->next in pop_pool
    stack

vars == <<head, next, held, pc, cur, seen, stack>>

Init ==
    /\ head = Null
    /\ next = [p \in Pools |-> Null]
    /\ held = [t \in Threads |-> {}]
    /\ pc = [t \in Threads |-> "idle"]
    /\ cur = [t \in Threads |-> Null]
    /\ seen = [t \in Threads |-> Null]
    /\ stack = <<>>

(* zevent_push_pool is called with a pool the thread owns. *)
PushBegin(t, p) ==
    /\ pc[t] = "idle"
    /\ p \in held[t]
    /\ pc' = [pc EXCEPT ![t] = "pushread"]
    /\ cur' = [cur EXCEPT ![t] = p]
    /\ UNCHANGED <<head, next, held, seen, stack>>

(* Mutant: the node keeps the next field of its previous life. *)
PushReadNoLink(t) ==
    /\ pc[t] = "pushread"
    /\ seen' = [seen EXCEPT ![t] = head]
    /\ pc' = [pc EXCEPT ![t] = "pushcas"]
    /\ UNCHANGED <<head, next, held, cur, stack>>

(* next = queue_info->recycled_pools; new_recycle->next = next *)
PushRead(t) ==
    /\ pc[t] = "pushread"
    /\ seen' = [seen EXCEPT ![t] = head]
    /\ next' = [next EXCEPT ![cur[t]] = head]
    /\ pc' = [pc EXCEPT ![t] = "pushcas"]
    /\ UNCHANGED <<head, held, cur, stack>>

(* Mutant: a plain store instead of the compare-and-swap. *)
PushCasBlind(t) ==
    /\ pc[t] = "pushcas"
    /\ head' = cur[t]
    /\ stack' = Append(stack, cur[t])
    /\ held' = [held EXCEPT ![t] = @ \ {cur[t]}]
    /\ pc' = [pc EXCEPT ![t] = "idle"]
    /\ UNCHANGED <<next, cur, seen>>

(* Mutant: the caller goes on using the pool it gave back. *)
PushCasKeep(t) ==
    /\ pc[t] = "pushcas"
    /\ IF head = seen[t]
       THEN /\ head' = cur[t]
            /\ stack' = Append(stack, cur[t])
            /\ pc' = [pc EXCEPT ![t] = "idle"]
       ELSE /\ pc' = [pc EXCEPT ![t] = "pushread"]
            /\ UNCHANGED <<head, stack>>
    /\ UNCHANGED <<next, held, cur, seen>>

(* apr_atomic_casptr(&recycled_pools, new_recycle, next) == next *)
PushCas(t) ==
    /\ pc[t] = "pushcas"
    /\ IF head = seen[t]
       THEN /\ head' = cur[t]
            /\ stack' = Append(stack, cur[t])
            /\ held' = [held EXCEPT ![t] = @ \ {cur[t]}]
            /\ pc' = [pc EXCEPT ![t] = "idle"]
       ELSE /\ pc' = [pc EXCEPT ![t] = "pushread"]
            /\ UNCHANGED <<head, stack, held>>
    /\ UNCHANGED <<next, cur, seen>>

(* first_pool = queue_info->recycled_pools, on entry or in the next turn   *)
(* of the loop.                                                            *)
PopRead ==
    /\ pc[Listener] \in {"idle", "popread"}
    /\ head # Null
    /\ cur' = [cur EXCEPT ![Listener] = head]
    /\ pc' = [pc EXCEPT ![Listener] = "popnext"]
    /\ UNCHANGED <<head, next, held, seen, stack>>

(* The list was empty: pop_pool returns NULL and the listener creates a pool. *)
PopEmpty(p) ==
    /\ pc[Listener] = "idle"
    /\ head = Null
    /\ \A t \in Threads : p \notin held[t]
    /\ held' = [held EXCEPT ![Listener] = @ \cup {p}]
    /\ UNCHANGED <<head, next, pc, cur, seen, stack>>

(* The argument first_pool->next of the compare-and-swap is read. *)
PopNext ==
    /\ pc[Listener] = "popnext"
    /\ seen' = [seen EXCEPT ![Listener] = next[cur[Listener]]]
    /\ pc' = [pc EXCEPT ![Listener] = "popcas"]
    /\ UNCHANGED <<head, next, held, cur, stack>>

(* Mutant: a plain store instead of the compare-and-swap. *)
PopCasBlind ==
    /\ pc[Listener] = "popcas"
    /\ head' = seen[Listener]
    /\ held' = [held EXCEPT ![Listener] = @ \cup {cur[Listener]}]
    /\ stack' = SubSeq(stack, 1, Len(stack) - 1)
    /\ pc' = [pc EXCEPT ![Listener] = "idle"]
    /\ UNCHANGED <<next, cur, seen>>

(* apr_atomic_casptr(&recycled_pools, first_pool->next, first_pool) *)
PopCas ==
    /\ pc[Listener] = "popcas"
    /\ IF head = cur[Listener]
       THEN /\ head' = seen[Listener]
            /\ held' = [held EXCEPT ![Listener] = @ \cup {cur[Listener]}]
            /\ stack' = SubSeq(stack, 1, Len(stack) - 1)
            /\ pc' = [pc EXCEPT ![Listener] = "idle"]
       ELSE /\ pc' = [pc EXCEPT ![Listener] = "popread"]
            /\ UNCHANGED <<head, held, stack>>
    /\ UNCHANGED <<next, cur, seen>>

(* A connection and its pool pass from one thread to another, through the  *)
(* worker queue or the pollset.                                            *)
HandOver(s, t, p) ==
    /\ s # t
    /\ pc[s] = "idle"
    /\ p \in held[s]
    /\ held' = [held EXCEPT ![s] = @ \ {p}, ![t] = @ \cup {p}]
    /\ UNCHANGED <<head, next, pc, cur, seen, stack>>

(* A thread clears its pool or allocates from it: the memory of an old     *)
(* node may hold anything afterwards.                                      *)
UsePool(t, p, garbage) ==
    /\ pc[t] = "idle"
    /\ p \in held[t]
    /\ next' = [next EXCEPT ![p] = garbage]
    /\ UNCHANGED <<head, held, pc, cur, seen, stack>>

Next ==
    \/ PopRead \/ PopNext \/ PopCas
    \/ \E p \in Pools : PopEmpty(p)
    \/ \E t \in Threads : PushRead(t) \/ PushCas(t)
    \/ \E t \in Threads, p \in Pools : PushBegin(t, p)
    \/ \E s, t \in Threads, p \in Pools : HandOver(s, t, p)
    \/ \E t \in Threads, p \in Pools, garbage \in Pools \cup {Null} :
          UsePool(t, p, garbage)

Spec == Init /\ [][Next]_vars

(***************************************************************************)
(* Properties.                                                             *)
(***************************************************************************)

(* Every variable has its type: in particular the head and the next fields *)
(* written by fdqueue.c only ever point to pools or are NULL.              *)
TypeOK ==
    /\ head \in Pools \cup {Null}
    /\ next \in [Pools -> Pools \cup {Null}]
    /\ held \in [Threads -> SUBSET Pools]
    /\ pc \in [Threads -> {"idle", "pushread", "pushcas", "popread", "popnext", "popcas"}]
    /\ cur \in [Threads -> Pools \cup {Null}]
    /\ seen \in [Threads -> Pools \cup {Null}]
    /\ stack \in Seq(Pools)

(* head and the next fields spell out the stack: no push is lost, and pop  *)
(* never follows a node that was overwritten by a pool's new owner.        *)
Linked ==
    /\ head = IF stack = <<>> THEN Null ELSE stack[Len(stack)]
    /\ \A i \in 1 .. Len(stack) :
          next[stack[i]] = IF i = 1 THEN Null ELSE stack[i - 1]

(* A pool is owned once: by one thread, or by one place of the list. *)
OwnedOnce ==
    /\ \A i, j \in 1 .. Len(stack) : stack[i] = stack[j] => i = j
    /\ \A i \in 1 .. Len(stack), t \in Threads : stack[i] \notin held[t]
    /\ \A s, t \in Threads : s # t => held[s] \cap held[t] = {}

(* A push in progress owns its pool; a push that read the head has linked  *)
(* its node to what it read.                                               *)
PushLocal ==
    \A t \in Threads :
        /\ pc[t] \in {"pushread", "pushcas"} => cur[t] \in held[t]
        /\ pc[t] = "pushcas" => next[cur[t]] = seen[t]

(* What the listener read stays true while it pops, because nobody else    *)
(* pops: the comment on zevent_pop_pool, "safe only as long as it is       *)
(* single threaded".                                                       *)
PopLocal ==
    /\ \A t \in Pushers : pc[t] \in {"idle", "pushread", "pushcas"}
    /\ pc[Listener] \in {"popnext", "popcas"} =>
          \E i \in 1 .. Len(stack) : stack[i] = cur[Listener]
    /\ pc[Listener] = "popcas" => seen[Listener] = next[cur[Listener]]

Inv == TypeOK /\ Linked /\ OwnedOnce /\ PushLocal /\ PopLocal

Abstract == INSTANCE PoolStack

(* The list behaves as the atomic stack of module PoolStack. *)
ImplementsStack == Abstract!Spec
=============================================================================
