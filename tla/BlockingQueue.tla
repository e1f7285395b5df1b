--------------------------- MODULE BlockingQueue ----------------------------
(***************************************************************************)
(* The blocking FIFO queue of common/misc/queue.c: a ring of pointers, one *)
(* mutex, the condition variables not_empty and not_full with a count of   *)
(* waiters each, and a terminated flag that is also read without the       *)
(* mutex.                                                                  *)
(*                                                                         *)
(* A step of a thread is one critical section, up to its unlock or its     *)
(* wait, or one access outside the mutex.  A thread in a wait set sleeps   *)
(* in thread_cond_wait; a signal moves one of them to the woken threads,   *)
(* which still have to get the mutex back.  The pthread calls on the       *)
(* queue's own valid mutex and conditions do not fail.                     *)
(***************************************************************************)
EXTENDS Naturals, Sequences, FiniteSets

CONSTANTS
    Threads,
    Data,       \* what is pushed
    Capacity,   \* queue->bounds
    Null        \* contents of a slot nobody wrote, result of no pop

ASSUME CapacityAssumption == Capacity \in Nat \ {0}
ASSUME ThreadsAssumption == IsFiniteSet(Threads)

VARIABLES
    data, in, out, nelts,           \* the ring
    full_waiters, empty_waiters,
    terminated,
    pc,     \* where each thread is
    arg,    \* the data argument of its push
    got     \* *data of the last successful pop of any thread

ring == <<data, in, out, nelts>>
waiters == <<full_waiters, empty_waiters>>
vars == <<data, in, out, nelts, full_waiters, empty_waiters, terminated,
          pc, arg, got>>

Slots == 0 .. Capacity - 1
Calls == {"push", "trypush", "pop", "trypop", "interrupt", "term"}

At(l) == {t \in Threads : pc[t] = l}

(* Asleep on a condition variable, and woken but not yet running. *)
FullSleepers == At("full_wait")
EmptySleepers == At("empty_wait")
FullWoken == At("full_woken")
EmptyWoken == At("empty_woken")

queue_full == nelts = Capacity
queue_empty == nelts = 0

(* queue_create *)
Init ==
    /\ data = [i \in Slots |-> Null]
    /\ in = 0 /\ out = 0 /\ nelts = 0
    /\ full_waiters = 0 /\ empty_waiters = 0
    /\ terminated = FALSE
    /\ pc = [t \in Threads |-> "out"]
    /\ arg = [t \in Threads |-> Null]
    /\ got = Null

-----------------------------------------------------------------------------
(* t goes to l, or returns; wake is the set of threads its signal or broadcast wakes. *)
Goto(t, l, wake) ==
    pc' = [u \in Threads |->
             CASE u = t -> l
               [] u \in wake /\ pc[u] = "full_wait" -> "full_woken"
               [] u \in wake /\ pc[u] = "empty_wait" -> "empty_woken"
               [] OTHER -> pc[u]]

Return(t, wake) ==
    /\ Goto(t, "out", wake)
    /\ arg' = [arg EXCEPT ![t] = Null]

(* thread_cond_signal wakes one of the sleepers, if there is one.  The     *)
(* code signals only when its count of waiters is not zero.                *)
SignalSets(count, sleepers) ==
    IF count = 0 \/ sleepers = {} THEN {{}} ELSE {{u} : u \in sleepers}

(* The four calls start with a look at terminated that takes no lock, and  *)
(* return QUEUE_EOF at once when it is set.                                *)
Begin(t, call, d) ==
    /\ pc[t] = "out"
    /\ IF terminated /\ call \notin {"interrupt", "term"}
       THEN Return(t, {})
       ELSE /\ Goto(t, call, {})
            /\ arg' = IF call \in {"push", "trypush"}
                      THEN [arg EXCEPT ![t] = d] ELSE arg
    /\ UNCHANGED <<ring, waiters, terminated, got>>

(* Mutant: the push signals only when the queue was empty. *)
EnqueueSignalFirst(t) ==
    /\ data' = [data EXCEPT ![in] = arg[t]]
    /\ in' = (in + 1) % Capacity
    /\ nelts' = nelts + 1
    /\ \E wake \in SignalSets(IF nelts = 0 THEN empty_waiters ELSE 0, EmptySleepers) :
         Return(t, wake)
    /\ UNCHANGED <<out, empty_waiters, terminated, got>>

(* queue->data[queue->in] = data and what follows, to the unlock. *)
Enqueue(t) ==
    /\ data' = [data EXCEPT ![in] = arg[t]]
    /\ in' = (in + 1) % Capacity
    /\ nelts' = nelts + 1
    /\ \E wake \in SignalSets(empty_waiters, EmptySleepers) : Return(t, wake)
    /\ UNCHANGED <<out, empty_waiters, terminated, got>>

(* *data = queue->data[queue->out] and what follows, to the unlock. *)
Dequeue(t) ==
    /\ got' = data[out]
    /\ nelts' = nelts - 1
    /\ out' = (out + 1) % Capacity
    /\ \E wake \in SignalSets(full_waiters, FullSleepers) : Return(t, wake)
    /\ UNCHANGED <<data, in, full_waiters, terminated>>

(* queue_push takes the mutex. *)
Push(t) ==
    /\ pc[t] = "push"
    /\ \/ /\ ~queue_full
          /\ Enqueue(t)
          /\ UNCHANGED full_waiters
       \/ /\ queue_full /\ ~terminated
          /\ full_waiters' = full_waiters + 1
          /\ Goto(t, "full_wait", {})
          /\ UNCHANGED <<ring, empty_waiters, terminated, arg, got>>
       \/ /\ queue_full /\ terminated
          /\ Goto(t, "unlocked", {})
          /\ UNCHANGED <<ring, waiters, terminated, arg, got>>

(* Mutant: the woken push takes it for granted that there is room. *)
PushWokenBlind(t) ==
    /\ pc[t] = "full_woken"
    /\ full_waiters' = full_waiters - 1
    /\ Enqueue(t)

(* A woken push has the mutex back; it looks at the queue once more. *)
PushWoken(t) ==
    /\ pc[t] = "full_woken"
    /\ full_waiters' = full_waiters - 1
    /\ \/ ~queue_full /\ Enqueue(t)
       \/ /\ queue_full
          /\ Goto(t, "unlocked", {})
          /\ UNCHANGED <<ring, empty_waiters, terminated, arg, got>>

(* queue_trypush returns QUEUE_EAGAIN instead of waiting. *)
TryPush(t) ==
    /\ pc[t] = "trypush"
    /\ \/ ~queue_full /\ Enqueue(t)
       \/ /\ queue_full
          /\ Return(t, {})
          /\ UNCHANGED <<ring, empty_waiters, terminated, got>>
    /\ UNCHANGED full_waiters

(* Mutant: no second look at terminated, with the mutex held. *)
PopNoRecheck(t) ==
    /\ pc[t] = "pop"
    /\ \/ /\ ~queue_empty
          /\ Dequeue(t)
          /\ UNCHANGED empty_waiters
       \/ /\ queue_empty
          /\ empty_waiters' = empty_waiters + 1
          /\ Goto(t, "empty_wait", {})
          /\ UNCHANGED <<ring, full_waiters, terminated, arg, got>>

(* queue_pop takes the mutex. *)
Pop(t) ==
    /\ pc[t] = "pop"
    /\ \/ /\ ~queue_empty
          /\ Dequeue(t)
          /\ UNCHANGED empty_waiters
       \/ /\ queue_empty /\ ~terminated
          /\ empty_waiters' = empty_waiters + 1
          /\ Goto(t, "empty_wait", {})
          /\ UNCHANGED <<ring, full_waiters, terminated, arg, got>>
       \/ /\ queue_empty /\ terminated
          /\ Goto(t, "unlocked", {})
          /\ UNCHANGED <<ring, waiters, terminated, arg, got>>

(* Mutant: an interrupted pop is never taken off the count. *)
PopWokenCounted(t) ==
    /\ pc[t] = "empty_woken"
    /\ \/ /\ ~queue_empty /\ Dequeue(t)
          /\ empty_waiters' = empty_waiters - 1
       \/ /\ queue_empty
          /\ Goto(t, "unlocked", {})
          /\ UNCHANGED <<ring, waiters, terminated, arg, got>>

PopWoken(t) ==
    /\ pc[t] = "empty_woken"
    /\ empty_waiters' = empty_waiters - 1
    /\ \/ ~queue_empty /\ Dequeue(t)
       \/ /\ queue_empty
          /\ Goto(t, "unlocked", {})
          /\ UNCHANGED <<ring, full_waiters, terminated, arg, got>>

(* queue_trypop *)
TryPop(t) ==
    /\ pc[t] = "trypop"
    /\ \/ ~queue_empty /\ Dequeue(t)
       \/ /\ queue_empty
          /\ Return(t, {})
          /\ UNCHANGED <<ring, full_waiters, terminated, got>>
    /\ UNCHANGED empty_waiters

(* The push or pop that could not go on has unlocked and reads terminated: *)
(* it returns QUEUE_EOF if it is set and QUEUE_EINTR if it is not.         *)
AfterUnlock(t) ==
    /\ pc[t] = "unlocked"
    /\ Return(t, {})
    /\ UNCHANGED <<ring, waiters, terminated, got>>

(* Mutant: only not_empty is broadcast. *)
InterruptPoppers(t) ==
    /\ pc[t] \in {"interrupt", "term_interrupt"}
    /\ Return(t, EmptySleepers)
    /\ UNCHANGED <<ring, waiters, terminated, got>>

(* queue_interrupt_all, called by itself or at the end of queue_term. *)
InterruptAll(t) ==
    /\ pc[t] \in {"interrupt", "term_interrupt"}
    /\ Return(t, FullSleepers \cup EmptySleepers)
    /\ UNCHANGED <<ring, waiters, terminated, got>>

(* queue_term sets the flag in a critical section of its own. *)
Term(t) ==
    /\ pc[t] = "term"
    /\ terminated' = TRUE
    /\ Goto(t, "term_interrupt", {})
    /\ UNCHANGED <<ring, waiters, arg, got>>

(* thread_cond_wait returns without a signal. *)
SpuriousWakeup(t) ==
    /\ t \in FullSleepers \cup EmptySleepers
    /\ Goto(t, IF t \in FullSleepers THEN "full_woken" ELSE "empty_woken", {})
    /\ UNCHANGED <<ring, waiters, terminated, arg, got>>

(* What a thread inside a call does next. *)
Step(t) ==
    \/ Push(t) \/ PushWoken(t) \/ TryPush(t)
    \/ Pop(t) \/ PopWoken(t) \/ TryPop(t)
    \/ AfterUnlock(t) \/ InterruptAll(t) \/ Term(t)

Next == \E t \in Threads :
    \/ \E call \in Calls, d \in Data : Begin(t, call, d)
    \/ Step(t)
    \/ SpuriousWakeup(t)

Spec == Init /\ [][Next]_vars

(* A thread that is not asleep runs on: the mutex is held for a bounded    *)
(* time.  Nobody is obliged to call, and nothing wakes a sleeper but a     *)
(* signal.                                                                 *)
FairSpec == Spec /\ \A t \in Threads : WF_vars(Step(t))

-----------------------------------------------------------------------------
Locations == Calls \cup {"out", "full_wait", "full_woken", "empty_wait",
                         "empty_woken", "unlocked", "term_interrupt"}

(* Types: the ring's cursors and element count stay within the bounds of   *)
(* queue->data (queue.c:134-136, 241-244), which no push or pop checks by  *)
(* itself after a wait.                                                    *)
TypeOK ==
    /\ data \in [Slots -> Data \cup {Null}]
    /\ in \in Slots /\ out \in Slots /\ nelts \in 0 .. Capacity
    /\ full_waiters \in Nat /\ empty_waiters \in Nat
    /\ terminated \in BOOLEAN
    /\ pc \in [Threads -> Locations]
    /\ arg \in [Threads -> Data \cup {Null}]
    /\ got \in Data \cup {Null}

(* The waiter counts, on which a signal depends, count the sleepers and    *)
(* the woken threads that have not run yet.                                *)
WaitersCounted ==
    /\ full_waiters = Cardinality(FullSleepers) + Cardinality(FullWoken)
    /\ empty_waiters = Cardinality(EmptySleepers) + Cardinality(EmptyWoken)

(* queue_pop "will block until one becomes available": while a thread      *)
(* sleeps for an element, every element in the queue has a woken thread    *)
(* that will take it or find it taken; and so for free slots and queue_push.*)
NoLostWakeup ==
    /\ EmptySleepers # {} => nelts <= Cardinality(EmptyWoken)
    /\ FullSleepers # {} => Capacity - nelts <= Cardinality(FullWoken)

(* queue_term's comment: nobody can be put to sleep after it woke          *)
(* everybody up.                                                           *)
TermLeavesNoSleeper ==
    terminated /\ At("term_interrupt") = {}
        => FullSleepers = {} /\ EmptySleepers = {}

(* Every call in progress when the queue is terminated returns. *)
TermEndsCalls ==
    \A t \in Threads : (terminated /\ pc[t] # "out") ~> pc[t] = "out"

(* The i-th slot from out. *)
Wrap(i) == IF i < Capacity THEN i ELSE i - Capacity
Contents == [i \in 1 .. nelts |-> data[Wrap(out + i - 1)]]

(* The cursors agree on the number of elements, and a push in progress     *)
(* still has what it was called with.                                      *)
CursorsAgree == in = Wrap(out + nelts)
PushersHaveData ==
    \A t \in Threads :
        pc[t] \in {"push", "trypush", "full_wait", "full_woken"} => arg[t] \in Data

(* The inductive invariant of the proofs. *)
IInv ==
    /\ TypeOK /\ CursorsAgree /\ PushersHaveData
    /\ WaitersCounted /\ NoLostWakeup /\ TermLeavesNoSleeper

(* The ring is a bounded FIFO: what push stores, pop returns in order,     *)
(* once, whatever the threads' interleaving.                               *)
Fifo == INSTANCE BoundedFifo WITH fifo <- Contents
FifoSpec == Fifo!Spec
=============================================================================
