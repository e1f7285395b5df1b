------------------------ MODULE BlockingQueueProofs -------------------------
(***************************************************************************)
(* Proofs about BlockingQueue for any number of threads and any capacity:  *)
(* its inductive invariant IInv, and from it the waiter counts, the        *)
(* absence of lost wakeups, what queue_term leaves behind, and that the    *)
(* ring implements a bounded FIFO.                                         *)
(***************************************************************************)
EXTENDS BlockingQueue, SequenceFacts, FiniteSetTheorems, TLAPS

(***************************************************************************)
(* Sets of threads.                                                        *)
(***************************************************************************)

(* Sets of threads are finite and their cardinality is a number. *)
LEMMA ThreadSets ==
    ASSUME NEW S \in SUBSET Threads
    PROVE  IsFiniteSet(S) /\ Cardinality(S) \in Nat
  BY ThreadsAssumption, FS_Subset, FS_CardinalityType

LEMMA ThreadAdded ==
    ASSUME NEW S \in SUBSET Threads, NEW t \in Threads, t \notin S
    PROVE  Cardinality(S \cup {t}) = Cardinality(S) + 1
  BY ThreadSets, FS_AddElement

LEMMA ThreadRemoved ==
    ASSUME NEW S \in SUBSET Threads, NEW t \in S
    PROVE  Cardinality(S \ {t}) = Cardinality(S) - 1
  BY ThreadSets, FS_RemoveElement

LEMMA ThreadsJoined ==
    ASSUME NEW S \in SUBSET Threads, NEW T \in SUBSET Threads, S \cap T = {}
    PROVE  Cardinality(S \cup T) = Cardinality(S) + Cardinality(T)
  <1>1. IsFiniteSet(S) /\ IsFiniteSet(T) /\ Cardinality(S) \in Nat /\ Cardinality(T) \in Nat
    BY ThreadSets
  <1>2. Cardinality(S \cup T) = Cardinality(S) + Cardinality(T) - Cardinality(S \cap T)
    BY <1>1, FS_Union
  <1>3. Cardinality(S \cap T) = 0
    BY FS_EmptySet
  <1> QED
    BY <1>1, <1>2, <1>3

(* The four wait sets are sets of threads, and a non-empty one has a       *)
(* positive cardinality.                                                   *)
LEMMA WaitSets ==
    /\ FullSleepers \in SUBSET Threads /\ EmptySleepers \in SUBSET Threads
    /\ FullWoken \in SUBSET Threads /\ EmptyWoken \in SUBSET Threads
    /\ Cardinality(FullSleepers) \in Nat /\ Cardinality(EmptySleepers) \in Nat
    /\ Cardinality(FullWoken) \in Nat /\ Cardinality(EmptyWoken) \in Nat
    /\ FullSleepers = {} <=> Cardinality(FullSleepers) = 0
    /\ EmptySleepers = {} <=> Cardinality(EmptySleepers) = 0
  <1>1. \A l : At(l) \in SUBSET Threads
    BY DEF At
  <1>2. \A l : Cardinality(At(l)) \in Nat /\ (At(l) = {} <=> Cardinality(At(l)) = 0)
    BY <1>1, ThreadSets, FS_EmptySet
  <1> QED
    BY <1>1, <1>2 DEF FullSleepers, EmptySleepers, FullWoken, EmptyWoken

(* thread_cond_signal wakes one sleeper unless there is none. *)
LEMMA SignalFacts ==
    ASSUME NEW count, NEW sleepers, NEW wake \in SignalSets(count, sleepers)
    PROVE  \/ wake = {} /\ (count = 0 \/ sleepers = {})
           \/ \E u \in sleepers : wake = {u}
  <1>1. CASE count = 0 \/ sleepers = {}
    BY <1>1 DEF SignalSets
  <1>2. CASE ~(count = 0 \/ sleepers = {})
    BY <1>2 DEF SignalSets
  <1> QED
    BY <1>1, <1>2

(* What Goto does to the wait sets and to the threads it does not name. *)
LEMMA GotoSets ==
    ASSUME TypeOK, NEW t \in Threads, NEW l \in Locations,
           NEW wake \in SUBSET Threads, t \notin wake, Goto(t, l, wake)
    PROVE  /\ pc' \in [Threads -> Locations] /\ pc'[t] = l
           /\ \A u \in Threads : u # t /\ pc[u] \notin {"full_wait", "empty_wait"}
                                   => pc'[u] = pc[u]
           /\ \A u \in Threads : u # t /\ pc'[u] \notin {"full_woken", "empty_woken"}
                                   => pc'[u] = pc[u]
           /\ \A u \in Threads : u # t /\ pc'[u] = "full_woken"
                                   => pc[u] \in {"full_wait", "full_woken"}
           /\ FullSleepers' = (FullSleepers \ (wake \cup {t}))
                                \cup (IF l = "full_wait" THEN {t} ELSE {})
           /\ EmptySleepers' = (EmptySleepers \ (wake \cup {t}))
                                \cup (IF l = "empty_wait" THEN {t} ELSE {})
           /\ FullWoken' = (FullWoken \ {t}) \cup (wake \cap FullSleepers)
                                \cup (IF l = "full_woken" THEN {t} ELSE {})
           /\ EmptyWoken' = (EmptyWoken \ {t}) \cup (wake \cap EmptySleepers)
                                \cup (IF l = "empty_woken" THEN {t} ELSE {})
  <1>1. /\ pc \in [Threads -> Locations]
        /\ pc' = [u \in Threads |->
             CASE u = t -> l
               [] u \in wake /\ pc[u] = "full_wait" -> "full_woken"
               [] u \in wake /\ pc[u] = "empty_wait" -> "empty_woken"
               [] OTHER -> pc[u]]
    BY DEF TypeOK, Goto
  <1>2. pc'[t] = l
    BY <1>1
  <1>3. ASSUME NEW u \in Threads, u # t
        PROVE  pc'[u] = IF u \in wake /\ pc[u] = "full_wait" THEN "full_woken"
                        ELSE IF u \in wake /\ pc[u] = "empty_wait" THEN "empty_woken"
                        ELSE pc[u]
    <2>1. CASE u \in wake /\ pc[u] = "full_wait"
      BY <1>1, <1>3, <2>1
    <2>2. CASE u \in wake /\ pc[u] = "empty_wait"
      BY <1>1, <1>3, <2>2
    <2>3. CASE ~(u \in wake /\ pc[u] = "full_wait") /\ ~(u \in wake /\ pc[u] = "empty_wait")
      BY <1>1, <1>3, <2>3
    <2> QED
      BY <2>1, <2>2, <2>3
  <1>4. DOMAIN pc' = Threads /\ \A u \in Threads : pc'[u] \in Locations
    BY <1>1, <1>2, <1>3 DEF Locations
  <1>5. pc' \in [Threads -> Locations]
    BY <1>1, <1>4
  <1>6. FullSleepers' = (FullSleepers \ (wake \cup {t}))
                          \cup (IF l = "full_wait" THEN {t} ELSE {})
    BY <1>2, <1>3 DEF FullSleepers, At
  <1>7. EmptySleepers' = (EmptySleepers \ (wake \cup {t}))
                          \cup (IF l = "empty_wait" THEN {t} ELSE {})
    BY <1>2, <1>3 DEF EmptySleepers, At
  <1>8. FullWoken' = (FullWoken \ {t}) \cup (wake \cap FullSleepers)
                          \cup (IF l = "full_woken" THEN {t} ELSE {})
    BY <1>2, <1>3 DEF FullSleepers, FullWoken, At
  <1>9. EmptyWoken' = (EmptyWoken \ {t}) \cup (wake \cap EmptySleepers)
                          \cup (IF l = "empty_woken" THEN {t} ELSE {})
    BY <1>2, <1>3 DEF EmptySleepers, EmptyWoken, At
  <1> QED
    BY <1>2, <1>3, <1>5, <1>6, <1>7, <1>8, <1>9

(***************************************************************************)
(* The ring.                                                               *)
(***************************************************************************)

(* The cursors' arithmetic: queue->in = (queue->in + 1) % queue->bounds. *)
LEMMA NextSlot ==
    ASSUME NEW x \in Slots
    PROVE  (x + 1) % Capacity = Wrap(x + 1) /\ Wrap(x + 1) \in Slots
  <1>1. x \in Nat /\ x < Capacity /\ Capacity \in Nat
    BY CapacityAssumption DEF Slots
  <1>2. CASE x + 1 = Capacity
    BY <1>1, <1>2, SMT DEF Wrap, Slots
  <1>3. CASE x + 1 < Capacity
    BY <1>1, <1>3, SMT DEF Wrap, Slots
  <1> QED
    BY <1>1, <1>2, <1>3

(* A push moves in and counts, within the bounds. *)
LEMMA PushRing ==
    ASSUME TypeOK, CursorsAgree, ~queue_full,
           in' = (in + 1) % Capacity, nelts' = nelts + 1, out' = out
    PROVE  /\ in' \in Slots /\ out' \in Slots /\ nelts' \in 0 .. Capacity
           /\ CursorsAgree'
  <1>1. in' = Wrap(in + 1) /\ in' \in Slots
    BY NextSlot DEF TypeOK
  <1> QED
    BY <1>1, CapacityAssumption DEF TypeOK, CursorsAgree, queue_full, Wrap, Slots

(* A pop moves out and counts down. *)
LEMMA PopRing ==
    ASSUME TypeOK, CursorsAgree, ~queue_empty,
           out' = (out + 1) % Capacity, nelts' = nelts - 1, in' = in
    PROVE  /\ in' \in Slots /\ out' \in Slots /\ nelts' \in 0 .. Capacity
           /\ CursorsAgree'
  <1>1. out' = Wrap(out + 1) /\ out' \in Slots
    BY NextSlot DEF TypeOK
  <1> QED
    BY <1>1, CapacityAssumption DEF TypeOK, CursorsAgree, queue_empty, Wrap, Slots

(***************************************************************************)
(* The actions keep the invariant.                                         *)
(***************************************************************************)

(* An element was stored, and one sleeper in pop, if any, was woken for it. *)
LEMMA EnqueueInv ==
    ASSUME IInv, NEW t \in Threads, ~queue_full, Enqueue(t),
           pc[t] \in {"push", "trypush", "full_woken"},
           full_waiters' = IF pc[t] = "full_woken" THEN full_waiters - 1 ELSE full_waiters
    PROVE  IInv'
  <1>1. PICK wake \in SignalSets(empty_waiters, EmptySleepers) : Return(t, wake)
    BY DEF Enqueue
  <1>2. \/ wake = {} /\ EmptySleepers = {}
        \/ \E u \in EmptySleepers : wake = {u}
    <2>1. empty_waiters = 0 => EmptySleepers = {}
      BY WaitSets DEF IInv, WaitersCounted
    <2> QED
      BY <2>1, SignalFacts
  <1>3. wake \in SUBSET EmptySleepers /\ wake \in SUBSET Threads /\ t \notin wake
    BY <1>2 DEF EmptySleepers, At
  <1>4. "out" \in Locations /\ TypeOK
    BY DEF Locations, IInv
  <1>5. Goto(t, "out", wake) /\ arg' = [arg EXCEPT ![t] = Null]
    BY <1>1 DEF Return
  <1>6. /\ pc' \in [Threads -> Locations] /\ pc'[t] = "out"
        /\ \A u \in Threads : u # t /\ pc[u] \notin {"full_wait", "empty_wait"}
                                => pc'[u] = pc[u]
        /\ \A u \in Threads : u # t /\ pc'[u] \notin {"full_woken", "empty_woken"}
                                => pc'[u] = pc[u]
        /\ \A u \in Threads : u # t /\ pc'[u] = "full_woken"
                                => pc[u] \in {"full_wait", "full_woken"}
        /\ FullSleepers' = FullSleepers \ {t} /\ FullWoken' = FullWoken \ {t}
        /\ EmptySleepers' = EmptySleepers \ (wake \cup {t})
        /\ EmptyWoken' = (EmptyWoken \ {t}) \cup wake
    <2>1. wake \cap FullSleepers = {} /\ wake \cap EmptySleepers = wake
      BY <1>3 DEF EmptySleepers, FullSleepers, At
    <2>2. FullSleepers \ (wake \cup {t}) = FullSleepers \ {t}
      BY <2>1
    <2> QED
      BY <1>3, <1>4, <1>5, <2>1, <2>2, GotoSets
  <1>7. /\ t \notin FullSleepers /\ t \notin EmptySleepers /\ t \notin EmptyWoken
        /\ t \in FullWoken <=> pc[t] = "full_woken"
    BY DEF FullSleepers, EmptySleepers, EmptyWoken, FullWoken, At
  <1>8. /\ FullSleepers' = FullSleepers /\ EmptySleepers' = EmptySleepers \ wake
        /\ EmptyWoken' = EmptyWoken \cup wake
    BY <1>6, <1>7
  <1>9. /\ Cardinality(FullSleepers') = Cardinality(FullSleepers)
        /\ Cardinality(FullWoken') = IF pc[t] = "full_woken" THEN Cardinality(FullWoken) - 1
                                      ELSE Cardinality(FullWoken)
    <2>1. CASE pc[t] = "full_woken"
      BY <1>6, <1>7, <1>8, <2>1, ThreadRemoved, WaitSets
    <2>2. CASE pc[t] # "full_woken"
      BY <1>6, <1>7, <1>8, <2>2, WaitSets
    <2> QED
      BY <2>1, <2>2
  <1>10. /\ Cardinality(EmptySleepers') + Cardinality(EmptyWoken')
               = Cardinality(EmptySleepers) + Cardinality(EmptyWoken)
         /\ EmptySleepers' # {} => /\ EmptySleepers # {}
                                   /\ Cardinality(EmptyWoken') = Cardinality(EmptyWoken) + 1
    <2>1. CASE wake = {} /\ EmptySleepers = {}
      BY <1>8, <2>1
    <2>2. CASE \E u \in EmptySleepers : wake = {u}
      <3>1. PICK u \in EmptySleepers : wake = {u}
        BY <2>2
      <3>2. u \notin EmptyWoken /\ u \in Threads
        BY DEF EmptySleepers, EmptyWoken, At
      <3>3. /\ Cardinality(EmptySleepers') = Cardinality(EmptySleepers) - 1
            /\ Cardinality(EmptyWoken') = Cardinality(EmptyWoken) + 1
        BY <1>8, <3>1, <3>2, ThreadRemoved, ThreadAdded, WaitSets
      <3> QED
        BY <3>1, <3>3, WaitSets
    <2> QED
      BY <1>2, <2>1, <2>2
  <1>11. /\ in' \in Slots /\ out' \in Slots /\ nelts' \in 0 .. Capacity
         /\ CursorsAgree' /\ nelts' = nelts + 1
    BY PushRing DEF Enqueue, IInv
  <1>12. arg[t] \in Data
    BY DEF IInv, PushersHaveData
  <1>13. TypeOK'
    <2>1. Cardinality(FullWoken') \in Nat
      BY <1>6, WaitSets, ThreadSets
    <2>2. full_waiters' \in Nat
      BY <1>9, <2>1, WaitSets DEF IInv, WaitersCounted
    <2>3. data' \in [Slots -> Data \cup {Null}]
      BY <1>12 DEF Enqueue, IInv, TypeOK
    <2> QED
      BY <1>4, <1>5, <1>6, <1>11, <2>2, <2>3 DEF TypeOK, Enqueue
  <1>14. PushersHaveData'
    BY <1>5, <1>6 DEF IInv, TypeOK, PushersHaveData
  <1>15. WaitersCounted'
    <2>1. empty_waiters' = Cardinality(EmptySleepers') + Cardinality(EmptyWoken')
      BY <1>10 DEF IInv, WaitersCounted, Enqueue
    <2>2. full_waiters' = Cardinality(FullSleepers') + Cardinality(FullWoken')
      BY <1>9, WaitSets DEF IInv, WaitersCounted
    <2> QED
      BY <2>1, <2>2 DEF WaitersCounted
  <1>16. NoLostWakeup'
    <2>1. Cardinality(EmptyWoken) \in Nat /\ Cardinality(FullWoken) \in Nat
      BY WaitSets
    <2>2. EmptySleepers' # {} => nelts' <= Cardinality(EmptyWoken')
      BY <1>10, <1>11, <2>1 DEF IInv, NoLostWakeup, TypeOK
    <2>3. FullSleepers' # {} => Capacity - nelts' <= Cardinality(FullWoken')
      BY <1>8, <1>9, <1>11, <2>1, CapacityAssumption DEF IInv, NoLostWakeup, TypeOK
    <2> QED
      BY <2>2, <2>3 DEF NoLostWakeup
  <1>17. TermLeavesNoSleeper'
    <2>1. At("term_interrupt")' = At("term_interrupt")
      BY <1>6 DEF At
    <2> QED
      BY <1>8, <2>1 DEF IInv, TermLeavesNoSleeper, Enqueue
  <1> QED
    BY <1>11, <1>13, <1>14, <1>15, <1>16, <1>17 DEF IInv

(* An element was taken, and one sleeper in push, if any, was woken for its *)
(* slot.                                                                   *)
LEMMA DequeueInv ==
    ASSUME IInv, NEW t \in Threads, ~queue_empty, Dequeue(t),
           pc[t] \in {"pop", "trypop", "empty_woken"},
           empty_waiters' = IF pc[t] = "empty_woken" THEN empty_waiters - 1 ELSE empty_waiters
    PROVE  IInv'
  <1>1. PICK wake \in SignalSets(full_waiters, FullSleepers) : Return(t, wake)
    BY DEF Dequeue
  <1>2. \/ wake = {} /\ FullSleepers = {}
        \/ \E u \in FullSleepers : wake = {u}
    <2>1. full_waiters = 0 => FullSleepers = {}
      BY WaitSets DEF IInv, WaitersCounted
    <2> QED
      BY <2>1, SignalFacts
  <1>3. wake \in SUBSET FullSleepers /\ wake \in SUBSET Threads /\ t \notin wake
    BY <1>2 DEF FullSleepers, At
  <1>4. "out" \in Locations /\ TypeOK
    BY DEF Locations, IInv
  <1>5. Goto(t, "out", wake) /\ arg' = [arg EXCEPT ![t] = Null]
    BY <1>1 DEF Return
  <1>6. /\ pc' \in [Threads -> Locations] /\ pc'[t] = "out"
        /\ \A u \in Threads : u # t /\ pc[u] \notin {"empty_wait", "full_wait"}
                                => pc'[u] = pc[u]
        /\ \A u \in Threads : u # t /\ pc'[u] \notin {"empty_woken", "full_woken"}
                                => pc'[u] = pc[u]
        /\ \A u \in Threads : u # t /\ pc'[u] = "full_woken"
                                => pc[u] \in {"full_wait", "full_woken"}
        /\ EmptySleepers' = EmptySleepers \ {t} /\ EmptyWoken' = EmptyWoken \ {t}
        /\ FullSleepers' = FullSleepers \ (wake \cup {t})
        /\ FullWoken' = (FullWoken \ {t}) \cup wake
    <2>1. wake \cap EmptySleepers = {} /\ wake \cap FullSleepers = wake
      BY <1>3 DEF FullSleepers, EmptySleepers, At
    <2>2. EmptySleepers \ (wake \cup {t}) = EmptySleepers \ {t}
      BY <2>1
    <2> QED
      BY <1>3, <1>4, <1>5, <2>1, <2>2, GotoSets
  <1>7. /\ t \notin EmptySleepers /\ t \notin FullSleepers /\ t \notin FullWoken
        /\ t \in EmptyWoken <=> pc[t] = "empty_woken"
    BY DEF EmptySleepers, FullSleepers, FullWoken, EmptyWoken, At
  <1>8. /\ EmptySleepers' = EmptySleepers /\ FullSleepers' = FullSleepers \ wake
        /\ FullWoken' = FullWoken \cup wake
    BY <1>6, <1>7
  <1>9. /\ Cardinality(EmptySleepers') = Cardinality(EmptySleepers)
        /\ Cardinality(EmptyWoken') = IF pc[t] = "empty_woken" THEN Cardinality(EmptyWoken) - 1
                                      ELSE Cardinality(EmptyWoken)
    <2>1. CASE pc[t] = "empty_woken"
      BY <1>6, <1>7, <1>8, <2>1, ThreadRemoved, WaitSets
    <2>2. CASE pc[t] # "empty_woken"
      BY <1>6, <1>7, <1>8, <2>2, WaitSets
    <2> QED
      BY <2>1, <2>2
  <1>10. /\ Cardinality(FullSleepers') + Cardinality(FullWoken')
               = Cardinality(FullSleepers) + Cardinality(FullWoken)
         /\ FullSleepers' # {} => /\ FullSleepers # {}
                                   /\ Cardinality(FullWoken') = Cardinality(FullWoken) + 1
    <2>1. CASE wake = {} /\ FullSleepers = {}
      BY <1>8, <2>1
    <2>2. CASE \E u \in FullSleepers : wake = {u}
      <3>1. PICK u \in FullSleepers : wake = {u}
        BY <2>2
      <3>2. u \notin FullWoken /\ u \in Threads
        BY DEF FullSleepers, FullWoken, At
      <3>3. /\ Cardinality(FullSleepers') = Cardinality(FullSleepers) - 1
            /\ Cardinality(FullWoken') = Cardinality(FullWoken) + 1
        BY <1>8, <3>1, <3>2, ThreadRemoved, ThreadAdded, WaitSets
      <3> QED
        BY <3>1, <3>3, WaitSets
    <2> QED
      BY <1>2, <2>1, <2>2
  <1>11. /\ in' \in Slots /\ out' \in Slots /\ nelts' \in 0 .. Capacity
         /\ CursorsAgree' /\ nelts' = nelts - 1
    BY PopRing DEF Dequeue, IInv
  <1>12. got' \in Data \cup {Null}
    BY DEF Dequeue, IInv, TypeOK
  <1>13. TypeOK'
    <2>1. Cardinality(EmptyWoken') \in Nat
      BY <1>6, WaitSets, ThreadSets
    <2>2. empty_waiters' \in Nat
      BY <1>9, <2>1, WaitSets DEF IInv, WaitersCounted
    <2> QED
      BY <1>4, <1>5, <1>6, <1>11, <1>12, <2>2 DEF TypeOK, Dequeue
  <1>14. PushersHaveData'
    BY <1>5, <1>6 DEF IInv, TypeOK, PushersHaveData
  <1>15. WaitersCounted'
    <2>1. full_waiters' = Cardinality(FullSleepers') + Cardinality(FullWoken')
      BY <1>10 DEF IInv, WaitersCounted, Dequeue
    <2>2. empty_waiters' = Cardinality(EmptySleepers') + Cardinality(EmptyWoken')
      BY <1>9, WaitSets DEF IInv, WaitersCounted
    <2> QED
      BY <2>1, <2>2 DEF WaitersCounted
  <1>16. NoLostWakeup'
    <2>1. Cardinality(FullWoken) \in Nat /\ Cardinality(EmptyWoken) \in Nat
      BY WaitSets
    <2>2. FullSleepers' # {} => Capacity - nelts' <= Cardinality(FullWoken')
      BY <1>10, <1>11, <2>1, CapacityAssumption DEF IInv, NoLostWakeup, TypeOK
    <2>3. EmptySleepers' # {} => nelts' <= Cardinality(EmptyWoken')
      BY <1>8, <1>9, <1>11, <2>1, CapacityAssumption DEF IInv, NoLostWakeup, TypeOK
    <2> QED
      BY <2>2, <2>3 DEF NoLostWakeup
  <1>17. TermLeavesNoSleeper'
    <2>1. At("term_interrupt")' = At("term_interrupt")
      BY <1>6 DEF At
    <2> QED
      BY <1>8, <2>1 DEF IInv, TermLeavesNoSleeper, Dequeue
  <1> QED
    BY <1>11, <1>13, <1>14, <1>15, <1>16, <1>17 DEF IInv

(* A thread that was not waiting moves on without signalling anybody, and  *)
(* at most sets the terminated flag.                                       *)
LEMMA QuietMoveInv ==
    ASSUME IInv, NEW t \in Threads, NEW l \in Locations, Goto(t, l, {}),
           UNCHANGED <<ring, waiters, got>>,
           pc[t] \notin {"full_wait", "full_woken", "empty_wait", "empty_woken",
                        "term_interrupt"},
           l \notin {"full_wait", "full_woken", "empty_wait", "empty_woken"},
           \/ terminated' = terminated
           \/ terminated' = TRUE /\ l = "term_interrupt",
           NEW d \in Data \cup {Null},
           arg' = arg \/ arg' = [arg EXCEPT ![t] = d],
           l \in {"push", "trypush"} => d \in Data /\ arg' = [arg EXCEPT ![t] = d]
    PROVE  IInv'
  <1>1. TypeOK
    BY DEF IInv
  <1>2. /\ pc' \in [Threads -> Locations] /\ pc'[t] = l
        /\ \A u \in Threads : u # t => pc'[u] = pc[u]
    BY <1>1 DEF Goto, TypeOK
  <1>3. /\ FullSleepers' = FullSleepers /\ EmptySleepers' = EmptySleepers
        /\ FullWoken' = FullWoken /\ EmptyWoken' = EmptyWoken
    BY <1>2 DEF FullSleepers, EmptySleepers, FullWoken, EmptyWoken, At
  <1>4. TypeOK'
    BY <1>1, <1>2 DEF TypeOK, ring, waiters
  <1>5. CursorsAgree' /\ WaitersCounted' /\ NoLostWakeup'
    BY <1>3 DEF IInv, CursorsAgree, Wrap, WaitersCounted, NoLostWakeup, ring, waiters
  <1>6. PushersHaveData'
    BY <1>1, <1>2 DEF IInv, PushersHaveData, TypeOK
  <1>7. TermLeavesNoSleeper'
    <2>1. At("term_interrupt")' = {} => At("term_interrupt") = {} /\ l # "term_interrupt"
      BY <1>2 DEF At
    <2> QED
      BY <1>3, <2>1 DEF IInv, TermLeavesNoSleeper
  <1> QED
    BY <1>4, <1>5, <1>6, <1>7 DEF IInv

(* A push goes to sleep: there is no free slot, and the flag is not set. *)
LEMMA FullSleepInv ==
    ASSUME IInv, NEW t \in Threads, pc[t] = "push", queue_full, ~terminated,
           full_waiters' = full_waiters + 1, Goto(t, "full_wait", {}),
           UNCHANGED <<ring, empty_waiters, terminated, arg, got>>
    PROVE  IInv'
  <1>1. TypeOK
    BY DEF IInv
  <1>2. /\ pc' \in [Threads -> Locations] /\ pc'[t] = "full_wait"
        /\ \A u \in Threads : u # t => pc'[u] = pc[u]
    BY <1>1 DEF Goto, TypeOK, Locations
  <1>3. /\ FullSleepers' = FullSleepers \cup {t} /\ t \notin FullSleepers
        /\ EmptySleepers' = EmptySleepers
        /\ FullWoken' = FullWoken /\ EmptyWoken' = EmptyWoken
    BY <1>2 DEF FullSleepers, EmptySleepers, FullWoken, EmptyWoken, At
  <1>4. Cardinality(FullSleepers') = Cardinality(FullSleepers) + 1
    BY <1>3, WaitSets, ThreadAdded
  <1>5. TypeOK'
    BY <1>1, <1>2 DEF TypeOK, ring
  <1>6. CursorsAgree' /\ PushersHaveData'
    BY <1>2 DEF IInv, CursorsAgree, Wrap, ring, PushersHaveData
  <1>7. WaitersCounted'
    BY <1>3, <1>4, WaitSets DEF IInv, WaitersCounted
  <1>8. NoLostWakeup'
    <2>1. Cardinality(FullWoken) \in Nat
      BY WaitSets
    <2> QED
      BY <1>1, <1>3, <2>1, CapacityAssumption DEF IInv, NoLostWakeup, queue_full, ring, TypeOK
  <1> QED
    BY <1>5, <1>6, <1>7, <1>8 DEF IInv, TermLeavesNoSleeper

(* A pop goes to sleep: there is no element, and the flag is not set. *)
LEMMA EmptySleepInv ==
    ASSUME IInv, NEW t \in Threads, pc[t] = "pop", queue_empty, ~terminated,
           empty_waiters' = empty_waiters + 1, Goto(t, "empty_wait", {}),
           UNCHANGED <<ring, full_waiters, terminated, arg, got>>
    PROVE  IInv'
  <1>1. TypeOK
    BY DEF IInv
  <1>2. /\ pc' \in [Threads -> Locations] /\ pc'[t] = "empty_wait"
        /\ \A u \in Threads : u # t => pc'[u] = pc[u]
    BY <1>1 DEF Goto, TypeOK, Locations
  <1>3. /\ EmptySleepers' = EmptySleepers \cup {t} /\ t \notin EmptySleepers
        /\ FullSleepers' = FullSleepers
        /\ FullWoken' = FullWoken /\ EmptyWoken' = EmptyWoken
    BY <1>2 DEF FullSleepers, EmptySleepers, FullWoken, EmptyWoken, At
  <1>4. Cardinality(EmptySleepers') = Cardinality(EmptySleepers) + 1
    BY <1>3, WaitSets, ThreadAdded
  <1>5. TypeOK'
    BY <1>1, <1>2 DEF TypeOK, ring
  <1>6. CursorsAgree' /\ PushersHaveData'
    BY <1>2 DEF IInv, CursorsAgree, Wrap, ring, PushersHaveData
  <1>7. WaitersCounted'
    BY <1>3, <1>4, WaitSets DEF IInv, WaitersCounted
  <1>8. NoLostWakeup'
    <2>1. Cardinality(EmptyWoken) \in Nat
      BY WaitSets
    <2> QED
      BY <1>1, <1>3, <2>1, CapacityAssumption DEF IInv, NoLostWakeup, queue_empty, ring, TypeOK
  <1> QED
    BY <1>5, <1>6, <1>7, <1>8 DEF IInv, TermLeavesNoSleeper

(* A woken push finds the queue full again: nobody else is left without a *)
(* wakeup by it.                                                           *)
LEMMA FullWokenInv ==
    ASSUME IInv, NEW t \in Threads, pc[t] = "full_woken", queue_full,
           full_waiters' = full_waiters - 1, Goto(t, "unlocked", {}),
           UNCHANGED <<ring, empty_waiters, terminated, arg, got>>
    PROVE  IInv'
  <1>1. TypeOK
    BY DEF IInv
  <1>2. /\ pc' \in [Threads -> Locations] /\ pc'[t] = "unlocked"
        /\ \A u \in Threads : u # t => pc'[u] = pc[u]
    BY <1>1 DEF Goto, TypeOK, Locations
  <1>3. /\ FullWoken' = FullWoken \ {t} /\ t \in FullWoken
        /\ EmptyWoken' = EmptyWoken
        /\ FullSleepers' = FullSleepers /\ EmptySleepers' = EmptySleepers
    BY <1>2 DEF FullSleepers, EmptySleepers, FullWoken, EmptyWoken, At
  <1>4. /\ Cardinality(FullWoken') = Cardinality(FullWoken) - 1
        /\ Cardinality(FullWoken') \in Nat
    BY <1>3, WaitSets, ThreadRemoved, ThreadSets
  <1>5. WaitersCounted'
    BY <1>3, <1>4, WaitSets DEF IInv, WaitersCounted
  <1>6. full_waiters' \in Nat
    BY <1>3, <1>4, <1>5, WaitSets DEF WaitersCounted
  <1>7. TypeOK'
    BY <1>1, <1>2, <1>6 DEF TypeOK, ring
  <1>8. CursorsAgree' /\ PushersHaveData'
    BY <1>2 DEF IInv, CursorsAgree, Wrap, ring, PushersHaveData
  <1>9. NoLostWakeup'
    BY <1>1, <1>3, <1>4, WaitSets, CapacityAssumption
    DEF IInv, NoLostWakeup, queue_full, ring, TypeOK
  <1>10. TermLeavesNoSleeper'
    <2>1. At("term_interrupt")' = At("term_interrupt")
      BY <1>2 DEF At
    <2> QED
      BY <1>3, <2>1 DEF IInv, TermLeavesNoSleeper
  <1> QED
    BY <1>5, <1>7, <1>8, <1>9, <1>10 DEF IInv

(* A woken pop finds the queue empty again: nobody else is left without a *)
(* wakeup by it.                                                           *)
LEMMA EmptyWokenInv ==
    ASSUME IInv, NEW t \in Threads, pc[t] = "empty_woken", queue_empty,
           empty_waiters' = empty_waiters - 1, Goto(t, "unlocked", {}),
           UNCHANGED <<ring, full_waiters, terminated, arg, got>>
    PROVE  IInv'
  <1>1. TypeOK
    BY DEF IInv
  <1>2. /\ pc' \in [Threads -> Locations] /\ pc'[t] = "unlocked"
        /\ \A u \in Threads : u # t => pc'[u] = pc[u]
    BY <1>1 DEF Goto, TypeOK, Locations
  <1>3. /\ EmptyWoken' = EmptyWoken \ {t} /\ t \in EmptyWoken
        /\ FullWoken' = FullWoken
        /\ FullSleepers' = FullSleepers /\ EmptySleepers' = EmptySleepers
    BY <1>2 DEF FullSleepers, EmptySleepers, FullWoken, EmptyWoken, At
  <1>4. /\ Cardinality(EmptyWoken') = Cardinality(EmptyWoken) - 1
        /\ Cardinality(EmptyWoken') \in Nat
    BY <1>3, WaitSets, ThreadRemoved, ThreadSets
  <1>5. WaitersCounted'
    BY <1>3, <1>4, WaitSets DEF IInv, WaitersCounted
  <1>6. empty_waiters' \in Nat
    BY <1>3, <1>4, <1>5, WaitSets DEF WaitersCounted
  <1>7. TypeOK'
    BY <1>1, <1>2, <1>6 DEF TypeOK, ring
  <1>8. CursorsAgree' /\ PushersHaveData'
    BY <1>2 DEF IInv, CursorsAgree, Wrap, ring, PushersHaveData
  <1>9. NoLostWakeup'
    BY <1>1, <1>3, <1>4, WaitSets, CapacityAssumption
    DEF IInv, NoLostWakeup, queue_empty, ring, TypeOK
  <1>10. TermLeavesNoSleeper'
    <2>1. At("term_interrupt")' = At("term_interrupt")
      BY <1>2 DEF At
    <2> QED
      BY <1>3, <2>1 DEF IInv, TermLeavesNoSleeper
  <1> QED
    BY <1>5, <1>7, <1>8, <1>9, <1>10 DEF IInv

(* The broadcasts move every sleeper to the woken threads. *)
LEMMA InterruptAllInv ==
    ASSUME IInv, NEW t \in Threads, InterruptAll(t)
    PROVE  IInv'
  <1>0. PICK wake : wake = FullSleepers \cup EmptySleepers
    OBVIOUS
  <1>1. TypeOK /\ "out" \in Locations
    BY DEF IInv, Locations
  <1>2. wake \in SUBSET Threads /\ t \notin wake
    BY <1>0 DEF InterruptAll, FullSleepers, EmptySleepers, At
  <1>3. Goto(t, "out", wake) /\ arg' = [arg EXCEPT ![t] = Null]
    BY <1>0 DEF InterruptAll, Return
  <1>4. /\ pc' \in [Threads -> Locations] /\ pc'[t] = "out"
        /\ \A u \in Threads : u # t /\ pc'[u] \notin {"full_woken", "empty_woken"}
                                => pc'[u] = pc[u]
        /\ \A u \in Threads : u # t /\ pc'[u] = "full_woken"
                                => pc[u] \in {"full_wait", "full_woken"}
        /\ FullSleepers' = (FullSleepers \ (wake \cup {t})) \cup {}
        /\ EmptySleepers' = (EmptySleepers \ (wake \cup {t})) \cup {}
        /\ FullWoken' = (FullWoken \ {t}) \cup (wake \cap FullSleepers) \cup {}
        /\ EmptyWoken' = (EmptyWoken \ {t}) \cup (wake \cap EmptySleepers) \cup {}
    BY <1>1, <1>2, <1>3, GotoSets
  <1>5. /\ t \notin FullWoken /\ t \notin EmptyWoken
        /\ FullSleepers \cap FullWoken = {} /\ EmptySleepers \cap EmptyWoken = {}
    BY DEF InterruptAll, FullWoken, EmptyWoken, FullSleepers, EmptySleepers, At
  <1>6. /\ FullSleepers' = {} /\ EmptySleepers' = {}
        /\ FullWoken' = FullSleepers \cup FullWoken
        /\ EmptyWoken' = EmptySleepers \cup EmptyWoken
    BY <1>0, <1>4, <1>5
  <1>7. /\ Cardinality(FullWoken') = Cardinality(FullSleepers) + Cardinality(FullWoken)
        /\ Cardinality(EmptyWoken') = Cardinality(EmptySleepers) + Cardinality(EmptyWoken)
    BY <1>5, <1>6, ThreadsJoined, WaitSets
  <1>8. TypeOK'
    BY <1>1, <1>3, <1>4 DEF TypeOK, InterruptAll, ring, waiters
  <1>9. CursorsAgree'
    BY DEF IInv, CursorsAgree, Wrap, ring, InterruptAll
  <1>10. PushersHaveData'
    BY <1>1, <1>3, <1>4 DEF IInv, PushersHaveData, TypeOK
  <1>11. WaitersCounted'
    BY <1>6, <1>7, WaitSets, FS_EmptySet DEF IInv, WaitersCounted, InterruptAll, waiters
  <1> QED
    BY <1>6, <1>8, <1>9, <1>10, <1>11 DEF IInv, NoLostWakeup, TermLeavesNoSleeper

(* A wait that returns without a signal turns a sleeper into a woken       *)
(* thread, which counts as much.                                           *)
LEMMA SpuriousWakeupInv ==
    ASSUME IInv, NEW t \in Threads, SpuriousWakeup(t)
    PROVE  IInv'
  <1>1. TypeOK
    BY DEF IInv
  <1>2. \/ pc[t] = "full_wait" /\ Goto(t, "full_woken", {})
        \/ pc[t] = "empty_wait" /\ Goto(t, "empty_woken", {})
    BY DEF SpuriousWakeup, FullSleepers, EmptySleepers, At
  <1>3. /\ pc' \in [Threads -> Locations]
        /\ \/ pc[t] = "full_wait" /\ pc'[t] = "full_woken"
           \/ pc[t] = "empty_wait" /\ pc'[t] = "empty_woken"
        /\ \A u \in Threads : u # t => pc'[u] = pc[u]
    BY <1>1, <1>2 DEF Goto, TypeOK, Locations
  <1>4. \/ /\ FullSleepers' = FullSleepers \ {t} /\ FullWoken' = FullWoken \cup {t}
           /\ EmptySleepers' = EmptySleepers /\ EmptyWoken' = EmptyWoken
           /\ t \in FullSleepers /\ t \notin FullWoken
        \/ /\ EmptySleepers' = EmptySleepers \ {t} /\ EmptyWoken' = EmptyWoken \cup {t}
           /\ FullSleepers' = FullSleepers /\ FullWoken' = FullWoken
           /\ t \in EmptySleepers /\ t \notin EmptyWoken
    <2>1. CASE pc[t] = "full_wait" /\ pc'[t] = "full_woken"
      BY <1>3, <2>1 DEF FullSleepers, EmptySleepers, FullWoken, EmptyWoken, At
    <2>2. CASE pc[t] = "empty_wait" /\ pc'[t] = "empty_woken"
      BY <1>3, <2>2 DEF FullSleepers, EmptySleepers, FullWoken, EmptyWoken, At
    <2> QED
      BY <1>3, <2>1, <2>2
  <1>5. /\ Cardinality(FullSleepers') + Cardinality(FullWoken')
              = Cardinality(FullSleepers) + Cardinality(FullWoken)
        /\ Cardinality(EmptySleepers') + Cardinality(EmptyWoken')
              = Cardinality(EmptySleepers) + Cardinality(EmptyWoken)
        /\ Cardinality(FullWoken') >= Cardinality(FullWoken)
        /\ Cardinality(EmptyWoken') >= Cardinality(EmptyWoken)
        /\ Cardinality(FullWoken') \in Nat /\ Cardinality(EmptyWoken') \in Nat
        /\ FullSleepers' \subseteq FullSleepers /\ EmptySleepers' \subseteq EmptySleepers
    <2>1. CASE t \in FullSleepers
      <3>1. /\ Cardinality(FullSleepers \ {t}) = Cardinality(FullSleepers) - 1
            /\ t \notin FullWoken =>
                 Cardinality(FullWoken \cup {t}) = Cardinality(FullWoken) + 1
        BY <2>1, ThreadRemoved, ThreadAdded, WaitSets
      <3>2. t \notin EmptySleepers
        BY <2>1 DEF FullSleepers, EmptySleepers, At
      <3>3. /\ FullSleepers' = FullSleepers \ {t} /\ FullWoken' = FullWoken \cup {t}
            /\ EmptySleepers' = EmptySleepers /\ EmptyWoken' = EmptyWoken
            /\ t \notin FullWoken
        BY <1>4, <3>2
      <3>4. /\ Cardinality(FullSleepers') = Cardinality(FullSleepers) - 1
            /\ Cardinality(FullWoken') = Cardinality(FullWoken) + 1
            /\ Cardinality(EmptySleepers') = Cardinality(EmptySleepers)
            /\ Cardinality(EmptyWoken') = Cardinality(EmptyWoken)
        BY <3>1, <3>3
      <3> QED
        BY <3>3, <3>4, WaitSets
    <2>2. CASE t \in EmptySleepers
      <3>1. /\ Cardinality(EmptySleepers \ {t}) = Cardinality(EmptySleepers) - 1
            /\ t \notin EmptyWoken =>
                 Cardinality(EmptyWoken \cup {t}) = Cardinality(EmptyWoken) + 1
        BY <2>2, ThreadRemoved, ThreadAdded, WaitSets
      <3>2. t \notin FullSleepers
        BY <2>2 DEF FullSleepers, EmptySleepers, At
      <3>3. /\ EmptySleepers' = EmptySleepers \ {t} /\ EmptyWoken' = EmptyWoken \cup {t}
            /\ FullSleepers' = FullSleepers /\ FullWoken' = FullWoken
            /\ t \notin EmptyWoken
        BY <1>4, <3>2
      <3>4. /\ Cardinality(EmptySleepers') = Cardinality(EmptySleepers) - 1
            /\ Cardinality(EmptyWoken') = Cardinality(EmptyWoken) + 1
            /\ Cardinality(FullSleepers') = Cardinality(FullSleepers)
            /\ Cardinality(FullWoken') = Cardinality(FullWoken)
        BY <3>1, <3>3
      <3> QED
        BY <3>3, <3>4, WaitSets
    <2> QED
      BY <1>4, <2>1, <2>2
  <1>6. TypeOK'
    BY <1>1, <1>3 DEF TypeOK, SpuriousWakeup, ring, waiters
  <1>7. CursorsAgree'
    BY DEF IInv, CursorsAgree, Wrap, ring, SpuriousWakeup
  <1>8. PushersHaveData'
    BY <1>1, <1>3 DEF IInv, PushersHaveData, TypeOK, SpuriousWakeup
  <1>9. WaitersCounted'
    BY <1>5 DEF IInv, WaitersCounted, SpuriousWakeup, waiters
  <1>10. NoLostWakeup'
    <2>1. nelts' = nelts /\ nelts \in Nat /\ Capacity - nelts \in Nat
      BY <1>1, CapacityAssumption DEF SpuriousWakeup, ring, TypeOK
    <2> QED
      BY <1>5, <2>1, WaitSets DEF IInv, NoLostWakeup
  <1>11. TermLeavesNoSleeper'
    <2>1. At("term_interrupt")' = At("term_interrupt")
      BY <1>3 DEF At
    <2> QED
      BY <1>5, <2>1 DEF IInv, TermLeavesNoSleeper, SpuriousWakeup
  <1> QED
    BY <1>6, <1>7, <1>8, <1>9, <1>10, <1>11 DEF IInv

(***************************************************************************)
(* The invariant.                                                          *)
(***************************************************************************)

(* A thread inside a call keeps the invariant. *)
LEMMA StepInv ==
    ASSUME IInv, NEW t \in Threads, Step(t)
    PROVE  IInv'
  <1>1. "unlocked" \in Locations /\ "out" \in Locations /\ "term_interrupt" \in Locations
    BY DEF Locations
  <1>2. CASE Push(t)
    <2>1. CASE ~queue_full /\ Enqueue(t) /\ UNCHANGED full_waiters
      BY <1>2, <2>1, EnqueueInv DEF Push
    <2>2. CASE queue_full /\ ~terminated
      BY <1>2, <2>2, FullSleepInv DEF Push
    <2>3. CASE queue_full /\ terminated
      BY <1>1, <1>2, <2>3, QuietMoveInv DEF Push
    <2> QED
      BY <1>2, <2>1, <2>2, <2>3 DEF Push
  <1>3. CASE PushWoken(t)
    <2>1. CASE ~queue_full /\ Enqueue(t)
      BY <1>3, <2>1, EnqueueInv DEF PushWoken
    <2>2. CASE queue_full
      BY <1>3, <2>2, FullWokenInv DEF PushWoken
    <2> QED
      BY <1>3, <2>1, <2>2 DEF PushWoken
  <1>4. CASE TryPush(t)
    <2>1. CASE ~queue_full /\ Enqueue(t)
      BY <1>4, <2>1, EnqueueInv DEF TryPush
    <2>2. CASE queue_full
      BY <1>1, <1>4, <2>2, QuietMoveInv DEF TryPush, Return, waiters
    <2> QED
      BY <1>4, <2>1, <2>2 DEF TryPush
  <1>5. CASE Pop(t)
    <2>1. CASE ~queue_empty /\ Dequeue(t) /\ UNCHANGED empty_waiters
      BY <1>5, <2>1, DequeueInv DEF Pop
    <2>2. CASE queue_empty /\ ~terminated
      BY <1>5, <2>2, EmptySleepInv DEF Pop
    <2>3. CASE queue_empty /\ terminated
      BY <1>1, <1>5, <2>3, QuietMoveInv DEF Pop
    <2> QED
      BY <1>5, <2>1, <2>2, <2>3 DEF Pop
  <1>6. CASE PopWoken(t)
    <2>1. CASE ~queue_empty /\ Dequeue(t)
      BY <1>6, <2>1, DequeueInv DEF PopWoken
    <2>2. CASE queue_empty
      BY <1>6, <2>2, EmptyWokenInv DEF PopWoken
    <2> QED
      BY <1>6, <2>1, <2>2 DEF PopWoken
  <1>7. CASE TryPop(t)
    <2>1. CASE ~queue_empty /\ Dequeue(t)
      BY <1>7, <2>1, DequeueInv DEF TryPop
    <2>2. CASE queue_empty
      BY <1>1, <1>7, <2>2, QuietMoveInv DEF TryPop, Return, waiters
    <2> QED
      BY <1>7, <2>1, <2>2 DEF TryPop
  <1>8. CASE AfterUnlock(t)
    BY <1>1, <1>8, QuietMoveInv DEF AfterUnlock, Return
  <1>9. CASE Term(t)
    BY <1>1, <1>9, QuietMoveInv DEF Term
  <1> QED
    BY <1>2, <1>3, <1>4, <1>5, <1>6, <1>7, <1>8, <1>9, InterruptAllInv DEF Step

(* A call begins with what it was given, or ends at once. *)
LEMMA BeginInv ==
    ASSUME IInv, NEW t \in Threads, NEW call \in Calls, NEW d \in Data, Begin(t, call, d)
    PROVE  IInv'
  <1>1. call \in Locations /\ "out" \in Locations
    BY DEF Locations
  <1>2. CASE terminated /\ call \notin {"interrupt", "term"}
    BY <1>1, <1>2, QuietMoveInv DEF Begin, Return
  <1>3. CASE ~(terminated /\ call \notin {"interrupt", "term"})
    <2>1. /\ Goto(t, call, {}) /\ pc[t] = "out" /\ terminated' = terminated
          /\ UNCHANGED <<ring, waiters, got>>
          /\ arg' = arg \/ arg' = [arg EXCEPT ![t] = d]
          /\ call \in {"push", "trypush"} => arg' = [arg EXCEPT ![t] = d]
      BY <1>3 DEF Begin
    <2>2. call \notin {"full_wait", "full_woken", "empty_wait", "empty_woken"}
      BY DEF Calls
    <2> QED
      BY <1>1, <2>1, <2>2, QuietMoveInv
  <1> QED
    BY <1>2, <1>3

(* The inductive invariant of the queue. *)
THEOREM QueueInvariant == Spec => []IInv
  <1>1. Init => IInv
    <2> SUFFICES ASSUME Init PROVE IInv
      OBVIOUS
    <2>1. TypeOK
      <3>1. pc \in [Threads -> Locations]
        BY DEF Init, Locations
      <3>2. in \in Slots /\ out \in Slots /\ nelts \in 0 .. Capacity
        BY CapacityAssumption DEF Init, Slots
      <3> QED
        BY <3>1, <3>2 DEF Init, TypeOK
    <2>2. CursorsAgree /\ PushersHaveData
      BY CapacityAssumption DEF Init, CursorsAgree, PushersHaveData, Wrap
    <2>3. /\ FullSleepers = {} /\ EmptySleepers = {} /\ FullWoken = {} /\ EmptyWoken = {}
      BY DEF Init, FullSleepers, EmptySleepers, FullWoken, EmptyWoken, At
    <2> QED
      BY <2>1, <2>2, <2>3, FS_EmptySet
      DEF Init, IInv, WaitersCounted, NoLostWakeup, TermLeavesNoSleeper
  <1>2. IInv /\ [Next]_vars => IInv'
    <2> SUFFICES ASSUME IInv, [Next]_vars PROVE IInv'
      OBVIOUS
    <2>1. CASE UNCHANGED vars
      <3>1. TypeOK' /\ CursorsAgree' /\ PushersHaveData'
        BY <2>1 DEF IInv, TypeOK, CursorsAgree, PushersHaveData, Wrap, vars
      <3>2. /\ FullSleepers' = FullSleepers /\ EmptySleepers' = EmptySleepers
            /\ FullWoken' = FullWoken /\ EmptyWoken' = EmptyWoken
            /\ At("term_interrupt")' = At("term_interrupt")
        BY <2>1 DEF FullSleepers, EmptySleepers, FullWoken, EmptyWoken, At, vars
      <3>3. WaitersCounted' /\ NoLostWakeup' /\ TermLeavesNoSleeper'
        BY <2>1, <3>2 DEF IInv, WaitersCounted, NoLostWakeup, TermLeavesNoSleeper, vars
      <3> QED
        BY <3>1, <3>3 DEF IInv
    <2>2. CASE Next
      BY <2>2, BeginInv, StepInv, SpuriousWakeupInv DEF Next
    <2> QED
      BY <2>1, <2>2
  <1> QED
    BY <1>1, <1>2, PTL DEF Spec

(* The ring's cursors and counts stay within bounds. *)
THEOREM QueueTypes == Spec => []TypeOK
  <1>1. IInv => TypeOK
    BY DEF IInv
  <1> QED
    BY <1>1, QueueInvariant, PTL

(* The waiter counts count the waiters. *)
THEOREM QueueWaitersCounted == Spec => []WaitersCounted
  <1>1. IInv => WaitersCounted
    BY DEF IInv
  <1> QED
    BY <1>1, QueueInvariant, PTL

(* No wakeup is lost: elements and free slots that sleepers wait for have  *)
(* woken threads coming for them.                                          *)
THEOREM QueueNoLostWakeup == Spec => []NoLostWakeup
  <1>1. IInv => NoLostWakeup
    BY DEF IInv
  <1> QED
    BY <1>1, QueueInvariant, PTL

(* Nobody sleeps in a terminated queue. *)
THEOREM QueueTermLeavesNoSleeper == Spec => []TermLeavesNoSleeper
  <1>1. IInv => TermLeavesNoSleeper
    BY DEF IInv
  <1> QED
    BY <1>1, QueueInvariant, PTL

(***************************************************************************)
(* The refinement.                                                         *)
(***************************************************************************)

(* The contents are a sequence of nelts elements. *)
ContentsSound ==
    /\ Contents \in Seq(Data \cup {Null}) /\ Len(Contents) = nelts
    /\ \A i \in 1 .. nelts : Contents[i] = data[Wrap(out + i - 1)]

LEMMA ContentsType == TypeOK => ContentsSound
  <1> SUFFICES ASSUME TypeOK PROVE ContentsSound
    OBVIOUS
  <1>1. nelts \in Nat /\ out \in Nat /\ out < Capacity /\ nelts <= Capacity /\ Capacity \in Nat
    BY CapacityAssumption DEF TypeOK, Slots
  <1>2. \A i \in 1 .. nelts : Wrap(out + i - 1) \in Slots
    BY <1>1 DEF Wrap, Slots
  <1>3. \A i \in 1 .. nelts : data[Wrap(out + i - 1)] \in Data \cup {Null}
    BY <1>2 DEF TypeOK
  <1>4. Contents \in [1 .. nelts -> Data \cup {Null}]
    BY <1>3 DEF Contents
  <1>5. Contents \in Seq(Data \cup {Null}) /\ Len(Contents) = nelts
    BY <1>1, <1>4, SeqDef, LenProperties
  <1> QED
    BY <1>4, <1>5 DEF Contents, ContentsSound

(* The same after a step. *)
LEMMA ContentsTypeNext == TypeOK' => ContentsSound'
  BY ContentsType, PTL

(* A push appends its argument to the contents. *)
LEMMA EnqueuePuts ==
    ASSUME IInv, IInv', NEW t \in Threads, ~queue_full, Enqueue(t), arg[t] \in Data
    PROVE  Fifo!Put(arg[t])
  <1>1. TypeOK /\ TypeOK' /\ in = Wrap(out + nelts)
    BY DEF IInv, CursorsAgree
  <1>2. /\ nelts \in Nat /\ nelts < Capacity /\ nelts' = nelts + 1 /\ out' = out
        /\ out \in Nat /\ out < Capacity /\ Capacity \in Nat /\ got' = got
        /\ data' = [data EXCEPT ![in] = arg[t]]
    BY <1>1, CapacityAssumption DEF TypeOK, Slots, queue_full, Enqueue
  <1>3. \A i \in 1 .. nelts : Wrap(out + i - 1) # in /\ Wrap(out + i - 1) \in Slots
    BY <1>1, <1>2 DEF Wrap, Slots
  <1>4. \A i \in 1 .. nelts : data'[Wrap(out + i - 1)] = data[Wrap(out + i - 1)]
    BY <1>1, <1>2, <1>3 DEF TypeOK
  <1>5. data'[Wrap(out + (nelts + 1) - 1)] = arg[t]
    <2>1. Wrap(out + (nelts + 1) - 1) = in
      BY <1>1, <1>2
    <2> QED
      BY <1>1, <1>2, <2>1 DEF TypeOK
  <1>6. /\ Contents' \in Seq(Data \cup {Null}) /\ Len(Contents') = nelts + 1
        /\ \A i \in 1 .. nelts + 1 : Contents'[i] = data'[Wrap(out + i - 1)]
    BY <1>1, <1>2, ContentsTypeNext DEF ContentsSound, Wrap
  <1>7. /\ Contents \in Seq(Data \cup {Null}) /\ Len(Contents) = nelts
        /\ \A i \in 1 .. nelts : Contents[i] = data[Wrap(out + i - 1)]
    BY <1>1, ContentsType DEF ContentsSound
  <1>8. Contents' = Append(Contents, arg[t])
    <2> DEFINE app == Append(Contents, arg[t])
    <2>1. /\ app \in Seq(Data \cup {Null}) /\ Len(app) = nelts + 1
          /\ \A i \in 1 .. nelts : app[i] = Contents[i]
          /\ app[nelts + 1] = arg[t]
      BY <1>7, AppendProperties
    <2> HIDE DEF app
    <2>2. \A i \in 1 .. nelts + 1 : Contents'[i] = app[i]
      <3> TAKE i \in 1 .. nelts + 1
      <3>1. CASE i \in 1 .. nelts
        BY <1>2, <1>4, <1>6, <1>7, <2>1, <3>1
      <3>2. CASE i = nelts + 1
        <4>1. nelts + 1 \in 1 .. nelts + 1
          BY <1>2
        <4>2. Contents'[nelts + 1] = data'[Wrap(out + (nelts + 1) - 1)]
          BY <1>6, <4>1
        <4> QED
          BY <1>5, <2>1, <3>2, <4>2
      <3> QED
        <4>1. i \in 1 .. nelts \/ i = nelts + 1
          BY <1>2
        <4> QED
          BY <3>1, <3>2, <4>1
    <2>3. Contents' = app
      BY <1>2, <1>6, <2>1, <2>2, SeqEqual
    <2> QED
      BY <2>3 DEF app
  <1> QED
    BY <1>2, <1>7, <1>8 DEF Fifo!Put

(* A pop hands out the first element of the contents. *)
LEMMA DequeueTakes ==
    ASSUME IInv, IInv', NEW t \in Threads, ~queue_empty, Dequeue(t)
    PROVE  Fifo!Take
  <1>1. TypeOK /\ TypeOK'
    BY DEF IInv
  <1>2. /\ nelts \in Nat /\ nelts # 0 /\ nelts <= Capacity /\ nelts' = nelts - 1
        /\ out \in Slots /\ out \in Nat /\ out < Capacity /\ Capacity \in Nat
        /\ got' = data[out] /\ data' = data /\ out' = (out + 1) % Capacity
    BY <1>1, CapacityAssumption DEF TypeOK, Slots, queue_empty, Dequeue
  <1>3. out' = Wrap(out + 1)
    BY <1>2, NextSlot
  <1>4. \A i \in 1 .. nelts - 1 : Wrap(out' + i - 1) = Wrap(out + (i + 1) - 1)
    BY <1>2, <1>3 DEF Wrap
  <1>5. /\ Contents' \in Seq(Data \cup {Null}) /\ Len(Contents') = nelts - 1
        /\ \A i \in 1 .. nelts - 1 : Contents'[i] = data[Wrap(out' + i - 1)]
    BY <1>1, <1>2, ContentsTypeNext DEF ContentsSound, Wrap
  <1>6. /\ Contents \in Seq(Data \cup {Null}) /\ Len(Contents) = nelts
        /\ \A i \in 1 .. nelts : Contents[i] = data[Wrap(out + i - 1)]
    BY <1>1, ContentsType DEF ContentsSound
  <1>7. Contents # <<>> /\ Head(Contents) = data[out]
    <2>1. Contents # <<>>
      BY <1>2, <1>6, EmptySeq
    <2>2. Head(Contents) = Contents[1]
      BY <1>6, <2>1
    <2>3. Contents[1] = data[Wrap(out + 1 - 1)]
      BY <1>2, <1>6
    <2>4. Wrap(out + 1 - 1) = out
      BY <1>2 DEF Wrap
    <2> QED
      BY <2>1, <2>2, <2>3, <2>4
  <1>8. Contents' = Tail(Contents)
    <2>1. /\ Tail(Contents) \in Seq(Data \cup {Null}) /\ Len(Tail(Contents)) = nelts - 1
          /\ \A i \in 1 .. nelts - 1 : Tail(Contents)[i] = Contents[i + 1]
      BY <1>6, <1>7, HeadTailProperties
    <2>2. \A i \in 1 .. nelts - 1 : Contents'[i] = Tail(Contents)[i]
      <3> TAKE i \in 1 .. nelts - 1
      <3>1. i + 1 \in 1 .. nelts
        BY <1>2
      <3>2. Contents[i + 1] = data[Wrap(out + (i + 1) - 1)]
        BY <1>6, <3>1
      <3> QED
        BY <1>4, <1>5, <2>1, <3>2
    <2> QED
      BY <1>5, <2>1, <2>2, SeqEqual
  <1> QED
    BY <1>2, <1>7, <1>8 DEF Fifo!Take

(* Every step of the threads is a step of the bounded FIFO, taken where    *)
(* the ring is written or read, or leaves it unchanged.                    *)
THEOREM QueueImplementsFifo == Spec => FifoSpec
  <1>1. Init => Fifo!Init
    <2> SUFFICES ASSUME Init PROVE Fifo!Init
      OBVIOUS
    <2>1. Contents = <<>>
      BY DEF Init, Contents
    <2> QED
      BY <2>1 DEF Init, Fifo!Init
  <1>2. IInv /\ IInv' /\ [Next]_vars => [Fifo!Next]_(Fifo!vars)
    <2> SUFFICES ASSUME IInv, IInv', [Next]_vars PROVE [Fifo!Next]_(Fifo!vars)
      OBVIOUS
    <2>1. ASSUME NEW t \in Threads, ~queue_full, Enqueue(t),
                 pc[t] \in {"push", "trypush", "full_woken"}
          PROVE  Fifo!Next
      <3>1. arg[t] \in Data
        BY <2>1 DEF IInv, PushersHaveData
      <3> QED
        BY <2>1, <3>1, EnqueuePuts DEF Fifo!Next
    <2>2. ASSUME NEW t \in Threads, ~queue_empty, Dequeue(t)
          PROVE  Fifo!Next
      BY <2>2, DequeueTakes DEF Fifo!Next
    <2>3. UNCHANGED <<ring, got>> => UNCHANGED Fifo!vars
      BY DEF ring, Contents, Wrap, Fifo!vars
    <2>4. ASSUME NEW t \in Threads, Step(t)
          PROVE  \/ UNCHANGED <<ring, got>>
                 \/ /\ ~queue_full /\ Enqueue(t)
                    /\ pc[t] \in {"push", "trypush", "full_woken"}
                 \/ ~queue_empty /\ Dequeue(t)
      BY <2>4 DEF Step, Push, PushWoken, TryPush, Pop, PopWoken, TryPop, AfterUnlock,
         InterruptAll, Term
    <2>5. CASE Next
      <3>1. CASE \E t \in Threads : Step(t)
        BY <3>1, <2>1, <2>2, <2>3, <2>4
      <3>2. CASE \E t \in Threads : \/ \E call \in Calls, d \in Data : Begin(t, call, d)
                                   \/ SpuriousWakeup(t)
        BY <3>2, <2>3 DEF Begin, SpuriousWakeup
      <3> QED
        BY <2>5, <3>1, <3>2 DEF Next
    <2>6. CASE UNCHANGED vars
      BY <2>6, <2>3 DEF vars, ring
    <2> QED
      BY <2>5, <2>6
  <1> QED
    BY <1>1, <1>2, QueueInvariant, PTL DEF Spec, FifoSpec, Fifo!Spec
=============================================================================
