------------------------ MODULE RecycledPoolsProofs -------------------------
(***************************************************************************)
(* Proofs about RecycledPools, for any number of pools and of pushing      *)
(* threads: the compare-and-swap list is an atomic stack as long as one    *)
(* thread pops.                                                            *)
(***************************************************************************)
EXTENDS RecycledPools, SequenceFacts, SequenceTheorems, TLAPS

(* Inv holds initially. *)
LEMMA InitInv == Init => Inv
  BY NullAssumption DEF Init, Inv, TypeOK, Linked, OwnedOnce, PushLocal,
     PopLocal, Threads

(* Entering push_pool changes only the thread's own locals. *)
LEMMA PushBeginInv ==
    ASSUME Inv, NEW t \in Threads, NEW p \in Pools, PushBegin(t, p)
    PROVE  Inv'
  <1> USE DEF PushBegin
  <1>1. TypeOK'
    BY DEF Inv, TypeOK
  <1>2. Linked' /\ OwnedOnce'
    BY DEF Inv, Linked, OwnedOnce
  <1>3. PushLocal' /\ PopLocal'
    BY DEF Inv, TypeOK, PushLocal, PopLocal, Threads
  <1> QED
    BY <1>1, <1>2, <1>3 DEF Inv

(* Reading the head writes the next field of a node the pusher owns. *)
LEMMA PushReadInv ==
    ASSUME Inv, NEW t \in Threads, PushRead(t)
    PROVE  Inv'
  <1> USE DEF PushRead
  <1>0. cur[t] \in held[t] /\ cur[t] \in Pools
    BY DEF Inv, TypeOK, PushLocal
  <1>1. TypeOK'
    BY <1>0 DEF Inv, TypeOK
  <1>2. \A i \in 1 .. Len(stack) : stack[i] \in Pools /\ stack[i] # cur[t]
    BY <1>0, LenProperties DEF Inv, TypeOK, OwnedOnce
  <1>3. Linked' /\ OwnedOnce'
    BY <1>0, <1>2 DEF Inv, TypeOK, Linked, OwnedOnce
  <1>4. \A u \in Threads : u # t /\ pc[u] \in {"pushread", "pushcas"} => cur[u] # cur[t]
    BY <1>0 DEF Inv, OwnedOnce, PushLocal
  <1>5. PushLocal'
    BY <1>0, <1>4 DEF Inv, TypeOK, PushLocal
  <1>6. PopLocal'
    BY <1>0, <1>2 DEF Inv, TypeOK, PopLocal, Threads
  <1> QED
    BY <1>1, <1>3, <1>5, <1>6 DEF Inv

(* A successful compare-and-swap of a push links its node on top. *)
LEMMA PushCasInv ==
    ASSUME Inv, NEW t \in Threads, PushCas(t)
    PROVE  Inv'
  <1>0. /\ cur[t] \in held[t] /\ cur[t] \in Pools /\ next[cur[t]] = seen[t]
        /\ stack \in Seq(Pools) /\ Len(stack) \in Nat
    BY LenProperties DEF Inv, TypeOK, PushLocal, PushCas
  <1>1. CASE head # seen[t]
    <2> USE DEF PushCas
    <2>1. TypeOK' /\ Linked' /\ OwnedOnce'
      BY <1>1 DEF Inv, TypeOK, Linked, OwnedOnce
    <2>2. PushLocal' /\ PopLocal'
      BY <1>0, <1>1 DEF Inv, TypeOK, PushLocal, PopLocal, Threads
    <2> QED
      BY <2>1, <2>2 DEF Inv
  <1>2. CASE head = seen[t]
    <2>0. /\ pc[t] = "pushcas" /\ pc' = [pc EXCEPT ![t] = "idle"]
          /\ head' = cur[t] /\ stack' = Append(stack, cur[t])
          /\ held' = [held EXCEPT ![t] = @ \ {cur[t]}]
          /\ next' = next /\ cur' = cur /\ seen' = seen
      BY <1>2 DEF PushCas
    <2>1. /\ stack' \in Seq(Pools) /\ stack' # <<>>
          /\ Len(stack') = Len(stack) + 1
          /\ stack'[Len(stack) + 1] = cur[t]
          /\ \A i \in 1 .. Len(stack) : stack'[i] = stack[i]
      BY <1>0, <2>0, AppendProperties
    <2>2. TypeOK'
      BY <1>0, <2>0, <2>1 DEF Inv, TypeOK
    <2>3. Linked'
      <3>1. PICK n \in Nat : n = Len(stack)
        BY <1>0
      <3>2. head' = stack'[Len(stack')] /\ Len(stack') = n + 1
        BY <2>0, <2>1, <3>1
      <3>3. \A i \in 1 .. n : next'[stack'[i]] = IF i = 1 THEN Null ELSE stack'[i - 1]
        BY <2>0, <2>1, <3>1 DEF Inv, Linked
      <3>4. next'[stack'[n + 1]] = head
        BY <1>0, <1>2, <2>0, <2>1, <3>1
      <3>5. head = IF n + 1 = 1 THEN Null ELSE stack'[n]
        <4>1. CASE n = 0
          <5>1. stack = <<>>
            BY <1>0, <3>1, <4>1, EmptySeq
          <5> QED
            BY <4>1, <5>1 DEF Inv, Linked
        <4>2. CASE n > 0
          BY <1>0, <2>1, <3>1, <4>2, EmptySeq DEF Inv, Linked
        <4> QED
          BY <4>1, <4>2
      <3> QED
        BY <2>1, <3>2, <3>3, <3>4, <3>5 DEF Linked
    <2>4. \A i \in 1 .. Len(stack) : stack[i] # cur[t]
      BY <1>0 DEF Inv, OwnedOnce
    <2>5. \A i, j \in 1 .. Len(stack') : stack'[i] = stack'[j] => i = j
      BY <1>0, <2>1, <2>4 DEF Inv, OwnedOnce
    <2>6. \A u \in Threads : held'[u] \subseteq held[u] /\ cur[t] \notin held'[u]
      BY <1>0, <2>0 DEF Inv, TypeOK, OwnedOnce
    <2>7. \A i \in 1 .. Len(stack'), u \in Threads : stack'[i] \notin held'[u]
      BY <1>0, <2>1, <2>6 DEF Inv, OwnedOnce
    <2>8. \A s, u \in Threads : s # u => held'[s] \cap held'[u] = {}
      BY <2>6 DEF Inv, OwnedOnce
    <2>9. OwnedOnce'
      BY <2>5, <2>7, <2>8 DEF OwnedOnce
    <2>10. PushLocal'
      BY <1>0, <2>0 DEF Inv, TypeOK, PushLocal, OwnedOnce
    <2>11. PopLocal'
      <3>1. \A u \in Pushers : pc'[u] \in {"idle", "pushread", "pushcas"}
        BY <2>0 DEF Inv, TypeOK, PopLocal, Threads
      <3>2. pc'[Listener] \in {"popnext", "popcas"} => pc[Listener] = pc'[Listener]
        BY <2>0 DEF Inv, TypeOK
      <3>3. pc'[Listener] \in {"popnext", "popcas"} =>
               \E i \in 1 .. Len(stack') : stack'[i] = cur'[Listener]
        BY <1>0, <2>0, <2>1, <3>2 DEF Inv, PopLocal
      <3>4. pc[Listener] = "popcas" => seen[Listener] = next[cur[Listener]]
        BY DEF Inv, PopLocal
      <3> QED
        BY <3>1, <3>2, <3>3, <3>4, <2>0 DEF PopLocal
    <2> QED
      BY <2>2, <2>3, <2>9, <2>10, <2>11 DEF Inv
  <1> QED
    BY <1>1, <1>2

(* Reading a non-empty head: the node read is on top of the stack. *)
LEMMA PopReadInv ==
    ASSUME Inv, PopRead
    PROVE  Inv'
  <1> USE DEF PopRead
  <1>1. TypeOK'
    BY DEF Inv, TypeOK, Threads
  <1>2. Linked' /\ OwnedOnce'
    BY DEF Inv, Linked, OwnedOnce
  <1>3. PushLocal'
    BY DEF Inv, TypeOK, PushLocal, Threads
  <1>4. stack # <<>> /\ Len(stack) \in Nat \ {0} /\ stack[Len(stack)] = head
    BY EmptySeq DEF Inv, TypeOK, Linked
  <1>5. PopLocal'
    BY <1>4, ListenerAssumption DEF Inv, TypeOK, PopLocal, Threads
  <1> QED
    BY <1>1, <1>2, <1>3, <1>5 DEF Inv

(* A pool created while the list was empty is owned by the listener. *)
LEMMA PopEmptyInv ==
    ASSUME Inv, NEW p \in Pools, PopEmpty(p)
    PROVE  Inv'
  <1> USE DEF PopEmpty
  <1>1. TypeOK'
    BY DEF Inv, TypeOK, Threads
  <1>2. stack = <<>> /\ Len(stack) = 0
    <2>1. stack # <<>> => stack[Len(stack)] \in Pools
      BY EmptySeq, LenProperties DEF Inv, TypeOK
    <2> QED
      BY <2>1, NullAssumption DEF Inv, Linked
  <1>3. Linked'
    BY DEF Inv, Linked
  <1>4. OwnedOnce'
    BY <1>2 DEF Inv, TypeOK, OwnedOnce, Threads
  <1>5. PushLocal' /\ PopLocal'
    BY DEF Inv, TypeOK, PushLocal, PopLocal, Threads
  <1> QED
    BY <1>1, <1>3, <1>4, <1>5 DEF Inv

(* Reading first_pool->next: the node is in the list, hence intact. *)
LEMMA PopNextInv ==
    ASSUME Inv, PopNext
    PROVE  Inv'
  <1> USE DEF PopNext
  <1>1. cur[Listener] \in Pools
    BY LenProperties DEF Inv, TypeOK, PopLocal
  <1>2. TypeOK'
    BY <1>1 DEF Inv, TypeOK, Threads
  <1>3. Linked' /\ OwnedOnce'
    BY DEF Inv, Linked, OwnedOnce
  <1>4. PushLocal'
    BY DEF Inv, TypeOK, PushLocal, Threads
  <1>5. PopLocal'
    BY ListenerAssumption DEF Inv, TypeOK, PopLocal, Threads
  <1> QED
    BY <1>2, <1>3, <1>4, <1>5 DEF Inv

(* What a successful compare-and-swap of a pop takes off is the top. *)
LEMMA PopTakesTop ==
    ASSUME Inv, PopCas, head = cur[Listener]
    PROVE  /\ stack # <<>>
           /\ cur[Listener] \in Pools
           /\ cur[Listener] = stack[Len(stack)]
           /\ seen[Listener] = IF Len(stack) = 1 THEN Null ELSE stack[Len(stack) - 1]
  <1>1. PICK i \in 1 .. Len(stack) : stack[i] = cur[Listener]
    BY DEF Inv, PopLocal, PopCas
  <1>2. stack # <<>> /\ cur[Listener] \in Pools
    BY <1>1, LenProperties, EmptySeq DEF Inv, TypeOK
  <1>3. PICK n \in Nat : n = Len(stack) /\ n > 0
    BY <1>2, EmptySeq, LenProperties DEF Inv, TypeOK
  <1>4. cur[Listener] = stack[Len(stack)]
    BY <1>2 DEF Inv, Linked
  <1>5. seen[Listener] = next[stack[Len(stack)]]
    BY <1>4 DEF Inv, PopLocal, PopCas
  <1>6. next[stack[n]] = IF n = 1 THEN Null ELSE stack[n - 1]
    BY <1>3 DEF Inv, Linked
  <1> QED
    BY <1>2, <1>3, <1>4, <1>5, <1>6

(* The compare-and-swap of a pop. *)
LEMMA PopCasInv ==
    ASSUME Inv, PopCas
    PROVE  Inv'
  <1> USE DEF PopCas
  <1>1. CASE head # cur[Listener]
    <2>1. TypeOK' /\ Linked' /\ OwnedOnce'
      BY <1>1 DEF Inv, TypeOK, Linked, OwnedOnce, Threads
    <2>2. PushLocal' /\ PopLocal'
      BY <1>1, ListenerAssumption DEF Inv, TypeOK, PushLocal, PopLocal, Threads
    <2> QED
      BY <2>1, <2>2 DEF Inv
  <1>2. CASE head = cur[Listener]
    <2>1. /\ stack # <<>> /\ stack \in Seq(Pools)
          /\ cur[Listener] \in Pools /\ cur[Listener] = stack[Len(stack)]
          /\ seen[Listener] = IF Len(stack) = 1 THEN Null ELSE stack[Len(stack) - 1]
      BY <1>2, PopTakesTop DEF Inv, TypeOK
    <2>2. /\ stack' \in Seq(Pools) /\ Len(stack) \in Nat \ {0}
          /\ Len(stack') = Len(stack) - 1
          /\ \A i \in 1 .. Len(stack') : stack'[i] = stack[i]
          /\ stack' = <<>> <=> Len(stack) = 1
      BY <1>2, <2>1, FrontFacts
    <2>3. TypeOK'
      BY <1>2, <2>1, <2>2 DEF Inv, TypeOK, Threads
    <2>4. Linked'
      BY <1>2, <2>1, <2>2 DEF Inv, Linked
    <2>5. \A i \in 1 .. Len(stack') : stack'[i] # cur[Listener]
      BY <2>1, <2>2 DEF Inv, OwnedOnce
    <2>6. \A u \in Threads : held'[u] \subseteq held[u] \cup {cur[Listener]}
      BY <1>2 DEF Inv, TypeOK
    <2>7. \A i, j \in 1 .. Len(stack') : stack'[i] = stack'[j] => i = j
      BY <2>2 DEF Inv, OwnedOnce
    <2>8. \A i \in 1 .. Len(stack'), u \in Threads : stack'[i] \notin held'[u]
      BY <2>2, <2>5, <2>6 DEF Inv, OwnedOnce
    <2>9. \A u \in Threads : cur[Listener] \notin held[u]
      BY <2>1, <2>2 DEF Inv, OwnedOnce
    <2>10. \A s, u \in Threads : s # u => held'[s] \cap held'[u] = {}
      BY <1>2, <2>9 DEF Inv, TypeOK, OwnedOnce, Threads
    <2>11. OwnedOnce'
      BY <2>7, <2>8, <2>10 DEF OwnedOnce
    <2>12. PushLocal' /\ PopLocal'
      BY <1>2, ListenerAssumption DEF Inv, TypeOK, PushLocal, PopLocal, Threads
    <2> QED
      BY <2>3, <2>4, <2>11, <2>12 DEF Inv
  <1> QED
    BY <1>1, <1>2

(* A pool changes hands only while it is not being pushed. *)
LEMMA HandOverInv ==
    ASSUME Inv, NEW s \in Threads, NEW t \in Threads, NEW p \in Pools,
           HandOver(s, t, p)
    PROVE  Inv'
  <1> USE DEF HandOver
  <1>1. TypeOK'
    BY DEF Inv, TypeOK
  <1>2. Linked'
    BY DEF Inv, Linked
  <1>3. \A u \in Threads : held'[u] \subseteq held[u] \cup {p}
    BY DEF Inv, TypeOK
  <1>4. \A i \in 1 .. Len(stack) : stack[i] # p
    BY DEF Inv, OwnedOnce
  <1>5. \A u \in Threads : u # t => p \notin held'[u]
    BY DEF Inv, TypeOK, OwnedOnce
  <1>6. OwnedOnce'
    BY <1>3, <1>4, <1>5 DEF Inv, TypeOK, OwnedOnce
  <1>7. \A u \in Threads : pc[u] \in {"pushread", "pushcas"} => cur[u] # p
    BY DEF Inv, OwnedOnce, PushLocal
  <1>8. PushLocal' /\ PopLocal'
    BY <1>7 DEF Inv, TypeOK, PushLocal, PopLocal
  <1> QED
    BY <1>1, <1>2, <1>6, <1>8 DEF Inv

(* Scribbling over a pool in use harms no node of the list. *)
LEMMA UsePoolInv ==
    ASSUME Inv, NEW t \in Threads, NEW p \in Pools,
           NEW garbage \in Pools \cup {Null}, UsePool(t, p, garbage)
    PROVE  Inv'
  <1> USE DEF UsePool
  <1>1. TypeOK'
    BY DEF Inv, TypeOK
  <1>2. \A i \in 1 .. Len(stack) : stack[i] # p /\ stack[i] \in Pools
    BY LenProperties DEF Inv, TypeOK, OwnedOnce
  <1>3. Linked' /\ OwnedOnce'
    BY <1>2 DEF Inv, TypeOK, Linked, OwnedOnce
  <1>4. \A u \in Threads : pc[u] \in {"pushread", "pushcas"} => cur[u] # p
    BY DEF Inv, OwnedOnce, PushLocal
  <1>5. PushLocal'
    BY <1>4 DEF Inv, TypeOK, PushLocal
  <1>6. PopLocal'
    BY <1>2 DEF Inv, TypeOK, PopLocal
  <1> QED
    BY <1>1, <1>3, <1>5, <1>6 DEF Inv

(* The invariant of the list: it is linked as its history says, and every  *)
(* pool has one owner, whatever pushes interleave with the listener's pop. *)
THEOREM PoolsSafe == Spec => []Inv
  <1>1. Inv /\ [Next]_vars => Inv'
    <2> SUFFICES ASSUME Inv, [Next]_vars PROVE Inv'
      OBVIOUS
    <2>1. CASE UNCHANGED vars
      BY <2>1 DEF Inv, TypeOK, Linked, OwnedOnce, PushLocal, PopLocal, vars
    <2>2. CASE Next
      BY <2>2, PushBeginInv, PushReadInv, PushCasInv, PopReadInv, PopEmptyInv,
         PopNextInv, PopCasInv, HandOverInv, UsePoolInv DEF Next
    <2> QED
      BY <2>1, <2>2
  <1> QED
    BY <1>1, InitInv, PTL DEF Spec

(* The promises users of the list rely on. *)
THEOREM PoolsOwnedOnce == Spec => []OwnedOnce
  <1>1. Inv => OwnedOnce
    BY DEF Inv
  <1> QED
    BY <1>1, PoolsSafe, PTL

(* head and the next fields spell out the list: no push is lost, and       *)
(* zevent_pop_pool follows no node that a pool's new owner has overwritten.*)
THEOREM PoolsLinked == Spec => []Linked
  <1>1. Inv => Linked
    BY DEF Inv
  <1> QED
    BY <1>1, PoolsSafe, PTL

(* What the listener read of the list stays true until it is used: only    *)
(* the listener pops.                                                      *)
THEOREM PoolsPopLocal == Spec => []PopLocal
  <1>1. Inv => PopLocal
    BY DEF Inv
  <1> QED
    BY <1>1, PoolsSafe, PTL

(* Every step of the compare-and-swap list is a step of the atomic stack,  *)
(* taken where its compare-and-swap succeeds, or leaves it unchanged.      *)
THEOREM PoolsImplementStack == Spec => ImplementsStack
  <1>1. Init => Abstract!Init
    BY DEF Init, Abstract!Init, Threads, Abstract!Threads
  <1>2. Inv /\ [Next]_vars => [Abstract!Next]_<<stack, held>>
    <2> SUFFICES ASSUME Inv, Next PROVE [Abstract!Next]_<<stack, held>>
      BY DEF vars
    <2> USE DEF Threads, Abstract!Threads
    <2>1. ASSUME NEW t \in Threads, PushCas(t) PROVE [Abstract!Next]_<<stack, held>>
      <3>1. cur[t] \in held[t] /\ cur[t] \in Pools
        BY <2>1 DEF Inv, TypeOK, PushLocal, PushCas
      <3>2. Abstract!Push(t, cur[t]) \/ UNCHANGED <<stack, held>>
        BY <2>1, <3>1 DEF PushCas, Abstract!Push
      <3> QED
        BY <3>1, <3>2 DEF Abstract!Next
    <2>2. CASE PopCas
      BY <2>2, PopTakesTop DEF PopCas, Abstract!Pop, Abstract!Next
    <2>3. ASSUME NEW p \in Pools, PopEmpty(p) PROVE [Abstract!Next]_<<stack, held>>
      <3>1. stack # <<>> => stack[Len(stack)] \in Pools
        BY EmptySeq, LenProperties DEF Inv, TypeOK
      <3>2. stack = <<>>
        BY <2>3, <3>1, NullAssumption DEF Inv, Linked, PopEmpty
      <3> QED
        BY <2>3, <3>2 DEF PopEmpty, Abstract!Create, Abstract!Next
    <2>4. ASSUME NEW s \in Threads, NEW t \in Threads, NEW p \in Pools, HandOver(s, t, p)
          PROVE [Abstract!Next]_<<stack, held>>
      BY <2>4 DEF HandOver, Abstract!HandOver, Abstract!Next
    <2> QED
      BY <2>1, <2>2, <2>3, <2>4
      DEF Next, PushBegin, PushRead, PopRead, PopNext, UsePool
  <1> QED
    BY <1>1, <1>2, PoolsSafe, PTL DEF Spec, ImplementsStack, Abstract!Spec
=============================================================================
