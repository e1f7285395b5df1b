--------------------------- MODULE ConnPoolProofs ---------------------------
(***************************************************************************)
(* Proofs about the resource list and the connection pool around it, for   *)
(* every number of threads and resources, every limit and any length of    *)
(* the clock.  The lemmas down to ListKept are about reslist.c; the        *)
(* theorems are about the pool, in whose specification the list runs.      *)
(***************************************************************************)
EXTENDS ConnPool, SequenceFacts, FiniteSetTheorems

(* Sets of threads can be counted. *)
LEMMA ThreadSet ==
    ASSUME NEW S \in SUBSET Threads
    PROVE  /\ IsFiniteSet(S) /\ Cardinality(S) \in Nat
           /\ \A t \in Threads :
                /\ t \notin S => Cardinality(S \cup {t}) = Cardinality(S) + 1
                /\ t \in S => /\ Cardinality(S) >= 1
                              /\ Cardinality(S \ {t}) = Cardinality(S) - 1
           /\ \A T \in SUBSET Threads : S \subseteq T => Cardinality(S) <= Cardinality(T)
  <1>1. \A T \in SUBSET Threads : IsFiniteSet(T) /\ Cardinality(T) \in Nat
    BY ThreadsAssumption, FS_Subset, FS_CardinalityType
  <1>2. \A t \in Threads : t \notin S => Cardinality(S \cup {t}) = Cardinality(S) + 1
    BY <1>1, FS_AddElement
  <1>3. ASSUME NEW t \in S
        PROVE  Cardinality(S) >= 1 /\ Cardinality(S \ {t}) = Cardinality(S) - 1
    <2>1. Cardinality(S \ {t}) = Cardinality(S) - 1
      BY <1>1, FS_RemoveElement
    <2>2. Cardinality(S \ {t}) \in Nat /\ Cardinality(S) \in Nat
      BY <1>1
    <2> QED
      BY <2>1, <2>2
  <1>4. \A T \in SUBSET Threads : S \subseteq T => Cardinality(S) <= Cardinality(T)
    BY <1>1, FS_Subset
  <1> QED
    BY <1>1, <1>2, <1>3, <1>4

(* The ring is a sequence of entries, and its length a number. *)
LEMMA RingFacts ==
    ASSUME TypeOK
    PROVE  /\ Len(avail) \in Nat
           /\ \A i \in 1 .. Len(avail) : /\ avail[i] \in Entries
                                         /\ avail[i].res \in Resources
                                         /\ avail[i].freed \in Nat
           /\ avail = <<>> <=> Len(avail) = 0
           /\ Idle = {avail[i].res : i \in 1 .. Len(avail)}
  <1>1. avail \in Seq(Entries)
    BY DEF TypeOK
  <1>2. Len(avail) \in Nat /\ (avail = <<>> <=> Len(avail) = 0)
    BY <1>1, LenProperties, EmptySeq
  <1>3. \A i \in 1 .. Len(avail) : avail[i] \in Entries
    BY <1>1, LenProperties
  <1>4. \A e \in Entries : e.res \in Resources /\ e.freed \in Nat
    BY LimitsAssumption DEF Entries
  <1>5. Idle = {avail[i].res : i \in 1 .. Len(avail)}
    BY DEF Idle, Range0
  <1> QED
    BY <1>2, <1>3, <1>4, <1>5

(* Whoever is inside a call, or has a resource, uses a list that exists. *)
LEMMA CallersHaveList ==
    ASSUME ListInv, NEW t \in Threads, pc[t] # "out" \/ held[t] # None
    PROVE  alive
  <1>1. CASE pc[t] # "out"
    BY <1>1 DEF ListInv, Dormant
  <1>2. CASE held[t] # None
    <2>1. Cardinality(Holders) >= 1 /\ Cardinality(Holders) \in Nat
      BY <1>2, ThreadSet DEF Holders
    <2>2. Len(avail) \in Nat
      BY RingFacts DEF ListInv
    <2>3. ntotal # 0
      BY <2>1, <2>2 DEF ListInv, Accounting
    <2> QED
      BY <2>3 DEF ListInv, Accounting
  <1> QED
    BY <1>1, <1>2

(* The callers that have a resource, after one of them got or lost one. *)
LEMMA HoldersStep ==
    ASSUME TypeOK, NEW t \in Threads, NEW r \in Resources \cup {None},
           held' = [held EXCEPT ![t] = r]
    PROVE  /\ held' \in [Threads -> Resources \cup {None}]
           /\ Holders' = IF r = None THEN Holders \ {t} ELSE Holders \cup {t}
           /\ Cardinality(Holders) \in Nat
           /\ r # None /\ held[t] = None => Cardinality(Holders') = Cardinality(Holders) + 1
           /\ r = None /\ held[t] # None =>
                /\ Cardinality(Holders) >= 1
                /\ Cardinality(Holders') = Cardinality(Holders) - 1
  <1>1. held \in [Threads -> Resources \cup {None}]
    BY DEF TypeOK
  <1>2. Holders' = IF r = None THEN Holders \ {t} ELSE Holders \cup {t}
    BY <1>1 DEF Holders
  <1>3. Holders \in SUBSET Threads /\ (t \in Holders <=> held[t] # None)
    BY DEF Holders
  <1> QED
    BY <1>1, <1>2, <1>3, ThreadSet

(* Of the ring are left the m entries after the first k. *)
Cut(k, m) ==
    /\ k + m <= Len(avail)
    /\ avail' \in Seq(Entries)
    /\ Len(avail') = m
    /\ \A i \in 1 .. m : avail'[i] = avail[k + i]

(* A ring cut at either end keeps its order and gets no new resources. *)
LEMMA CutKeeps ==
    ASSUME TypeOK, OwnedOnce, AvailOrdered, NEW k \in Nat, NEW m \in Nat,
           Cut(k, m), now' = now
    PROVE  /\ AvailOrdered'
           /\ \A i, j \in 1 .. m : i # j => avail'[i].res # avail'[j].res
           /\ Idle' = {avail[k + i].res : i \in 1 .. m}
           /\ Idle' \subseteq Idle
  <1> USE DEF Cut
  <1>1. Len(avail) \in Nat
    BY RingFacts
  <1>2. \A i \in 1 .. m : k + i \in 1 .. Len(avail)
    BY <1>1
  <1>3. \A i, j \in 1 .. m : /\ i # j => k + i # k + j
                             /\ i < j => k + i < k + j
    OBVIOUS
  <1>4. AvailOrdered'
    <2>1. ASSUME NEW i \in 1 .. m, NEW j \in 1 .. m, i < j
          PROVE  avail'[j].freed <= avail'[i].freed
      <3>1. avail[k + j].freed <= avail[k + i].freed
        BY <1>2, <1>3, <2>1 DEF AvailOrdered
      <3> QED
        BY <3>1
    <2>2. ASSUME NEW i \in 1 .. m PROVE avail'[i].freed <= now'
      BY <1>2 DEF AvailOrdered
    <2> QED
      BY <2>1, <2>2 DEF AvailOrdered
  <1>5. ASSUME NEW i \in 1 .. m, NEW j \in 1 .. m, i # j
        PROVE  avail'[i].res # avail'[j].res
    <2>1. avail[k + i].res # avail[k + j].res
      BY <1>2, <1>3, <1>5 DEF OwnedOnce
    <2> QED
      BY <2>1
  <1>6. Idle' = {avail[k + i].res : i \in 1 .. m}
    <2>1. Idle' = {avail'[i].res : i \in 1 .. m}
      BY DEF Idle, Range0
    <2> QED
      BY <2>1, ZenonT(30)
  <1>7. Idle' \subseteq Idle
    <2>1. Idle = {avail[i].res : i \in 1 .. Len(avail)}
      BY RingFacts
    <2>2. ASSUME NEW i \in 1 .. m PROVE avail[k + i].res \in Idle
      BY <1>2, <2>1
    <2> QED
      BY <1>6, <2>2
  <1> QED
    BY <1>4, <1>5, <1>6, <1>7

(***************************************************************************)
(* Signals.                                                                *)
(***************************************************************************)

Places == {"out", "wait", "timed_wait", "woken", "late", "time_up", "maint"}

(* Where the threads are after t went to l and the threads in S were       *)
(* signalled.                                                              *)
LEMMA GotoFacts ==
    ASSUME TypeOK, NEW t \in Threads, NEW l, NEW S \in SUBSET (Sleepers \cup At("late")),
           l \in {"out", "wait", "timed_wait", "maint"},
           t \notin Sleepers \cup At("late"), Goto(t, l, S)
    PROVE  /\ pc' \in [Threads -> Places]
           /\ dropped' \in BOOLEAN
           /\ dropped => dropped'
           /\ Woken' = (Woken \ {t}) \cup (S \cap Sleepers)
           /\ l \in {"out", "maint"} => Sleepers' = Sleepers \ S
           /\ \A u \in Threads : pc'[u] # "out" => u = t \/ pc[u] # "out"
  <1> USE DEF Places
  <1>1. pc \in [Threads -> Places] /\ dropped \in BOOLEAN
    BY DEF TypeOK
  <1>2. \A u \in S : u \in Threads /\ u # t /\ pc[u] \in {"wait", "timed_wait", "late"}
    BY DEF Sleepers, At
  <1>3. pc' = [u \in Threads |->
                IF u = t THEN l
                ELSE IF u \in S
                     THEN IF pc[u] = "late" THEN "time_up" ELSE "woken"
                     ELSE pc[u]]
    BY DEF Goto
  <1>4. pc' \in [Threads -> Places]
    BY <1>1, <1>3
  <1>5. dropped' \in BOOLEAN /\ (dropped => dropped')
    BY <1>1 DEF Goto
  <1>6. ASSUME NEW u \in Threads
        PROVE  /\ pc'[u] = "woken" <=> /\ u # t
                                          /\ \/ u \in S /\ pc[u] # "late"
                                             \/ u \notin S /\ pc[u] = "woken"
               /\ l \in {"out", "maint"} =>
                    (pc'[u] \in {"wait", "timed_wait"} <=> (u \notin S /\ pc[u] \in {"wait", "timed_wait"}))
               /\ pc'[u] # "out" => u = t \/ pc[u] # "out"
    <2>1. pc'[u] = IF u = t THEN l
                   ELSE IF u \in S
                        THEN IF pc[u] = "late" THEN "time_up" ELSE "woken"
                        ELSE pc[u]
      BY <1>3
    <2>2. u = t => pc[u] \notin {"wait", "timed_wait", "late"}
      BY DEF Sleepers, At
    <2> QED
      BY <1>2, <2>1, <2>2
  <1>7. Woken' = (Woken \ {t}) \cup (S \cap Sleepers)
    BY <1>2, <1>6 DEF Woken, Sleepers, At
  <1>8. l \in {"out", "maint"} => Sleepers' = Sleepers \ S
    BY <1>6 DEF Sleepers, At
  <1> QED
    BY <1>4, <1>5, <1>6, <1>7, <1>8

(* One signal that is not wasted turns a sleeper into a woken thread, if   *)
(* anybody is left asleep.                                                 *)
LEMMA SignalWakes ==
    ASSUME TypeOK, NEW t \in Threads, NEW l \in {"out", "maint"}, NEW S \in SignalSets(1),
           pc[t] = "out", Goto(t, l, S), ~dropped', Sleepers' # {}
    PROVE  ~dropped /\ Sleepers # {} /\ Cardinality(Woken') = Cardinality(Woken) + 1
  <1>1. /\ S \in SUBSET (Sleepers \cup At("late"))
        /\ Cardinality(S) = 1 \/ Sleepers \subseteq S
    BY DEF SignalSets
  <1>2. t \notin Sleepers \cup At("late") /\ t \notin Woken
    BY DEF Sleepers, Woken, At
  <1>3. /\ dropped => dropped'
        /\ Woken' = (Woken \ {t}) \cup (S \cap Sleepers)
        /\ Sleepers' = Sleepers \ S
    BY <1>1, <1>2, GotoFacts
  <1>4. Cardinality(S) = 1 /\ ~(Sleepers \subseteq S)
    BY <1>1, <1>3
  <1>5. S \cap At("late") = {}
    BY <1>4 DEF Goto
  <1>6. S \in SUBSET Threads /\ IsFiniteSet(S)
    <2>1. S \in SUBSET Threads
      BY <1>1 DEF Sleepers, At
    <2> QED
      BY <2>1, ThreadSet
  <1>7. PICK u : S = {u}
    BY <1>4, <1>6, FS_Singleton
  <1>8. u \in Threads /\ u \in Sleepers /\ u \notin Woken
    BY <1>1, <1>5, <1>7 DEF Sleepers, Woken, At
  <1>9. Woken' = Woken \cup {u}
    BY <1>2, <1>3, <1>7, <1>8
  <1>10. Woken \in SUBSET Threads
    BY DEF Woken, At
  <1> QED
    BY <1>3, <1>4, <1>8, <1>9, <1>10, ThreadSet

(***************************************************************************)
(* The ring.                                                               *)
(***************************************************************************)

(* The loop of reslist_acquire that drops what is too old ends within the  *)
(* ring.                                                                   *)
LEMMA StaleBound ==
    ASSUME TypeOK
    PROVE  Stale \in 0 .. Len(avail)
  <1>1. Len(avail) \in Nat
    BY RingFacts
  <1>2. PICK T : T = {n \in 0 .. Len(avail) : n = Len(avail) \/ ~Old(avail[n + 1])}
    OBVIOUS
  <1>3. T \in SUBSET Nat /\ Len(avail) \in T
    BY <1>1, <1>2
  <1>4. PICK x \in T : \A y \in T : x <= y
    BY <1>3, LeastNumber
  <1>5. x \in 0 .. Len(avail) /\ (x = Len(avail) \/ ~Old(avail[x + 1]))
    BY <1>2, <1>4
  <1>6. ASSUME NEW i \in 1 .. x PROVE Old(avail[i])
    <2>1. i - 1 \in 0 .. Len(avail) /\ i - 1 # Len(avail) /\ i - 1 + 1 = i /\ ~(x <= i - 1)
      BY <1>1, <1>5
    <2>2. i - 1 \notin T
      BY <1>4, <2>1
    <2> QED
      BY <1>2, <2>1, <2>2
  <1>7. \E n \in 0 .. Len(avail) : /\ \A i \in 1 .. n : Old(avail[i])
                                   /\ n = Len(avail) \/ ~Old(avail[n + 1])
    BY <1>5, <1>6
  <1> QED
    BY <1>1, <1>7 DEF Stale

(* reslist_maint leaves smax resources idle. *)
LEMMA SurplusBound ==
    ASSUME TypeOK
    PROVE  Surplus \in 0 .. Len(avail)
  <1>1. Len(avail) \in Nat /\ Smax \in Nat
    BY RingFacts, LimitsAssumption
  <1>2. CASE Len(avail) <= Smax
    BY <1>1, <1>2 DEF Surplus
  <1>3. CASE ~(Len(avail) <= Smax)
    <2>1. PICK d \in Nat : d = Len(avail) - Smax
      BY <1>1, <1>3
    <2>2. PICK T : T = {n \in 0 .. d : n = d \/ ~Old(avail[Len(avail) - n])}
      OBVIOUS
    <2>3. T \in SUBSET Nat /\ d \in T
      BY <2>1, <2>2
    <2>4. PICK x \in T : \A y \in T : x <= y
      BY <2>3, LeastNumber
    <2>5. x \in 0 .. d /\ (x = d \/ ~Old(avail[Len(avail) - x]))
      BY <2>2, <2>4
    <2>6. ASSUME NEW i \in 1 .. x PROVE Old(avail[Len(avail) + 1 - i])
      <3>1. /\ i - 1 \in 0 .. d /\ i - 1 # d /\ ~(x <= i - 1)
            /\ Len(avail) - (i - 1) = Len(avail) + 1 - i
        BY <1>1, <2>1, <2>5
      <3>2. i - 1 \notin T
        BY <2>4, <3>1
      <3> QED
        BY <2>2, <3>1, <3>2
    <2>7. \E n \in 0 .. Len(avail) - Smax :
             /\ \A i \in 1 .. n : Old(avail[Len(avail) + 1 - i])
             /\ n = Len(avail) - Smax \/ ~Old(avail[Len(avail) - n])
      BY <2>1, <2>5, <2>6
    <2>8. Surplus \in 0 .. Len(avail) - Smax
      BY <1>3, <2>7 DEF Surplus
    <2> QED
      BY <1>1, <2>8
  <1> QED
    BY <1>2, <1>3

(* What is left of the ring when its first n resources are gone. *)
LEMMA DropFacts ==
    ASSUME TypeOK, NEW n \in 0 .. Len(avail)
    PROVE  /\ Drop(n) \in Seq(Entries)
           /\ Len(Drop(n)) = Len(avail) - n
           /\ \A i \in 1 .. Len(avail) - n : Drop(n)[i] = avail[n + i]
           /\ Drop(n) = <<>> <=> n = Len(avail)
  <1>1. Len(avail) \in Nat /\ avail \in Seq(Entries)
    BY RingFacts DEF TypeOK
  <1>2. /\ Drop(n) \in Seq(Entries)
        /\ Len(Drop(n)) = Len(avail) - (n + 1) + 1
        /\ \A i \in 1 .. Len(avail) - (n + 1) + 1 : Drop(n)[i] = avail[n + 1 + i - 1]
    <2>1. n + 1 \in Nat \ {0} /\ n + 1 <= Len(avail) + 1 /\ Len(avail) <= Len(avail)
      BY <1>1
    <2> QED
      BY <1>1, <2>1, SegmentFacts DEF Drop
  <1>3. Len(avail) - (n + 1) + 1 = Len(avail) - n /\ \A i \in Nat : n + 1 + i - 1 = n + i
    BY <1>1
  <1>4. Drop(n) = <<>> <=> Len(Drop(n)) = 0
    BY <1>2, EmptySeq
  <1> QED
    BY <1>1, <1>2, <1>3, <1>4

(* Resources created by reslist_maint come to the front of the ring, and   *)
(* are nobody else's.                                                      *)
LEMMA ConstructedFacts ==
    ASSUME TypeOK, OwnedOnce, AvailOrdered, NEW n \in Nat, avail' \in Constructed(n),
           UNCHANGED <<now, held>>
    PROVE  /\ avail' \in Seq(Entries)
           /\ Len(avail') = Len(avail) + n
           /\ OwnedOnce' /\ AvailOrdered'
  <1>1. /\ Len(avail) \in Nat /\ avail \in Seq(Entries) /\ now \in 0 .. MaxTime /\ now \in Nat
        /\ held \in [Threads -> Resources \cup {None}]
        /\ \A i \in 1 .. Len(avail) : avail[i].freed \in Nat
    BY RingFacts, LimitsAssumption DEF TypeOK
  <1>2. PICK s \in [1 .. n -> {Entry(r) : r \in Unused}] :
           /\ \A i, j \in 1 .. n : i # j => s[i] # s[j]
           /\ avail' = s \o avail
    BY DEF Constructed
  <1>3. \A i \in 1 .. n : \E r \in Unused : s[i] = [res |-> r, freed |-> now]
    BY <1>2 DEF Entry
  <1>4. \A i \in 1 .. n : /\ s[i] \in Entries /\ s[i].freed = now
                          /\ s[i].res \in Unused /\ s[i] = [res |-> s[i].res, freed |-> now]
    BY <1>1, <1>3 DEF Entries, Unused
  <1>5. s \in Seq(Entries) /\ Len(s) = n
    <2>1. s \in [1 .. n -> Entries]
      BY <1>2, <1>4
    <2> QED
      BY <2>1, <1>2, IsASeq, LenProperties
  <1>6. /\ avail' \in Seq(Entries) /\ Len(avail') = n + Len(avail)
        /\ \A i \in 1 .. n + Len(avail) :
             avail'[i] = IF i <= n THEN s[i] ELSE avail[i - n]
    BY <1>1, <1>2, <1>5, ConcatProperties
  <1>7. \A i \in 1 .. n + Len(avail) : i <= n => i \in 1 .. n /\ avail'[i] = s[i]
    BY <1>1, <1>6
  <1>8. \A i \in 1 .. n + Len(avail) :
           ~(i <= n) => i - n \in 1 .. Len(avail) /\ avail'[i] = avail[i - n]
    BY <1>1, <1>6
  <1>9. AvailOrdered'
    <2>1. ASSUME NEW i \in 1 .. n + Len(avail) PROVE avail'[i].freed <= now
      BY <1>1, <1>4, <1>7, <1>8 DEF AvailOrdered
    <2>2. ASSUME NEW i \in 1 .. n + Len(avail), NEW j \in 1 .. n + Len(avail), i < j
          PROVE  avail'[j].freed <= avail'[i].freed
      <3>1. CASE i <= n
        BY <1>4, <1>7, <2>1, <3>1
      <3>2. CASE ~(i <= n)
        <4>1. ~(j <= n) /\ i - n < j - n
          BY <1>1, <2>2, <3>2
        <4> QED
          BY <1>8, <3>2, <4>1 DEF AvailOrdered
      <3> QED
        BY <3>1, <3>2
    <2> QED
      BY <1>1, <1>6, <2>1, <2>2 DEF AvailOrdered
  <1>10. ASSUME NEW i \in 1 .. n + Len(avail)
         PROVE  IF i <= n THEN avail'[i].res \in Unused ELSE avail'[i].res \in Idle
    <2>1. Idle = {avail[k].res : k \in 1 .. Len(avail)}
      BY RingFacts
    <2> QED
      BY <1>4, <1>7, <1>8, <2>1
  <1>11. \A r \in Unused : r \notin Idle /\ \A t \in Threads : held[t] # r
    BY DEF Unused
  <1>12. OwnedOnce'
    <2>1. ASSUME NEW i \in 1 .. n + Len(avail), NEW j \in 1 .. n + Len(avail), i # j
          PROVE  avail'[i].res # avail'[j].res
      <3>1. CASE i <= n /\ j <= n
        <4>1. i \in 1 .. n /\ j \in 1 .. n /\ s[i] # s[j] /\ avail'[i] = s[i] /\ avail'[j] = s[j]
          BY <1>2, <1>7, <2>1, <3>1
        <4> QED
          BY <1>4, <4>1
      <3>2. CASE ~(i <= n) /\ ~(j <= n)
        <4>1. i - n # j - n
          BY <1>1, <2>1
        <4> QED
          BY <1>8, <3>2, <4>1 DEF OwnedOnce
      <3> QED
        BY <1>10, <1>11, <3>1, <3>2
    <2>2. Idle' = {avail'[i].res : i \in 1 .. n + Len(avail)}
      BY <1>6 DEF Idle, Range0
    <2>3. ASSUME NEW t \in Holders PROVE held[t] \notin Idle'
      BY <1>10, <1>11, <2>2 DEF OwnedOnce, Holders
    <2>4. Holders' = Holders /\ held' = held
      BY DEF Holders
    <2> QED
      BY <1>6, <2>1, <2>3, <2>4 DEF OwnedOnce
  <1> QED
    BY <1>1, <1>6, <1>9, <1>12

(***************************************************************************)
(* The steps of a thread that uses the list.                               *)
(***************************************************************************)

(* Types of the parts, for the lemmas below. *)
LEMMA ListTypes ==
    ASSUME ListInv
    PROVE  /\ TypeOK
           /\ Len(avail) \in Nat /\ avail \in Seq(Entries)
           /\ ntotal \in Nat /\ Hmax \in Nat /\ Hmax # 0
           /\ Holders \in SUBSET Threads /\ Cardinality(Holders) \in Nat
           /\ Woken \in SUBSET Threads /\ Cardinality(Woken) \in Nat
           /\ Sleepers \in SUBSET Threads
           /\ ntotal = Len(avail) + Cardinality(Holders) /\ ntotal <= Hmax
  <1>1. TypeOK /\ Len(avail) \in Nat
    BY RingFacts DEF ListInv
  <1>2. Holders \in SUBSET Threads /\ Woken \in SUBSET Threads /\ Sleepers \in SUBSET Threads
    BY DEF Holders, Woken, Sleepers, At
  <1>3. Cardinality(Holders) \in Nat /\ Cardinality(Woken) \in Nat
    BY <1>2, ThreadSet
  <1> QED
    BY <1>1, <1>2, <1>3, LimitsAssumption DEF TypeOK, ListInv, Accounting

(* A caller leaves its call, and nobody is signalled. *)
LEMMA LeaveFacts ==
    ASSUME TypeOK, NEW t \in Threads, pc[t] \in {"out", "woken", "maint"}, Goto(t, "out", {})
    PROVE  /\ pc' \in [Threads -> Places]
           /\ dropped' \in BOOLEAN
           /\ dropped => dropped'
           /\ Woken' = Woken \ {t}
           /\ Sleepers' = Sleepers
           /\ \A u \in Threads : pc'[u] # "out" => u # t /\ pc[u] # "out"
  <1>1. t \notin Sleepers \cup At("late")
    BY DEF Sleepers, At
  <1>2. pc'[t] = "out"
    BY DEF Goto
  <1>3. PICK S : S = {}
    OBVIOUS
  <1>4. S \in SUBSET (Sleepers \cup At("late")) /\ Goto(t, "out", S)
    BY <1>3
  <1>5. /\ Woken' = (Woken \ {t}) \cup (S \cap Sleepers)
        /\ Sleepers' = Sleepers \ S
        /\ pc' \in [Threads -> Places]
        /\ dropped' \in BOOLEAN
        /\ dropped => dropped'
        /\ \A u \in Threads : pc'[u] # "out" => u = t \/ pc[u] # "out"
    BY <1>1, <1>4, GotoFacts
  <1> QED
    BY <1>2, <1>3, <1>5

(* A caller that takes or creates a resource uses up at most its own       *)
(* wakeup.                                                                 *)
LEMMA TakenCovered ==
    ASSUME ListInv, NEW t \in Threads, pc[t] \in {"out", "woken"}, Goto(t, "out", {}),
           Available' = Available - 1
    PROVE  NoLostWakeup'
  <1> SUFFICES ASSUME ~dropped', Sleepers' # {}
               PROVE  Available' <= Cardinality(Woken')
    BY DEF NoLostWakeup
  <1>1. /\ Len(avail) \in Nat /\ ntotal \in Nat /\ Hmax \in Nat /\ TypeOK
        /\ Woken \in SUBSET Threads /\ Cardinality(Woken) \in Nat
    BY ListTypes
  <1>2. /\ dropped => dropped'
        /\ Woken' = Woken \ {t}
        /\ Sleepers' = Sleepers
    BY <1>1, LeaveFacts
  <1>3. PICK a \in Int : a = Available
    <2>1. Len(avail) + (Hmax - ntotal) \in Int
      BY <1>1
    <2> QED
      BY <2>1 DEF Available
  <1>4. PICK w \in Nat : w = Cardinality(Woken)
    BY <1>1
  <1>5. a <= w
    BY <1>2, <1>3, <1>4 DEF ListInv, NoLostWakeup
  <1>6. Cardinality(Woken') = w \/ Cardinality(Woken') = w - 1
    <2>1. CASE t \in Woken
      BY <1>1, <1>2, <1>4, <2>1, ThreadSet
    <2>2. CASE t \notin Woken
      <3>1. Woken' = Woken
        BY <1>2, <2>2
      <3> QED
        BY <1>4, <3>1
    <2> QED
      BY <2>1, <2>2
  <1>7. a - 1 <= Cardinality(Woken')
    BY <1>5, <1>6
  <1> QED
    BY <1>3, <1>7

(* The caller takes the first idle resource that is not stale: of the ring *)
(* only what is behind it is left.                                         *)
LEMMA ObtainIdle ==
    ASSUME ListInv, alive, NEW t \in Threads, pc[t] \in {"out", "woken"}, held[t] = None,
           NEW k \in Nat, NEW m \in Nat, Len(avail) = m + k + 1,
           Cut(k + 1, m),
           held' = [held EXCEPT ![t] = avail[k + 1].res],
           ntotal' = ntotal - k, Goto(t, "out", {}),
           UNCHANGED <<alive, timed, now>>
    PROVE  ListInv'
  <1>1. /\ Len(avail) \in Nat /\ ntotal \in Nat /\ Hmax \in Nat /\ TypeOK
        /\ Cardinality(Holders) \in Nat
        /\ ntotal = Len(avail) + Cardinality(Holders) /\ ntotal <= Hmax
        /\ Woken \in SUBSET Threads /\ Cardinality(Woken) \in Nat
    BY ListTypes
  <1>2. k + 1 \in 1 .. Len(avail) /\ k + 1 \in Nat
    OBVIOUS
  <1>3. ntotal' \in Nat /\ avail' \in Seq(Entries) /\ Len(avail') = m
    BY <1>1 DEF Cut
  <1>4. PICK r : r = avail[k + 1].res
    OBVIOUS
  <1>5. r \in Resources /\ r # None /\ held' = [held EXCEPT ![t] = r]
    BY <1>1, <1>2, <1>4, RingFacts, NoneAssumption
  <1>6. /\ held' \in [Threads -> Resources \cup {None}]
        /\ Holders' = Holders \cup {t}
        /\ Cardinality(Holders') = Cardinality(Holders) + 1
    BY <1>1, <1>5, HoldersStep
  <1>7. /\ AvailOrdered'
        /\ \A i, j \in 1 .. Len(avail') : i # j => avail'[i].res # avail'[j].res
        /\ Idle' = {avail[(k + 1) + i].res : i \in 1 .. m}
        /\ Idle' \subseteq Idle
    BY <1>1, <1>2, <1>3, CutKeeps DEF ListInv
  <1>8. /\ pc' \in [Threads -> Places]
        /\ dropped' \in BOOLEAN
        /\ \A u \in Threads : pc'[u] # "out" => u # t /\ pc[u] # "out"
    BY <1>1, LeaveFacts
  <1>9. TypeOK'
    BY <1>1, <1>3, <1>6, <1>8 DEF TypeOK, Places
  <1>10. Accounting'
    <2>1. PICK h \in Nat : h = Cardinality(Holders)
      BY <1>1
    <2>2. Cardinality(Holders') = h + 1 /\ ntotal = Len(avail) + h
      BY <1>1, <1>6, <2>1
    <2>3. ntotal' = m + (h + 1) /\ ntotal' <= Hmax
      BY <1>1, <2>2, SMTT(30)
    <2> QED
      BY <1>3, <2>2, <2>3 DEF Accounting
  <1>11. OwnedOnce'
    <2>1. r \notin Idle'
      <3>1. ASSUME NEW i \in 1 .. m PROVE avail[(k + 1) + i].res # r
        <4>1. (k + 1) + i \in 1 .. Len(avail) /\ (k + 1) + i # k + 1
          BY <1>1, <1>2
        <4> QED
          BY <1>2, <1>4, <4>1 DEF ListInv, OwnedOnce
      <3> QED
        BY <1>7, <3>1
    <2>2. r \in Idle
      BY <1>1, <1>2, <1>4, RingFacts
    <2>3. \A u \in Threads : held'[u] = IF u = t THEN r ELSE held[u]
      BY <1>1, <1>5 DEF TypeOK
    <2>4. \A u \in Holders : u # t /\ held[u] # r /\ held[u] \notin Idle
      BY <2>2 DEF ListInv, OwnedOnce, Holders
    <2>5. ASSUME NEW u \in Holders' PROVE held'[u] \notin Idle'
      BY <1>6, <1>7, <2>1, <2>3, <2>4 DEF Holders
    <2>6. ASSUME NEW u \in Holders', NEW v \in Holders', u # v PROVE held'[u] # held'[v]
      BY <1>6, <2>3, <2>4, <2>6 DEF ListInv, OwnedOnce, Holders
    <2> QED
      BY <1>7, <2>5, <2>6 DEF OwnedOnce
  <1>12. NoLostWakeup'
    <2>1. PICK a : a = Len(avail) + (Hmax - ntotal)
      OBVIOUS
    <2>2. m + (Hmax - ntotal') = a - 1
      BY <1>1, <2>1, SMTT(30)
    <2>3. Available = a /\ Available' = m + (Hmax - ntotal')
      BY <1>3, <2>1 DEF Available
    <2> QED
      BY <2>2, <2>3, TakenCovered
  <1>13. Dormant' /\ EmptyHanded'
    BY <1>1, <1>5, <1>8 DEF Dormant, EmptyHanded, ListInv, TypeOK
  <1> QED
    BY <1>7, <1>9, <1>10, <1>11, <1>12, <1>13 DEF ListInv

(* A step that only takes resources out of the ring, counts them off and   *)
(* moves threads.                                                          *)
LEMMA CutStep ==
    ASSUME ListInv, alive, NEW k \in Nat, NEW m \in Nat, Cut(k, m),
           ntotal' = ntotal - (Len(avail) - m),
           pc' \in [Threads -> Places], dropped' \in BOOLEAN,
           NoLostWakeup', EmptyHanded',
           UNCHANGED <<alive, timed, now, held>>
    PROVE  ListInv'
  <1>1. /\ Len(avail) \in Nat /\ ntotal \in Nat /\ Hmax \in Nat /\ TypeOK
        /\ Cardinality(Holders) \in Nat
        /\ ntotal = Len(avail) + Cardinality(Holders) /\ ntotal <= Hmax
    BY ListTypes
  <1>2. k + m <= Len(avail) /\ avail' \in Seq(Entries) /\ Len(avail') = m
    BY DEF Cut
  <1>3. Holders' = Holders /\ held' = held
    BY DEF Holders
  <1>4. ntotal' = m + Cardinality(Holders) /\ ntotal' <= Hmax /\ ntotal' \in Nat
    BY <1>1, <1>2
  <1>5. TypeOK'
    BY <1>1, <1>2, <1>4 DEF TypeOK, Places
  <1>6. Accounting'
    BY <1>2, <1>3, <1>4 DEF Accounting
  <1>7. /\ AvailOrdered'
        /\ \A i, j \in 1 .. m : i # j => avail'[i].res # avail'[j].res
        /\ Idle' \subseteq Idle
    BY <1>1, CutKeeps DEF ListInv
  <1>8. OwnedOnce'
    BY <1>2, <1>3, <1>7 DEF ListInv, OwnedOnce
  <1>9. Dormant'
    BY DEF Dormant
  <1> QED
    BY <1>5, <1>6, <1>7, <1>8, <1>9 DEF ListInv

(* What is dropped makes room for something new. *)
LEMMA CutAvailable ==
    ASSUME ListInv, NEW m \in Nat, Len(avail') = m, ntotal' = ntotal - (Len(avail) - m)
    PROVE  Available' = Available
  <1>1. Len(avail) \in Nat /\ ntotal \in Nat /\ Hmax \in Nat
    BY ListTypes
  <1>2. m + (Hmax - (ntotal - (Len(avail) - m))) = Len(avail) + (Hmax - ntotal)
    BY <1>1
  <1> QED
    BY <1>2 DEF Available

(* The ring becomes empty. *)
LEMMA CutAll ==
    ASSUME ListInv, avail' = <<>>
    PROVE  Cut(Len(avail), 0)
  <1>1. Len(avail) \in Nat
    BY ListTypes
  <1>2. avail' \in Seq(Entries) /\ Len(avail') = 0
    BY EmptySeq
  <1> QED
    BY <1>1, <1>2 DEF Cut

(* The ring stays as it is. *)
LEMMA CutNothing ==
    ASSUME ListInv, avail' = avail
    PROVE  Cut(0, Len(avail))
  <1>1. Len(avail) \in Nat /\ avail \in Seq(Entries)
    BY ListTypes
  <1> QED
    BY <1>1 DEF Cut

(* Nothing is idle and nothing may be created: the caller waits. *)
LEMMA ObtainWait ==
    ASSUME ListInv, alive, NEW t \in Threads, pc[t] \in {"out", "woken"}, held[t] = None,
           avail' = <<>>, ntotal' = ntotal - Len(avail), ntotal' >= Hmax,
           Goto(t, IF timed THEN "timed_wait" ELSE "wait", {}),
           UNCHANGED <<alive, timed, now, held>>
    PROVE  ListInv'
  <1>1. /\ Len(avail) \in Nat /\ ntotal \in Nat /\ Hmax \in Nat /\ TypeOK
        /\ ntotal <= Hmax
    BY ListTypes
  <1>2. PICK l \in {"wait", "timed_wait"} : Goto(t, l, {})
    OBVIOUS
  <1>3. pc' \in [Threads -> Places] /\ dropped' \in BOOLEAN
        /\ \A u \in Threads : pc'[u] # "out" => u = t \/ pc[u] # "out"
    <2>1. t \notin Sleepers \cup At("late")
      BY DEF Sleepers, At
    <2>2. PICK S : S = {}
      OBVIOUS
    <2>3. S \in SUBSET (Sleepers \cup At("late")) /\ Goto(t, l, S)
      BY <1>2, <2>2
    <2> QED
      BY <1>1, <2>1, <2>3, GotoFacts
  <1>4. EmptyHanded'
    BY <1>3 DEF EmptyHanded, ListInv
  <1>5. NoLostWakeup'
    <2>1. Len(avail') = 0
      BY EmptySeq
    <2>2. 0 + (Hmax - (ntotal - Len(avail))) <= 0
      BY <1>1
    <2>3. Available' <= 0
      BY <2>1, <2>2 DEF Available
    <2>4. Woken' \in SUBSET Threads
      BY DEF Woken, At
    <2>5. PICK w : w = Woken'
      OBVIOUS
    <2>6. Cardinality(w) \in Nat
      BY <2>4, <2>5, ThreadSet
    <2>7. Available' \in Int
      BY <1>1, <2>1 DEF Available
    <2>8. Available' <= Cardinality(w)
      BY <2>3, <2>6, <2>7
    <2> QED
      BY <2>5, <2>8 DEF NoLostWakeup
  <1>6. Cut(Len(avail), 0) /\ ntotal' = ntotal - (Len(avail) - 0)
    BY <1>1, CutAll
  <1> QED
    BY <1>1, <1>3, <1>4, <1>5, <1>6, CutStep

(* Nothing is idle: the caller creates a resource. *)
LEMMA ObtainNew ==
    ASSUME ListInv, alive, NEW t \in Threads, pc[t] \in {"out", "woken"}, held[t] = None,
           NEW r \in Unused, held' = [held EXCEPT ![t] = r],
           avail' = <<>>, ntotal' = ntotal - Len(avail) + 1, ntotal - Len(avail) < Hmax,
           Goto(t, "out", {}),
           UNCHANGED <<alive, timed, now>>
    PROVE  ListInv'
  <1>1. /\ Len(avail) \in Nat /\ ntotal \in Nat /\ Hmax \in Nat /\ TypeOK
        /\ Cardinality(Holders) \in Nat
        /\ ntotal = Len(avail) + Cardinality(Holders)
    BY ListTypes
  <1>2. r \in Resources /\ r # None /\ \A u \in Threads : held[u] # r
    BY NoneAssumption DEF Unused
  <1>3. /\ held' \in [Threads -> Resources \cup {None}]
        /\ Holders' = Holders \cup {t}
        /\ Cardinality(Holders') = Cardinality(Holders) + 1
    BY <1>1, <1>2, HoldersStep
  <1>4. avail' \in Seq(Entries) /\ Len(avail') = 0 /\ Idle' = {}
    <2>1. avail' \in Seq(Entries) /\ Len(avail') = 0
      BY EmptySeq
    <2> QED
      BY <2>1 DEF Idle, Range0
  <1>5. /\ pc' \in [Threads -> Places]
        /\ dropped' \in BOOLEAN
        /\ \A u \in Threads : pc'[u] # "out" => u # t /\ pc[u] # "out"
    BY <1>1, LeaveFacts
  <1>6. PICK h \in Nat : h = Cardinality(Holders)
    BY <1>1
  <1>7. ntotal' = 0 + (h + 1) /\ ntotal' <= Hmax /\ ntotal' \in Nat
    BY <1>1, <1>6
  <1>8. TypeOK'
    BY <1>1, <1>3, <1>4, <1>5, <1>7 DEF TypeOK, Places
  <1>9. Accounting'
    BY <1>3, <1>4, <1>6, <1>7 DEF Accounting
  <1>10. OwnedOnce'
    <2>1. \A u \in Threads : held'[u] = IF u = t THEN r ELSE held[u]
      BY <1>1 DEF TypeOK
    <2>2. ASSUME NEW u \in Holders', NEW v \in Holders', u # v PROVE held'[u] # held'[v]
      BY <1>2, <1>3, <2>1, <2>2 DEF ListInv, OwnedOnce, Holders
    <2> QED
      BY <1>4, <2>2 DEF OwnedOnce
  <1>11. AvailOrdered'
    BY <1>4 DEF AvailOrdered
  <1>12. NoLostWakeup'
    <2>1. PICK a : a = Len(avail) + (Hmax - ntotal)
      OBVIOUS
    <2>2. 0 + (Hmax - ntotal') = a - 1
      BY <1>1, <2>1
    <2>3. Available = a /\ Available' = 0 + (Hmax - ntotal')
      BY <1>4, <2>1 DEF Available
    <2> QED
      BY <2>2, <2>3, TakenCovered
  <1>13. Dormant' /\ EmptyHanded'
    BY <1>1, <1>5 DEF Dormant, EmptyHanded, ListInv, TypeOK
  <1> QED
    BY <1>8, <1>9, <1>10, <1>11, <1>12, <1>13 DEF ListInv

(* rest is the ring without its first k entries. *)
RestIs(k, rest) ==
    /\ k <= Len(avail)
    /\ rest \in Seq(Entries)
    /\ Len(rest) = Len(avail) - k
    /\ \A i \in 1 .. Len(rest) : rest[i] = avail[k + i]

(* The ring behind the first of rest. *)
LEMMA RestTail ==
    ASSUME TypeOK, NEW k \in Nat, NEW rest, RestIs(k, rest), rest # <<>>
    PROVE  /\ Head(rest) = avail[k + 1]
           /\ \E m \in Nat : /\ Len(avail) = m + k + 1
                             /\ avail' = Tail(rest) => Cut(k + 1, m)
  <1>1. /\ Len(avail) \in Nat /\ rest \in Seq(Entries) /\ Len(rest) \in Nat
        /\ Len(rest) = Len(avail) - k
    BY RingFacts, LenProperties DEF RestIs
  <1>2. Len(rest) # 0
    BY <1>1, EmptySeq
  <1>3. PICK m \in Nat : Len(rest) = m + 1
    <2>1. Len(rest) - 1 \in Nat /\ Len(rest) = (Len(rest) - 1) + 1
      BY <1>1, <1>2
    <2> QED
      BY <2>1
  <1>4. Len(avail) = m + k + 1
    BY <1>1, <1>3
  <1>5. Head(rest) = rest[1] /\ 1 \in 1 .. Len(rest)
    BY <1>1, <1>3
  <1>6. Head(rest) = avail[k + 1]
    BY <1>5 DEF RestIs
  <1>7. ASSUME avail' = Tail(rest) PROVE Cut(k + 1, m)
    <2>1. /\ avail' \in Seq(Entries) /\ Len(avail') = Len(rest) - 1
          /\ \A i \in 1 .. Len(avail') : avail'[i] = rest[i + 1]
      BY <1>1, <1>3, <1>7, EmptySeq, HeadTailProperties
    <2>2. Len(avail') = m /\ (k + 1) + m <= Len(avail)
      BY <1>3, <1>4, <2>1
    <2>3. ASSUME NEW i \in 1 .. m PROVE avail'[i] = avail[(k + 1) + i]
      <3>1. i + 1 \in 1 .. Len(rest) /\ k + (i + 1) = (k + 1) + i
        BY <1>3
      <3>2. avail'[i] = rest[i + 1]
        BY <2>1, <2>2
      <3>3. rest[i + 1] = avail[k + (i + 1)]
        BY <3>1 DEF RestIs
      <3> QED
        BY <3>1, <3>2, <3>3
    <2> QED
      BY <2>1, <2>2, <2>3 DEF Cut
  <1> QED
    BY <1>4, <1>6, <1>7

(* The rest of reslist_acquire, whatever it finds. *)
LEMMA ObtainKeeps ==
    ASSUME ListInv, alive, NEW t \in Threads, pc[t] \in {"out", "woken"}, held[t] = None,
           NEW k \in Nat, NEW rest, RestIs(k, rest), Obtain(t, rest, ntotal - k),
           UNCHANGED <<alive, timed, now>>
    PROVE  ListInv'
  <1>1. Len(avail) \in Nat /\ ntotal \in Nat /\ Hmax \in Nat /\ TypeOK
    BY ListTypes
  <1>2. CASE rest # <<>>
    <2>1. /\ held' = [held EXCEPT ![t] = Head(rest).res]
          /\ avail' = Tail(rest) /\ ntotal' = ntotal - k /\ Goto(t, "out", {})
      BY <1>2 DEF Obtain
    <2>2. PICK m \in Nat : Len(avail) = m + k + 1 /\ Cut(k + 1, m)
      BY <1>1, <1>2, <2>1, RestTail
    <2>3. held' = [held EXCEPT ![t] = avail[k + 1].res]
      BY <1>1, <1>2, <2>1, RestTail
    <2> QED
      BY <2>1, <2>2, <2>3, ObtainIdle
  <1>3. CASE rest = <<>>
    <2>1. k = Len(avail)
      <3>1. Len(rest) = 0
        BY <1>3, EmptySeq
      <3> QED
        BY <1>1, <3>1 DEF RestIs
    <2>2. CASE ntotal - k >= Hmax
      <3>1. /\ avail' = <<>> /\ ntotal' = ntotal - k /\ UNCHANGED held
            /\ Goto(t, IF timed THEN "timed_wait" ELSE "wait", {})
        BY <1>1, <1>3, <2>2 DEF Obtain
      <3> QED
        BY <2>1, <2>2, <3>1, ObtainWait
    <2>3. CASE ~(ntotal - k >= Hmax)
      <3>1. /\ avail' = <<>> /\ ntotal' = ntotal - k + 1 /\ ntotal - k < Hmax
            /\ \E r \in Unused : held' = [held EXCEPT ![t] = r]
            /\ Goto(t, "out", {})
        BY <1>1, <1>3, <2>3 DEF Obtain
      <3> QED
        BY <2>1, <3>1, ObtainNew
    <2> QED
      BY <2>2, <2>3
  <1> QED
    BY <1>2, <1>3

(* Threads move, at most wakeups are added or sleepers leave, and the ring *)
(* is cut.                                                                 *)
LEMMA QuietWakeups ==
    ASSUME ListInv, Available' = Available, Woken \subseteq Woken',
           Sleepers' \subseteq Sleepers, dropped => dropped'
    PROVE  NoLostWakeup'
  <1> SUFFICES ASSUME ~dropped', Sleepers' # {}
               PROVE  Available' <= Cardinality(Woken')
    BY DEF NoLostWakeup
  <1>1. Available <= Cardinality(Woken)
    BY DEF ListInv, NoLostWakeup
  <1>2. Woken \in SUBSET Threads /\ Woken' \in SUBSET Threads
    BY DEF Woken, At
  <1>3. PICK w \in SUBSET Threads : w = Woken'
    BY <1>2
  <1>4. /\ Cardinality(Woken) <= Cardinality(w)
        /\ Cardinality(Woken) \in Nat /\ Cardinality(w) \in Nat
    BY <1>2, <1>3, ThreadSet
  <1>5. Available \in Int
    <2>1. Len(avail) + (Hmax - ntotal) \in Int
      BY ListTypes
    <2> QED
      BY <2>1 DEF Available
  <1>6. Available <= Cardinality(w)
    BY <1>1, <1>4, <1>5
  <1> QED
    BY <1>3, <1>6

(* A constructor fails. *)
LEMMA ObtainFailsKeeps ==
    ASSUME ListInv, alive, NEW t \in Threads, pc[t] \in {"out", "woken"},
           NEW k \in Nat, NEW rest, RestIs(k, rest), ObtainFails(t, rest, ntotal - k),
           IF pc[t] = "out" THEN dropped' = dropped ELSE dropped' = (dropped \/ Sleepers # {}),
           UNCHANGED <<alive, timed, now>>
    PROVE  ListInv'
  <1>1. Len(avail) \in Nat /\ ntotal \in Nat /\ TypeOK
    BY ListTypes
  <1>2. /\ avail' = <<>> /\ ntotal' = ntotal - k /\ held' = held
        /\ pc' = [pc EXCEPT ![t] = "out"]
    BY DEF ObtainFails
  <1>3. k = Len(avail)
    <2>1. rest = <<>>
      BY DEF ObtainFails
    <2>2. Len(rest) = 0
      BY <2>1, EmptySeq
    <2> QED
      BY <1>1, <2>2 DEF RestIs
  <1>4. Cut(Len(avail), 0) /\ ntotal' = ntotal - (Len(avail) - 0)
    BY <1>1, <1>2, <1>3, CutAll
  <1>5. Available' = Available
    BY <1>4, CutAvailable DEF Cut
  <1>6. pc' \in [Threads -> Places] /\ dropped' \in BOOLEAN /\ EmptyHanded'
    BY <1>1, <1>2 DEF TypeOK, Places, EmptyHanded, ListInv
  <1>7. Sleepers' = Sleepers /\ (pc[t] = "out" => Woken' = Woken)
    BY <1>1, <1>2 DEF Sleepers, Woken, At, TypeOK
  <1>8. NoLostWakeup'
    <2>1. CASE pc[t] = "out"
      BY <1>5, <1>7, <2>1, QuietWakeups
    <2>2. CASE pc[t] # "out"
      <3>1. ~dropped' => Sleepers' = {}
        BY <1>7, <2>2
      <3> QED
        BY <3>1 DEF NoLostWakeup
    <2> QED
      BY <2>1, <2>2
  <1> QED
    BY <1>1, <1>2, <1>4, <1>6, <1>8, CutStep

(* reslist_acquire *)
LEMMA AcquireKeeps ==
    ASSUME ListInv, NEW t \in Threads, Acquire(t)
    PROVE  ListInv'
  <1>1. /\ alive /\ pc[t] = "out" /\ held[t] = None
        /\ UNCHANGED <<alive, timed, now>>
    BY DEF Acquire
  <1>2. Len(avail) \in Nat /\ ntotal \in Nat /\ TypeOK
    BY ListTypes
  <1>3. CASE \E n \in 1 .. Stale : /\ avail' = Drop(n)
                                   /\ ntotal' = ntotal - n
                                   /\ UNCHANGED <<pc, held, dropped>>
    <2>1. PICK n \in 1 .. Stale : /\ avail' = Drop(n)
                                  /\ ntotal' = ntotal - n
                                  /\ UNCHANGED <<pc, held, dropped>>
      BY <1>3
    <2>2. n \in 0 .. Len(avail) /\ n \in Nat
      <3>1. PICK c \in 0 .. Len(avail) : c = Stale
        BY <1>2, StaleBound
      <3>2. n \in 1 .. c
        BY <3>1
      <3> QED
        BY <1>2, <3>2
    <2>3. /\ avail' \in Seq(Entries) /\ Len(avail') = Len(avail) - n
          /\ \A i \in 1 .. Len(avail) - n : avail'[i] = avail[n + i]
      BY <1>2, <2>1, <2>2, DropFacts
    <2>4. PICK m \in Nat : m = Len(avail) - n
      BY <1>2, <2>2
    <2>5. n + m <= Len(avail) /\ ntotal' = ntotal - (Len(avail) - m)
      BY <1>2, <2>1, <2>2, <2>4
    <2>6. Cut(n, m)
      BY <2>3, <2>4, <2>5 DEF Cut
    <2>7. Available' = Available
      BY <2>3, <2>4, <2>5, CutAvailable
    <2>8. Woken' = Woken /\ Sleepers' = Sleepers
      BY <2>1 DEF Woken, Sleepers, At
    <2>9. NoLostWakeup'
      BY <2>1, <2>7, <2>8, QuietWakeups
    <2>10. pc' \in [Threads -> Places] /\ dropped' \in BOOLEAN /\ EmptyHanded'
      BY <1>2, <2>1 DEF TypeOK, Places, EmptyHanded, ListInv
    <2> QED
      BY <1>1, <2>1, <2>2, <2>5, <2>6, <2>9, <2>10, CutStep
  <1>4. PICK k, rest : k \in Nat /\ k = Stale /\ rest = Drop(Stale) /\ RestIs(k, rest)
    <2>1. PICK k \in 0 .. Len(avail) : k = Stale
      BY <1>2, StaleBound
    <2>2. PICK rest : rest = Drop(k)
      OBVIOUS
    <2>3. /\ rest \in Seq(Entries) /\ Len(rest) = Len(avail) - k
          /\ \A i \in 1 .. Len(avail) - k : rest[i] = avail[k + i]
      BY <1>2, <2>2, DropFacts
    <2>4. k \in Nat /\ k <= Len(avail)
      BY <1>2
    <2>5. RestIs(k, rest)
      BY <2>3, <2>4 DEF RestIs
    <2> QED
      BY <2>1, <2>2, <2>4, <2>5
  <1>5. CASE Obtain(t, Drop(Stale), ntotal - Stale)
    <2>1. Obtain(t, rest, ntotal - k)
      BY <1>4, <1>5
    <2> QED
      BY <1>1, <1>4, <2>1, ObtainKeeps
  <1>6. CASE ObtainFails(t, Drop(Stale), ntotal - Stale) /\ UNCHANGED dropped
    <2>1. ObtainFails(t, rest, ntotal - k)
      BY <1>4, <1>6
    <2> QED
      BY <1>1, <1>4, <1>6, <2>1, ObtainFailsKeeps
  <1> QED
    BY <1>3, <1>5, <1>6 DEF Acquire

(* A wait of reslist_acquire returns. *)
LEMMA WakeKeeps ==
    ASSUME ListInv, NEW t \in Threads, Wake(t)
    PROVE  ListInv'
  <1>1. pc[t] = "woken" /\ UNCHANGED <<alive, timed, now>>
    BY DEF Wake
  <1>2. alive /\ held[t] = None
    BY <1>1, CallersHaveList DEF ListInv, EmptyHanded
  <1>3. Len(avail) \in Nat /\ avail \in Seq(Entries) /\ ntotal \in Nat
    BY ListTypes
  <1>4. PICK rest : rest = avail
    OBVIOUS
  <1>5. RestIs(0, rest) /\ ntotal - 0 = ntotal /\ 0 \in Nat
    BY <1>3, <1>4 DEF RestIs
  <1>6. CASE Obtain(t, avail, ntotal)
    <2>1. Obtain(t, rest, ntotal - 0)
      BY <1>4, <1>5, <1>6
    <2> QED
      BY <1>1, <1>2, <1>5, <2>1, ObtainKeeps
  <1>7. CASE ObtainFails(t, avail, ntotal) /\ dropped' = (dropped \/ Sleepers # {})
    <2>1. ObtainFails(t, rest, ntotal - 0)
      BY <1>4, <1>5, <1>7
    <2> QED
      BY <1>1, <1>2, <1>5, <1>7, <2>1, ObtainFailsKeeps
  <1> QED
    BY <1>6, <1>7 DEF Wake

(* The steps of a thread in its wait. *)
LEMMA WaiterKeeps ==
    ASSUME ListInv, NEW t \in Threads, TimeUp(t) \/ GiveUp(t) \/ SpuriousWakeup(t)
    PROVE  ListInv'
  <1>1. UNCHANGED <<alive, avail, ntotal, timed, now, held, dropped>>
    BY DEF TimeUp, GiveUp, SpuriousWakeup
  <1>2. PICK l \in {"late", "out", "woken"} : pc' = [pc EXCEPT ![t] = l]
    BY DEF TimeUp, GiveUp, SpuriousWakeup
  <1>3. pc[t] \notin {"out", "woken"} /\ (l # "woken" => pc[t] \in {"timed_wait", "late", "time_up"})
    BY <1>2 DEF TimeUp, GiveUp, SpuriousWakeup, Sleepers, At, ListInv, TypeOK
  <1>4. alive
    BY <1>3, CallersHaveList
  <1>5. Len(avail) \in Nat /\ ntotal \in Nat /\ TypeOK
    BY ListTypes
  <1>6. Cut(0, Len(avail)) /\ ntotal' = ntotal - (Len(avail) - Len(avail))
    BY <1>1, <1>5, CutNothing
  <1>7. Available' = Available
    BY <1>1 DEF Available
  <1>8. Woken \subseteq Woken' /\ Sleepers' \subseteq Sleepers
    BY <1>2, <1>3, <1>5 DEF Woken, Sleepers, At, TypeOK
  <1>9. NoLostWakeup'
    BY <1>1, <1>7, <1>8, QuietWakeups
  <1>10. pc' \in [Threads -> Places] /\ dropped' \in BOOLEAN /\ EmptyHanded'
    BY <1>1, <1>2, <1>3, <1>5 DEF TypeOK, Places, EmptyHanded, ListInv
  <1> QED
    BY <1>1, <1>4, <1>5, <1>6, <1>9, <1>10, CutStep

(* A resource or a slot becomes free, and one thread is told. *)
LEMMA FreedCovered ==
    ASSUME ListInv, NEW t \in Threads, NEW l \in {"out", "maint"}, pc[t] = "out",
           \E S \in SignalSets(1) : Goto(t, l, S),
           Available' = Available + 1
    PROVE  /\ NoLostWakeup'
           /\ pc' \in [Threads -> Places] /\ dropped' \in BOOLEAN
           /\ \A u \in Threads : pc'[u] # "out" => u = t \/ pc[u] # "out"
  <1>1. TypeOK /\ Woken \in SUBSET Threads /\ Cardinality(Woken) \in Nat
    BY ListTypes
  <1>2. PICK S \in SignalSets(1) : Goto(t, l, S)
    OBVIOUS
  <1>3. S \in SUBSET (Sleepers \cup At("late")) /\ t \notin Sleepers \cup At("late")
    BY DEF SignalSets, Sleepers, At
  <1>4. /\ pc' \in [Threads -> Places] /\ dropped' \in BOOLEAN
        /\ \A u \in Threads : pc'[u] # "out" => u = t \/ pc[u] # "out"
    BY <1>1, <1>2, <1>3, GotoFacts
  <1>5. ASSUME ~dropped', Sleepers' # {} PROVE Available' <= Cardinality(Woken')
    <2>1. ~dropped /\ Sleepers # {} /\ Cardinality(Woken') = Cardinality(Woken) + 1
      BY <1>1, <1>2, <1>5, SignalWakes
    <2>2. PICK a \in Int : a = Available
      <3>1. Len(avail) + (Hmax - ntotal) \in Int
        BY ListTypes
      <3> QED
        BY <3>1 DEF Available
    <2>3. PICK w \in Nat : w = Cardinality(Woken)
      BY <1>1
    <2>4. a <= w
      BY <2>1, <2>2, <2>3 DEF ListInv, NoLostWakeup
    <2>5. a + 1 <= w + 1
      BY <2>4
    <2> QED
      BY <2>1, <2>2, <2>3, <2>5
  <1> QED
    BY <1>4, <1>5 DEF NoLostWakeup

(* reslist_invalidate *)
LEMMA InvalidateKeeps ==
    ASSUME ListInv, NEW t \in Threads, Invalidate(t)
    PROVE  ListInv'
  <1>1. /\ pc[t] = "out" /\ held[t] # None
        /\ ntotal' = ntotal - 1 /\ held' = [held EXCEPT ![t] = None]
        /\ \E S \in SignalSets(1) : Goto(t, "out", S)
        /\ UNCHANGED <<alive, avail, timed, now>>
    BY DEF Invalidate
  <1>2. alive
    BY <1>1, CallersHaveList
  <1>3. /\ Len(avail) \in Nat /\ ntotal \in Nat /\ Hmax \in Nat /\ TypeOK
        /\ ntotal = Len(avail) + Cardinality(Holders) /\ ntotal <= Hmax
    BY ListTypes
  <1>4. /\ held' \in [Threads -> Resources \cup {None}]
        /\ Holders' = Holders \ {t}
        /\ Cardinality(Holders) \in Nat /\ Cardinality(Holders) >= 1
        /\ Cardinality(Holders') = Cardinality(Holders) - 1
    BY <1>1, <1>3, HoldersStep
  <1>5. PICK h \in Nat : h = Cardinality(Holders) /\ h >= 1
    BY <1>4
  <1>6. ntotal' = Len(avail) + (h - 1) /\ ntotal' <= Hmax /\ ntotal' \in Nat
    BY <1>1, <1>3, <1>5
  <1>7. Available' = Available + 1
    <2>1. PICK a : a = Len(avail) + (Hmax - ntotal)
      OBVIOUS
    <2>2. Len(avail) + (Hmax - (ntotal - 1)) = a + 1
      BY <1>3, <2>1
    <2>3. Available = a /\ Available' = Len(avail) + (Hmax - (ntotal - 1))
      BY <1>1, <2>1 DEF Available
    <2> QED
      BY <2>2, <2>3
  <1>8. /\ NoLostWakeup'
        /\ pc' \in [Threads -> Places] /\ dropped' \in BOOLEAN
        /\ \A u \in Threads : pc'[u] # "out" => u = t \/ pc[u] # "out"
    BY <1>1, <1>7, FreedCovered
  <1>9. TypeOK'
    BY <1>1, <1>3, <1>4, <1>6, <1>8 DEF TypeOK, Places
  <1>10. Accounting'
    BY <1>1, <1>2, <1>4, <1>5, <1>6 DEF Accounting
  <1>11. OwnedOnce' /\ AvailOrdered'
    <2>1. \A u \in Holders' : u \in Holders /\ held'[u] = held[u]
      BY <1>1, <1>3, <1>4 DEF TypeOK, Holders
    <2>2. Idle' = Idle
      BY <1>1 DEF Idle, Range0
    <2> QED
      BY <1>1, <2>1, <2>2 DEF ListInv, OwnedOnce, AvailOrdered
  <1>12. Dormant' /\ EmptyHanded'
    BY <1>1, <1>2, <1>3, <1>8 DEF Dormant, EmptyHanded, ListInv, TypeOK
  <1> QED
    BY <1>8, <1>9, <1>10, <1>11, <1>12 DEF ListInv

(* A resource given back is the first of the ring. *)
LEMMA PushFacts ==
    ASSUME TypeOK, NEW e \in Entries
    PROVE  /\ <<e>> \o avail \in Seq(Entries)
           /\ Len(<<e>> \o avail) = Len(avail) + 1
           /\ (<<e>> \o avail)[1] = e
           /\ \A i \in 2 .. Len(avail) + 1 : /\ (<<e>> \o avail)[i] = avail[i - 1]
                                             /\ i - 1 \in 1 .. Len(avail)
  <1>1. Len(avail) \in Nat /\ avail \in Seq(Entries)
    BY RingFacts DEF TypeOK
  <1>2. <<e>> \in Seq(Entries) /\ Len(<<e>>) = 1 /\ <<e>>[1] = e
    OBVIOUS
  <1>3. /\ <<e>> \o avail \in Seq(Entries)
        /\ Len(<<e>> \o avail) = 1 + Len(avail)
        /\ \A i \in 1 .. 1 + Len(avail) :
             (<<e>> \o avail)[i] = IF i <= 1 THEN <<e>>[i] ELSE avail[i - 1]
    BY <1>1, <1>2, ConcatProperties
  <1>4. /\ 1 + Len(avail) = Len(avail) + 1 /\ 1 \in 1 .. 1 + Len(avail)
        /\ \A i \in 2 .. Len(avail) + 1 :
             i \in 1 .. 1 + Len(avail) /\ ~(i <= 1) /\ i - 1 \in 1 .. Len(avail)
    BY <1>1
  <1> QED
    BY <1>2, <1>3, <1>4

(* reslist_release *)
LEMMA ReleaseKeeps ==
    ASSUME ListInv, NEW t \in Threads, Release(t)
    PROVE  ListInv'
  <1>1. /\ pc[t] = "out" /\ held[t] # None
        /\ avail' = <<Entry(held[t])>> \o avail
        /\ held' = [held EXCEPT ![t] = None]
        /\ \E S \in SignalSets(1) : Goto(t, "maint", S)
        /\ UNCHANGED <<alive, ntotal, timed, now>>
    BY DEF Release
  <1>2. alive
    BY <1>1, CallersHaveList
  <1>3. /\ Len(avail) \in Nat /\ ntotal \in Nat /\ Hmax \in Nat /\ TypeOK
        /\ ntotal = Len(avail) + Cardinality(Holders) /\ ntotal <= Hmax
    BY ListTypes
  <1>4. /\ held' \in [Threads -> Resources \cup {None}]
        /\ Holders' = Holders \ {t}
        /\ Cardinality(Holders) \in Nat /\ Cardinality(Holders) >= 1
        /\ Cardinality(Holders') = Cardinality(Holders) - 1
    BY <1>1, <1>3, HoldersStep
  <1>5. PICK h \in Nat : h = Cardinality(Holders) /\ h >= 1
    BY <1>4
  <1>6. PICK e \in Entries : e = Entry(held[t]) /\ e.res = held[t] /\ e.freed = now
    <2>1. held[t] \in Resources /\ now \in 0 .. MaxTime
      BY <1>1, <1>3 DEF TypeOK
    <2>2. PICK r \in Resources : r = held[t]
      BY <2>1
    <2>3. [res |-> r, freed |-> now] \in Entries
      BY <2>1 DEF Entries
    <2> QED
      BY <2>2, <2>3 DEF Entry
  <1>7. avail' = <<e>> \o avail
    BY <1>1, <1>6
  <1>8. /\ avail' \in Seq(Entries) /\ Len(avail') = Len(avail) + 1 /\ avail'[1] = e
        /\ \A i \in 2 .. Len(avail) + 1 : avail'[i] = avail[i - 1] /\ i - 1 \in 1 .. Len(avail)
    BY <1>3, <1>7, PushFacts
  <1>9. Available' = Available + 1
    <2>1. PICK a : a = Len(avail) + (Hmax - ntotal)
      OBVIOUS
    <2>2. (Len(avail) + 1) + (Hmax - ntotal) = a + 1
      BY <1>3, <2>1
    <2>3. Available = a /\ Available' = (Len(avail) + 1) + (Hmax - ntotal)
      BY <1>1, <1>8, <2>1 DEF Available
    <2> QED
      BY <2>2, <2>3
  <1>10. /\ NoLostWakeup'
         /\ pc' \in [Threads -> Places] /\ dropped' \in BOOLEAN
         /\ \A u \in Threads : pc'[u] # "out" => u = t \/ pc[u] # "out"
    BY <1>1, <1>9, FreedCovered
  <1>11. TypeOK'
    BY <1>1, <1>3, <1>4, <1>8, <1>10 DEF TypeOK, Places
  <1>12. Accounting'
    <2>1. ntotal = (Len(avail) + 1) + (h - 1)
      BY <1>3, <1>5
    <2> QED
      BY <1>1, <1>2, <1>3, <1>4, <1>5, <1>8, <2>1 DEF Accounting
  <1>13. \A i \in 1 .. Len(avail) + 1 : i = 1 \/ i \in 2 .. Len(avail) + 1
    BY <1>3
  <1>14. \A i \in 1 .. Len(avail) : avail[i].res # held[t] /\ avail[i].res \in Idle
    BY <1>1, <1>3, RingFacts DEF ListInv, OwnedOnce, Holders
  <1>15. OwnedOnce'
    <2>1. ASSUME NEW i \in 1 .. Len(avail) + 1, NEW j \in 1 .. Len(avail) + 1, i # j
          PROVE  avail'[i].res # avail'[j].res
      <3>1. CASE i = 1 \/ j = 1
        BY <1>6, <1>8, <1>13, <1>14, <2>1, <3>1
      <3>2. CASE i # 1 /\ j # 1
        <4>1. i - 1 # j - 1
          BY <1>3, <2>1
        <4> QED
          BY <1>8, <1>13, <3>2, <4>1 DEF ListInv, OwnedOnce
      <3> QED
        BY <3>1, <3>2
    <2>2. Idle' = {avail'[i].res : i \in 1 .. Len(avail) + 1}
      BY <1>8 DEF Idle, Range0
    <2>3. ASSUME NEW i \in 1 .. Len(avail) + 1
          PROVE  avail'[i].res = held[t] \/ avail'[i].res \in Idle
      BY <1>6, <1>8, <1>13, <1>14
    <2>4. \A u \in Holders' : u \in Holders /\ u # t /\ held'[u] = held[u]
      BY <1>1, <1>3, <1>4 DEF TypeOK, Holders
    <2>5. ASSUME NEW u \in Holders' PROVE held'[u] \notin Idle'
      <3>1. u \in Holders /\ t \in Holders /\ u # t /\ held'[u] = held[u]
        BY <1>1, <2>4 DEF Holders
      <3>2. held[u] # held[t] /\ held[u] \notin Idle
        BY <3>1 DEF ListInv, OwnedOnce
      <3> QED
        BY <2>2, <2>3, <3>1, <3>2
    <2>6. \A u, v \in Holders' : u # v => held'[u] # held'[v]
      BY <2>4 DEF ListInv, OwnedOnce
    <2> QED
      BY <1>8, <2>1, <2>5, <2>6 DEF OwnedOnce
  <1>16. AvailOrdered'
    <2>1. ASSUME NEW i \in 1 .. Len(avail) + 1 PROVE avail'[i].freed <= now
      BY <1>3, <1>6, <1>8, <1>13, LimitsAssumption, SMTT(30) DEF ListInv, AvailOrdered, TypeOK
    <2>2. ASSUME NEW i \in 1 .. Len(avail) + 1, NEW j \in 1 .. Len(avail) + 1, i < j
          PROVE  avail'[j].freed <= avail'[i].freed
      <3>1. CASE i = 1
        BY <1>6, <1>8, <2>1, <3>1
      <3>2. CASE i # 1
        <4>1. i \in 2 .. Len(avail) + 1 /\ j \in 2 .. Len(avail) + 1 /\ i - 1 < j - 1
          BY <1>3, <2>2, <3>2
        <4> QED
          BY <1>8, <4>1 DEF ListInv, AvailOrdered
      <3> QED
        BY <3>1, <3>2
    <2> QED
      BY <1>1, <1>8, <2>1, <2>2 DEF AvailOrdered
  <1>17. Dormant' /\ EmptyHanded'
    BY <1>1, <1>2, <1>3, <1>10 DEF Dormant, EmptyHanded, ListInv, TypeOK
  <1> QED
    BY <1>10, <1>11, <1>12, <1>15, <1>16, <1>17 DEF ListInv

(* What reslist_maint creates stays within hmax. *)
LEMMA MissingBound ==
    ASSUME ListInv
    PROVE  Missing \in Nat /\ ntotal + Missing <= Hmax
  <1>1. Len(avail) \in Nat /\ ntotal \in Nat /\ Hmax \in Nat /\ ntotal <= Hmax /\ Min \in Nat
    BY ListTypes, LimitsAssumption
  <1>2. PICK l \in Nat : l = Len(avail)
    BY <1>1
  <1>3. CASE l >= Min \/ ntotal >= Hmax
    BY <1>1, <1>2, <1>3 DEF Missing
  <1>4. CASE ~(l >= Min \/ ntotal >= Hmax)
    <2>1. Missing = IF Min - l <= Hmax - ntotal THEN Min - l ELSE Hmax - ntotal
      BY <1>2, <1>4 DEF Missing
    <2>2. CASE Min - l <= Hmax - ntotal
      <3>1. Min - l \in Nat /\ ntotal + (Min - l) <= Hmax
        BY <1>1, <1>4, <2>2
      <3> QED
        BY <2>1, <2>2, <3>1
    <2>3. CASE ~(Min - l <= Hmax - ntotal)
      <3>1. Hmax - ntotal \in Nat /\ ntotal + (Hmax - ntotal) <= Hmax
        BY <1>1
      <3> QED
        BY <2>1, <2>3, <3>1
    <2> QED
      BY <2>2, <2>3
  <1> QED
    BY <1>3, <1>4

(* reslist_maint *)
LEMMA MaintKeeps ==
    ASSUME ListInv, NEW t \in Threads, Maint(t)
    PROVE  ListInv'
  <1>1. pc[t] = "maint" /\ UNCHANGED <<alive, timed, now, held>>
    BY DEF Maint
  <1>2. alive /\ held[t] = None
    BY <1>1, CallersHaveList DEF ListInv, EmptyHanded
  <1>3. /\ Len(avail) \in Nat /\ ntotal \in Nat /\ Hmax \in Nat /\ TypeOK
        /\ Cardinality(Holders) \in Nat
        /\ ntotal = Len(avail) + Cardinality(Holders) /\ ntotal <= Hmax
    BY ListTypes
  <1>4. CASE Missing > 0
    <2>1. PICK n \in 0 .. Missing : /\ avail' \in Constructed(n)
                                    /\ ntotal' = ntotal + n
                                    /\ \E S \in SignalSets(n) : Goto(t, "out", S)
      BY <1>4 DEF Maint
    <2>2. n \in Nat /\ ntotal + n <= Hmax
      <3>1. PICK d \in Nat : d = Missing /\ ntotal + d <= Hmax
        BY MissingBound
      <3>2. n \in 0 .. d
        BY <3>1
      <3> QED
        BY <1>3, <3>1, <3>2
    <2>3. PICK S \in SignalSets(n) : Goto(t, "out", S)
      BY <2>1
    <2>4. S \in SUBSET (Sleepers \cup At("late")) /\ t \notin Sleepers \cup At("late")
      BY <1>1 DEF SignalSets, Sleepers, At
    <2>5. /\ pc' \in [Threads -> Places] /\ dropped' \in BOOLEAN /\ (dropped => dropped')
          /\ Woken' = (Woken \ {t}) \cup (S \cap Sleepers) /\ Sleepers' = Sleepers \ S
          /\ \A u \in Threads : pc'[u] # "out" => u = t \/ pc[u] # "out"
      BY <1>3, <2>3, <2>4, GotoFacts
    <2>6. /\ avail' \in Seq(Entries) /\ Len(avail') = Len(avail) + n
          /\ OwnedOnce' /\ AvailOrdered'
      BY <1>1, <1>3, <2>1, <2>2, ConstructedFacts DEF ListInv
    <2>7. Available' = Available
      <3>1. (Len(avail) + n) + (Hmax - (ntotal + n)) = Len(avail) + (Hmax - ntotal)
        BY <1>3, <2>2
      <3> QED
        BY <2>1, <2>6, <3>1 DEF Available
    <2>8. NoLostWakeup'
      <3>1. t \notin Woken
        BY <1>1 DEF Woken, At
      <3>2. Woken \subseteq Woken' /\ Sleepers' \subseteq Sleepers
        BY <2>5, <3>1
      <3> QED
        BY <2>5, <2>7, <3>2, QuietWakeups
    <2>9. TypeOK'
      <3>1. ntotal' \in Nat
        BY <1>3, <2>1, <2>2
      <3> QED
        BY <1>1, <1>3, <2>5, <2>6, <3>1 DEF TypeOK, Places
    <2>10. Accounting'
      <3>1. ntotal + n = (Len(avail) + n) + Cardinality(Holders)
        BY <1>3, <2>2
      <3>2. Holders' = Holders
        BY <1>1 DEF Holders
      <3> QED
        BY <1>1, <1>2, <2>1, <2>2, <2>6, <3>1, <3>2 DEF Accounting
    <2>11. Dormant' /\ EmptyHanded'
      BY <1>1, <1>2, <2>5 DEF Dormant, EmptyHanded, ListInv
    <2> QED
      BY <2>6, <2>8, <2>9, <2>10, <2>11 DEF ListInv
  <1>5. CASE Missing = 0
    <2>1. PICK n \in 0 .. Surplus : /\ avail' = SubSeq(avail, 1, Len(avail) - n)
                                    /\ ntotal' = ntotal - n
      BY <1>5 DEF Maint
    <2>2. Goto(t, "out", {})
      BY <1>5 DEF Maint
    <2>3. n \in 0 .. Len(avail)
      <3>1. PICK c \in 0 .. Len(avail) : c = Surplus
        BY <1>3, SurplusBound
      <3>2. n \in 0 .. c
        BY <3>1
      <3> QED
        BY <1>3, <3>2
    <2>4. PICK m \in Nat : m = Len(avail) - n /\ m <= Len(avail)
      <3>1. Len(avail) - n \in Nat /\ Len(avail) - n <= Len(avail)
        BY <1>3, <2>3
      <3> QED
        BY <3>1
    <2>5. ntotal' = ntotal - (Len(avail) - m)
      BY <1>3, <2>1, <2>3, <2>4
    <2>6. Cut(0, m)
      <3>1. avail \in Seq(Entries) /\ avail' = SubSeq(avail, 1, m)
        BY <1>3, <2>1, <2>4 DEF TypeOK
      <3>2. /\ avail' \in Seq(Entries) /\ Len(avail') = m - 1 + 1
            /\ \A i \in 1 .. m - 1 + 1 : avail'[i] = avail[1 + i - 1]
        BY <2>4, <3>1, SegmentFacts
      <3>3. m - 1 + 1 = m /\ (\A i \in 1 .. m : 1 + i - 1 = 0 + i) /\ 0 + m <= Len(avail)
        BY <2>4
      <3> QED
        BY <3>2, <3>3 DEF Cut
    <2>7. /\ pc' \in [Threads -> Places] /\ dropped' \in BOOLEAN /\ (dropped => dropped')
          /\ Woken' = Woken \ {t} /\ Sleepers' = Sleepers
          /\ \A u \in Threads : pc'[u] # "out" => u # t /\ pc[u] # "out"
      BY <1>1, <1>3, <2>2, LeaveFacts
    <2>8. NoLostWakeup'
      <3>1. Woken \subseteq Woken'
        BY <1>1, <2>7 DEF Woken, At
      <3>2. Available' = Available
        BY <2>5, <2>6, CutAvailable DEF Cut
      <3> QED
        BY <2>7, <3>1, <3>2, QuietWakeups
    <2>9. EmptyHanded'
      BY <1>1, <2>7 DEF EmptyHanded, ListInv
    <2> QED
      BY <1>1, <1>2, <2>5, <2>6, <2>7, <2>8, <2>9, CutStep
  <1> QED
    BY <1>4, <1>5 DEF Maint

(* reslist_create *)
LEMMA CreateKeeps ==
    ASSUME ListInv, NEW timeout \in BOOLEAN, Create(timeout)
    PROVE  ListInv'
  <1>1. /\ ~alive /\ alive' = TRUE /\ avail' \in Constructed(Min) /\ ntotal' = Min
        /\ timed' = timeout /\ UNCHANGED <<now, pc, held, dropped>>
    BY DEF Create
  <1>2. /\ Len(avail) \in Nat /\ ntotal \in Nat /\ TypeOK
        /\ Cardinality(Holders) \in Nat /\ ntotal = Len(avail) + Cardinality(Holders)
    BY ListTypes
  <1>3. Len(avail) = 0 /\ Cardinality(Holders) = 0
    BY <1>1, <1>2 DEF ListInv, Accounting
  <1>4. Min \in Nat /\ Min <= Hmax
    BY LimitsAssumption
  <1>5. /\ avail' \in Seq(Entries) /\ Len(avail') = Min /\ OwnedOnce' /\ AvailOrdered'
    BY <1>1, <1>2, <1>3, <1>4, ConstructedFacts DEF ListInv
  <1>6. Accounting'
    <2>1. Holders' = Holders
      BY <1>1 DEF Holders
    <2> QED
      BY <1>1, <1>3, <1>4, <1>5, <2>1 DEF Accounting
  <1>7. TypeOK'
    BY <1>1, <1>2, <1>4, <1>5 DEF TypeOK
  <1>8. NoLostWakeup' /\ Dormant' /\ EmptyHanded'
    BY <1>1 DEF ListInv, NoLostWakeup, Dormant, EmptyHanded, Sleepers, At
  <1> QED
    BY <1>5, <1>6, <1>7, <1>8 DEF ListInv

(* reslist_destroy *)
LEMMA DestroyKeeps ==
    ASSUME ListInv, Destroy
    PROVE  ListInv'
  <1>1. /\ \A t \in Threads : pc[t] = "out" /\ held[t] = None
        /\ alive' = FALSE /\ avail' = <<>> /\ ntotal' = ntotal - Len(avail)
        /\ dropped' = FALSE /\ UNCHANGED <<timed, now, pc, held>>
    BY DEF Destroy
  <1>2. /\ Len(avail) \in Nat /\ ntotal \in Nat /\ TypeOK /\ Hmax \in Nat
        /\ Cardinality(Holders) \in Nat /\ ntotal = Len(avail) + Cardinality(Holders)
    BY ListTypes
  <1>3. Holders = {} /\ Holders' = {} /\ Cardinality(Holders) = 0 /\ Cardinality(Holders') = 0
    BY <1>1, FS_EmptySet DEF Holders
  <1>4. avail' \in Seq(Entries) /\ Len(avail') = 0 /\ ntotal' = 0
    <2>1. ntotal - Len(avail) = 0
      BY <1>2, <1>3
    <2> QED
      BY <1>1, <2>1, EmptySeq
  <1>5. Accounting'
    BY <1>2, <1>3, <1>4 DEF Accounting
  <1>6. TypeOK'
    <2>1. ntotal' \in Nat
      BY <1>4
    <2>2. /\ alive' = FALSE /\ dropped' = FALSE
          /\ timed' = timed /\ now' = now /\ pc' = pc /\ held' = held
      BY <1>1
    <2>3. avail' \in Seq(Entries)
      BY <1>4
    <2>4. alive' \in BOOLEAN /\ dropped' \in BOOLEAN
      BY <2>2, Zenon
    <2> QED
      BY <1>2, <2>1, <2>2, <2>3, <2>4 DEF TypeOK
  <1>7. OwnedOnce' /\ AvailOrdered'
    BY <1>3, <1>4 DEF OwnedOnce, AvailOrdered
  <1>8. NoLostWakeup' /\ Dormant' /\ EmptyHanded'
    BY <1>1 DEF ListInv, NoLostWakeup, Dormant, EmptyHanded, Sleepers, At
  <1> QED
    BY <1>5, <1>6, <1>7, <1>8 DEF ListInv

(* The clock; whatever leaves the list's variables alone but now and       *)
(* timed.                                                                  *)
LEMMA ClockKeeps ==
    ASSUME ListInv, timed' \in BOOLEAN, now' \in 0 .. MaxTime, now <= now',
           UNCHANGED <<alive, avail, ntotal, pc, held, dropped>>
    PROVE  ListInv'
  <1>1. TypeOK /\ Len(avail) \in Nat /\ \A i \in 1 .. Len(avail) : avail[i].freed \in Nat
    BY ListTypes, RingFacts
  <1>2. TypeOK'
    BY <1>1 DEF TypeOK
  <1>3. Accounting' /\ OwnedOnce' /\ NoLostWakeup' /\ Dormant' /\ EmptyHanded'
    BY DEF ListInv, Accounting, OwnedOnce, NoLostWakeup, Dormant, EmptyHanded, Holders,
           Idle, Range0, Sleepers, Woken, At, Available
  <1>4. AvailOrdered'
    <2>1. now \in Nat /\ now' \in Nat
      BY <1>1, LimitsAssumption DEF TypeOK
    <2>2. ASSUME NEW i \in 1 .. Len(avail) PROVE avail[i].freed <= now'
      <3>1. avail[i].freed <= now /\ avail[i].freed \in Nat
        BY <1>1 DEF ListInv, AvailOrdered
      <3> QED
        BY <2>1, <3>1
    <2> QED
      BY <2>2 DEF ListInv, AvailOrdered
  <1> QED
    BY <1>2, <1>3, <1>4 DEF ListInv

(***************************************************************************)
(* The pool.                                                               *)
(***************************************************************************)

(* A step of the pool that leaves the list alone. *)
LEMMA ListUnchanged ==
    ASSUME ListInv, UNCHANGED vars
    PROVE  ListInv'
  BY DEF ListInv, vars, TypeOK, Accounting, OwnedOnce, AvailOrdered, NoLostWakeup, Dormant,
         EmptyHanded, Holders, Idle, Range0, Sleepers, Woken, At, Available

(* Every step of a thread in the list keeps the list's invariant, and the  *)
(* list and its timeout where they are.                                    *)
LEMMA ThreadKeeps ==
    ASSUME ListInv, NEW t \in Threads,
           \/ Acquire(t) \/ Wake(t) \/ TimeUp(t) \/ GiveUp(t) \/ SpuriousWakeup(t)
           \/ Release(t) \/ Maint(t) \/ Invalidate(t)
    PROVE  ListInv' /\ alive' = alive /\ timed' = timed
  <1>1. alive' = alive /\ timed' = timed
    BY DEF Acquire, Wake, TimeUp, GiveUp, SpuriousWakeup, Release, Maint, Invalidate
  <1> QED
    BY <1>1, AcquireKeeps, WakeKeeps, WaiterKeeps, ReleaseKeeps, MaintKeeps, InvalidateKeeps

(* Initially nothing is in the list and nobody in a call. *)
LEMMA PoolInitInv == PoolInit => PoolInv
  <1> SUFFICES ASSUME PoolInit PROVE PoolInv
    OBVIOUS
  <1> USE DEF PoolInit, Init
  <1>1. Len(avail) = 0 /\ avail \in Seq(Entries)
    BY EmptySeq
  <1>2. Holders = {} /\ Cardinality(Holders) = 0
    BY FS_EmptySet DEF Holders
  <1>3. TypeOK
    <2>1. alive \in BOOLEAN /\ timed \in BOOLEAN /\ dropped \in BOOLEAN
      BY Zenon
    <2>2. now \in 0 .. MaxTime /\ ntotal \in Nat
      BY LimitsAssumption
    <2>3. /\ pc \in [Threads -> {"out", "wait", "timed_wait", "woken", "late",
                                 "time_up", "maint"}]
          /\ held \in [Threads -> Resources \cup {None}]
      OBVIOUS
    <2> QED
      BY <1>1, <2>1, <2>2, <2>3, Zenon DEF TypeOK
  <1>4. Accounting
    BY <1>1, <1>2, LimitsAssumption DEF Accounting
  <1>5. OwnedOnce /\ AvailOrdered
    BY <1>1, <1>2 DEF OwnedOnce, AvailOrdered
  <1>6. NoLostWakeup /\ Dormant /\ EmptyHanded
    BY DEF NoLostWakeup, Dormant, EmptyHanded, Sleepers, At
  <1>7. PoolTypeOK
    BY <1>3 DEF PoolTypeOK
  <1>8. SetupOnce /\ SetupOrder
    <2>1. connpool # "set" /\ ~alive /\ \A t \in Threads : at[t] = "out" /\ mutex # t
      BY MutexAssumption
    <2>2. connpool = "set" <=> alive
      BY <2>1
    <2> QED
      BY <2>1, <2>2 DEF SetupOnce, SetupOrder
  <1> QED
    BY <1>3, <1>4, <1>5, <1>6, <1>7, <1>8 DEF PoolInv, ListInv

(* What the pool adds to the list's invariant, when the list stays. *)
LEMMA PoolPartsUnchanged ==
    ASSUME PoolInv, ListInv', UNCHANGED poolVars, alive' = alive, timed' = timed
    PROVE  PoolInv'
  BY DEF PoolInv, ListInv, PoolTypeOK, SetupOnce, SetupOrder, poolVars

(* conn_pool_init and conn_pool_fini *)
LEMMA PoolInitStepInv ==
    ASSUME PoolInv, PoolInitOk \/ PoolInitFails \/ PoolFini
    PROVE  PoolInv'
  <1> USE HasTimeoutAssumption, MutexAssumption
  <1>1. CASE PoolInitOk
    <2>1. /\ Create(HasTimeout) /\ connpool = "uninitialised" /\ connpool' = "set"
          /\ mutex' = mutex /\ at' = at /\ ~alive /\ alive' /\ timed' = HasTimeout
      BY <1>1 DEF PoolInitOk, Create
    <2>2. ListInv'
      BY <2>1, CreateKeeps DEF PoolInv
    <2>3. \A t \in Threads : at[t] = "out"
      BY <2>1 DEF PoolInv, SetupOrder
    <2>4. PoolTypeOK'
      BY <2>1, <2>2 DEF PoolInv, PoolTypeOK, ListInv
    <2>5. SetupOnce' /\ SetupOrder'
      BY <2>1, <2>3 DEF PoolInv, SetupOnce, SetupOrder
    <2> QED
      BY <2>2, <2>4, <2>5 DEF PoolInv
  <1>2. CASE PoolInitFails
    <2>1. /\ connpool = "uninitialised" /\ connpool' = "null" /\ mutex' = "free"
          /\ UNCHANGED vars /\ at' = at /\ alive' = alive /\ timed' = timed
      BY <1>2 DEF PoolInitFails, vars
    <2>2. ListInv'
      BY <2>1, ListUnchanged DEF PoolInv
    <2>3. \A t \in Threads : at[t] = "out"
      BY <2>1 DEF PoolInv, SetupOrder
    <2>4. PoolTypeOK'
      BY <2>1, <2>2 DEF PoolInv, PoolTypeOK, ListInv
    <2>5. SetupOnce' /\ SetupOrder'
      BY <2>1, <2>3 DEF PoolInv, SetupOnce, SetupOrder
    <2> QED
      BY <2>2, <2>4, <2>5 DEF PoolInv
  <1>3. CASE PoolFini
    <2>1. /\ Destroy /\ connpool' = "uninitialised" /\ mutex' = mutex /\ at' = at /\ ~alive'
          /\ \A t \in Threads : at[t] = "out"
      BY <1>3 DEF PoolFini, Destroy
    <2>2. ListInv'
      BY <2>1, DestroyKeeps DEF PoolInv
    <2>3. PoolTypeOK'
      BY <2>1, <2>2 DEF PoolInv, PoolTypeOK, ListInv
    <2>4. SetupOnce' /\ SetupOrder'
      BY <2>1 DEF PoolInv, SetupOnce, SetupOrder
    <2> QED
      BY <2>2, <2>3, <2>4 DEF PoolInv
  <1> QED
    BY <1>1, <1>2, <1>3

(* conn_pool_acquire and conn_pool_setup_lock, while the list is as it is. *)
LEMMA PoolCallInv ==
    ASSUME PoolInv, NEW t \in Threads,
           \/ PoolAcquire(t) \/ SetupLock(t) \/ SetupFails(t)
    PROVE  PoolInv'
  <1>1. UNCHANGED vars /\ connpool' = connpool /\ alive' = alive /\ timed' = timed
    BY DEF PoolAcquire, SetupLock, SetupFails, vars
  <1>2. ListInv'
    BY <1>1, ListUnchanged DEF PoolInv
  <1>3. at \in [Threads -> {"out", "lock", "setup", "timeout", "acquire"}]
        /\ mutex \in {"none", "free"} \cup Threads
    BY DEF PoolInv, PoolTypeOK
  <1>4. PoolTypeOK'
    BY <1>1, <1>2, <1>3 DEF PoolInv, PoolTypeOK, ListInv, PoolAcquire, SetupLock, SetupFails
  <1>5. SetupOnce'
    BY <1>1, <1>3, MutexAssumption DEF PoolInv, PoolTypeOK, SetupOnce, PoolAcquire, SetupLock, SetupFails
  <1>6. SetupOrder'
    BY <1>1, <1>3 DEF PoolInv, SetupOnce, SetupOrder, PoolAcquire, SetupLock, SetupFails
  <1> QED
    BY <1>2, <1>4, <1>5, <1>6 DEF PoolInv

(* conn_pool_setup_lock with the mutex: the list, and then its timeout. *)
LEMMA SetupInv ==
    ASSUME PoolInv, NEW t \in Threads, SetupCreate(t) \/ SetupTimeout(t)
    PROVE  PoolInv'
  <1>1. at \in [Threads -> {"out", "lock", "setup", "timeout", "acquire"}]
        /\ mutex \in {"none", "free"} \cup Threads
    BY DEF PoolInv, PoolTypeOK
  <1>2. CASE SetupCreate(t)
    <2>1. /\ Create(FALSE) /\ at[t] = "setup" /\ at' = [at EXCEPT ![t] = "timeout"]
          /\ connpool' = "set" /\ mutex' = mutex /\ ~alive /\ alive'
      BY <1>2 DEF SetupCreate, Create
    <2>2. ListInv'
      BY <2>1, CreateKeeps DEF PoolInv
    <2>3. PoolTypeOK'
      BY <1>1, <2>1, <2>2 DEF PoolInv, PoolTypeOK, ListInv
    <2>4. SetupOnce'
      BY <1>1, <2>1 DEF PoolInv, SetupOnce
    <2>5. SetupOrder'
      BY <1>1, <2>1 DEF PoolInv, SetupOrder
    <2> QED
      BY <2>2, <2>3, <2>4, <2>5 DEF PoolInv
  <1>3. CASE SetupTimeout(t)
    <2>1. /\ at[t] = "timeout" /\ timed' = HasTimeout /\ mutex' = "free"
          /\ at' = [at EXCEPT ![t] = "acquire"] /\ connpool' = connpool
          /\ UNCHANGED <<alive, avail, ntotal, now, pc, held, dropped>>
      BY <1>3 DEF SetupTimeout
    <2>2. ListInv'
      <3>1. timed' \in BOOLEAN
        BY <2>1, HasTimeoutAssumption
      <3>2. now \in 0 .. MaxTime /\ MaxTime \in Nat
        BY LimitsAssumption DEF PoolInv, ListInv, TypeOK
      <3>3. now' \in 0 .. MaxTime /\ now <= now'
        BY <2>1, <3>2
      <3> QED
        BY <2>1, <3>1, <3>3, ClockKeeps DEF PoolInv
    <2>3. PoolTypeOK'
      BY <1>1, <2>1, <2>2 DEF PoolInv, PoolTypeOK, ListInv
    <2>4. SetupOnce'
      BY <1>1, <2>1, MutexAssumption DEF PoolInv, SetupOnce, SetupOrder
    <2>5. SetupOrder'
      BY <1>1, <2>1 DEF PoolInv, SetupOnce, SetupOrder
    <2> QED
      BY <2>2, <2>3, <2>4, <2>5 DEF PoolInv
  <1> QED
    BY <1>2, <1>3

(* The pool's calls of the list. *)
LEMMA ListStepInv ==
    ASSUME PoolInv, NEW t \in Threads, ListAcquire(t) \/ ListStep(t)
    PROVE  PoolInv'
  <1>1. CASE ListAcquire(t)
    <2>1. /\ Acquire(t) /\ at[t] = "acquire" /\ at' = [at EXCEPT ![t] = "out"]
          /\ connpool' = connpool /\ mutex' = mutex
      BY <1>1 DEF ListAcquire
    <2>2. ListInv' /\ alive' = alive /\ timed' = timed
      BY <2>1, ThreadKeeps DEF PoolInv
    <2>3. PoolTypeOK'
      BY <2>1, <2>2 DEF PoolInv, PoolTypeOK, ListInv
    <2>4. SetupOnce' /\ SetupOrder'
      BY <2>1, <2>2 DEF PoolInv, PoolTypeOK, SetupOnce, SetupOrder
    <2> QED
      BY <2>2, <2>3, <2>4 DEF PoolInv
  <1>2. CASE ListStep(t)
    <2>1. UNCHANGED poolVars
      BY <1>2 DEF ListStep
    <2>2. ListInv' /\ alive' = alive /\ timed' = timed
      BY <1>2, ThreadKeeps DEF PoolInv, ListStep
    <2> QED
      BY <2>1, <2>2, PoolPartsUnchanged
  <1> QED
    BY <1>1, <1>2

(* The inductive invariant: that of the list, and that it is created once  *)
(* and gets its timeout.                                                   *)
THEOREM PoolInvariant == PoolSpec => []PoolInv
  <1>1. PoolInv /\ [PoolNext]_allVars => PoolInv'
    <2> SUFFICES ASSUME PoolInv, [PoolNext]_allVars PROVE PoolInv'
      OBVIOUS
    <2>1. CASE UNCHANGED allVars
      <3>1. UNCHANGED vars /\ UNCHANGED poolVars /\ alive' = alive /\ timed' = timed
        BY <2>1 DEF allVars, vars
      <3>2. ListInv'
        BY <3>1, ListUnchanged DEF PoolInv
      <3> QED
        BY <3>1, <3>2, PoolPartsUnchanged
    <2>2. CASE PoolTick
      <3>1. /\ now < MaxTime /\ now' = now + 1 /\ UNCHANGED poolVars
            /\ UNCHANGED <<alive, avail, ntotal, timed, pc, held, dropped>>
        BY <2>2 DEF PoolTick, Tick
      <3>2. now \in 0 .. MaxTime /\ MaxTime \in Nat /\ timed \in BOOLEAN
        BY LimitsAssumption DEF PoolInv, ListInv, TypeOK
      <3>3. now' \in 0 .. MaxTime /\ now <= now'
        BY <3>1, <3>2
      <3>4. ListInv'
        BY <3>1, <3>2, <3>3, ClockKeeps DEF PoolInv
      <3> QED
        BY <3>1, <3>4, PoolPartsUnchanged
    <2> QED
      BY <2>1, <2>2, PoolInitStepInv, PoolCallInv, SetupInv, ListStepInv DEF PoolNext
  <1> QED
    BY <1>1, PoolInitInv, PTL DEF PoolSpec

(* Every variable of the pool and its list has its type. *)
THEOREM PoolTypes == PoolSpec => []PoolTypeOK
  <1>1. PoolInv => PoolTypeOK
    BY DEF PoolInv
  <1> QED
    BY <1>1, PoolInvariant, PTL

(* reslist_t's ntotal counts the resources there are, and stays within     *)
(* hmax.                                                                   *)
THEOREM PoolAccounting == PoolSpec => []Accounting
  <1>1. PoolInv => Accounting
    BY DEF PoolInv, ListInv
  <1> QED
    BY <1>1, PoolInvariant, PTL

(* No resource is given to two callers, nor is one idle while it is used.  *)
THEOREM PoolOwnedOnce == PoolSpec => []OwnedOnce
  <1>1. PoolInv => OwnedOnce
    BY DEF PoolInv, ListInv
  <1> QED
    BY <1>1, PoolInvariant, PTL

(* The ring is ordered by the time of return, so that reslist_maint may    *)
(* stop at the first resource that is too young.                           *)
THEOREM PoolAvailOrdered == PoolSpec => []AvailOrdered
  <1>1. PoolInv => AvailOrdered
    BY DEF PoolInv, ListInv
  <1> QED
    BY <1>1, PoolInvariant, PTL

(* As long as no failed call has used up a wakeup, no caller sleeps while  *)
(* a resource or a slot is free that no woken thread comes for.            *)
THEOREM PoolNoLostWakeup == PoolSpec => []NoLostWakeup
  <1>1. PoolInv => NoLostWakeup
    BY DEF PoolInv, ListInv
  <1> QED
    BY <1>1, PoolInvariant, PTL

(* Only the owner of svr->mutex sets the list up, and only when there is   *)
(* none.                                                                   *)
THEOREM PoolSetupOnce == PoolSpec => []SetupOnce
  <1>1. PoolInv => SetupOnce
    BY DEF PoolInv
  <1> QED
    BY <1>1, PoolInvariant, PTL

(* With svr->timeout set, only a caller that came between the creation of  *)
(* the list and reslist_timeout_set waits without a timeout.               *)
THEOREM PoolUntimedOnlyInSetup == PoolSpec => UntimedOnlyInSetup
  <1> DEFINE Entered == \A t \in Threads : HasTimeout /\ pc[t] # "wait" /\ pc'[t] = "wait"
                          => \E u \in Threads : at[u] = "timeout"
  <1>1. PoolInv /\ [PoolNext]_allVars => [Entered]_allVars
    <2> SUFFICES ASSUME PoolInv, PoolNext, NEW t \in Threads, HasTimeout,
                        pc[t] # "wait", pc'[t] = "wait"
                 PROVE  \E u \in Threads : at[u] = "timeout"
      OBVIOUS
    <2>1. pc \in [Threads -> Places]
      BY DEF PoolInv, ListInv, TypeOK, Places
    <2>2. ASSUME NEW u \in Threads, NEW l, NEW S, Goto(u, l, S)
          PROVE  u = t /\ l = "wait"
      BY <2>1, <2>2 DEF Goto
    <2>3. ASSUME NEW u \in Threads, NEW rest, NEW n, Obtain(u, rest, n)
          PROVE  ~timed /\ u = t
      BY <2>2, <2>3 DEF Obtain
    <2>4. ASSUME NEW u \in Threads, NEW rest, NEW n, ObtainFails(u, rest, n)
          PROVE  FALSE
      BY <2>1, <2>4 DEF ObtainFails
    <2>5. ASSUME NEW u \in Threads, Acquire(u) PROVE alive /\ ~timed
      <3>1. pc' # pc /\ alive
        BY <2>5 DEF Acquire
      <3>2. PICK rest, n : rest = Drop(Stale) /\ n = ntotal - Stale
        OBVIOUS
      <3>3. Obtain(u, rest, n) \/ ObtainFails(u, rest, n)
        BY <2>5, <3>1, <3>2 DEF Acquire
      <3> QED
        BY <2>3, <2>4, <3>1, <3>3
    <2>6. ASSUME NEW u \in Threads, Wake(u) PROVE alive /\ ~timed
      <3>1. alive
        BY <2>6, CallersHaveList DEF Wake, PoolInv
      <3>2. PICK rest, n : rest = avail /\ n = ntotal
        OBVIOUS
      <3>3. Obtain(u, rest, n) \/ ObtainFails(u, rest, n)
        BY <2>6, <3>2 DEF Wake
      <3> QED
        BY <2>3, <2>4, <3>1, <3>3
    <2>7. ASSUME NEW u \in Threads,
                 \/ TimeUp(u) \/ GiveUp(u) \/ SpuriousWakeup(u)
                 \/ Release(u) \/ Maint(u) \/ Invalidate(u)
          PROVE  FALSE
      <3>1. CASE TimeUp(u) \/ GiveUp(u) \/ SpuriousWakeup(u)
        BY <2>1, <3>1 DEF TimeUp, GiveUp, SpuriousWakeup
      <3>2. CASE Release(u) \/ Maint(u) \/ Invalidate(u)
        <4>1. PICK l, S : l \in {"out", "maint"} /\ Goto(u, l, S)
          BY <3>2 DEF Release, Maint, Invalidate
        <4> QED
          BY <2>2, <4>1
      <3> QED
        BY <2>7, <3>1, <3>2
    <2>8. pc' # pc
      OBVIOUS
    <2>9. alive /\ ~timed
      BY <2>5, <2>6, <2>7, <2>8
      DEF PoolNext, PoolInitOk, PoolInitFails, PoolFini, PoolTick, PoolAcquire, SetupLock,
          SetupCreate, SetupFails, SetupTimeout, ListAcquire, ListStep, Create, Destroy, Tick, vars
    <2> QED
      BY <2>9 DEF PoolInv, SetupOrder
  <1> QED
    BY <1>1, PoolInvariant, PTL DEF PoolSpec, UntimedOnlyInSetup
=============================================================================
