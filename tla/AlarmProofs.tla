---------------------------- MODULE AlarmProofs ----------------------------
(***************************************************************************)
(* Proofs about the alarms (Alarm): the timer covers the first alarm, no   *)
(* callback comes early, and callbacks may change the list, for every set  *)
(* of intervals and every bound on registrations and on the clock.         *)
(***************************************************************************)
EXTENDS Alarm, SequenceFacts, TLAPS

-----------------------------------------------------------------------------
(* The list. *)

(* Taking the entry at i out of a sequence moves the later ones up by one. *)
LEMMA RemoveAtFacts ==
    ASSUME NEW S, NEW s \in Seq(S), NEW i \in 1..Len(s)
    PROVE  /\ RemoveAt(s, i) \in Seq(S)
           /\ Len(RemoveAt(s, i)) = Len(s) - 1
           /\ \A k \in 1..(Len(s) - 1) :
                 RemoveAt(s, i)[k] = IF k < i THEN s[k] ELSE s[k + 1]
  <1>1. PICK n \in Nat : n = Len(s)
    BY LenProperties
  <1> DEFINE a == SubSeq(s, 1, i - 1)
             b == SubSeq(s, i + 1, n)
  <1>2. /\ a \in Seq(S) /\ Len(a) = i - 1
        /\ \A k \in 1..(i - 1) : a[k] = s[k]
    <2>1. i - 1 \in Nat /\ 1 <= (i - 1) + 1 /\ i - 1 <= Len(s)
      BY <1>1
    <2> QED
      BY <2>1, SegmentFacts
  <1>3. /\ b \in Seq(S) /\ Len(b) = n - i
        /\ \A k \in 1..(n - i) : b[k] = s[i + k]
    <2>1. PICK m \in Nat \ {0} : m = i + 1
      OBVIOUS
    <2>2. m <= n + 1 /\ n <= Len(s) /\ n - m + 1 = n - i
      BY <1>1, <2>1
    <2>3. /\ SubSeq(s, m, n) \in Seq(S) /\ Len(SubSeq(s, m, n)) = n - m + 1
          /\ \A k \in 1..(n - m + 1) : SubSeq(s, m, n)[k] = s[m + k - 1]
      BY <2>2, SegmentFacts
    <2>4. ASSUME NEW k \in 1..(n - i)
          PROVE  SubSeq(s, m, n)[k] = s[i + k]
      <3>1. m + k - 1 = i + k /\ k \in 1..(n - m + 1)
        BY <2>1, <2>2
      <3> QED
        BY <2>3, <3>1
    <2> QED
      BY <2>1, <2>2, <2>3, <2>4
  <1>4. /\ a \o b \in Seq(S) /\ Len(a \o b) = Len(a) + Len(b)
        /\ \A k \in 1..(Len(a) + Len(b)) :
              (a \o b)[k] = IF k <= Len(a) THEN a[k] ELSE b[k - Len(a)]
    BY <1>2, <1>3, ConcatProperties
  <1>5. RemoveAt(s, i) = a \o b
    BY <1>1 DEF RemoveAt
  <1> HIDE DEF a, b
  <1>6. Len(a \o b) = n - 1 /\ Len(a) + Len(b) = n - 1
    BY <1>1, <1>2, <1>3, <1>4
  <1>7. ASSUME NEW k \in 1..(n - 1)
        PROVE  (a \o b)[k] = IF k < i THEN s[k] ELSE s[k + 1]
    <2>1. CASE k < i
      BY <1>1, <1>2, <1>4, <1>6, <2>1
    <2>2. CASE ~(k < i)
      <3>1. k - (i - 1) \in 1..(n - i) /\ i + (k - (i - 1)) = k + 1 /\ ~(k <= i - 1)
        BY <1>1, <2>2
      <3> QED
        BY <1>2, <1>3, <1>4, <1>6, <2>2, <3>1
    <2> QED
      BY <2>1, <2>2
  <1> QED
    BY <1>1, <1>4, <1>5, <1>6, <1>7

(* What the type invariant says of the list. *)
LEMMA ListFacts ==
    TypeOK =>
        /\ thealarms \in Seq(Entries) /\ Len(thealarms) \in Nat
        /\ DOMAIN thealarms = 1..Len(thealarms)
        /\ thealarms = <<>> <=> Len(thealarms) = 0
        /\ \A i \in DOMAIN thealarms :
              /\ thealarms[i] \in Entries
              /\ thealarms[i].id \in 0..MaxReg /\ thealarms[i].t \in Nat
              /\ thealarms[i].last \in Nat /\ thealarms[i].next \in Nat
  <1> SUFFICES ASSUME TypeOK
               PROVE  /\ thealarms \in Seq(Entries) /\ Len(thealarms) \in Nat
                      /\ DOMAIN thealarms = 1..Len(thealarms)
                      /\ thealarms = <<>> <=> Len(thealarms) = 0
                      /\ \A i \in DOMAIN thealarms :
                            /\ thealarms[i] \in Entries
                            /\ thealarms[i].id \in 0..MaxReg /\ thealarms[i].t \in Nat
                            /\ thealarms[i].last \in Nat /\ thealarms[i].next \in Nat
    OBVIOUS
  <1>1. thealarms \in Seq(Entries)
    BY DEF TypeOK
  <1>2. /\ Len(thealarms) \in Nat /\ DOMAIN thealarms = 1..Len(thealarms)
        /\ \A i \in DOMAIN thealarms : thealarms[i] \in Entries
    BY <1>1, LenProperties
  <1>3. thealarms = <<>> <=> Len(thealarms) = 0
    BY <1>1, EmptySeq
  <1>4. \A e \in Entries : /\ e.id \in 0..MaxReg /\ e.t \in Nat
                           /\ e.last \in Nat /\ e.next \in Nat
    BY DEF Entries
  <1> QED
    BY <1>1, <1>2, <1>3, <1>4

(* sa_find_next finds an entry, and none is due before it. *)
LEMMA FindsNext ==
    ASSUME TypeOK, thealarms # <<>>
    PROVE  /\ sa_find_next \in DOMAIN thealarms
           /\ \A j \in DOMAIN thealarms : thealarms[sa_find_next].next <= thealarms[j].next
  <1>1. /\ 1 \in DOMAIN thealarms /\ DOMAIN thealarms \subseteq Nat
        /\ \A i \in DOMAIN thealarms : thealarms[i].next \in Nat
    BY ListFacts
  <1> DEFINE T == {thealarms[i].next : i \in DOMAIN thealarms}
  <1>2. T \in SUBSET Nat /\ T # {}
    BY <1>1
  <1>3. PICK m \in T : \A y \in T : m <= y
    BY <1>2, LeastNumber
  <1> DEFINE J == {i \in DOMAIN thealarms : thealarms[i].next = m}
  <1>4. J \in SUBSET Nat /\ J # {}
    BY <1>1, <1>3
  <1>5. PICK i \in J : \A j \in J : i <= j
    BY <1>4, LeastNumber
  <1>6. ASSUME NEW j \in DOMAIN thealarms
        PROVE  \/ thealarms[i].next < thealarms[j].next
               \/ thealarms[i].next = thealarms[j].next /\ i <= j
    <2>1. thealarms[i].next = m /\ m <= thealarms[j].next /\ thealarms[j].next \in Nat
          /\ m \in Nat
      BY <1>1, <1>3, <1>5
    <2>2. thealarms[j].next = m => i <= j
      BY <1>5
    <2> QED
      BY <2>1, <2>2
  <1>7. i \in DOMAIN thealarms
    BY <1>5
  <1> HIDE DEF T, J
  <1>8. /\ sa_find_next \in DOMAIN thealarms
        /\ \A j \in DOMAIN thealarms :
              \/ thealarms[sa_find_next].next < thealarms[j].next
              \/ thealarms[sa_find_next].next = thealarms[j].next /\ sa_find_next <= j
    BY <1>6, <1>7 DEF sa_find_next
  <1> QED
    BY <1>1, <1>8

(* A registration number is at one place of the list. *)
LEMMA WhereIs ==
    ASSUME TypeOK, Numbered, NEW i \in DOMAIN thealarms
    PROVE  Where(thealarms[i].id) = i /\ thealarms[i].id \in Ids
  <1>1. DOMAIN thealarms = 1..Len(thealarms) /\ Len(thealarms) \in Nat
    BY ListFacts
  <1>2. \A j \in DOMAIN thealarms : thealarms[j].id = thealarms[i].id => j = i
    BY DEF Numbered
  <1>3. \A j \in 1..(i - 1) : thealarms[j].id # thealarms[i].id
    BY <1>1, <1>2
  <1> QED
    BY <1>2, <1>3 DEF Where, Ids

(* What a number of the list stands for. *)
LEMMA FoundAt ==
    ASSUME TypeOK, Numbered, NEW id \in Ids
    PROVE  Where(id) \in DOMAIN thealarms /\ thealarms[Where(id)].id = id
  <1>1. PICK i \in DOMAIN thealarms : thealarms[i].id = id
    BY DEF Ids
  <1> QED
    BY <1>1, WhereIs

(* The entry a context registers is where it looks for it. *)
LEMMA EndIsHeld ==
    ASSUME TypeOK, Numbered, NEW c \in Contexts, AtEnd(c)
    PROVE  /\ SlotHeld(call[c].prev) /\ Slot(call[c].prev) = Len(thealarms)
           /\ Len(thealarms) \in DOMAIN thealarms
  <1>1. PICK n \in Nat : n = Len(thealarms) /\ DOMAIN thealarms = 1..n
    BY ListFacts
  <1>2. CASE call[c].prev = 0 /\ n = 1
    BY <1>1, <1>2 DEF SlotHeld, Slot
  <1>3. CASE call[c].prev # 0 /\ n > 1 /\ thealarms[n - 1].id = call[c].prev
    <2>1. n - 1 \in DOMAIN thealarms
      BY <1>1, <1>3
    <2>2. Where(call[c].prev) = n - 1 /\ call[c].prev \in Ids
      BY <1>3, <2>1, WhereIs
    <2> QED
      BY <1>1, <1>3, <2>2 DEF SlotHeld, Slot
  <1> QED
    BY <1>1, <1>2, <1>3 DEF AtEnd

-----------------------------------------------------------------------------
(* What the invariant says while a context runs. *)

(* Only one context works on the list; the other one is outside a call or is *)
(* interrupted in it.                                                         *)
LEMMA OneActive ==
    ASSUME IInv, NEW c \in Contexts, Running(c)
    PROVE  /\ Active = c /\ ~broken
           /\ c = "main" => hpc = "none" /\ call["handler"].pc = "idle"
           /\ c = "handler" => hpc = "callback" /\ call["main"].pc # "fill"
  BY DEF IInv, CallPhases, Running, Active, Contexts

(* The records a call starts from. *)
LEMMA BlankTypes == Blank \in Entries
  <1>1. PICK b \in BOOLEAN : b = FALSE
    BY Zenon
  <1>2. [id |-> 0, t |-> 0, repeat |-> b, last |-> 0, next |-> 0] \in Entries
    BY BoundsAssumption DEF Entries
  <1> QED
    BY <1>1, <1>2 DEF Blank

LEMMA IdleTypes ==
    Idle \in [pc : CallPcs, prev : 0..MaxReg, id : 0..MaxReg, new : Entries]
  BY BlankTypes, BoundsAssumption DEF Idle, CallPcs

(* Between two registrations of the running context every entry is up to date, *)
(* but for the one the running alarm interrupted.                               *)
LEMMA Tidy ==
    ASSUME IInv, NEW c \in Contexts, Running(c), call[c].pc \notin {"fill", "update"},
           NEW i \in DOMAIN thealarms
    PROVE  /\ thealarms[i].id # 0
           /\ \/ Settled(thealarms[i])
              \/ /\ Raw(thealarms[i]) /\ thealarms[i].id = cur
                 /\ hpc = "callback" /\ call["main"].pc = "update"
  BY OneActive DEF IInv, UpToDate, Settled, Raw

(* The timer that set_an_alarm leaves. *)
LEMMA TimerSet ==
    ASSUME TypeOK, set_an_alarm
    PROVE  /\ \/ timer' \in {Off, Disarmed}
              \/ timer' \in Nat /\ timer' >= now
           /\ thealarms # <<>> =>
                 \/ timer' = Disarmed
                 \/ /\ timer' # Off
                    /\ \/ \A i \in DOMAIN thealarms : timer' <= thealarms[i].next
                       \/ timer' <= now + 1
  <1>1. PICK n \in Nat \ {0} : n = now
    BY DEF TypeOK
  <1>2. CASE thealarms = <<>>
    BY <1>2 DEF set_an_alarm, TypeOK
  <1>3. CASE thealarms # <<>>
    <2>1. PICK x \in Nat : x = thealarms[sa_find_next].next
      BY <1>3, FindsNext, ListFacts
    <2>2. \A i \in DOMAIN thealarms : x <= thealarms[i].next
      BY <1>3, <2>1, FindsNext
    <2>3. delta = IF n > x THEN 1 ELSE x - n
      BY <1>1, <2>1 DEF delta
    <2>4. CASE delta = 0
      BY <1>3, <2>4 DEF set_an_alarm
    <2>5. CASE delta # 0
      <3>1. timer' = IF n > x THEN n + 1 ELSE x
        BY <1>1, <1>3, <2>3, <2>5 DEF set_an_alarm
      <3>2. CASE n > x
        BY <1>1, <3>1, <3>2 DEF Off
      <3>3. CASE ~(n > x)
        <4>1. timer' = x /\ x >= n /\ x \in Nat /\ x # 0
          BY <3>1, <3>3
        <4> QED
          BY <1>1, <2>2, <4>1 DEF Off
      <3> QED
        BY <3>2, <3>3
    <2> QED
      BY <2>4, <2>5
  <1> QED
    BY <1>2, <1>3

-----------------------------------------------------------------------------
(* The steps of a call that leave the list alone. *)

(* A context that goes on outside the filling of an entry disturbs nothing of *)
(* what is known of the list.                                                  *)
LEMMA ListKept ==
    ASSUME IInv, NEW c \in Contexts, Running(c), call[c].pc \notin {"fill", "update"},
           call'[c].pc \notin {"fill", "update"},
           \A d \in Contexts : d # c => call'[d] = call[d],
           UNCHANGED <<now, thealarms, regnum, hpc, cur, t_now, broken>>
    PROVE  Numbered' /\ UpToDate' /\ OnTime' /\ CallbacksSafe'
  <1>1. Numbered'
    BY DEF IInv, Numbered
  <1>2. UpToDate'
    <2> SUFFICES ASSUME NEW i \in DOMAIN thealarms
                 PROVE  \/ Settled(thealarms[i])'
                        \/ /\ Raw(thealarms[i]) /\ thealarms[i].id = cur
                           /\ hpc = "callback" /\ call'["main"].pc = "update"
      BY DEF UpToDate, Raw
    <2>1. CASE Settled(thealarms[i])
      BY <2>1 DEF Settled
    <2>2. CASE /\ Raw(thealarms[i]) /\ thealarms[i].id = cur
               /\ hpc = "callback" /\ call["main"].pc = "update"
      <3>1. c # "main"
        BY <2>2 DEF Running
      <3> QED
        BY <2>2, <3>1 DEF Contexts
    <2> QED
      BY <2>1, <2>2, Tidy
  <1>3. OnTime'
    <2>1. hpc = "callback" => c # "main" /\ call'["main"] = call["main"]
      BY DEF Running, Contexts
    <2> QED
      BY <2>1 DEF IInv, OnTime
  <1>4. CallbacksSafe'
    BY OneActive DEF CallbacksSafe
  <1> QED
    BY <1>1, <1>2, <1>3, <1>4

(* set_an_alarm at the end of a registration covers the new entry. *)
LEMMA RegisterSetKeeps ==
    ASSUME IInv, NEW c \in Contexts, RegisterSet(c)
    PROVE  IInv'
  <1>1. /\ Running(c) /\ call[c].pc = "set"
        /\ UNCHANGED <<now, thealarms, regnum, start_alarms, pending, hpc, cur, t_now, broken>>
        /\ call' = [call EXCEPT ![c].pc = "return"]
        /\ start_alarms => set_an_alarm
        /\ ~start_alarms => timer' = timer
    BY DEF RegisterSet, At, Goto
  <1>2. /\ call \in [Contexts -> [pc : CallPcs, prev : 0..MaxReg, id : 0..MaxReg, new : Entries]]
        /\ call'[c].pc = "return" /\ call'[c].prev = call[c].prev
        /\ \A d \in Contexts : d # c => call'[d] = call[d]
    BY <1>1 DEF IInv, TypeOK
  <1>3. Numbered' /\ UpToDate' /\ OnTime' /\ CallbacksSafe'
    <2>1. call[c].pc \notin {"fill", "update"} /\ call'[c].pc \notin {"fill", "update"}
      BY <1>1, <1>2
    <2> QED
      BY <1>1, <1>2, <2>1, ListKept
  <1>4. TypeOK'
    <2>1. call' \in [Contexts -> [pc : CallPcs, prev : 0..MaxReg, id : 0..MaxReg, new : Entries]]
      BY <1>1, <1>2 DEF CallPcs
    <2>2. timer' \in {Off, Disarmed} \/ (timer' \in Nat /\ timer' >= now)
      BY <1>1, TimerSet DEF IInv, TypeOK
    <2> QED
      BY <1>1, <2>1, <2>2 DEF IInv, TypeOK
  <1>5. CallPhases'
    <2>1. AtEnd("handler") <=> AtEnd("handler")'
      BY <1>1, <1>2 DEF AtEnd, Contexts
    <2>2. c = "main" => hpc # "callback" /\ call["handler"].pc = "idle"
      BY <1>1, OneActive
    <2>3. c = "handler" => hpc = "callback" /\ call["main"].pc # "fill"
      BY <1>1, OneActive
    <2>4. CASE c = "main"
      BY <1>1, <1>2, <2>2, <2>4 DEF IInv, CallPhases, Contexts
    <2>5. CASE c = "handler"
      BY <1>1, <1>2, <2>1, <2>3, <2>5 DEF IInv, CallPhases, Contexts
    <2> QED
      BY <2>4, <2>5 DEF Contexts
  <1>6. Covered'
    BY <1>1, TimerSet, OneActive DEF IInv, Covered
  <1> QED
    BY <1>3, <1>4, <1>5, <1>6 DEF IInv

(* The end of a registration. *)
LEMMA RegisterReturnKeeps ==
    ASSUME IInv, NEW c \in Contexts, RegisterReturn(c)
    PROVE  IInv'
  <1>1. /\ Running(c) /\ call[c].pc = "return" /\ call' = [call EXCEPT ![c] = Idle]
        /\ UNCHANGED <<now, thealarms, regnum, start_alarms, timer, pending, hpc, cur,
                       t_now, broken>>
    BY DEF RegisterReturn, At
  <1>2. /\ call \in [Contexts -> [pc : CallPcs, prev : 0..MaxReg, id : 0..MaxReg, new : Entries]]
        /\ call'[c] = Idle /\ \A d \in Contexts : d # c => call'[d] = call[d]
    BY <1>1 DEF IInv, TypeOK
  <1>3. Numbered' /\ UpToDate' /\ OnTime' /\ CallbacksSafe'
    <2>1. call[c].pc \notin {"fill", "update"} /\ call'[c].pc \notin {"fill", "update"}
      BY <1>1, <1>2 DEF Idle
    <2> QED
      BY <1>1, <1>2, <2>1, ListKept
  <1>4. TypeOK'
    <2>1. call' \in [Contexts -> [pc : CallPcs, prev : 0..MaxReg, id : 0..MaxReg, new : Entries]]
      BY <1>1, <1>2, IdleTypes
    <2> QED
      BY <1>1, <2>1 DEF IInv, TypeOK
  <1>5. CallPhases'
    BY <1>1, <1>2, OneActive DEF IInv, CallPhases, Contexts, Idle
  <1>6. Covered'
    BY <1>1, OneActive DEF IInv, Covered, Contexts
  <1> QED
    BY <1>3, <1>4, <1>5, <1>6 DEF IInv

(* The walk of zevent_alarm_unregister remembers the entry before its own. *)
LEMMA UnregisterFindKeeps ==
    ASSUME IInv, NEW c \in Contexts, NEW id \in 1..MaxReg, UnregisterFind(c, id)
    PROVE  IInv'
  <1>1. PICK p : p = IF Where(id) = 1 THEN 0 ELSE thealarms[Where(id) - 1].id
    OBVIOUS
  <1> DEFINE r == [pc |-> "unlink", id |-> id, new |-> Blank, prev |-> p]
  <1>2. /\ Running(c) /\ call[c].pc = "idle" /\ id \in Ids /\ call' = [call EXCEPT ![c] = r]
        /\ UNCHANGED <<now, thealarms, regnum, start_alarms, timer, pending, hpc, cur,
                       t_now, broken>>
    BY <1>1 DEF UnregisterFind, At
  <1>3. /\ call \in [Contexts -> [pc : CallPcs, prev : 0..MaxReg, id : 0..MaxReg, new : Entries]]
        /\ call'[c] = r /\ \A d \in Contexts : d # c => call'[d] = call[d]
    BY <1>2 DEF IInv, TypeOK
  <1>4. PICK i \in DOMAIN thealarms : i = Where(id) /\ thealarms[i].id = id
    BY <1>2, FoundAt DEF IInv
  <1>5. DOMAIN thealarms = 1..Len(thealarms) /\ Len(thealarms) \in Nat
    BY ListFacts DEF IInv
  <1>6. /\ p \in 0..MaxReg
        /\ \/ p = 0 /\ i = 1
           \/ p # 0 /\ i > 1 /\ thealarms[i - 1].id = p
    <2>1. CASE i = 1
      BY <1>1, <1>4, <2>1, BoundsAssumption
    <2>2. CASE i # 1
      <3>1. i - 1 \in DOMAIN thealarms /\ i > 1
        BY <1>5, <2>2
      <3>2. thealarms[i - 1].id # 0 /\ thealarms[i - 1].id \in 0..MaxReg
        BY <1>2, <3>1, Tidy, ListFacts DEF IInv
      <3> QED
        BY <1>1, <1>4, <2>2, <3>1, <3>2
    <2> QED
      BY <2>1, <2>2
  <1>7. Numbered' /\ UpToDate' /\ OnTime' /\ CallbacksSafe'
    <2>1. call[c].pc \notin {"fill", "update"} /\ call'[c].pc \notin {"fill", "update"}
      BY <1>2, <1>3
    <2> QED
      BY <1>2, <1>3, <2>1, ListKept
  <1>8. TypeOK'
    <2>1. call' \in [Contexts -> [pc : CallPcs, prev : 0..MaxReg, id : 0..MaxReg, new : Entries]]
      <3>1. r \in [pc : CallPcs, prev : 0..MaxReg, id : 0..MaxReg, new : Entries]
        BY <1>6, BlankTypes DEF CallPcs
      <3> QED
        BY <1>2, <1>3, <3>1
    <2> QED
      BY <1>2, <2>1 DEF IInv, TypeOK
  <1>9. CallPhases'
    <2>1. CASE c = "main"
      BY <1>2, <1>3, <2>1, OneActive DEF IInv, CallPhases, Contexts
    <2>2. CASE c = "handler"
      <3>1. /\ call'["handler"].pc = "unlink" /\ call'["handler"].id = id
            /\ call'["handler"].prev = p /\ call'["main"] = call["main"]
            /\ call["main"].pc # "fill" /\ hpc = "callback"
        BY <1>2, <1>3, <2>2, OneActive DEF Contexts
      <3>2. \E k \in DOMAIN thealarms :
               /\ id # 0 /\ thealarms[k].id = id
               /\ \/ p = 0 /\ k = 1
                  \/ p # 0 /\ k > 1 /\ thealarms[k - 1].id = p
        BY <1>4, <1>6
      <3> QED
        BY <1>2, <3>1, <3>2 DEF IInv, CallPhases, Contexts
    <2> QED
      BY <2>1, <2>2 DEF Contexts
  <1>10. Covered'
    BY <1>2, OneActive DEF IInv, Covered, Contexts
  <1> QED
    BY <1>7, <1>8, <1>9, <1>10 DEF IInv

(* The entries are freed; a handler that runs now breaks the program, in a call. *)
LEMMA UnregisterAllKeeps ==
    ASSUME IInv, NEW c \in Contexts, UnregisterAll(c)
    PROVE  IInv'
  <1>1. /\ Running(c) /\ call[c].pc = "idle" /\ call' = [call EXCEPT ![c].pc = "freed"]
        /\ UNCHANGED <<now, thealarms, regnum, start_alarms, timer, pending, hpc, cur,
                       t_now, broken>>
    BY DEF UnregisterAll, At, Goto
  <1>2. /\ call \in [Contexts -> [pc : CallPcs, prev : 0..MaxReg, id : 0..MaxReg, new : Entries]]
        /\ call'[c].pc = "freed" /\ \A d \in Contexts : d # c => call'[d] = call[d]
    BY <1>1 DEF IInv, TypeOK
  <1>3. Numbered' /\ UpToDate' /\ OnTime' /\ CallbacksSafe'
    <2>1. call[c].pc \notin {"fill", "update"} /\ call'[c].pc \notin {"fill", "update"}
      BY <1>1, <1>2
    <2> QED
      BY <1>1, <1>2, <2>1, ListKept
  <1>4. TypeOK'
    <2>1. call' \in [Contexts -> [pc : CallPcs, prev : 0..MaxReg, id : 0..MaxReg, new : Entries]]
      BY <1>1, <1>2 DEF CallPcs
    <2> QED
      BY <1>1, <2>1 DEF IInv, TypeOK
  <1>5. CallPhases'
    BY <1>1, <1>2, OneActive DEF IInv, CallPhases, Contexts
  <1>6. Covered'
    BY <1>1, OneActive DEF IInv, Covered, Contexts
  <1> QED
    BY <1>3, <1>4, <1>5, <1>6 DEF IInv

-----------------------------------------------------------------------------
(* The steps of a call that change the list. *)

(* An empty list has nothing to keep. *)
LEMMA UnregisterAllDoneKeeps ==
    ASSUME IInv, NEW c \in Contexts, UnregisterAllDone(c)
    PROVE  IInv'
  <1>1. /\ Running(c) /\ call[c].pc = "freed" /\ call' = [call EXCEPT ![c].pc = "idle"]
        /\ thealarms' = <<>>
        /\ UNCHANGED <<now, regnum, start_alarms, timer, pending, hpc, cur, t_now, broken>>
    BY DEF UnregisterAllDone, At, Goto
  <1>2. /\ call \in [Contexts -> [pc : CallPcs, prev : 0..MaxReg, id : 0..MaxReg, new : Entries]]
        /\ call'[c].pc = "idle" /\ \A d \in Contexts : d # c => call'[d] = call[d]
    BY <1>1 DEF IInv, TypeOK
  <1>3. DOMAIN thealarms' = {} /\ thealarms' \in Seq(Entries)
    BY <1>1
  <1>4. TypeOK'
    <2>1. call' \in [Contexts -> [pc : CallPcs, prev : 0..MaxReg, id : 0..MaxReg, new : Entries]]
      BY <1>1, <1>2 DEF CallPcs
    <2> QED
      BY <1>1, <1>3, <2>1 DEF IInv, TypeOK
  <1>5. Numbered' /\ UpToDate' /\ Covered'
    BY <1>1, <1>3 DEF IInv, Numbered, UpToDate, Covered
  <1>6. CallPhases'
    BY <1>1, <1>2, OneActive DEF IInv, CallPhases, Contexts
  <1>7. OnTime'
    <2>1. hpc = "callback" => t_now \in 1..now /\ cur # 0
      BY DEF IInv, OnTime
    <2> QED
      BY <1>1, <1>3, <2>1 DEF OnTime
  <1>8. CallbacksSafe'
    BY <1>1, OneActive DEF CallbacksSafe
  <1> QED
    BY <1>4, <1>5, <1>6, <1>7, <1>8 DEF IInv

(* What is left of the list when the entry at w is taken out of it. *)
LEMMA Removed ==
    ASSUME IInv, NEW w \in DOMAIN thealarms, thealarms' = RemoveAt(thealarms, w),
           UNCHANGED <<regnum, cur>>
    PROVE  /\ thealarms' \in Seq(Entries)
           /\ \A k \in DOMAIN thealarms' :
                 \E i \in DOMAIN thealarms : i # w /\ thealarms'[k] = thealarms[i]
           /\ Numbered'
  <1>1. PICK n \in Nat : n = Len(thealarms) /\ DOMAIN thealarms = 1..n
    BY ListFacts DEF IInv
  <1>2. /\ thealarms' \in Seq(Entries) /\ Len(thealarms') = n - 1
        /\ \A k \in 1..(n - 1) :
              thealarms'[k] = IF k < w THEN thealarms[k] ELSE thealarms[k + 1]
    <2>1. PICK s \in Seq(Entries) : s = thealarms
      BY DEF IInv, TypeOK
    <2>2. /\ RemoveAt(s, w) \in Seq(Entries) /\ Len(RemoveAt(s, w)) = Len(s) - 1
          /\ \A k \in 1..(Len(s) - 1) :
                RemoveAt(s, w)[k] = IF k < w THEN s[k] ELSE s[k + 1]
      <3>1. w \in 1..Len(s)
        BY <1>1, <2>1
      <3> QED
        BY <3>1, RemoveAtFacts
    <2> QED
      BY <1>1, <2>1, <2>2
  <1>3. DOMAIN thealarms' = 1..(n - 1)
    BY <1>2, LenProperties
  <1> DEFINE From(k) == IF k < w THEN k ELSE k + 1
  <1>4. \A k \in 1..(n - 1) : /\ From(k) \in 1..n /\ From(k) # w
                              /\ thealarms'[k] = thealarms[From(k)]
    BY <1>1, <1>2
  <1>5. \A k, l \in 1..(n - 1) : From(k) = From(l) => k = l
    BY <1>1
  <1> HIDE DEF From
  <1>6. Numbered'
    <2>1. \A k, l \in 1..(n - 1) : thealarms'[k].id = thealarms'[l].id => k = l
      BY <1>1, <1>4, <1>5 DEF IInv, Numbered
    <2>2. \A k \in 1..(n - 1) : thealarms'[k].id < regnum
      BY <1>1, <1>4 DEF IInv, Numbered
    <2> QED
      BY <1>3, <2>1, <2>2 DEF IInv, Numbered
  <1> QED
    BY <1>1, <1>2, <1>3, <1>4, <1>6

(* An access to freed memory is one of the program, interrupted in a call. *)
LEMMA BreakKeeps ==
    ASSUME IInv, Break, call["main"].pc # "idle"
    PROVE  IInv'
  <1>1. /\ broken' = TRUE
        /\ UNCHANGED <<now, thealarms, regnum, start_alarms, timer, pending, call, hpc, cur,
                       t_now>>
    BY DEF Break
  <1>2. TypeOK'
    <2>1. broken' \in BOOLEAN
      BY <1>1, Zenon
    <2> QED
      BY <1>1, <2>1 DEF IInv, TypeOK
  <1>3. Numbered'
    BY <1>1 DEF IInv, Numbered
  <1>4. UpToDate'
    BY <1>1 DEF IInv, UpToDate, Settled, Raw, AtEnd, Active
  <1>5. CallPhases'
    BY <1>1 DEF IInv, CallPhases, AtEnd
  <1>6. OnTime'
    BY <1>1 DEF IInv, OnTime
  <1>7. Covered' /\ CallbacksSafe'
    BY <1>1 DEF Covered, CallbacksSafe
  <1> QED
    BY <1>2, <1>3, <1>4, <1>5, <1>6, <1>7 DEF IInv

(* What a callback registers nobody takes away from it. *)
LEMMA RegisterLostKeeps ==
    ASSUME IInv, NEW c \in Contexts, RegisterLost(c)
    PROVE  IInv'
  <1>1. /\ Running(c) /\ call[c].pc \in {"fill", "update", "return"}
        /\ ~SlotHeld(call[c].prev) /\ Break
    BY DEF RegisterLost, At
  <1>2. c # "handler"
    <2> SUFFICES ASSUME c = "handler"
                 PROVE  FALSE
      OBVIOUS
    <2>1. AtEnd(c)
      BY <1>1 DEF IInv, CallPhases
    <2> QED
      BY <1>1, <2>1, EndIsHeld DEF IInv
  <1>3. call["main"].pc # "idle"
    BY <1>1, <1>2 DEF Contexts
  <1> QED
    BY <1>1, <1>3, BreakKeeps

(* A callback finds the entry it unregisters where the walk left it. *)
LEMMA UnregisterUnlinkKeeps ==
    ASSUME IInv, NEW c \in Contexts, UnregisterUnlink(c)
    PROVE  IInv'
  <1> DEFINE Found == /\ SlotHeld(call[c].prev)
                      /\ thealarms[Slot(call[c].prev)].id = call[c].id
  <1>1. Running(c) /\ call[c].pc = "unlink"
    BY DEF UnregisterUnlink, At
  <1>2. CASE ~Found
    <2>1. Break
      BY <1>2 DEF UnregisterUnlink
    <2>2. c # "handler"
      <3> SUFFICES ASSUME c = "handler"
                   PROVE  FALSE
        OBVIOUS
      <3>1. PICK i \in DOMAIN thealarms :
               /\ thealarms[i].id = call[c].id
               /\ \/ call[c].prev = 0 /\ i = 1
                  \/ /\ call[c].prev # 0 /\ i > 1
                     /\ thealarms[i - 1].id = call[c].prev
        BY <1>1 DEF IInv, CallPhases
      <3>2. DOMAIN thealarms = 1..Len(thealarms) /\ Len(thealarms) \in Nat
        BY ListFacts DEF IInv
      <3>3. CASE call[c].prev = 0 /\ i = 1
        BY <1>2, <3>1, <3>3 DEF SlotHeld, Slot
      <3>4. CASE call[c].prev # 0 /\ i > 1 /\ thealarms[i - 1].id = call[c].prev
        <4>1. i - 1 \in DOMAIN thealarms
          BY <3>2, <3>4
        <4>2. Where(call[c].prev) = i - 1 /\ call[c].prev \in Ids
          BY <3>4, <4>1, WhereIs DEF IInv
        <4>3. Slot(call[c].prev) = i
          BY <3>2, <3>4, <4>2 DEF Slot
        <4> QED
          BY <1>2, <3>1, <4>2, <4>3 DEF SlotHeld
      <3> QED
        BY <3>1, <3>3, <3>4
    <2>3. call["main"].pc # "idle"
      BY <1>1, <2>2 DEF Contexts
    <2> QED
      BY <2>1, <2>3, BreakKeeps
  <1>3. CASE Found
    <2>1. /\ thealarms' = Unregistered(call[c].id) /\ call' = [call EXCEPT ![c] = Idle]
          /\ UNCHANGED <<now, regnum, start_alarms, timer, pending, hpc, cur, t_now, broken>>
      BY <1>3 DEF UnregisterUnlink
    <2>2. /\ call \in [Contexts -> [pc : CallPcs, prev : 0..MaxReg, id : 0..MaxReg, new : Entries]]
          /\ call'[c] = Idle /\ \A d \in Contexts : d # c => call'[d] = call[d]
      BY <2>1 DEF IInv, TypeOK
    <2>3. PICK w \in DOMAIN thealarms : thealarms' = RemoveAt(thealarms, w)
      <3>1. call[c].id \in Ids
        BY <1>3 DEF Ids, SlotHeld
      <3>2. Where(call[c].id) \in DOMAIN thealarms
        BY <3>1, FoundAt DEF IInv
      <3> QED
        BY <2>1, <3>1, <3>2 DEF Unregistered
    <2>4. /\ thealarms' \in Seq(Entries) /\ Numbered'
          /\ \A k \in DOMAIN thealarms' :
                \E i \in DOMAIN thealarms : thealarms'[k] = thealarms[i]
      BY <2>1, <2>3, Removed
    <2>5. UpToDate'
      <3> SUFFICES ASSUME NEW k \in DOMAIN thealarms'
                   PROVE  \/ Settled(thealarms[k])'
                          \/ /\ Raw(thealarms[k])' /\ thealarms'[k].id = cur'
                             /\ hpc' = "callback" /\ call'["main"].pc = "update"
        BY DEF UpToDate
      <3>1. PICK i \in DOMAIN thealarms : thealarms'[k] = thealarms[i]
        BY <2>4
      <3>2. CASE Settled(thealarms[i])
        BY <2>1, <3>1, <3>2 DEF Settled
      <3>3. CASE /\ Raw(thealarms[i]) /\ thealarms[i].id = cur
                 /\ hpc = "callback" /\ call["main"].pc = "update"
        BY <1>1, <2>1, <2>2, <3>1, <3>3 DEF Raw, Running, Contexts
      <3>4. call[c].pc \notin {"fill", "update"}
        BY <1>1
      <3> QED
        BY <1>1, <3>2, <3>3, <3>4, Tidy
    <2>6. TypeOK'
      <3>1. call' \in [Contexts -> [pc : CallPcs, prev : 0..MaxReg, id : 0..MaxReg, new : Entries]]
        BY <2>1, <2>2, IdleTypes
      <3> QED
        BY <2>1, <2>4, <3>1 DEF IInv, TypeOK
    <2>7. CallPhases'
      BY <1>1, <2>1, <2>2, OneActive DEF IInv, CallPhases, Contexts, Idle
    <2>8. OnTime'
      <3>1. hpc = "callback" => c # "main" /\ call'["main"] = call["main"]
        BY <1>1, <2>2 DEF Running, Contexts
      <3> QED
        BY <2>1, <2>4, <3>1 DEF IInv, OnTime
    <2>9. Covered'
      <3>1. c = "handler" => hpc # "none"
        BY <1>1, OneActive
      <3>2. thealarms # <<>>
        BY <2>3
      <3> QED
        BY <1>1, <2>1, <2>4, <3>1, <3>2 DEF IInv, Covered, Contexts
    <2>10. CallbacksSafe'
      BY <1>1, <2>1, OneActive DEF CallbacksSafe
    <2> QED
      BY <2>4, <2>5, <2>6, <2>7, <2>8, <2>9, <2>10 DEF IInv
  <1> QED
    BY <1>2, <1>3

(* The new, zeroed entry is the last and the only one without a number. *)
LEMMA RegisterLinkKeeps ==
    ASSUME IInv, NEW c \in Contexts, NEW when \in Delays, NEW repeat \in BOOLEAN,
           NEW hr \in BOOLEAN, RegisterLink(c, when, repeat, hr)
    PROVE  IInv'
  <1>1. PICK p : p = IF thealarms = <<>> THEN 0 ELSE Last(thealarms).id
    OBVIOUS
  <1>2. PICK e : e = [Blank EXCEPT !.t = IF when = 0 /\ ~hr THEN 1 ELSE when,
                                   !.repeat = repeat]
    OBVIOUS
  <1> DEFINE r == [pc |-> "fill", id |-> 0, prev |-> p, new |-> e]
  <1>3. /\ Running(c) /\ call[c].pc = "idle" /\ regnum <= MaxReg
        /\ thealarms' = Append(thealarms, Blank) /\ call' = [call EXCEPT ![c] = r]
        /\ UNCHANGED <<now, regnum, start_alarms, timer, pending, hpc, cur, t_now, broken>>
    BY <1>1, <1>2 DEF RegisterLink, At
  <1>4. /\ call \in [Contexts -> [pc : CallPcs, prev : 0..MaxReg, id : 0..MaxReg, new : Entries]]
        /\ call'[c] = r /\ \A d \in Contexts : d # c => call'[d] = call[d]
    BY <1>3 DEF IInv, TypeOK
  <1>5. PICK n \in Nat : n = Len(thealarms) /\ DOMAIN thealarms = 1..n
    BY ListFacts DEF IInv
  <1>6. /\ thealarms' \in Seq(Entries) /\ Len(thealarms') = n + 1
        /\ DOMAIN thealarms' = 1..(n + 1) /\ thealarms'[n + 1] = Blank
        /\ \A i \in 1..n : thealarms'[i] = thealarms[i]
    <2>1. PICK s \in Seq(Entries) : s = thealarms
      BY DEF IInv, TypeOK
    <2>2. /\ Append(s, Blank) \in Seq(Entries) /\ Len(Append(s, Blank)) = Len(s) + 1
          /\ Append(s, Blank)[Len(s) + 1] = Blank
          /\ \A i \in 1..Len(s) : Append(s, Blank)[i] = s[i]
      BY BlankTypes, AppendProperties
    <2> QED
      BY <1>3, <1>5, <2>1, <2>2, LenProperties
  <1>7. \A i \in 1..n : thealarms[i].id # 0 /\ thealarms[i].id \in 0..MaxReg
    <2>1. call[c].pc \notin {"fill", "update"}
      BY <1>3
    <2> QED
      BY <1>3, <1>5, <2>1, Tidy, ListFacts DEF IInv
  <1>8. /\ p \in 0..MaxReg
        /\ \/ p = 0 /\ n = 0
           \/ p # 0 /\ n > 0 /\ thealarms[n].id = p
    <2>1. CASE n = 0
      BY <1>1, <1>5, <2>1, BoundsAssumption, ListFacts DEF IInv
    <2>2. CASE n # 0
      <3>1. p = thealarms[n].id
        BY <1>1, <1>5, <2>2, ListFacts DEF IInv, Last
      <3> QED
        BY <1>7, <2>2, <3>1
    <2> QED
      BY <2>1, <2>2
  <1>9. AtEnd(c)'
    BY <1>4, <1>5, <1>6, <1>8 DEF AtEnd
  <1>10. Numbered'
    <2>1. \A i \in 1..n : thealarms[i].id < regnum
      BY <1>5 DEF IInv, Numbered
    <2>2. Blank.id = 0 /\ 0 < regnum
      BY DEF IInv, TypeOK, Blank
    <2>3. \A i \in 1..(n + 1) : thealarms'[i].id < regnum
      BY <1>5, <1>6, <2>1, <2>2
    <2>4. \A i, j \in 1..n : thealarms[i].id = thealarms[j].id => i = j
      BY <1>5 DEF IInv, Numbered
    <2>5. \A i, j \in 1..(n + 1) : thealarms'[i].id = thealarms'[j].id => i = j
      BY <1>5, <1>6, <1>7, <2>2, <2>4, SMTT(30)
    <2> QED
      BY <1>3, <1>6, <2>3, <2>5 DEF IInv, Numbered
  <1>11. UpToDate'
    <2> SUFFICES ASSUME NEW i \in 1..(n + 1)
                 PROVE  \/ Settled(thealarms[i])'
                        \/ /\ i = n + 1 /\ thealarms'[i] = Blank
                           /\ call'[Active'].pc = "fill" /\ AtEnd(Active)'
                        \/ /\ Raw(thealarms[i])' /\ thealarms'[i].id = cur'
                           /\ hpc' = "callback" /\ call'["main"].pc = "update"
      BY <1>6 DEF UpToDate
    <2>1. Active' = c /\ (AtEnd(c)' => AtEnd(Active)')
      BY <1>3, OneActive DEF Active, AtEnd
    <2>2. CASE i = n + 1
      BY <1>4, <1>6, <1>9, <2>1, <2>2
    <2>3. CASE i \in 1..n
      <3>1. CASE Settled(thealarms[i])
        BY <1>3, <1>6, <2>3, <3>1 DEF Settled
      <3>2. CASE /\ Raw(thealarms[i]) /\ thealarms[i].id = cur
                 /\ hpc = "callback" /\ call["main"].pc = "update"
        BY <1>3, <1>4, <1>6, <2>3, <3>2 DEF Raw, Running, Contexts
      <3>3. call[c].pc \notin {"fill", "update"}
        BY <1>3
      <3> QED
        BY <1>3, <1>5, <2>3, <3>1, <3>2, <3>3, Tidy
    <2> QED
      BY <1>5, <2>2, <2>3
  <1>12. TypeOK'
    <2>1. e \in Entries
      <3>1. PICK x \in Nat : x = IF when = 0 /\ ~hr THEN 1 ELSE when
        BY DelaysAssumption
      <3>2. e = [id |-> 0, t |-> x, repeat |-> repeat, last |-> 0, next |-> 0]
        BY <1>2, <3>1 DEF Blank
      <3> QED
        BY <3>2, BoundsAssumption DEF Entries
    <2>2. r \in [pc : CallPcs, prev : 0..MaxReg, id : 0..MaxReg, new : Entries]
      BY <1>8, <2>1, BoundsAssumption DEF CallPcs
    <2>3. call' \in [Contexts -> [pc : CallPcs, prev : 0..MaxReg, id : 0..MaxReg, new : Entries]]
      BY <1>3, <1>4, <2>2
    <2> QED
      BY <1>3, <1>6, <2>3 DEF IInv, TypeOK
  <1>13. CallPhases'
    <2>1. thealarms'[Len(thealarms')] = Blank
      BY <1>6
    <2>2. CASE c = "main"
      BY <1>3, <1>4, <1>9, <2>1, <2>2, OneActive DEF IInv, CallPhases, Contexts
    <2>3. CASE c = "handler"
      BY <1>3, <1>4, <1>9, <2>1, <2>3, OneActive DEF IInv, CallPhases, Contexts
    <2> QED
      BY <2>2, <2>3 DEF Contexts
  <1>14. OnTime'
    <2>1. CASE c = "main"
      BY <1>3, <2>1, OneActive DEF OnTime
    <2>2. CASE c = "handler"
      <3>1. call'["main"] = call["main"]
        BY <1>4, <2>2 DEF Contexts
      <3>2. hpc = "callback" => cur # 0
        BY DEF IInv, OnTime
      <3>3. Blank.id = 0
        BY DEF Blank
      <3> QED
        BY <1>3, <1>5, <1>6, <3>1, <3>2, <3>3 DEF IInv, OnTime
    <2> QED
      BY <2>1, <2>2 DEF Contexts
  <1>15. Covered' /\ CallbacksSafe'
    BY <1>3, <1>4, OneActive DEF Covered, CallbacksSafe, Contexts
  <1> QED
    BY <1>10, <1>11, <1>12, <1>13, <1>14, <1>15 DEF IInv

(* The list with the entry at n replaced. *)
LEMMA EntryReplaced ==
    ASSUME TypeOK, NEW n \in DOMAIN thealarms, NEW e \in Entries,
           thealarms' = [thealarms EXCEPT ![n] = e]
    PROVE  /\ thealarms' \in Seq(Entries) /\ Len(thealarms') = Len(thealarms)
           /\ DOMAIN thealarms' = DOMAIN thealarms /\ thealarms'[n] = e
           /\ \A i \in DOMAIN thealarms : i # n => thealarms'[i] = thealarms[i]
  <1>1. PICK s \in Seq(Entries) : s = thealarms
    BY DEF TypeOK
  <1>2. DOMAIN s = 1..Len(s) /\ n \in 1..Len(s)
    BY <1>1, LenProperties
  <1>3. /\ [s EXCEPT ![n] = e] \in Seq(Entries) /\ Len([s EXCEPT ![n] = e]) = Len(s)
        /\ \A j \in 1..Len(s) : [s EXCEPT ![n] = e][j] = IF j = n THEN e ELSE s[j]
    BY <1>2, ExceptSeq
  <1> QED
    BY <1>1, <1>2, <1>3

(* The entry gets a number that no other has. *)
LEMMA RegisterFillKeeps ==
    ASSUME IInv, NEW c \in Contexts, RegisterFill(c)
    PROVE  IInv'
  <1>1. /\ Running(c) /\ call[c].pc = "fill" /\ regnum' = regnum + 1
        /\ call' = [call EXCEPT ![c].pc = "update"]
        /\ UNCHANGED <<now, start_alarms, timer, pending, hpc, cur, t_now, broken>>
    BY DEF RegisterFill, At, Goto
  <1>2. /\ call \in [Contexts -> [pc : CallPcs, prev : 0..MaxReg, id : 0..MaxReg, new : Entries]]
        /\ call'[c].pc = "update" /\ call'[c].prev = call[c].prev
        /\ call[c].new \in Entries
        /\ \A d \in Contexts : d # c => call'[d] = call[d]
    BY <1>1 DEF IInv, TypeOK
  <1>3. PICK n \in Nat : n = Len(thealarms) /\ DOMAIN thealarms = 1..n
    BY ListFacts DEF IInv
  <1>4. AtEnd(c) /\ thealarms[n] = Blank /\ regnum <= MaxReg
    BY <1>1, <1>3 DEF IInv, CallPhases, Contexts
  <1>5. Slot(call[c].prev) = n /\ n \in 1..n
    BY <1>3, <1>4, EndIsHeld DEF IInv
  <1>6. PICK e \in Entries : /\ e.id = regnum /\ e.last = 0 /\ e.next = 0
                             /\ thealarms' = [thealarms EXCEPT ![n] = e]
    <2>1. PICK e : e = [id |-> regnum, t |-> call[c].new.t, repeat |-> call[c].new.repeat,
                        last |-> 0, next |-> 0]
      OBVIOUS
    <2>2. e \in Entries /\ e.id = regnum /\ e.last = 0 /\ e.next = 0
      BY <1>2, <1>4, <2>1 DEF IInv, TypeOK, Entries
    <2>3. thealarms' = [thealarms EXCEPT ![n].t = call[c].new.t,
                            ![n].repeat = call[c].new.repeat, ![n].id = regnum]
      BY <1>5 DEF RegisterFill
    <2>4. thealarms' = [thealarms EXCEPT ![n] = e]
      <3>1. PICK x, y, z : x = call[c].new.t /\ y = call[c].new.repeat /\ z = regnum
        OBVIOUS
      <3>2. PICK b : b = thealarms[n]
        OBVIOUS
      <3>3. thealarms' = [thealarms EXCEPT ![n] = [[[b EXCEPT !.t = x] EXCEPT !.repeat = y]
                                                     EXCEPT !.id = z]]
        BY <1>3, <1>5, <2>3, <3>1, <3>2
      <3>4. [[[b EXCEPT !.t = x] EXCEPT !.repeat = y] EXCEPT !.id = z] = e
        <4>1. PICK f : b = [id |-> 0, t |-> 0, repeat |-> f, last |-> 0, next |-> 0]
          BY <1>4, <3>2, Zenon DEF Blank
        <4>2. e = [id |-> z, t |-> x, repeat |-> y, last |-> 0, next |-> 0]
          BY <2>1, <3>1
        <4>3. PICK u : u = [b EXCEPT !.t = x]
          OBVIOUS
        <4>4. u = [id |-> 0, t |-> x, repeat |-> f, last |-> 0, next |-> 0]
          BY <4>1, <4>3
        <4>5. PICK v : v = [u EXCEPT !.repeat = y]
          OBVIOUS
        <4>6. v = [id |-> 0, t |-> x, repeat |-> y, last |-> 0, next |-> 0]
          BY <4>4, <4>5
        <4>7. [v EXCEPT !.id = z] = e
          BY <4>2, <4>6
        <4> QED
          BY <4>3, <4>5, <4>7, Zenon
      <3> QED
        BY <3>3, <3>4
    <2> QED
      BY <2>2, <2>4
  <1>7. /\ thealarms' \in Seq(Entries) /\ Len(thealarms') = n /\ DOMAIN thealarms' = 1..n
        /\ thealarms'[n] = e /\ \A i \in 1..n : i # n => thealarms'[i] = thealarms[i]
    BY <1>3, <1>5, <1>6, EntryReplaced DEF IInv
  <1>8. AtEnd(c)'
    BY <1>2, <1>3, <1>4, <1>7 DEF AtEnd
  <1>9. PICK m \in Nat : m = regnum /\ m >= 1
    BY DEF IInv, TypeOK
  <1>10. \A i \in 1..n : thealarms[i].id < m /\ thealarms[i].id \in Nat
    BY <1>3, <1>9, ListFacts DEF IInv, Numbered
  <1>11. Numbered'
    <2>1. \A i, j \in 1..n : thealarms[i].id = thealarms[j].id => i = j
      BY <1>3 DEF IInv, Numbered
    <2>2. \A i \in 1..n : i # n => thealarms'[i].id < m /\ thealarms'[i].id \in Nat
      BY <1>7, <1>10
    <2>3. \A i, j \in 1..n : thealarms'[i].id = thealarms'[j].id => i = j
      BY <1>6, <1>7, <1>9, <2>1, <2>2
    <2>4. \A i \in 1..n : thealarms'[i].id < m + 1
      BY <1>6, <1>7, <1>9, <2>2
    <2>5. cur < m + 1
      BY <1>9 DEF IInv, Numbered, TypeOK
    <2> QED
      BY <1>1, <1>7, <1>9, <2>3, <2>4, <2>5 DEF Numbered
  <1>12. UpToDate'
    <2> SUFFICES ASSUME NEW i \in 1..n
                 PROVE  \/ Settled(thealarms[i])'
                        \/ /\ i = n /\ Raw(thealarms[i])'
                           /\ call'[Active'].pc = "update" /\ AtEnd(Active)'
                        \/ /\ Raw(thealarms[i])' /\ thealarms'[i].id = cur'
                           /\ hpc' = "callback" /\ call'["main"].pc = "update"
      BY <1>7 DEF UpToDate
    <2>1. Active = c /\ Active' = c /\ (AtEnd(c)' => AtEnd(Active)')
      BY <1>1, OneActive DEF Active, AtEnd
    <2>2. CASE i = n
      BY <1>2, <1>6, <1>7, <1>8, <1>9, <2>1, <2>2 DEF Raw
    <2>3. CASE i # n
      <3>1. CASE Settled(thealarms[i])
        BY <1>1, <1>7, <2>3, <3>1 DEF Settled
      <3>2. CASE /\ Raw(thealarms[i]) /\ thealarms[i].id = cur
                 /\ hpc = "callback" /\ call["main"].pc = "update"
        BY <1>1, <1>2, <1>7, <2>3, <3>2 DEF Raw, Running, Contexts
      <3> QED
        BY <1>3, <2>3, <3>1, <3>2 DEF IInv, UpToDate
    <2> QED
      BY <2>2, <2>3
  <1>13. TypeOK'
    <2>1. call' \in [Contexts -> [pc : CallPcs, prev : 0..MaxReg, id : 0..MaxReg, new : Entries]]
      BY <1>1, <1>2 DEF CallPcs
    <2>2. regnum' \in 1..(MaxReg + 1)
      BY <1>1, <1>4, BoundsAssumption DEF IInv, TypeOK
    <2> QED
      BY <1>1, <1>7, <2>1, <2>2 DEF IInv, TypeOK
  <1>14. CallPhases'
    <2>1. CASE c = "main"
      BY <1>1, <1>2, <2>1, OneActive DEF IInv, CallPhases, Contexts
    <2>2. CASE c = "handler"
      BY <1>1, <1>2, <1>8, <2>2, OneActive DEF IInv, CallPhases, Contexts
    <2> QED
      BY <2>1, <2>2 DEF Contexts
  <1>15. OnTime'
    <2>1. CASE c = "main"
      BY <1>1, <2>1, OneActive DEF OnTime
    <2>2. CASE c = "handler"
      <3>1. call'["main"] = call["main"]
        BY <1>2, <2>2 DEF Contexts
      <3>2. cur < m /\ cur \in Nat
        BY <1>9 DEF IInv, Numbered, TypeOK
      <3>3. thealarms'[n].id # cur
        BY <1>6, <1>7, <1>9, <3>2
      <3> QED
        BY <1>1, <1>3, <1>7, <3>1, <3>3 DEF IInv, OnTime
    <2> QED
      BY <2>1, <2>2 DEF Contexts
  <1>16. Covered' /\ CallbacksSafe'
    BY <1>1, <1>2, OneActive DEF Covered, CallbacksSafe, Contexts
  <1> QED
    BY <1>11, <1>12, <1>13, <1>14, <1>15, <1>16 DEF IInv

(* What sa_update_entry does of an entry that was never called, of one that is  *)
(* waiting for its time and of one that was just called.                         *)
LEMMA UpdateFacts ==
    ASSUME NEW i, NEW a
    PROVE  /\ a.last = 0 =>
                 sa_update_entry(i, a)
                    = [thealarms EXCEPT ![i] = [a EXCEPT !.last = now, !.next = now + a.t]]
           /\ a.last # 0 /\ a.next # 0 => sa_update_entry(i, a) = thealarms
           /\ a.last # 0 /\ a.next = 0 /\ a.repeat /\ a.t # 0 =>
                 sa_update_entry(i, a)
                    = [thealarms EXCEPT ![i] = [a EXCEPT !.next = a.last + a.t]]
           /\ a.last # 0 /\ a.next = 0 /\ ~(a.repeat /\ a.t # 0) =>
                 sa_update_entry(i, a) = Unregistered(a.id)
  <1>1. CASE a.last = 0
    BY <1>1 DEF sa_update_entry
  <1>2. CASE a.last # 0 /\ a.next # 0
    BY <1>2 DEF sa_update_entry
  <1>3. CASE a.last # 0 /\ a.next = 0 /\ a.repeat /\ a.t # 0
    BY <1>3 DEF sa_update_entry
  <1>4. CASE a.last # 0 /\ a.next = 0 /\ ~(a.repeat /\ a.t # 0)
    BY <1>4 DEF sa_update_entry
  <1> QED
    BY <1>1, <1>2, <1>3, <1>4

(* An entry brought up to date at time n, due at time m. *)
Renewed(a, n, m) == [a EXCEPT !.last = n, !.next = m]

LEMMA RenewedFacts ==
    ASSUME NEW a \in Entries, NEW n \in Nat, NEW m \in Nat
    PROVE  /\ Renewed(a, n, m) \in Entries
           /\ Renewed(a, n, m).id = a.id /\ Renewed(a, n, m).t = a.t
           /\ Renewed(a, n, m).repeat = a.repeat
           /\ Renewed(a, n, m).last = n /\ Renewed(a, n, m).next = m
  <1>1. PICK u : u = [a EXCEPT !.last = n]
    OBVIOUS
  <1>2. /\ u \in Entries /\ u.id = a.id /\ u.t = a.t /\ u.repeat = a.repeat
        /\ u.last = n
    BY <1>1 DEF Entries
  <1>3. PICK v : v = [u EXCEPT !.next = m]
    OBVIOUS
  <1>4. /\ v \in Entries /\ v.id = a.id /\ v.t = a.t /\ v.repeat = a.repeat
        /\ v.last = n /\ v.next = m
    BY <1>2, <1>3 DEF Entries
  <1>5. v = Renewed(a, n, m)
    BY <1>1, <1>3 DEF Renewed
  <1> QED
    BY <1>4, <1>5, Zenon

(* The entry at the slot is brought up to date, when it is not already. *)
LEMMA RegisterUpdateKeeps ==
    ASSUME IInv, NEW c \in Contexts, RegisterUpdate(c)
    PROVE  IInv'
  <1>1. PICK i : i = Slot(call[c].prev)
    OBVIOUS
  <1>2. /\ Running(c) /\ call[c].pc = "update" /\ i \in DOMAIN thealarms
        /\ thealarms' = sa_update_entry(i, thealarms[i])
        /\ call' = [call EXCEPT ![c].pc = "set"]
        /\ UNCHANGED <<now, regnum, start_alarms, timer, pending, hpc, cur, t_now, broken>>
    BY <1>1 DEF RegisterUpdate, At, Goto, SlotHeld
  <1>3. /\ call \in [Contexts -> [pc : CallPcs, prev : 0..MaxReg, id : 0..MaxReg, new : Entries]]
        /\ call'[c].pc = "set" /\ call'[c].prev = call[c].prev
        /\ \A d \in Contexts : d # c => call'[d] = call[d]
    BY <1>2 DEF IInv, TypeOK
  <1>4. PICK n \in Nat : n = Len(thealarms) /\ DOMAIN thealarms = 1..n
    BY ListFacts DEF IInv
  <1>5. Active = c
    BY <1>2, OneActive
  <1>6. AtEnd(c) => i = n
    BY <1>1, <1>4, EndIsHeld DEF IInv
  <1>7. PICK a \in Entries : a = thealarms[i]
    BY <1>2, ListFacts DEF IInv
  <1>8. Settled(a) \/ Raw(a)
    BY <1>2, <1>5, <1>7 DEF IInv, UpToDate
  \* Every other entry is up to date, or the one the running alarm interrupted.
  <1>9. ASSUME NEW k \in DOMAIN thealarms, k # i
        PROVE  \/ Settled(thealarms[k])
               \/ /\ Raw(thealarms[k]) /\ thealarms[k].id = cur
                  /\ hpc = "callback" /\ call["main"].pc = "update"
    BY <1>2, <1>4, <1>5, <1>6, <1>9 DEF IInv, UpToDate
  <1>10. /\ thealarms' \in Seq(Entries) /\ Len(thealarms') = n
         /\ DOMAIN thealarms' = DOMAIN thealarms
         /\ \A k \in DOMAIN thealarms : k # i => thealarms'[k] = thealarms[k]
         /\ \A k \in DOMAIN thealarms : thealarms'[k].id = thealarms[k].id
         /\ Settled(thealarms[i])'
         /\ thealarms'[i] = thealarms[i] \/ Raw(thealarms[i])
    <2>1. CASE Settled(a)
      <3>1. a.last # 0 /\ a.next # 0
        BY <2>1 DEF Settled, Entries
      <3>2. thealarms' = thealarms
        BY <1>2, <1>7, <3>1, UpdateFacts
      <3>3. thealarms \in Seq(Entries)
        BY DEF IInv, TypeOK
      <3> QED
        BY <1>2, <1>4, <1>7, <2>1, <3>2, <3>3 DEF Settled
    <2>2. CASE Raw(a)
      <3>1. PICK m \in Nat : m = now /\ m >= 1
        BY DEF IInv, TypeOK
      <3>2. PICK x \in Nat : x = m + a.t
        BY DEF Entries
      <3>3. PICK e : e = Renewed(a, m, x)
        OBVIOUS
      <3>4. e \in Entries /\ e.id = a.id /\ e.t = a.t /\ e.last = m /\ e.next = x
        BY <3>3, RenewedFacts
      <3>5. thealarms' = [thealarms EXCEPT ![i] = e]
        <4>1. a.last = 0
          BY <2>2 DEF Raw
        <4>2. thealarms' = [thealarms EXCEPT ![i] =
                               [a EXCEPT !.last = now, !.next = now + a.t]]
          BY <1>2, <1>7, <4>1, UpdateFacts
        <4> QED
          BY <3>1, <3>2, <3>3, <4>2 DEF Renewed
      <3>6. /\ thealarms' \in Seq(Entries) /\ Len(thealarms') = Len(thealarms)
            /\ DOMAIN thealarms' = DOMAIN thealarms /\ thealarms'[i] = e
            /\ \A k \in DOMAIN thealarms : k # i => thealarms'[k] = thealarms[k]
        BY <1>2, <3>4, <3>5, EntryReplaced DEF IInv
      <3>7. Settled(thealarms[i])'
        BY <1>2, <2>2, <3>1, <3>2, <3>4, <3>6 DEF Settled, Raw
      <3> QED
        BY <1>4, <1>7, <2>2, <3>4, <3>6, <3>7
    <2> QED
      BY <1>8, <2>1, <2>2
  <1>11. Numbered'
    BY <1>2, <1>10 DEF IInv, Numbered
  <1>12. UpToDate'
    <2> SUFFICES ASSUME NEW k \in DOMAIN thealarms
                 PROVE  \/ Settled(thealarms[k])'
                        \/ /\ Raw(thealarms[k])' /\ thealarms'[k].id = cur'
                           /\ hpc' = "callback" /\ call'["main"].pc = "update"
      BY <1>10 DEF UpToDate
    <2>1. CASE k = i
      BY <1>10, <2>1
    <2>2. CASE k # i
      <3>1. CASE Settled(thealarms[k])
        BY <1>2, <1>10, <2>2, <3>1 DEF Settled
      <3>2. CASE /\ Raw(thealarms[k]) /\ thealarms[k].id = cur
                 /\ hpc = "callback" /\ call["main"].pc = "update"
        BY <1>2, <1>3, <1>10, <2>2, <3>2 DEF Raw, Running, Contexts
      <3> QED
        BY <1>9, <2>2, <3>1, <3>2
    <2> QED
      BY <2>1, <2>2
  <1>13. TypeOK'
    <2>1. call' \in [Contexts -> [pc : CallPcs, prev : 0..MaxReg, id : 0..MaxReg, new : Entries]]
      BY <1>2, <1>3 DEF CallPcs
    <2> QED
      BY <1>2, <1>10, <2>1 DEF IInv, TypeOK
  <1>14. CallPhases'
    <2>1. CASE c = "main"
      BY <1>2, <1>3, <2>1, OneActive DEF IInv, CallPhases, Contexts
    <2>2. CASE c = "handler"
      <3>1. AtEnd(c)
        BY <1>2, <2>2 DEF IInv, CallPhases
      <3>2. AtEnd(c)'
        <4>1. n > 1 => n - 1 \in DOMAIN thealarms
          BY <1>4
        <4> QED
          BY <1>3, <1>4, <1>10, <3>1, <4>1 DEF AtEnd
      <3> QED
        BY <1>2, <1>3, <2>2, <3>2, OneActive DEF IInv, CallPhases, Contexts
    <2> QED
      BY <2>1, <2>2 DEF Contexts
  <1>15. OnTime'
    <2>1. CASE c = "main"
      BY <1>2, <2>1, OneActive DEF OnTime
    <2>2. CASE c = "handler"
      <3>1. call'["main"] = call["main"]
        BY <1>3, <2>2 DEF Contexts
      <3>2. ASSUME hpc = "callback", call["main"].pc = "idle",
                   NEW k \in DOMAIN thealarms, thealarms'[k].id = cur
            PROVE  thealarms'[k].last # 0 /\ t_now > thealarms'[k].last + thealarms'[k].t
        <4>1. thealarms[k].last # 0 /\ t_now > thealarms[k].last + thealarms[k].t
          BY <1>10, <3>2 DEF IInv, OnTime
        <4>2. thealarms'[k] = thealarms[k]
          BY <1>10, <4>1 DEF Raw
        <4> QED
          BY <4>1, <4>2
      <3>3. hpc = "callback" => t_now \in 1..now /\ cur # 0
        BY DEF IInv, OnTime
      <3> QED
        BY <1>2, <1>10, <3>1, <3>2, <3>3 DEF OnTime
    <2> QED
      BY <2>1, <2>2 DEF Contexts
  <1>16. Covered' /\ CallbacksSafe'
    BY <1>2, <1>3, OneActive DEF Covered, CallbacksSafe, Contexts
  <1> QED
    BY <1>11, <1>12, <1>13, <1>14, <1>15, <1>16 DEF IInv

-----------------------------------------------------------------------------
(* The start of the alarms, the clock and the signal. *)

(* The start of the alarms sets the timer for what was registered before. *)
LEMMA InitAlarmKeeps ==
    ASSUME IInv, InitAlarm
    PROVE  IInv'
  <1>1. /\ hpc = "none" /\ call["main"].pc = "idle" /\ ~broken
        /\ start_alarms' = TRUE /\ set_an_alarm
        /\ UNCHANGED <<now, thealarms, regnum, pending, call, hpc, cur, t_now, broken>>
    BY DEF InitAlarm, At, Running
  <1>2. TypeOK'
    <2>1. start_alarms' \in BOOLEAN
      BY <1>1, Zenon
    <2>2. timer' \in {Off, Disarmed} \/ (timer' \in Nat /\ timer' >= now)
      BY <1>1, TimerSet DEF IInv
    <2> QED
      BY <1>1, <2>1, <2>2 DEF IInv, TypeOK
  <1>3. Numbered'
    BY <1>1 DEF IInv, Numbered
  <1>4. UpToDate'
    BY <1>1 DEF IInv, UpToDate, Settled, Raw, AtEnd, Active
  <1>5. CallPhases'
    BY <1>1 DEF IInv, CallPhases, AtEnd
  <1>6. OnTime' /\ CallbacksSafe'
    BY <1>1 DEF OnTime, CallbacksSafe
  <1>7. Covered'
    BY <1>1, TimerSet DEF IInv, Covered
  <1> QED
    BY <1>2, <1>3, <1>4, <1>5, <1>6, <1>7 DEF IInv

(* The expired timer leaves its signal pending. *)
LEMMA ExpireKeeps ==
    ASSUME IInv, Expire
    PROVE  IInv'
  <1>1. /\ ~broken /\ timer' = Off /\ pending' = TRUE
        /\ UNCHANGED <<now, thealarms, regnum, start_alarms, call, hpc, cur, t_now, broken>>
    BY DEF Expire
  <1>2. TypeOK'
    <2>1. pending' \in BOOLEAN
      BY <1>1, Zenon
    <2> QED
      BY <1>1, <2>1 DEF IInv, TypeOK
  <1>3. Numbered'
    BY <1>1 DEF IInv, Numbered
  <1>4. UpToDate'
    BY <1>1 DEF IInv, UpToDate, Settled, Raw, AtEnd, Active
  <1>5. CallPhases'
    BY <1>1 DEF IInv, CallPhases, AtEnd
  <1>6. OnTime'
    BY <1>1 DEF IInv, OnTime
  <1>7. Covered' /\ CallbacksSafe'
    BY <1>1 DEF Covered, CallbacksSafe
  <1> QED
    BY <1>2, <1>3, <1>4, <1>5, <1>6, <1>7 DEF IInv

(* The clock does not pass the timer. *)
LEMMA TickKeeps ==
    ASSUME IInv, Tick
    PROVE  IInv'
  <1>1. /\ ~broken /\ timer # now /\ now < MaxTime /\ now' = now + 1
        /\ UNCHANGED <<thealarms, regnum, start_alarms, timer, pending, call, hpc, cur,
                       t_now, broken>>
    BY DEF Tick
  <1>2. PICK n \in Nat : n = now /\ n >= 1 /\ now' = n + 1 /\ n + 1 <= MaxTime
    BY <1>1, BoundsAssumption DEF IInv, TypeOK
  <1>3. TypeOK'
    <2>1. timer \in {Off, Disarmed} \/ (timer \in Nat /\ timer >= n + 1)
      BY <1>1, <1>2 DEF IInv, TypeOK
    <2>2. now' \in 1..MaxTime
      BY <1>2, BoundsAssumption
    <2> QED
      BY <1>1, <1>2, <2>1, <2>2 DEF IInv, TypeOK
  <1>4. Numbered'
    BY <1>1 DEF IInv, Numbered
  <1>5. UpToDate'
    <2>1. \A e : Settled(e) => e.id # 0 /\ e.last \in 1..(n + 1) /\ e.next = e.last + e.t
      BY <1>2 DEF Settled
    <2>2. \A i \in DOMAIN thealarms : Settled(thealarms[i]) => Settled(thealarms[i])'
      BY <1>1, <1>2, <2>1 DEF Settled
    <2> QED
      BY <1>1, <2>2 DEF IInv, UpToDate, Raw, AtEnd, Active
  <1>6. CallPhases'
    BY <1>1 DEF IInv, CallPhases, AtEnd
  <1>7. OnTime'
    <2>1. hpc = "callback" => t_now \in 1..(n + 1)
      BY <1>2 DEF IInv, OnTime
    <2> QED
      BY <1>1, <1>2, <2>1 DEF IInv, OnTime
  <1>8. Covered'
    <2>1. timer \in Int /\ (timer <= n + 1 => timer <= (n + 1) + 1)
      BY <1>2 DEF IInv, TypeOK, Off, Disarmed
    <2> QED
      BY <1>1, <1>2, <2>1 DEF IInv, Covered
  <1>9. CallbacksSafe'
    BY <1>1 DEF CallbacksSafe
  <1> QED
    BY <1>3, <1>4, <1>5, <1>6, <1>7, <1>8, <1>9 DEF IInv

(* The handler starts, and takes the pending signal with it. *)
LEMMA DeliverKeeps ==
    ASSUME IInv, Deliver
    PROVE  IInv'
  <1>1. /\ ~broken /\ hpc = "none" /\ hpc' = "run" /\ pending' = FALSE
        /\ UNCHANGED <<now, thealarms, regnum, start_alarms, timer, call, cur, t_now, broken>>
    BY DEF Deliver
  <1>2. TypeOK'
    <2>1. pending' \in BOOLEAN
      BY <1>1, Zenon
    <2> QED
      BY <1>1, <2>1 DEF IInv, TypeOK
  <1>3. Numbered'
    BY <1>1 DEF IInv, Numbered
  <1>4. UpToDate'
    BY <1>1 DEF IInv, UpToDate, Settled, Raw, AtEnd, Active
  <1>5. CallPhases'
    BY <1>1 DEF IInv, CallPhases, AtEnd
  <1>6. OnTime' /\ Covered' /\ CallbacksSafe'
    BY <1>1 DEF OnTime, Covered, CallbacksSafe
  <1> QED
    BY <1>2, <1>3, <1>4, <1>5, <1>6 DEF IInv

(* The handler leaves the timer set for the first alarm. *)
LEMMA HandlerReturnKeeps ==
    ASSUME IInv, HandlerReturn
    PROVE  IInv'
  <1>1. /\ ~broken /\ hpc = "set" /\ hpc' = "none" /\ set_an_alarm
        /\ UNCHANGED <<now, thealarms, regnum, start_alarms, pending, call, cur, t_now, broken>>
    BY DEF HandlerReturn
  <1>2. TypeOK'
    <2>1. timer' \in {Off, Disarmed} \/ (timer' \in Nat /\ timer' >= now)
      BY <1>1, TimerSet DEF IInv
    <2> QED
      BY <1>1, <2>1 DEF IInv, TypeOK
  <1>3. Numbered'
    BY <1>1 DEF IInv, Numbered
  <1>4. UpToDate'
    BY <1>1 DEF IInv, UpToDate, Settled, Raw, AtEnd, Active
  <1>5. CallPhases'
    BY <1>1 DEF IInv, CallPhases, AtEnd
  <1>6. OnTime' /\ CallbacksSafe'
    BY <1>1 DEF OnTime, CallbacksSafe
  <1>7. Covered'
    BY <1>1, TimerSet DEF IInv, Covered
  <1> QED
    BY <1>2, <1>3, <1>4, <1>5, <1>6, <1>7 DEF IInv

-----------------------------------------------------------------------------
(* run_alarms. *)

(* The handler calls an entry that is due, or one whose registration it interrupted. *)
LEMMA RunAlarmKeeps ==
    ASSUME IInv, RunAlarm
    PROVE  IInv'
  <1>1. ~broken /\ hpc = "run" /\ Active = "main" /\ call["handler"].pc = "idle"
    BY DEF RunAlarm, IInv, CallPhases, Active
  <1>2. CASE call["main"].pc = "freed"
    <2>1. Break
      BY <1>2 DEF RunAlarm
    <2> QED
      BY <1>2, <2>1, BreakKeeps
  <1>3. CASE /\ call["main"].pc # "freed"
             /\ thealarms = <<>> \/ thealarms[sa_find_next].next >= now
    <2>1. /\ hpc' = "set"
          /\ UNCHANGED <<now, thealarms, regnum, start_alarms, timer, pending, call,
                         cur, t_now, broken>>
      BY <1>3 DEF RunAlarm
    <2>2. TypeOK'
      BY <2>1 DEF IInv, TypeOK
    <2>3. Numbered'
      BY <2>1 DEF IInv, Numbered
    <2>4. UpToDate'
      BY <1>1, <2>1 DEF IInv, UpToDate, Settled, Raw, AtEnd, Active
    <2>5. CallPhases'
      BY <1>1, <2>1 DEF IInv, CallPhases, AtEnd
    <2>6. OnTime' /\ Covered' /\ CallbacksSafe'
      BY <1>1, <2>1 DEF OnTime, Covered, CallbacksSafe
    <2> QED
      BY <2>2, <2>3, <2>4, <2>5, <2>6 DEF IInv
  <1>4. CASE /\ call["main"].pc # "freed"
             /\ ~(thealarms = <<>> \/ thealarms[sa_find_next].next >= now)
    <2>1. PICK f \in DOMAIN thealarms :
             /\ f = sa_find_next
             /\ \A j \in DOMAIN thealarms : thealarms[f].next <= thealarms[j].next
      BY <1>4, FindsNext DEF IInv
    <2>2. CASE thealarms[f].id = 0
      <3>1. Break
        BY <1>4, <2>1, <2>2 DEF RunAlarm
      <3>2. call["main"].pc # "idle"
        BY <1>1, <2>2 DEF IInv, UpToDate, Settled, Raw
      <3> QED
        BY <3>1, <3>2, BreakKeeps
    <2>3. CASE thealarms[f].id # 0
      <3>1. /\ cur' = thealarms[f].id /\ t_now' = now /\ hpc' = "callback"
            /\ UNCHANGED <<now, thealarms, regnum, start_alarms, timer, pending, call,
                           broken>>
        BY <1>4, <2>1, <2>3 DEF RunAlarm
      <3>2. PICK n \in Nat : n = Len(thealarms) /\ DOMAIN thealarms = 1..n
        BY ListFacts DEF IInv
      \* An entry that is not up to date is the one that comes first.
      <3>3. \A i \in DOMAIN thealarms :
               Settled(thealarms[i]) => thealarms[i].next # 0
        BY ListFacts DEF IInv, Settled
      <3>4. ASSUME NEW i \in DOMAIN thealarms, thealarms[i].next = 0
            PROVE  i = f
        <4>1. thealarms[f].next = 0
          BY <2>1, <3>4, ListFacts DEF IInv
        <4>2. ASSUME NEW k \in DOMAIN thealarms, thealarms[k].next = 0
              PROVE  k = n
          BY <1>1, <3>2, <3>3, <4>2 DEF IInv, UpToDate
        <4> QED
          BY <3>4, <4>1, <4>2
      <3>5. call["main"].pc # "fill"
        <4> SUFFICES ASSUME call["main"].pc = "fill"
                     PROVE  FALSE
          OBVIOUS
        <4>1. AtEnd("main") /\ thealarms[n] = Blank
          BY <3>2 DEF IInv, CallPhases
        <4>2. n \in DOMAIN thealarms
          BY <3>2, <4>1, EndIsHeld DEF IInv, Contexts
        <4>3. n = f
          BY <3>4, <4>1, <4>2 DEF Blank
        <4> QED
          BY <2>3, <4>1, <4>3 DEF Blank
      <3>6. ASSUME NEW i \in DOMAIN thealarms
            PROVE  \/ Settled(thealarms[i])
                   \/ Raw(thealarms[i]) /\ i = f /\ call["main"].pc = "update"
        <4>1. CASE Settled(thealarms[i])
          BY <4>1
        <4>2. CASE Raw(thealarms[i]) /\ call["main"].pc = "update"
          BY <3>4, <4>2 DEF Raw
        <4> QED
          BY <1>1, <3>5, <4>1, <4>2 DEF IInv, UpToDate
      <3>7. TypeOK'
        <4>1. cur' \in 0..MaxReg
          BY <3>1, ListFacts DEF IInv
        <4>2. t_now' \in 0..MaxTime
          BY <3>1 DEF IInv, TypeOK
        <4> QED
          BY <3>1, <4>1, <4>2 DEF IInv, TypeOK
      <3>8. Numbered'
        BY <2>1, <3>1 DEF IInv, Numbered
      <3>9. UpToDate'
        <4> SUFFICES ASSUME NEW i \in DOMAIN thealarms
                     PROVE  \/ Settled(thealarms[i])'
                            \/ /\ Raw(thealarms[i])' /\ thealarms'[i].id = cur'
                               /\ hpc' = "callback" /\ call'["main"].pc = "update"
          BY <3>1 DEF UpToDate
        <4> QED
          BY <3>1, <3>6 DEF Settled, Raw
      <3>10. CallPhases'
        BY <1>1, <3>1, <3>5 DEF IInv, CallPhases, Contexts
      <3>11. OnTime'
        <4>1. t_now' \in 1..now' /\ cur' # 0
          BY <2>3, <3>1 DEF IInv, TypeOK
        <4>2. ASSUME call["main"].pc = "idle", NEW i \in DOMAIN thealarms,
                     thealarms[i].id = cur'
              PROVE  thealarms[i].last # 0 /\ now > thealarms[i].last + thealarms[i].t
          <5>1. i = f
            BY <3>1, <4>2 DEF IInv, Numbered
          <5>2. Settled(thealarms[f])
            BY <3>6, <4>2
          <5>3. PICK x \in Nat : x = thealarms[f].next
            BY ListFacts DEF IInv
          <5>4. now > x
            BY <1>4, <2>1, <5>3 DEF IInv, TypeOK
          <5>5. thealarms[f].last # 0 /\ x = thealarms[f].last + thealarms[f].t
            BY <5>2, <5>3 DEF Settled
          <5> QED
            BY <5>1, <5>4, <5>5
        <4> QED
          BY <3>1, <4>1, <4>2 DEF OnTime
      <3>12. Covered' /\ CallbacksSafe'
        BY <1>1, <3>1 DEF Covered, CallbacksSafe
      <3> QED
        BY <3>7, <3>8, <3>9, <3>10, <3>11, <3>12 DEF IInv
    <2> QED
      BY <2>2, <2>3
  <1> QED
    BY <1>2, <1>3, <1>4

(* After the callback its entry, when it is still there, is due later or gone; *)
(* the list is up to date, also when the alarm interrupted a registration.      *)
LEMMA CallbackReturnKeeps ==
    ASSUME IInv, CallbackReturn
    PROVE  IInv'
  <1>1. /\ ~broken /\ hpc = "callback" /\ call["handler"].pc = "idle" /\ hpc' = "run"
        /\ UNCHANGED <<now, regnum, start_alarms, timer, pending, call, cur, t_now, broken>>
    BY DEF CallbackReturn, At, Running
  <1>2. Running("handler") /\ "handler" \in Contexts
    BY <1>1 DEF Running, Contexts
  <1>3. call["main"].pc # "fill"
    BY <1>1 DEF IInv, CallPhases
  <1>4. \A i \in DOMAIN thealarms :
           Settled(thealarms[i]) \/ (Raw(thealarms[i]) /\ thealarms[i].id = cur)
    <2>1. call["handler"].pc \notin {"fill", "update"}
      BY <1>1
    <2> QED
      BY <1>2, <2>1, Tidy
  <1>5. /\ thealarms' \in Seq(Entries) /\ Numbered'
        /\ \A k \in DOMAIN thealarms' : Settled(thealarms[k])'
    <2>1. CASE cur \notin Ids
      <3>1. thealarms' = thealarms /\ thealarms \in Seq(Entries)
        BY <2>1 DEF CallbackReturn, IInv, TypeOK
      <3>2. Numbered'
        BY <1>1, <3>1 DEF IInv, Numbered
      <3>3. ASSUME NEW k \in DOMAIN thealarms
            PROVE  Settled(thealarms[k])'
        <4>1. thealarms[k].id # cur
          BY <2>1 DEF Ids
        <4>2. Settled(thealarms[k])
          BY <1>4, <4>1
        <4> QED
          BY <1>1, <3>1, <4>2 DEF Settled
      <3> QED
        BY <3>1, <3>2, <3>3
    <2>2. CASE cur \in Ids
      <3>1. PICK i \in DOMAIN thealarms : i = Where(cur) /\ thealarms[i].id = cur
        <4>1. PICK x : x = cur /\ x \in Ids
          BY <2>2
        <4> QED
          BY <4>1, FoundAt DEF IInv
      <3>2. PICK b \in Entries : b = thealarms[i]
        BY <3>1, ListFacts DEF IInv
      <3>3. PICK m \in Nat : m = t_now /\ m \in 1..now
        BY <1>1 DEF IInv, OnTime
      <3>4. PICK a : a = Renewed(b, m, 0)
        OBVIOUS
      <3>5. a \in Entries /\ a.id = cur /\ a.last = m /\ a.next = 0 /\ m # 0
        <4>1. PICK z \in Nat : z = 0
          OBVIOUS
        <4>2. /\ Renewed(b, m, z) \in Entries /\ Renewed(b, m, z).id = b.id
              /\ Renewed(b, m, z).last = m /\ Renewed(b, m, z).next = z
          BY RenewedFacts
        <4>3. m # 0
          BY <3>3
        <4> QED
          BY <3>1, <3>2, <3>4, <4>1, <4>2, <4>3
      <3>6. thealarms' = sa_update_entry(i, a)
        BY <2>2, <3>1, <3>2, <3>3, <3>4 DEF CallbackReturn, Renewed
      \* The other entries stay as they are.
      <3>7. \A k \in DOMAIN thealarms : k # i => Settled(thealarms[k])
        BY <1>4, <3>1 DEF IInv, Numbered
      <3>8. CASE a.repeat /\ a.t # 0
        <4>1. PICK x \in Nat : x = m + a.t
          BY <3>5 DEF Entries
        <4>2. PICK e : e = [a EXCEPT !.next = x]
          OBVIOUS
        <4>3. e \in Entries /\ e.id = cur /\ e.last = m /\ e.t = a.t /\ e.next = x
          BY <3>5, <4>2 DEF Entries
        <4>4. thealarms' = [thealarms EXCEPT ![i] = e]
          <5>1. sa_update_entry(i, a)
                  = [thealarms EXCEPT ![i] = [a EXCEPT !.next = a.last + a.t]]
            BY <3>5, <3>8, UpdateFacts
          <5> QED
            BY <3>5, <3>6, <4>1, <4>2, <5>1
        <4>5. /\ thealarms' \in Seq(Entries) /\ DOMAIN thealarms' = DOMAIN thealarms
              /\ thealarms'[i] = e
              /\ \A k \in DOMAIN thealarms : k # i => thealarms'[k] = thealarms[k]
          BY <4>3, <4>4, EntryReplaced DEF IInv
        <4>6. Numbered'
          <5>1. \A k \in DOMAIN thealarms : thealarms'[k].id = thealarms[k].id
            BY <3>1, <4>3, <4>5
          <5> QED
            BY <1>1, <4>5, <5>1 DEF IInv, Numbered
        <4>7. Settled(thealarms[i])'
          <5>1. cur # 0
            BY <1>1 DEF IInv, OnTime
          <5> QED
            BY <1>1, <3>3, <4>1, <4>3, <4>5, <5>1 DEF Settled
        <4>8. \A k \in DOMAIN thealarms : k # i => Settled(thealarms[k])'
          BY <1>1, <3>7, <4>5 DEF Settled
        <4> QED
          BY <4>5, <4>6, <4>7, <4>8
      <3>9. CASE ~(a.repeat /\ a.t # 0)
        <4>1. thealarms' = Unregistered(cur)
          <5>1. sa_update_entry(i, a) = Unregistered(a.id)
            BY <3>5, <3>9, UpdateFacts
          <5> QED
            BY <3>5, <3>6, <5>1
        <4>2. thealarms' = RemoveAt(thealarms, i)
          BY <2>2, <3>1, <4>1 DEF Unregistered
        <4>3. /\ thealarms' \in Seq(Entries) /\ Numbered'
              /\ \A k \in DOMAIN thealarms' :
                    \E j \in DOMAIN thealarms : j # i /\ thealarms'[k] = thealarms[j]
          BY <1>1, <4>2, Removed
        <4> QED
          BY <1>1, <3>7, <4>3 DEF Settled
      <3> QED
        BY <3>8, <3>9
    <2> QED
      BY <2>1, <2>2
  <1>6. TypeOK'
    BY <1>1, <1>5 DEF IInv, TypeOK
  <1>7. UpToDate'
    BY <1>5 DEF UpToDate
  <1>8. CallPhases'
    BY <1>1, <1>3 DEF IInv, CallPhases, Contexts
  <1>9. OnTime' /\ Covered' /\ CallbacksSafe'
    BY <1>1 DEF OnTime, Covered, CallbacksSafe
  <1> QED
    BY <1>5, <1>6, <1>7, <1>8, <1>9 DEF IInv

-----------------------------------------------------------------------------
(* The theorems. *)

(* The invariant of the alarms (zevent_alarm.c) holds in every behaviour: the   *)
(* list, the calls in progress, the handler and the timer agree.                 *)
THEOREM AlarmInvariant == Spec => []IInv
  <1>1. Init => IInv
    <2> SUFFICES ASSUME Init
                 PROVE  IInv
      OBVIOUS
    <2>1. DOMAIN thealarms = {} /\ thealarms \in Seq(Entries)
      BY DEF Init
    <2>2. TypeOK
      <3>1. start_alarms \in BOOLEAN /\ pending \in BOOLEAN /\ broken \in BOOLEAN
        BY Zenon DEF Init
      <3>2. call \in [Contexts -> [pc : CallPcs, prev : 0..MaxReg, id : 0..MaxReg, new : Entries]]
        BY IdleTypes DEF Init
      <3> QED
        BY <2>1, <3>1, <3>2, BoundsAssumption DEF Init, TypeOK
    <2>3. Numbered /\ UpToDate
      BY <2>1 DEF Init, Numbered, UpToDate
    <2>4. CallPhases
      BY DEF Init, CallPhases, Contexts, Idle
    <2>5. OnTime /\ Covered /\ CallbacksSafe
      BY DEF Init, OnTime, Covered, CallbacksSafe
    <2> QED
      BY <2>2, <2>3, <2>4, <2>5 DEF IInv
  <1>2. IInv /\ [Next]_vars => IInv'
    <2> SUFFICES ASSUME IInv, [Next]_vars
                 PROVE  IInv'
      OBVIOUS
    <2>1. ASSUME NEW c \in Contexts, LibraryCall(c)
          PROVE  IInv'
      <3>1. CASE \E when \in Delays, repeat, hr \in BOOLEAN : RegisterLink(c, when, repeat, hr)
        BY <3>1, RegisterLinkKeeps
      <3>2. CASE \E id \in 1..MaxReg : UnregisterFind(c, id)
        BY <3>2, UnregisterFindKeeps
      <3> QED
        BY <2>1, <3>1, <3>2, RegisterFillKeeps, RegisterUpdateKeeps, RegisterSetKeeps,
           RegisterReturnKeeps, RegisterLostKeeps, UnregisterUnlinkKeeps,
           UnregisterAllKeeps, UnregisterAllDoneKeeps DEF LibraryCall
    <2>2. CASE UNCHANGED vars
      <3>1. UNCHANGED <<now, thealarms, regnum, start_alarms, timer, pending, call, hpc,
                        cur, t_now, broken>>
        BY <2>2 DEF vars
      <3>2. TypeOK' /\ Numbered' /\ OnTime'
        BY <3>1 DEF IInv, TypeOK, Numbered, OnTime
      <3>3. UpToDate'
        BY <3>1 DEF IInv, UpToDate, Settled, Raw, AtEnd, Active
      <3>4. CallPhases'
        BY <3>1 DEF IInv, CallPhases, AtEnd
      <3>5. Covered' /\ CallbacksSafe'
        BY <3>1 DEF IInv, Covered, CallbacksSafe
      <3> QED
        BY <3>2, <3>3, <3>4, <3>5 DEF IInv
    <2> QED
      BY <2>1, <2>2, InitAlarmKeeps, ExpireKeeps, TickKeeps, DeliverKeeps, RunAlarmKeeps,
         CallbackReturnKeeps, HandlerReturnKeeps DEF Next
  <1> QED
    BY <1>1, <1>2, PTL DEF Spec

(* Every variable keeps its type, and set_an_alarm never sets the interval      *)
(* timer to a time that has passed (zevent_alarm.c:219-289).                     *)
THEOREM AlarmTypes == Spec => []TypeOK
  <1>1. IInv => TypeOK
    BY DEF IInv
  <1> QED
    BY <1>1, AlarmInvariant, PTL

(* A started program outside the library and its handler has its signal pending *)
(* or its timer set for no later than the first alarm, unless set_an_alarm read   *)
(* a delay of zero (zevent_alarm.c:265-289).                                      *)
THEOREM AlarmTimerCovers == Spec => []TimerCovers
  <1>1. IInv => TimerCovers
    <2> SUFFICES ASSUME IInv, Quiet, thealarms # <<>>
                 PROVE  \/ pending
                        \/ timer = Disarmed
                        \/ /\ timer # Off
                           /\ \/ timer <= thealarms[sa_find_next].next
                              \/ timer <= now + 1
      BY DEF TimerCovers
    <2>1. sa_find_next \in DOMAIN thealarms
      BY FindsNext DEF IInv
    <2> QED
      BY <2>1 DEF IInv, Covered, Quiet
  <1> QED
    BY <1>1, AlarmInvariant, PTL

(* No callback comes before its interval has passed, unless the alarm            *)
(* interrupted the program in a call of the library (zevent_alarm.c:27-75,        *)
(* :165-207).                                                                     *)
THEOREM AlarmCalledOnTime == Spec => []CalledOnTime
  <1>1. IInv => CalledOnTime
    <2> SUFFICES ASSUME IInv, hpc = "callback", cur \in Ids, call["main"].pc = "idle"
                 PROVE  t_now > thealarms[Where(cur)].last + thealarms[Where(cur)].t
      BY DEF CalledOnTime
    <2>1. PICK x : x = cur /\ x \in Ids
      OBVIOUS
    <2>2. Where(x) \in DOMAIN thealarms /\ thealarms[Where(x)].id = x
      BY <2>1, FoundAt DEF IInv
    <2> QED
      BY <2>1, <2>2 DEF IInv, OnTime
  <1> QED
    BY <1>1, AlarmInvariant, PTL

(* Callbacks may register and unregister what they like: as long as the signal   *)
(* does not interrupt the program in a call, no freed or unfinished entry is      *)
(* used (zevent_alarm.c:190-203).                                                 *)
THEOREM AlarmCallbacksSafe == Spec => []CallbacksSafe
  <1>1. IInv => CallbacksSafe
    BY DEF IInv
  <1> QED
    BY <1>1, AlarmInvariant, PTL
=============================================================================
