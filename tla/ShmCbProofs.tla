---------------------------- MODULE ShmCbProofs -----------------------------
(***************************************************************************)
(* Proofs about ShmCb for any size of the index and of the data buffer and *)
(* any requests: that the entries stay contiguous, when a store may fail,  *)
(* and that the division implements the log of SessionLog.                 *)
(***************************************************************************)
EXTENDS ShmCb, SequenceFacts, TLAPS

(***************************************************************************)
(* Cyclic positions.                                                       *)
(***************************************************************************)

(* One turn at most: the remainder is a subtraction. *)
LEMMA IncrementIs ==
    ASSUME NEW size \in Nat \ {0}, NEW start \in 0 .. size - 1, NEW add \in 0 .. size
    PROVE  /\ CyclicIncrement(size, start, add) \in 0 .. size - 1
           /\ CyclicIncrement(size, start, add) =
                IF start + add < size THEN start + add ELSE start + add - size
  <1>1. start + add \in Nat /\ start + add < size + size
    OBVIOUS
  <1>2. CASE start + add < size
    <2>1. (start + add) % size = start + add
      BY <1>1, <1>2
    <2> QED
      BY <1>1, <1>2, <2>1 DEF CyclicIncrement
  <1>3. CASE ~(start + add < size)
    <2>1. (start + add) % size = start + add - size
      BY <1>1, <1>3
    <2> QED
      BY <1>1, <1>3, <2>1 DEF CyclicIncrement
  <1> QED
    BY <1>2, <1>3

(* Two steps are one. *)
LEMMA IncrementAdds ==
    ASSUME NEW size \in Nat \ {0}, NEW start \in 0 .. size - 1, NEW a \in 0 .. size,
           NEW b \in 0 .. size, a + b <= size
    PROVE  CyclicIncrement(size, CyclicIncrement(size, start, a), b)
             = CyclicIncrement(size, start, a + b)
  <1>1. PICK m \in 0 .. size - 1 : /\ m = CyclicIncrement(size, start, a)
                                   /\ m = IF start + a < size THEN start + a ELSE start + a - size
    BY IncrementIs
  <1>2. CyclicIncrement(size, m, b) = IF m + b < size THEN m + b ELSE m + b - size
    BY IncrementIs
  <1>3. a + b \in 0 .. size
    OBVIOUS
  <1>4. CyclicIncrement(size, start, a + b) =
           IF start + (a + b) < size THEN start + (a + b) ELSE start + (a + b) - size
    BY <1>3, IncrementIs
  <1>5. (IF m + b < size THEN m + b ELSE m + b - size)
          = (IF start + (a + b) < size THEN start + (a + b) ELSE start + (a + b) - size)
    BY <1>1
  <1> QED
    BY <1>1, <1>2, <1>4, <1>5

(* Within a turn different steps lead to different places. *)
LEMMA IncrementInjective ==
    ASSUME NEW size \in Nat \ {0}, NEW start \in 0 .. size - 1, NEW a \in 0 .. size - 1,
           NEW b \in 0 .. size - 1,
           CyclicIncrement(size, start, a) = CyclicIncrement(size, start, b)
    PROVE  a = b
  <1>1. a \in 0 .. size /\ b \in 0 .. size
    OBVIOUS
  <1>2. (IF start + a < size THEN start + a ELSE start + a - size)
          = (IF start + b < size THEN start + b ELSE start + b - size)
    BY <1>1, IncrementIs
  <1> QED
    BY <1>2

(* The space between two places is the step from one to the other. *)
LEMMA SpaceIs ==
    ASSUME NEW size \in Nat \ {0}, NEW start \in 0 .. size - 1, NEW next \in 0 .. size - 1
    PROVE  /\ CyclicSpace(size, start, next) \in 0 .. size - 1
           /\ CyclicIncrement(size, start, CyclicSpace(size, start, next)) = next
  <1>0. PICK a : /\ a = CyclicSpace(size, start, next)
                 /\ a = IF start <= next THEN next - start ELSE size - start + next
    BY DEF CyclicSpace
  <1>1. /\ a = CyclicSpace(size, start, next) /\ a \in 0 .. size - 1
        /\ a = IF start <= next THEN next - start ELSE size - start + next
    BY <1>0
  <1>2. a \in 0 .. size
    BY <1>1
  <1>3. CyclicIncrement(size, start, a) =
          IF start + a < size THEN start + a ELSE start + a - size
    BY <1>2, IncrementIs
  <1>4. (IF start + a < size THEN start + a ELSE start + a - size) = next
    BY <1>1
  <1> QED
    BY <1>1, <1>3, <1>4

LEMMA SpaceOfIncrement ==
    ASSUME NEW size \in Nat \ {0}, NEW start \in 0 .. size - 1, NEW a \in 0 .. size - 1
    PROVE  CyclicSpace(size, start, CyclicIncrement(size, start, a)) = a
  <1>1. a \in 0 .. size
    OBVIOUS
  <1>2. PICK m \in 0 .. size - 1 : /\ m = CyclicIncrement(size, start, a)
                                   /\ m = IF start + a < size THEN start + a ELSE start + a - size
    BY <1>1, IncrementIs
  <1>3. (IF start <= m THEN m - start ELSE size - start + m) = a
    BY <1>2
  <1> QED
    BY <1>2, <1>3 DEF CyclicSpace

(* Seen from a place further on, everything behind it is so much closer. *)
LEMMA SpaceFrom ==
    ASSUME NEW size \in Nat \ {0}, NEW x \in 0 .. size - 1, NEW y \in 0 .. size - 1,
           NEW z \in 0 .. size - 1, CyclicSpace(size, x, y) <= CyclicSpace(size, x, z)
    PROVE  CyclicSpace(size, y, z) = CyclicSpace(size, x, z) - CyclicSpace(size, x, y)
  BY DEF CyclicSpace

(* A place in front of it is a turn away, less the way back. *)
LEMMA SpaceAround ==
    ASSUME NEW size \in Nat \ {0}, NEW x \in 0 .. size - 1, NEW y \in 0 .. size - 1,
           NEW z \in 0 .. size - 1, CyclicSpace(size, x, z) < CyclicSpace(size, x, y)
    PROVE  CyclicSpace(size, y, z) = size - CyclicSpace(size, x, y) + CyclicSpace(size, x, z)
  BY DEF CyclicSpace

(***************************************************************************)
(* A division that is in order, as a property of a queue and a cache: the  *)
(* states in the middle of an operation have it too.                       *)
(***************************************************************************)

Queues == [first_pos : Positions, pos_count : 0 .. IndexNum,
           indexes : [Positions -> Indexes \cup {Blank}]]
Caches == [first_pos : Offsets, pos_count : 0 .. DataSize, data : [Offsets -> Bytes]]

Start(q, c, i) == CyclicSpace(DataSize, c.first_pos, Idx(q, i).offset)

Packed(q, c) ==
    /\ q.pos_count = 0 => c.pos_count = 0
    /\ q.pos_count > 0 => Start(q, c, 0) = 0
    /\ \A i \in 0 .. q.pos_count - 1 :
         Start(q, c, i) + Idx(q, i).length =
           IF i = q.pos_count - 1 THEN c.pos_count ELSE Start(q, c, i + 1)

Sound(q, c) ==
    /\ q \in Queues /\ c \in Caches
    /\ \A i \in 0 .. q.pos_count - 1 : Idx(q, i) \in Indexes
    /\ Packed(q, c)

(* d is q and c without the first n entries. *)
Drops(q, c, d, n) ==
    /\ Sound(d.queue, d.cache)
    /\ d.queue.pos_count = q.pos_count - n
    /\ \A i \in 0 .. q.pos_count - n - 1 : Idx(d.queue, i) = Idx(q, n + i)
    /\ d.cache.data = c.data

LEMMA InvIsSound == IInv <=> Sound(queue, cache) /\ now \in 0 .. MaxTime
  BY DEF IInv, TypeOK, Filled, Contiguous, Sound, Packed, Start, Queues, Caches

(* What the parts of a sound division are. *)
LEMMA SoundParts ==
    ASSUME NEW q, NEW c, Sound(q, c)
    PROVE  /\ q \in Queues /\ c \in Caches
           /\ q.pos_count \in 0 .. IndexNum /\ q.first_pos \in 0 .. IndexNum - 1
           /\ c.pos_count \in 0 .. DataSize /\ c.first_pos \in 0 .. DataSize - 1
           /\ IndexNum \in Nat \ {0} /\ DataSize \in Nat \ {0}
           /\ \A i \in 0 .. q.pos_count - 1 :
                /\ Idx(q, i) \in Indexes /\ Idx(q, i).offset \in 0 .. DataSize - 1
                /\ Idx(q, i).length \in 1 .. DataSize
                /\ Start(q, c, i) \in 0 .. DataSize - 1
  <1>1. IndexNum \in Nat \ {0} /\ DataSize \in Nat \ {0}
    BY SizesAssumption
  <1>2. /\ q \in Queues /\ c \in Caches
        /\ q.pos_count \in 0 .. IndexNum /\ q.first_pos \in 0 .. IndexNum - 1
        /\ c.pos_count \in 0 .. DataSize /\ c.first_pos \in 0 .. DataSize - 1
    BY DEF Sound, Queues, Caches, Positions, Offsets
  <1>3. ASSUME NEW i \in 0 .. q.pos_count - 1
        PROVE  /\ Idx(q, i) \in Indexes /\ Idx(q, i).offset \in 0 .. DataSize - 1
               /\ Idx(q, i).length \in 1 .. DataSize
    BY DEF Sound, Indexes, Offsets
  <1>4. ASSUME NEW i \in 0 .. q.pos_count - 1
        PROVE  Start(q, c, i) \in 0 .. DataSize - 1
    BY <1>1, <1>2, <1>3, SpaceIs DEF Start
  <1> QED
    BY <1>1, <1>2, <1>3, <1>4

(* The entries lie in the order of the queue and within the bytes counted. *)
LEMMA StartsOrdered ==
    ASSUME NEW q, NEW c, Sound(q, c)
    PROVE  /\ \A i, j \in 0 .. q.pos_count - 1 : i <= j => Start(q, c, i) <= Start(q, c, j)
           /\ \A i \in 0 .. q.pos_count - 1 : Start(q, c, i) + Idx(q, i).length <= c.pos_count
  <1>1. PICK m \in Nat : m = q.pos_count
    BY SoundParts
  <1>2. \A i \in 0 .. m - 1 : Start(q, c, i) \in Nat /\ Idx(q, i).length \in Nat \ {0}
    BY <1>1, SoundParts
  <1>3. c.pos_count \in Nat
    BY SoundParts
  <1>4. \A i \in 0 .. m - 1 : i # m - 1 => Start(q, c, i) + Idx(q, i).length = Start(q, c, i + 1)
    BY <1>1 DEF Sound, Packed
  <1>5. \A i \in 0 .. m - 1 : i = m - 1 => Start(q, c, i) + Idx(q, i).length = c.pos_count
    BY <1>1 DEF Sound, Packed
  <1>6. ASSUME NEW i \in 0 .. m - 1, NEW j \in 0 .. m - 1, i <= j
        PROVE  Start(q, c, i) <= Start(q, c, j)
    <2>0. PICK T : T = {k \in i .. m - 1 : ~(Start(q, c, i) <= Start(q, c, k))}
      OBVIOUS
    <2>1. T = {k \in i .. m - 1 : ~(Start(q, c, i) <= Start(q, c, k))} /\ T \in SUBSET Nat
      <3>1. i .. m - 1 \subseteq Nat
        OBVIOUS
      <3> QED
        BY <2>0, <3>1
    <2>2. SUFFICES ASSUME T # {} PROVE FALSE
      BY <1>6, <2>1
    <2>3. PICK k \in T : \A y \in T : k <= y
      BY <2>1, <2>2, LeastNumber
    <2>4. k \in i .. m - 1 /\ ~(Start(q, c, i) <= Start(q, c, k))
      BY <2>1, <2>3
    <2>5. k # i
      BY <1>2, <2>4
    <2>6. k - 1 \in i .. m - 1 /\ k - 1 \in 0 .. m - 1 /\ k - 1 # m - 1 /\ k - 1 + 1 = k
          /\ k \in 0 .. m - 1
      BY <2>4, <2>5
    <2>7. k - 1 \notin T
      BY <2>3, <2>4
    <2>8. Start(q, c, i) <= Start(q, c, k - 1)
      BY <2>1, <2>6, <2>7
    <2>9. Start(q, c, k - 1) + Idx(q, k - 1).length = Start(q, c, k)
      BY <1>4, <2>6
    <2>10. /\ Start(q, c, k - 1) \in Nat /\ Idx(q, k - 1).length \in Nat \ {0}
           /\ Start(q, c, i) \in Nat /\ Start(q, c, k) \in Nat
      BY <1>2, <2>6
    <2> QED
      BY <2>4, <2>8, <2>9, <2>10
  <1>7. ASSUME NEW i \in 0 .. m - 1
        PROVE  Start(q, c, i) + Idx(q, i).length <= c.pos_count
    <2>1. CASE i = m - 1
      BY <1>2, <1>3, <1>5, <2>1
    <2>2. CASE i # m - 1
      <3>1. m - 1 \in 0 .. m - 1 /\ i + 1 \in 0 .. m - 1 /\ i + 1 <= m - 1
        BY <2>2
      <3>2. Start(q, c, i + 1) <= Start(q, c, m - 1)
        BY <1>6, <3>1
      <3>3. Start(q, c, m - 1) + Idx(q, m - 1).length = c.pos_count
        BY <1>5, <3>1
      <3>4. Start(q, c, i) + Idx(q, i).length = Start(q, c, i + 1)
        BY <1>4, <2>2
      <3>5. /\ Start(q, c, m - 1) \in Nat /\ Idx(q, m - 1).length \in Nat
            /\ Start(q, c, i + 1) \in Nat
        BY <1>2, <3>1
      <3> QED
        BY <1>3, <3>2, <3>3, <3>4, <3>5
    <2> QED
      BY <2>1, <2>2
  <1> QED
    BY <1>1, <1>6, <1>7

(***************************************************************************)
(* Entries leave at the front.                                             *)
(***************************************************************************)

(* Nothing leaves. *)
LEMMA DropsNone ==
    ASSUME NEW q, NEW c, Sound(q, c)
    PROVE  Drops(q, c, Division(q, c), 0)
  <1>1. q.pos_count \in Nat
    BY SoundParts
  <1>2. Division(q, c).queue = q /\ Division(q, c).cache = c
    BY DEF Division
  <1>3. q.pos_count - 0 = q.pos_count /\ \A i \in 0 .. q.pos_count - 1 : 0 + i = i
    BY <1>1
  <1> QED
    BY <1>2, <1>3 DEF Drops

(* One prefix after another. *)
LEMMA DropsAdd ==
    ASSUME NEW q, NEW c, NEW d, NEW e, NEW a \in Nat, NEW b \in Nat, q.pos_count \in Nat,
           a + b <= q.pos_count, Drops(q, c, d, a), Drops(d.queue, d.cache, e, b)
    PROVE  Drops(q, c, e, a + b)
  <1>1. PICK m \in Nat : m = q.pos_count
    OBVIOUS
  <1>2. d.queue.pos_count = m - a /\ e.queue.pos_count = m - a - b
    BY <1>1 DEF Drops
  <1>3. e.queue.pos_count = m - (a + b)
    BY <1>2
  <1>4. ASSUME NEW i \in 0 .. m - (a + b) - 1 PROVE Idx(e.queue, i) = Idx(q, a + b + i)
    <2>1. i \in 0 .. m - a - b - 1 /\ b + i \in 0 .. m - a - 1 /\ a + (b + i) = a + b + i
      BY <1>4
    <2>2. Idx(e.queue, i) = Idx(d.queue, b + i)
      BY <1>2, <2>1 DEF Drops
    <2>3. Idx(d.queue, b + i) = Idx(q, a + (b + i))
      BY <1>1, <2>1 DEF Drops
    <2> QED
      BY <2>1, <2>2, <2>3
  <1> QED
    BY <1>1, <1>3, <1>4 DEF Drops

(* The bytes given back are those in front of the new first entry. *)
LEMMA AdvanceDrops ==
    ASSUME NEW q, NEW c, Sound(q, c), NEW n \in 1 .. q.pos_count - 1
    PROVE  /\ Drops(q, c, Advance(q, c, n), n)
           /\ Advance(q, c, n).cache.pos_count = c.pos_count - Start(q, c, n)
  <1>1. PICK m \in Nat, p \in 0 .. IndexNum - 1, f \in 0 .. DataSize - 1, k \in 0 .. DataSize :
           /\ m = q.pos_count /\ p = q.first_pos /\ f = c.first_pos /\ k = c.pos_count
           /\ m <= IndexNum
    BY SoundParts
  <1>2. IndexNum \in Nat \ {0} /\ DataSize \in Nat \ {0} /\ n \in Nat \ {0} /\ n < m
    BY <1>1, SizesAssumption
  <1>3. PICK r, s : r = Advance(q, c, n).queue /\ s = Advance(q, c, n).cache
    OBVIOUS
  <1>4. PICK w \in 0 .. DataSize - 1, o \in 0 .. DataSize - 1 :
           w = Start(q, c, n) /\ o = Idx(q, n).offset /\ w = CyclicSpace(DataSize, f, o)
    <2>1. n \in 0 .. q.pos_count - 1
      BY <1>1, <1>2
    <2>2. Start(q, c, n) \in 0 .. DataSize - 1 /\ Idx(q, n).offset \in 0 .. DataSize - 1
      BY <2>1, SoundParts
    <2> QED
      BY <1>1, <2>2 DEF Start
  <1>5. /\ r = [q EXCEPT !.pos_count = m - n, !.first_pos = CyclicIncrement(IndexNum, p, n)]
        /\ s = [c EXCEPT !.pos_count = k - w, !.first_pos = o]
    BY <1>1, <1>3, <1>4 DEF Advance, Division
  <1>6. q \in Queues /\ c \in Caches
    BY SoundParts
  <1>7. /\ CyclicIncrement(IndexNum, p, n) \in Positions /\ m - n \in 0 .. IndexNum
    <2>1. n \in 0 .. IndexNum
      BY <1>1, <1>2
    <2>2. CyclicIncrement(IndexNum, p, n) \in 0 .. IndexNum - 1
      BY <1>2, <2>1, IncrementIs
    <2> QED
      BY <1>1, <1>2, <2>2 DEF Positions
  <1>8. w + Idx(q, n).length <= k /\ Idx(q, n).length \in Nat
    <2>1. n \in 0 .. q.pos_count - 1
      BY <1>1, <1>2
    <2> QED
      <3>1. Start(q, c, n) + Idx(q, n).length <= c.pos_count
        BY <2>1, StartsOrdered
      <3>2. Idx(q, n).length \in 1 .. DataSize
        BY <2>1, SoundParts
      <3> QED
        BY <1>1, <1>2, <1>4, <3>1, <3>2
  <1>9. k - w \in 0 .. DataSize /\ o \in Offsets
    BY <1>2, <1>4, <1>8 DEF Offsets
  <1>10. /\ r \in Queues /\ r.pos_count = m - n /\ r.indexes = q.indexes
         /\ r.first_pos = CyclicIncrement(IndexNum, p, n)
    BY <1>5, <1>6, <1>7 DEF Queues
  <1>11. s \in Caches /\ s.pos_count = k - w /\ s.first_pos = o /\ s.data = c.data
    BY <1>5, <1>6, <1>9 DEF Caches
  <1>12. ASSUME NEW i \in 0 .. m - n - 1 PROVE Idx(r, i) = Idx(q, n + i)
    <2>1. i \in 0 .. IndexNum /\ n \in 0 .. IndexNum /\ n + i <= IndexNum
      BY <1>1, <1>2
    <2>2. CyclicIncrement(IndexNum, CyclicIncrement(IndexNum, p, n), i) =
             CyclicIncrement(IndexNum, p, n + i)
      BY <1>2, <2>1, IncrementAdds
    <2> QED
      BY <1>1, <1>10, <2>2 DEF Idx
  <1>13. ASSUME NEW i \in 0 .. m - n - 1
         PROVE  /\ n + i \in 0 .. m - 1 /\ Start(q, c, n + i) \in Nat
                /\ Start(r, s, i) = Start(q, c, n + i) - w
    <2>1. n + i \in 0 .. m - 1 /\ n \in 0 .. m - 1 /\ n <= n + i
      BY <1>2
    <2>2. PICK z \in 0 .. DataSize - 1 : z = Idx(q, n + i).offset
      BY <1>1, <2>1, SoundParts
    <2>3. Start(q, c, n) <= Start(q, c, n + i)
      BY <1>1, <2>1, StartsOrdered
    <2>4. CyclicSpace(DataSize, f, o) <= CyclicSpace(DataSize, f, z)
      BY <1>1, <1>4, <2>2, <2>3 DEF Start
    <2>5. CyclicSpace(DataSize, o, z) = CyclicSpace(DataSize, f, z) - CyclicSpace(DataSize, f, o)
      BY <1>2, <2>4, SpaceFrom
    <2>6. Start(r, s, i) = CyclicSpace(DataSize, o, z)
      BY <1>11, <1>12, <2>2 DEF Start
    <2>7. Start(q, c, n + i) = CyclicSpace(DataSize, f, z)
      BY <1>1, <2>2 DEF Start
    <2>8. Start(q, c, n + i) \in Nat
      BY <1>1, <2>1, SoundParts
    <2> QED
      BY <1>4, <2>1, <2>5, <2>6, <2>7, <2>8
  <1>14. Packed(r, s)
    <2>1. r.pos_count > 0
      BY <1>2, <1>10
    <2>2. Start(r, s, 0) = 0
      <3>1. 0 \in 0 .. m - n - 1 /\ n + 0 = n
        BY <1>2
      <3>2. Start(r, s, 0) = Start(q, c, n) - w
        BY <1>13, <3>1
      <3> QED
        BY <1>4, <3>2
    <2>3. ASSUME NEW i \in 0 .. m - n - 1
          PROVE  Start(r, s, i) + Idx(r, i).length =
                   IF i = m - n - 1 THEN k - w ELSE Start(r, s, i + 1)
      <3>1. /\ Start(q, c, n + i) + Idx(q, n + i).length =
                 IF n + i = m - 1 THEN k ELSE Start(q, c, n + i + 1)
            /\ Idx(q, n + i).length \in Nat
        BY <1>1, <1>13, SoundParts DEF Sound, Packed
      <3>2. Start(r, s, i) = Start(q, c, n + i) - w /\ Idx(r, i) = Idx(q, n + i)
            /\ Start(q, c, n + i) \in Nat
        BY <1>12, <1>13
      <3>3. CASE i = m - n - 1
        <4>1. n + i = m - 1
          BY <1>2, <3>3
        <4>2. Start(q, c, n + i) + Idx(q, n + i).length = k
          BY <3>1, <4>1
        <4> QED
          BY <3>1, <3>2, <3>3, <4>2
      <3>4. CASE i # m - n - 1
        <4>1. n + i # m - 1 /\ i + 1 \in 0 .. m - n - 1 /\ n + (i + 1) = n + i + 1
          BY <1>2, <3>4
        <4>2. Start(r, s, i + 1) = Start(q, c, n + i + 1) - w /\ Start(q, c, n + i + 1) \in Nat
          BY <1>13, <4>1
        <4>3. Start(q, c, n + i) + Idx(q, n + i).length = Start(q, c, n + i + 1)
          BY <3>1, <4>1
        <4> QED
          BY <3>1, <3>2, <3>4, <4>2, <4>3
      <3> QED
        BY <3>3, <3>4
    <2> QED
      BY <1>10, <1>11, <2>1, <2>2, <2>3 DEF Packed
  <1>15. \A i \in 0 .. m - n - 1 : Idx(r, i) \in Indexes
    BY <1>1, <1>12, <1>13, SoundParts
  <1>16. Sound(r, s)
    BY <1>10, <1>11, <1>14, <1>15 DEF Sound
  <1> QED
    BY <1>1, <1>3, <1>4, <1>10, <1>11, <1>12, <1>16 DEF Drops

(* How many entries have expired: the least number that may be meant. *)
LEMMA ExpireCountIs ==
    ASSUME NEW q, NEW c, Sound(q, c), now \in Nat
    PROVE  /\ ExpireCount(q) \in 0 .. q.pos_count
           /\ \A i \in 0 .. ExpireCount(q) - 1 : Idx(q, i).expires <= now
  <1>1. PICK m \in Nat : m = q.pos_count
    BY SoundParts
  <1>2. PICK T : T = {k \in 0 .. m : k = m \/ ~(Idx(q, k).expires <= now)}
    OBVIOUS
  <1>3. T \in SUBSET Nat /\ m \in T
    <2>1. 0 .. m \subseteq Nat /\ m \in 0 .. m
      OBVIOUS
    <2> QED
      BY <1>2, <2>1
  <1>4. PICK n \in T : \A y \in T : n <= y
    BY <1>3, LeastNumber
  <1>5. n \in 0 .. m /\ (n = m \/ ~(Idx(q, n).expires <= now))
    BY <1>2, <1>4
  <1>6. \A i \in 0 .. n - 1 : Idx(q, i).expires <= now
    <2>1. ASSUME NEW i \in 0 .. n - 1 PROVE i \in 0 .. m /\ i # m /\ ~(n <= i)
      BY <1>5
    <2> QED
      BY <1>2, <1>4, <2>1
  <1>7. \A i \in 0 .. m - 1 : Idx(q, i).expires \in Nat
    BY <1>1, SoundParts, SizesAssumption DEF Indexes
  <1>8. n = m \/ Idx(q, n).expires > now
    <2>1. CASE n # m
      <3>1. n \in 0 .. m - 1
        BY <1>5, <2>1
      <3>2. Idx(q, n).expires \in Nat
        BY <1>7, <3>1
      <3> QED
        BY <1>5, <2>1, <3>2
    <2> QED
      BY <2>1
  <1>9. \E x \in 0 .. q.pos_count :
           /\ \A i \in 0 .. x - 1 : Idx(q, i).expires <= now
           /\ x = q.pos_count \/ Idx(q, x).expires > now
    BY <1>1, <1>5, <1>6, <1>8
  <1> QED
    BY <1>9 DEF ExpireCount

(* shmcb_expire_division drops a prefix of expired entries. *)
LEMMA ExpireDrops ==
    ASSUME NEW q, NEW c, Sound(q, c), now \in Nat
    PROVE  \E n \in 0 .. q.pos_count :
              /\ Drops(q, c, Expire(q, c), n)
              /\ \A i \in 0 .. n - 1 : Idx(q, i).expires <= now
  <1>1. PICK n \in 0 .. q.pos_count :
           n = ExpireCount(q) /\ \A i \in 0 .. n - 1 : Idx(q, i).expires <= now
    BY ExpireCountIs
  <1>2. q.pos_count \in Nat
    BY SoundParts
  <1>3. CASE n = 0
    <2>1. Expire(q, c) = Division(q, c)
      BY <1>1, <1>3 DEF Expire
    <2> QED
      BY <1>1, <1>3, <2>1, DropsNone
  <1>4. CASE n > 0 /\ n = q.pos_count
    <2>1. PICK r, s : r = [q EXCEPT !.pos_count = 0] /\ s = [c EXCEPT !.pos_count = 0]
      OBVIOUS
    <2>2. Expire(q, c) = Division(r, s)
      BY <1>1, <1>2, <1>4, <2>1 DEF Expire
    <2>3. /\ r \in Queues /\ r.pos_count = 0
          /\ s \in Caches /\ s.pos_count = 0 /\ s.data = c.data
      <3>1. 0 \in 0 .. IndexNum /\ 0 \in 0 .. DataSize
        BY SizesAssumption
      <3>2. q \in Queues /\ c \in Caches
        BY SoundParts
      <3> QED
        BY <2>1, <3>1, <3>2 DEF Queues, Caches
    <2>4. Sound(r, s)
      BY <2>3 DEF Sound, Packed
    <2>5. Expire(q, c).queue = r /\ Expire(q, c).cache = s
      BY <2>2 DEF Division
    <2>6. q.pos_count - n = 0 /\ 0 .. q.pos_count - n - 1 = {}
      BY <1>2, <1>4
    <2>7. Drops(q, c, Expire(q, c), n)
      BY <2>3, <2>4, <2>5, <2>6 DEF Drops
    <2> QED
      BY <1>1, <2>7
  <1>5. CASE n # 0 /\ n # q.pos_count
    <2>1. Expire(q, c) = Advance(q, c, n)
      BY <1>1, <1>5 DEF Expire
    <2>2. n \in 1 .. q.pos_count - 1
      BY <1>1, <1>2, <1>5
    <2>3. Drops(q, c, Advance(q, c, n), n)
      BY <2>2, AdvanceDrops
    <2> QED
      BY <1>1, <2>1, <2>3
  <1> QED
    BY <1>1, <1>2, <1>3, <1>4, <1>5

(* How many entries scroll off: at most all but the last. *)
LEMMA ScrollCountIs ==
    ASSUME NEW q, NEW c, Sound(q, c), NEW nlen \in Nat
    PROVE  \/ ScrollCount(q, c, nlen) = 0 /\ DataSize - c.pos_count >= nlen
           \/ ScrollCount(q, c, nlen) = 0 /\ q.pos_count = 0
           \/ /\ q.pos_count # 0 /\ ScrollCount(q, c, nlen) \in 0 .. q.pos_count - 1
              /\ \/ ScrollCount(q, c, nlen) = q.pos_count - 1
                 \/ /\ ScrollCount(q, c, nlen) > 0
                    /\ DataSize - c.pos_count + Start(q, c, ScrollCount(q, c, nlen)) >= nlen
  <1>1. PICK m \in Nat : m = q.pos_count
    BY SoundParts
  <1>2. CASE DataSize - c.pos_count >= nlen \/ m = 0
    BY <1>1, <1>2 DEF ScrollCount
  <1>3. CASE ~(DataSize - c.pos_count >= nlen \/ m = 0)
    <2> DEFINE Enough(n) == DataSize - c.pos_count + Start(q, c, n) >= nlen
    <2>1. PICK T : T = {k \in 0 .. m - 1 : k = m - 1 \/ (k > 0 /\ Enough(k))}
      OBVIOUS
    <2>2. T \in SUBSET Nat /\ m - 1 \in T
      <3>1. 0 .. m - 1 \subseteq Nat /\ m - 1 \in 0 .. m - 1
        BY <1>3
      <3> QED
        BY <2>1, <3>1
    <2>3. PICK n \in T : \A y \in T : n <= y
      BY <2>2, LeastNumber
    <2>4. n \in 0 .. m - 1 /\ (n = m - 1 \/ (n > 0 /\ Enough(n)))
      BY <2>1, <2>3
    <2>5. \A i \in 1 .. n - 1 : ~Enough(i)
      <3>1. ASSUME NEW i \in 1 .. n - 1 PROVE i \in 0 .. m - 1 /\ i > 0 /\ ~(n <= i)
        BY <2>4
      <3> QED
        BY <2>1, <2>3, <3>1
    <2>6. \E x \in 0 .. q.pos_count - 1 :
             /\ \A i \in 1 .. x - 1 : ~Enough(i)
             /\ x = q.pos_count - 1 \/ (x > 0 /\ Enough(x))
      BY <1>1, <2>4, <2>5
    <2>7. ScrollCount(q, c, nlen) =
             CHOOSE x \in 0 .. q.pos_count - 1 :
               /\ \A i \in 1 .. x - 1 : ~Enough(i)
               /\ x = q.pos_count - 1 \/ (x > 0 /\ Enough(x))
      BY <1>1, <1>3 DEF ScrollCount, Start
    <2>8. /\ ScrollCount(q, c, nlen) \in 0 .. q.pos_count - 1
          /\ \/ ScrollCount(q, c, nlen) = q.pos_count - 1
             \/ ScrollCount(q, c, nlen) > 0 /\ Enough(ScrollCount(q, c, nlen))
      BY <2>6, <2>7
    <2> QED
      BY <1>1, <1>3, <2>8
  <1> QED
    BY <1>2, <1>3

(* The entries scroll off until there is room or one is left. *)
LEMMA ScrollDrops ==
    ASSUME NEW q, NEW c, Sound(q, c), NEW nlen \in Nat
    PROVE  /\ \E n \in 0 .. q.pos_count : Drops(q, c, Scroll(q, c, nlen), n)
           /\ \/ Scroll(q, c, nlen).cache.pos_count + nlen <= DataSize
              \/ Scroll(q, c, nlen).queue.pos_count = 1
              \/ Scroll(q, c, nlen).cache.pos_count = 0
  <1>1. PICK m \in Nat, k \in Nat : m = q.pos_count /\ k = c.pos_count
    BY SoundParts
  <1>2. PICK n : n = ScrollCount(q, c, nlen)
    OBVIOUS
  <1>3. DataSize \in Nat
    BY SizesAssumption
  <1>4. \/ n = 0 /\ DataSize - k >= nlen
        \/ n = 0 /\ m = 0
        \/ /\ m # 0 /\ n \in 0 .. m - 1
           /\ n = m - 1 \/ (n > 0 /\ DataSize - k + Start(q, c, n) >= nlen)
    BY <1>1, <1>2, ScrollCountIs
  <1>5. CASE n = 0
    <2>1. Scroll(q, c, nlen) = Division(q, c)
      BY <1>2, <1>5 DEF Scroll
    <2>2. Scroll(q, c, nlen).queue.pos_count = m /\ Scroll(q, c, nlen).cache.pos_count = k
      BY <1>1, <2>1 DEF Division
    <2>3. k + nlen <= DataSize \/ m = 1 \/ k = 0
      <3>1. m = 0 => k = 0
        BY <1>1 DEF Sound, Packed
      <3> QED
        BY <1>3, <1>4, <1>5, <3>1
    <2>4. Drops(q, c, Scroll(q, c, nlen), 0) /\ 0 \in 0 .. q.pos_count
      BY <1>1, <2>1, DropsNone
    <2> QED
      BY <2>2, <2>3, <2>4
  <1>6. CASE n # 0
    <2>1. Scroll(q, c, nlen) = Advance(q, c, n)
      BY <1>2, <1>6 DEF Scroll
    <2>2. n \in 1 .. q.pos_count - 1 /\ n \in 0 .. q.pos_count
      BY <1>1, <1>4, <1>6
    <2>3. Drops(q, c, Advance(q, c, n), n) /\ Advance(q, c, n).cache.pos_count = k - Start(q, c, n)
      BY <1>1, <2>2, AdvanceDrops
    <2>4. Advance(q, c, n).queue.pos_count = m - n
      BY <1>1, <2>3 DEF Drops
    <2>5. Start(q, c, n) \in Nat
      <3>1. n \in 0 .. q.pos_count - 1
        BY <1>1, <2>2
      <3> QED
        BY <3>1, SoundParts
    <2>6. k - Start(q, c, n) + nlen <= DataSize \/ m - n = 1
      BY <1>1, <1>3, <1>4, <1>6, <2>5
    <2> QED
      BY <2>1, <2>2, <2>3, <2>4, <2>6
  <1> QED
    BY <1>5, <1>6

(* The room a store makes. *)
LEMMA MadeRoomDrops ==
    ASSUME Sound(queue, cache), now \in Nat, NEW nlen \in Nat
    PROVE  /\ Sound(MadeRoom(nlen).queue, MadeRoom(nlen).cache)
           /\ \E n \in 0 .. queue.pos_count : Drops(queue, cache, MadeRoom(nlen), n)
           /\ \/ MadeRoom(nlen).cache.pos_count + nlen <= DataSize
              \/ MadeRoom(nlen).queue.pos_count = 1
              \/ MadeRoom(nlen).cache.pos_count = 0
  <1>1. PICK q, c, d : q = queue /\ c = cache /\ d = Expire(q, c)
    OBVIOUS
  <1>2. PICK a \in 0 .. q.pos_count : Drops(q, c, d, a)
    BY <1>1, ExpireDrops
  <1>3. Sound(d.queue, d.cache) /\ d.queue.pos_count = q.pos_count - a /\ q.pos_count \in Nat
    <2>1. q.pos_count \in Nat
      BY <1>1, SoundParts
    <2> QED
      BY <1>2, <2>1 DEF Drops
  <1>4. PICK e : e = Scroll(d.queue, d.cache, nlen) /\ e = MadeRoom(nlen)
    BY <1>1 DEF MadeRoom
  <1>5. /\ \E b \in 0 .. d.queue.pos_count : Drops(d.queue, d.cache, e, b)
        /\ \/ e.cache.pos_count + nlen <= DataSize
           \/ e.queue.pos_count = 1
           \/ e.cache.pos_count = 0
    <2>1. PICK r, s : r = d.queue /\ s = d.cache
      OBVIOUS
    <2>2. Sound(r, s) /\ e = Scroll(r, s, nlen)
      BY <1>3, <1>4, <2>1
    <2>3. /\ \E b \in 0 .. r.pos_count : Drops(r, s, e, b)
          /\ \/ e.cache.pos_count + nlen <= DataSize
             \/ e.queue.pos_count = 1
             \/ e.cache.pos_count = 0
      BY <2>2, ScrollDrops
    <2> QED
      BY <2>1, <2>3
  <1>6. PICK b \in 0 .. d.queue.pos_count : Drops(d.queue, d.cache, e, b)
    BY <1>5
  <1>7. a \in Nat /\ b \in Nat /\ a + b <= q.pos_count /\ a + b \in 0 .. q.pos_count
    BY <1>3
  <1>8. Drops(q, c, e, a + b)
    BY <1>2, <1>3, <1>6, <1>7, DropsAdd
  <1> QED
    BY <1>1, <1>4, <1>5, <1>7, <1>8 DEF Drops


(***************************************************************************)
(* An entry is added at the end.                                           *)
(***************************************************************************)

(* What is written behind the bytes in use. *)
LEMMA NtocWrites ==
    ASSUME NEW data \in [Offsets -> Bytes], NEW f \in 0 .. DataSize - 1, NEW k \in 0 .. DataSize,
           NEW v \in Values, k + Size[v] <= DataSize, NEW o, o = CyclicIncrement(DataSize, f, k)
    PROVE  /\ o \in 0 .. DataSize - 1 /\ CyclicSpace(DataSize, f, o) = k
           /\ Ntoc(data, o, v) \in [Offsets -> Bytes]
           /\ \A t \in 0 .. k - 1 :
                Ntoc(data, o, v)[CyclicIncrement(DataSize, f, t)]
                  = data[CyclicIncrement(DataSize, f, t)]
           /\ Cton(Ntoc(data, o, v), o, Size[v]) = Payload(v)
  <1>1. DataSize \in Nat \ {0} /\ Size[v] \in Nat \ {0} /\ k \in 0 .. DataSize - 1
    BY SizesAssumption
  <1>2. PICK z \in Nat \ {0} : z = Size[v] /\ z <= DataSize /\ k + z <= DataSize
    BY <1>1
  <1>3. o \in 0 .. DataSize - 1 /\ CyclicSpace(DataSize, f, o) = k
    BY <1>1, IncrementIs, SpaceOfIncrement
  <1>4. Ntoc(data, o, v) = [u \in Offsets |-> IF CyclicSpace(DataSize, o, u) < z
                                 THEN <<v, CyclicSpace(DataSize, o, u) + 1>> ELSE data[u]]
    BY <1>2 DEF Ntoc
  <1>5. Ntoc(data, o, v) \in [Offsets -> Bytes]
    <2>1. ASSUME NEW u \in Offsets, CyclicSpace(DataSize, o, u) < z
          PROVE  <<v, CyclicSpace(DataSize, o, u) + 1>> \in Bytes
      <3>1. PICK a \in 0 .. DataSize - 1 : a = CyclicSpace(DataSize, o, u)
        BY <1>1, <1>3, SpaceIs DEF Offsets
      <3>2. a + 1 \in 1 .. DataSize
        BY <1>1
      <3> QED
        BY <3>1, <3>2 DEF Bytes
    <2> QED
      BY <1>4, <2>1
  <1>6. ASSUME NEW t \in 0 .. k - 1
        PROVE  Ntoc(data, o, v)[CyclicIncrement(DataSize, f, t)]
                 = data[CyclicIncrement(DataSize, f, t)]
    <2>1. t \in 0 .. DataSize - 1 /\ t \in 0 .. DataSize /\ t < k
      BY <1>1
    <2>2. PICK u \in 0 .. DataSize - 1 : u = CyclicIncrement(DataSize, f, t)
      BY <1>1, <2>1, IncrementIs
    <2>3. CyclicSpace(DataSize, f, u) = t
      BY <1>1, <2>1, <2>2, SpaceOfIncrement
    <2>4. CyclicSpace(DataSize, o, u) = DataSize - k + t
      BY <1>1, <1>3, <2>1, <2>3, SpaceAround
    <2>5. ~(CyclicSpace(DataSize, o, u) < z)
      BY <1>1, <1>2, <2>1, <2>4
    <2> QED
      BY <1>4, <2>2, <2>5 DEF Offsets
  <1>7. Cton(Ntoc(data, o, v), o, Size[v]) = Payload(v)
    <2>1. ASSUME NEW i \in 1 .. z
          PROVE  Ntoc(data, o, v)[CyclicIncrement(DataSize, o, i - 1)] = <<v, i>>
      <3>1. i - 1 \in 0 .. DataSize - 1 /\ i - 1 \in 0 .. DataSize /\ i - 1 < z /\ i - 1 + 1 = i
        BY <1>1, <1>2
      <3>2. PICK u \in 0 .. DataSize - 1 : u = CyclicIncrement(DataSize, o, i - 1)
        BY <1>1, <1>3, <3>1, IncrementIs
      <3>3. CyclicSpace(DataSize, o, u) = i - 1
        BY <1>1, <1>3, <3>1, <3>2, SpaceOfIncrement
      <3> QED
        BY <1>4, <3>1, <3>2, <3>3 DEF Offsets
    <2> QED
      BY <1>2, <2>1 DEF Cton, Payload
  <1> QED
    BY <1>3, <1>5, <1>6, <1>7

(* The bytes of an entry are counted bytes. *)
LEMMA EntryBytes ==
    ASSUME NEW q, NEW c, Sound(q, c), NEW data,
           \A t \in 0 .. c.pos_count - 1 : data[CyclicIncrement(DataSize, c.first_pos, t)]
                                            = c.data[CyclicIncrement(DataSize, c.first_pos, t)],
           NEW i \in 0 .. q.pos_count - 1
    PROVE  Cton(data, Idx(q, i).offset, Idx(q, i).length)
             = Cton(c.data, Idx(q, i).offset, Idx(q, i).length)
  <1>1. PICK o \in 0 .. DataSize - 1, l \in 1 .. DataSize, w \in 0 .. DataSize - 1,
             f \in 0 .. DataSize - 1, k \in 0 .. DataSize :
           /\ o = Idx(q, i).offset /\ l = Idx(q, i).length /\ w = Start(q, c, i)
           /\ f = c.first_pos /\ k = c.pos_count
    BY SoundParts
  <1>2. DataSize \in Nat \ {0}
    BY SizesAssumption
  <1>3. w + l <= k
    BY <1>1, StartsOrdered
  <1>4. CyclicIncrement(DataSize, f, w) = o
    BY <1>1, <1>2, SpaceIs DEF Start
  <1>5. ASSUME NEW j \in 1 .. l
        PROVE  data[CyclicIncrement(DataSize, o, j - 1)] = c.data[CyclicIncrement(DataSize, o, j - 1)]
    <2>1. /\ w + (j - 1) \in 0 .. k - 1 /\ w \in 0 .. DataSize /\ j - 1 \in 0 .. DataSize
          /\ w + (j - 1) <= DataSize
      BY <1>2, <1>3
    <2>2. CyclicIncrement(DataSize, o, j - 1) = CyclicIncrement(DataSize, f, w + (j - 1))
      BY <1>2, <1>4, <2>1, IncrementAdds
    <2> QED
      BY <1>1, <2>1, <2>2
  <1> QED
    BY <1>1, <1>5 DEF Cton


(* The entry a store writes. *)
NewIndex(c, v, k, x) ==
    [expires |-> x, offset |-> CyclicIncrement(DataSize, c.first_pos, c.pos_count),
     length |-> Size[v], key |-> k, removed |-> FALSE]

NewQueue(q, c, v, k, x) ==
    [q EXCEPT !.indexes[CyclicIncrement(IndexNum, q.first_pos, q.pos_count)] = NewIndex(c, v, k, x),
              !.pos_count = @ + 1]

NewCache(c, v) ==
    [c EXCEPT !.data = Ntoc(@, CyclicIncrement(DataSize, c.first_pos, c.pos_count), v),
              !.pos_count = @ + Size[v]]

LEMMA StoreAdds ==
    ASSUME NEW q, NEW c, Sound(q, c), NEW v \in Values, NEW k \in Keys, NEW x \in Expiries,
           c.pos_count + Size[v] <= DataSize, q.pos_count # IndexNum,
           NEW r, r = NewQueue(q, c, v, k, x), NEW s, s = NewCache(c, v)
    PROVE  /\ Sound(r, s) /\ r.pos_count = q.pos_count + 1
           /\ \A i \in 0 .. q.pos_count - 1 :
                /\ Idx(r, i) = Idx(q, i)
                /\ Cton(s.data, Idx(q, i).offset, Idx(q, i).length)
                     = Cton(c.data, Idx(q, i).offset, Idx(q, i).length)
           /\ Idx(r, q.pos_count) = NewIndex(c, v, k, x)
           /\ Cton(s.data, NewIndex(c, v, k, x).offset, Size[v]) = Payload(v)
  <1>1. PICK m \in Nat, p \in 0 .. IndexNum - 1, f \in 0 .. DataSize - 1, n \in 0 .. DataSize,
             z \in Nat \ {0} :
           /\ m = q.pos_count /\ p = q.first_pos /\ f = c.first_pos /\ n = c.pos_count
           /\ z = Size[v] /\ m < IndexNum
    <2>1. Size[v] \in Nat \ {0}
      BY SizesAssumption
    <2>2. q.pos_count \in Nat /\ q.pos_count < IndexNum
      BY SoundParts
    <2> QED
      BY <2>1, <2>2, SoundParts
  <1>2. /\ IndexNum \in Nat \ {0} /\ DataSize \in Nat \ {0} /\ n + z <= DataSize
        /\ m \in 0 .. IndexNum - 1 /\ m \in 0 .. IndexNum
    BY <1>1, SizesAssumption
  <1>3. q \in Queues /\ c \in Caches
    BY SoundParts
  <1>4. PICK o \in 0 .. DataSize - 1 :
           /\ o = CyclicIncrement(DataSize, f, n) /\ CyclicSpace(DataSize, f, o) = n
           /\ Ntoc(c.data, o, v) \in [Offsets -> Bytes]
           /\ \A t \in 0 .. n - 1 : Ntoc(c.data, o, v)[CyclicIncrement(DataSize, f, t)]
                                      = c.data[CyclicIncrement(DataSize, f, t)]
           /\ Cton(Ntoc(c.data, o, v), o, Size[v]) = Payload(v)
    <2>1. PICK data \in [Offsets -> Bytes] : data = c.data
      BY <1>3 DEF Caches
    <2>2. PICK o : o = CyclicIncrement(DataSize, f, n)
      OBVIOUS
    <2>3. n + Size[v] <= DataSize
      BY <1>1, <1>2
    <2>4. /\ o \in 0 .. DataSize - 1 /\ CyclicSpace(DataSize, f, o) = n
          /\ Ntoc(data, o, v) \in [Offsets -> Bytes]
          /\ \A t \in 0 .. n - 1 : Ntoc(data, o, v)[CyclicIncrement(DataSize, f, t)]
                                     = data[CyclicIncrement(DataSize, f, t)]
          /\ Cton(Ntoc(data, o, v), o, Size[v]) = Payload(v)
      BY <2>2, <2>3, NtocWrites
    <2> QED
      BY <2>1, <2>2, <2>4
  <1>5. PICK y : y = NewIndex(c, v, k, x)
    OBVIOUS
  <1>6. y = [expires |-> x, offset |-> o, length |-> z, key |-> k, removed |-> FALSE]
    BY <1>1, <1>4, <1>5 DEF NewIndex
  <1>7. y \in Indexes
    <2>1. z \in 1 .. DataSize /\ o \in Offsets /\ FALSE \in BOOLEAN
      BY <1>1, <1>2, <1>4, SMTT(30) DEF Offsets
    <2> QED
      BY <1>6, <2>1 DEF Indexes
  <1>8. PICK e \in 0 .. IndexNum - 1 : e = CyclicIncrement(IndexNum, p, m)
    BY <1>2, IncrementIs
  <1>9. /\ r \in Queues /\ r.pos_count = m + 1 /\ r.first_pos = p
        /\ r.indexes = [q.indexes EXCEPT ![e] = y]
    <2>1. r = [q EXCEPT !.indexes[e] = y, !.pos_count = m + 1]
      BY <1>1, <1>5, <1>8 DEF NewQueue
    <2>2. m + 1 \in 0 .. IndexNum /\ e \in Positions
      BY <1>2 DEF Positions
    <2>3. [q.indexes EXCEPT ![e] = y] \in [Positions -> Indexes \cup {Blank}]
      BY <1>3, <1>7, <2>2 DEF Queues
    <2> QED
      BY <1>1, <1>3, <2>1, <2>2, <2>3 DEF Queues
  <1>10. /\ s \in Caches /\ s.pos_count = n + z /\ s.first_pos = f /\ s.data = Ntoc(c.data, o, v)
    <2>1. s = [c EXCEPT !.data = Ntoc(c.data, o, v), !.pos_count = n + z]
      BY <1>1, <1>4 DEF NewCache
    <2>2. n + z \in 0 .. DataSize
      BY <1>2
    <2> QED
      BY <1>1, <1>3, <1>4, <2>1, <2>2 DEF Caches
  <1>11. Idx(r, m) = y
    BY <1>3, <1>8, <1>9 DEF Idx, Queues, Positions
  <1>12. ASSUME NEW i \in 0 .. m - 1
         PROVE  Idx(r, i) = Idx(q, i)
    <2>1. i \in 0 .. IndexNum - 1 /\ i \in 0 .. IndexNum /\ i # m
      BY <1>2
    <2>2. CyclicIncrement(IndexNum, p, i) # e
      BY <1>2, <1>8, <2>1, IncrementInjective
    <2>3. CyclicIncrement(IndexNum, p, i) \in Positions
      BY <1>2, <2>1, IncrementIs DEF Positions
    <2> QED
      BY <1>1, <1>3, <1>9, <2>2, <2>3 DEF Idx, Queues
  <1>13. Start(r, s, m) = n
    BY <1>4, <1>6, <1>10, <1>11 DEF Start
  <1>14. \A i \in 0 .. m - 1 : Start(r, s, i) = Start(q, c, i)
    BY <1>1, <1>10, <1>12 DEF Start
  <1>15. Packed(r, s)
    <2>1. r.pos_count > 0 /\ r.pos_count # 0
      BY <1>9
    <2>2. Start(r, s, 0) = 0
      <3>1. CASE m = 0
        BY <1>1, <1>13, <3>1 DEF Sound, Packed
      <3>2. CASE m # 0
        <4>1. 0 \in 0 .. m - 1 /\ m > 0
          BY <3>2
        <4> QED
          BY <1>1, <1>14, <4>1 DEF Sound, Packed
      <3> QED
        BY <3>1, <3>2
    <2>3. ASSUME NEW i \in 0 .. m
          PROVE  Start(r, s, i) + Idx(r, i).length = IF i = m THEN n + z ELSE Start(r, s, i + 1)
      <3>1. CASE i = m
        BY <1>6, <1>11, <1>13, <3>1
      <3>2. CASE i # m
        <4>1. i \in 0 .. m - 1
          BY <3>2
        <4>2. Start(q, c, i) + Idx(q, i).length = IF i = m - 1 THEN n ELSE Start(q, c, i + 1)
          BY <1>1, <4>1 DEF Sound, Packed
        <4>3. Start(r, s, i) + Idx(r, i).length = IF i = m - 1 THEN n ELSE Start(q, c, i + 1)
          BY <1>12, <1>14, <4>1, <4>2
        <4>4. CASE i = m - 1
          <5>1. i + 1 = m
            BY <4>4
          <5> QED
            BY <1>13, <3>2, <4>3, <4>4, <5>1
        <4>5. CASE i # m - 1
          <5>1. i + 1 \in 0 .. m - 1
            BY <4>1, <4>5
          <5> QED
            BY <1>14, <3>2, <4>3, <4>5, <5>1
        <4> QED
          BY <4>4, <4>5
      <3> QED
        BY <3>1, <3>2
    <2>4. r.pos_count - 1 = m
      BY <1>9
    <2> QED
      BY <1>10, <2>1, <2>2, <2>3, <2>4 DEF Packed
  <1>16. Sound(r, s)
    <2>1. \A i \in 0 .. r.pos_count - 1 : i \in 0 .. m - 1 \/ i = m
      BY <1>9
    <2>2. \A i \in 0 .. m - 1 : Idx(q, i) \in Indexes
      BY <1>1, SoundParts
    <2>3. \A i \in 0 .. r.pos_count - 1 : Idx(r, i) \in Indexes
      BY <1>7, <1>11, <1>12, <2>1, <2>2
    <2> QED
      BY <1>9, <1>10, <1>15, <2>3 DEF Sound
  <1>17. ASSUME NEW i \in 0 .. m - 1
         PROVE  Cton(s.data, Idx(q, i).offset, Idx(q, i).length)
                  = Cton(c.data, Idx(q, i).offset, Idx(q, i).length)
    <2>1. PICK data : data = s.data
      OBVIOUS
    <2>2. \A t \in 0 .. c.pos_count - 1 : data[CyclicIncrement(DataSize, c.first_pos, t)]
                                            = c.data[CyclicIncrement(DataSize, c.first_pos, t)]
      BY <1>1, <1>4, <1>10, <2>1
    <2> QED
      BY <1>1, <2>1, <2>2, EntryBytes
  <1> QED
    BY <1>1, <1>4, <1>5, <1>6, <1>9, <1>10, <1>11, <1>12, <1>16, <1>17

(* An entry is flagged. *)
LEMMA RemoveMarks ==
    ASSUME NEW q, NEW c, Sound(q, c), NEW i \in 0 .. q.pos_count - 1, NEW b \in BOOLEAN, NEW r,
           r = [q EXCEPT !.indexes[CyclicIncrement(IndexNum, q.first_pos, i)].removed = b]
    PROVE  /\ Sound(r, c) /\ r.pos_count = q.pos_count
           /\ Idx(r, i) = [Idx(q, i) EXCEPT !.removed = b]
           /\ \A j \in 0 .. q.pos_count - 1 : j # i => Idx(r, j) = Idx(q, j)
  <1>1. PICK m \in Nat, p \in 0 .. IndexNum - 1 :
           m = q.pos_count /\ p = q.first_pos /\ m <= IndexNum
    BY SoundParts
  <1>2. IndexNum \in Nat \ {0} /\ i \in 0 .. IndexNum - 1 /\ i \in 0 .. IndexNum /\ i \in 0 .. m - 1
    BY <1>1, SizesAssumption
  <1>3. PICK e \in 0 .. IndexNum - 1 : e = CyclicIncrement(IndexNum, p, i)
    BY <1>2, IncrementIs
  <1>4. q \in Queues /\ Idx(q, i) \in Indexes /\ Idx(q, i) = q.indexes[e]
    BY <1>1, <1>3, SoundParts DEF Idx
  <1>5. PICK y : y = [q.indexes[e] EXCEPT !.removed = b]
    OBVIOUS
  <1>6. y \in Indexes /\ y.offset = Idx(q, i).offset /\ y.length = Idx(q, i).length
    BY <1>4, <1>5 DEF Indexes
  <1>7. /\ r \in Queues /\ r.pos_count = m /\ r.first_pos = p
        /\ r.indexes = [q.indexes EXCEPT ![e] = y]
    <2>1. r = [q EXCEPT !.indexes = [q.indexes EXCEPT ![e] = y]]
      BY <1>1, <1>3, <1>5
    <2>2. [q.indexes EXCEPT ![e] = y] \in [Positions -> Indexes \cup {Blank}]
      BY <1>4, <1>6 DEF Queues
    <2> QED
      BY <1>1, <1>4, <2>1, <2>2 DEF Queues
  <1>8. Idx(r, i) = y
    BY <1>3, <1>4, <1>7 DEF Idx, Queues, Positions
  <1>9. ASSUME NEW j \in 0 .. m - 1, j # i PROVE Idx(r, j) = Idx(q, j)
    <2>1. j \in 0 .. IndexNum - 1 /\ j \in 0 .. IndexNum
      BY <1>1, <1>2
    <2>2. CyclicIncrement(IndexNum, p, j) # e
      BY <1>2, <1>3, <1>9, <2>1, IncrementInjective
    <2>3. CyclicIncrement(IndexNum, p, j) \in Positions
      BY <1>2, <2>1, IncrementIs DEF Positions
    <2> QED
      BY <1>1, <1>4, <1>7, <2>2, <2>3 DEF Idx, Queues
  <1>10. \A j \in 0 .. m - 1 : /\ Idx(r, j) \in Indexes
                               /\ Idx(r, j).offset = Idx(q, j).offset
                               /\ Idx(r, j).length = Idx(q, j).length
    BY <1>1, <1>6, <1>8, <1>9, SoundParts
  <1>11. \A j \in 0 .. m - 1 : Start(r, c, j) = Start(q, c, j)
    BY <1>10 DEF Start
  <1>12. Packed(r, c)
    <2>1. \A j \in 0 .. m - 1 : j # m - 1 => j + 1 \in 0 .. m - 1
      OBVIOUS
    <2>2. m > 0 => 0 \in 0 .. m - 1
      OBVIOUS
    <2>3. \A j \in 0 .. m - 1 : Start(q, c, j) + Idx(q, j).length =
             IF j = m - 1 THEN c.pos_count ELSE Start(q, c, j + 1)
      BY <1>1 DEF Sound, Packed
    <2>4. \A j \in 0 .. m - 1 : Start(r, c, j) + Idx(r, j).length =
             IF j = m - 1 THEN c.pos_count ELSE Start(r, c, j + 1)
      BY <1>10, <1>11, <2>1, <2>3
    <2>5. m > 0 => Start(r, c, 0) = 0
      BY <1>1, <1>11, <2>2 DEF Sound, Packed
    <2>6. m = 0 => c.pos_count = 0
      BY <1>1 DEF Sound, Packed
    <2> QED
      BY <1>7, <2>4, <2>5, <2>6 DEF Packed
  <1>13. Sound(r, c)
    BY <1>7, <1>10, <1>12, SoundParts DEF Sound
  <1> QED
    BY <1>1, <1>4, <1>5, <1>7, <1>8, <1>9, <1>13


(***************************************************************************)
(* The inductive invariant.                                                *)
(***************************************************************************)

LEMMA InvIsSoundNext == IInv' <=> Sound(queue', cache') /\ now' \in 0 .. MaxTime
  BY DEF IInv, TypeOK, Filled, Contiguous, Sound, Packed, Start, Queues, Caches

LEMMA InitIInv == Init => IInv
  <1> SUFFICES ASSUME Init PROVE IInv
    OBVIOUS
  <1>1. 0 \in Positions /\ 0 \in 0 .. IndexNum /\ 0 \in Offsets /\ 0 \in 0 .. DataSize
        /\ now \in 0 .. MaxTime
    BY SizesAssumption DEF Init, Positions, Offsets
  <1>2. queue \in Queues /\ queue.pos_count = 0
    BY <1>1 DEF Init, Queues
  <1>3. cache \in Caches /\ cache.pos_count = 0
    BY <1>1 DEF Init, Caches, Bytes
  <1>4. Sound(queue, cache)
    BY <1>2, <1>3 DEF Sound, Packed
  <1> QED
    BY <1>1, <1>4, InvIsSound

(* What a step does, in terms of the queue and the cache it meets. *)
LEMMA StoreStep ==
    ASSUME IInv, NEW r \in Requests, Store(r[1], r[2], r[3])
    PROVE  \E d : \E n \in 0 .. queue.pos_count, v \in Values, k \in Keys, x \in Expiries :
              /\ Drops(queue, cache, d, n)
              /\ d.cache.pos_count + Size[v] <= DataSize /\ d.queue.pos_count # IndexNum
              /\ queue' = NewQueue(d.queue, d.cache, v, k, x) /\ cache' = NewCache(d.cache, v)
              /\ reply' = Miss /\ now' = now
  <1>1. PICK v \in Values, id \in Ids, x \in Expiries : v = r[2] /\ id = r[1] /\ x = r[3]
    BY SizesAssumption
  <1>2. PICK d : d = MadeRoom(Size[v])
    OBVIOUS
  <1>3. Hash[id] \in Keys
    BY DEF Keys
  <1>4. PICK n \in 0 .. queue.pos_count : Drops(queue, cache, d, n)
    <2>1. PICK z \in Nat : z = Size[v]
      BY SizesAssumption
    <2>2. Sound(queue, cache) /\ now \in Nat
      BY InvIsSound
    <2> QED
      BY <1>2, <2>1, <2>2, MadeRoomDrops
  <1>5. d.cache.pos_count + Size[v] <= DataSize /\ d.queue.pos_count # IndexNum
    BY <1>1, <1>2 DEF Store, Room
  <1>6. /\ queue' = NewQueue(d.queue, d.cache, v, Hash[id], x) /\ cache' = NewCache(d.cache, v)
        /\ reply' = Miss /\ now' = now
    BY <1>1, <1>2 DEF Store, NewQueue, NewCache, NewIndex
  <1> QED
    BY <1>3, <1>4, <1>5, <1>6

LEMMA StoreFailsStep ==
    ASSUME IInv, NEW v \in Values, StoreFails(v)
    PROVE  /\ \E d : \E n \in 0 .. queue.pos_count :
                /\ Drops(queue, cache, d, n) /\ queue' = d.queue /\ cache' = d.cache
                /\ reply' = Miss /\ now' = now
           /\ \/ queue'.pos_count = IndexNum
              \/ Size[v] > DataSize
              \/ queue'.pos_count = 1 /\ cache'.pos_count > DataSize - Size[v]
  <1>1. PICK d : d = MadeRoom(Size[v])
    OBVIOUS
  <1>2. PICK z \in Nat : z = Size[v]
    BY SizesAssumption
  <1>3. Sound(queue, cache) /\ now \in Nat
    BY InvIsSound
  <1>4. /\ \E n \in 0 .. queue.pos_count : Drops(queue, cache, d, n)
        /\ Sound(d.queue, d.cache)
        /\ d.cache.pos_count + z <= DataSize \/ d.queue.pos_count = 1 \/ d.cache.pos_count = 0
    BY <1>1, <1>2, <1>3, MadeRoomDrops
  <1>5. queue' = d.queue /\ cache' = d.cache /\ reply' = Miss /\ now' = now
    BY <1>1 DEF StoreFails
  <1>6. ~(d.cache.pos_count + z <= DataSize) \/ d.queue.pos_count = IndexNum
    BY <1>1, <1>2 DEF StoreFails, Room
  <1>7. \/ d.queue.pos_count = IndexNum
        \/ z > DataSize
        \/ d.queue.pos_count = 1 /\ d.cache.pos_count > DataSize - z
    <2>1. PICK k \in Nat : k = d.cache.pos_count
      <3>1. PICK q, c : q = d.queue /\ c = d.cache
        OBVIOUS
      <3>2. c.pos_count \in Nat
        BY <1>4, <3>1, SoundParts
      <3> QED
        BY <3>1, <3>2
    <2>2. DataSize \in Nat
      BY SizesAssumption
    <2>3. ~(k + z <= DataSize) => z > DataSize - k /\ k > DataSize - z /\ (k = 0 => z > DataSize)
      BY <2>2
    <2> QED
      BY <1>4, <1>6, <2>1, <2>3
  <1> QED
    BY <1>2, <1>4, <1>5, <1>7

LEMMA NextIInv == IInv /\ [Next]_vars => IInv'
  <1> SUFFICES ASSUME IInv, [Next]_vars PROVE IInv'
    OBVIOUS
  <1>1. Sound(queue, cache) /\ now \in 0 .. MaxTime /\ now \in Nat
    BY InvIsSound
  <1>2. ASSUME NEW d, NEW n, Drops(queue, cache, d, n), queue' = d.queue, cache' = d.cache
        PROVE  Sound(queue', cache')
    BY <1>2 DEF Drops
  <1>3. ASSUME NEW r \in Requests, Store(r[1], r[2], r[3]) PROVE IInv'
    <2>1. PICK d : \E n \in 0 .. queue.pos_count, v \in Values, k \in Keys, x \in Expiries :
              /\ Drops(queue, cache, d, n)
              /\ d.cache.pos_count + Size[v] <= DataSize /\ d.queue.pos_count # IndexNum
              /\ queue' = NewQueue(d.queue, d.cache, v, k, x) /\ cache' = NewCache(d.cache, v)
              /\ reply' = Miss /\ now' = now
      BY <1>3, StoreStep
    <2>1a. PICK n \in 0 .. queue.pos_count, v \in Values, k \in Keys, x \in Expiries :
              /\ Drops(queue, cache, d, n)
              /\ d.cache.pos_count + Size[v] <= DataSize /\ d.queue.pos_count # IndexNum
              /\ queue' = NewQueue(d.queue, d.cache, v, k, x) /\ cache' = NewCache(d.cache, v)
              /\ reply' = Miss /\ now' = now
      BY <2>1
    <2>2. PICK q, c, r1, s1 : q = d.queue /\ c = d.cache /\ r1 = queue' /\ s1 = cache'
      OBVIOUS
    <2>3. Sound(q, c)
      BY <2>1a, <2>2 DEF Drops
    <2>4. /\ c.pos_count + Size[v] <= DataSize /\ q.pos_count # IndexNum
          /\ r1 = NewQueue(q, c, v, k, x) /\ s1 = NewCache(c, v)
      BY <2>1a, <2>2
    <2>5. Sound(r1, s1)
      BY <2>3, <2>4, StoreAdds
    <2> QED
      BY <1>1, <2>1a, <2>2, <2>5, InvIsSoundNext
  <1>4. ASSUME NEW v \in Values, StoreFails(v) PROVE IInv'
    BY <1>1, <1>2, <1>4, StoreFailsStep, InvIsSoundNext
  <1>5. \E n : Drops(queue, cache, Expire(queue, cache), n)
    BY <1>1, ExpireDrops
  <1>6. ASSUME NEW id \in Ids, Retrieve(id) PROVE IInv'
    BY <1>1, <1>2, <1>5, <1>6, InvIsSoundNext DEF Retrieve
  <1>7. ASSUME NEW id \in Ids, Remove(id) PROVE IInv'
    <2>1. CASE queue' = Expire(queue, cache).queue /\ cache' = Expire(queue, cache).cache
      BY <1>1, <1>2, <1>5, <1>7, <2>1, InvIsSoundNext DEF Remove
    <2>2. ASSUME NEW i \in 0 .. queue.pos_count - 1, cache' = cache, now' = now,
                 queue' = [queue EXCEPT
                    !.indexes[CyclicIncrement(IndexNum, queue.first_pos, i)].removed = TRUE]
          PROVE  IInv'
      <3>1. PICK q, c, r : q = queue /\ c = cache /\ r = queue'
        OBVIOUS
      <3>2. PICK b \in BOOLEAN : b = TRUE
        BY Zenon
      <3>3. r = [q EXCEPT !.indexes[CyclicIncrement(IndexNum, q.first_pos, i)].removed = b]
        BY <2>2, <3>1, <3>2, Zenon
      <3>4. Sound(q, c) /\ i \in 0 .. q.pos_count - 1
        BY <1>1, <2>2, <3>1
      <3>5. Sound(r, c)
        BY <3>3, <3>4, RemoveMarks
      <3> QED
        BY <1>1, <2>2, <3>1, <3>5, InvIsSoundNext
    <2> QED
      BY <1>7, <2>1, <2>2 DEF Remove
  <1>8. CASE Tick
    <2>1. queue' = queue /\ cache' = cache /\ now' \in 0 .. MaxTime
      BY <1>1, <1>8, SizesAssumption DEF Tick
    <2> QED
      BY <1>1, <2>1, InvIsSoundNext
  <1>9. CASE UNCHANGED vars
    BY <1>1, <1>9, InvIsSoundNext DEF vars
  <1> QED
    BY <1>3, <1>4, <1>6, <1>7, <1>8, <1>9 DEF Next

(* The inductive invariant holds in every reachable state of a division.   *)
THEOREM CacheInvariant == Spec => []IInv
  BY InitIInv, NextIInv, PTL DEF Spec

(* Positions and counts of both cyclic arrays stay within them, for every  *)
(* size of the division and whatever is stored, expired and removed.       *)
THEOREM CacheTypes == Spec => []TypeOK
  <1>1. IInv => TypeOK
    BY DEF IInv
  <1> QED
    BY <1>1, CacheInvariant, PTL

(* The entries stay one behind the other, from the first position to the   *)
(* last byte counted, though expiry and scrolling compute the bytes they   *)
(* free from two offsets only.                                             *)
THEOREM CacheContiguous == Spec => []Contiguous
  <1>1. IInv => Contiguous
    BY DEF IInv
  <1> QED
    BY <1>1, CacheInvariant, PTL

(* zcache_shmcb_store refuses a value that fits the cache only when the    *)
(* index is full or the one entry left takes too much room.                *)
THEOREM CacheStoreFails == Spec => StoreFailsOnly
  <1>1. ASSUME IInv, NEW v \in Values, StoreFails(v), Size[v] <= DataSize
        PROVE  \/ queue'.pos_count = IndexNum
               \/ queue'.pos_count = 1 /\ cache'.pos_count > DataSize - Size[v]
    <2>1. ~(Size[v] > DataSize)
      BY <1>1, SizesAssumption
    <2> QED
      BY <1>1, <2>1, StoreFailsStep
  <1>2. IInv => [\A v \in Values : StoreFails(v) /\ Size[v] <= DataSize
         => \/ queue'.pos_count = IndexNum
            \/ queue'.pos_count = 1 /\ cache'.pos_count > DataSize - Size[v]]_vars
    BY <1>1
  <1> QED
    BY <1>2, CacheInvariant, PTL DEF Spec, StoreFailsOnly


(***************************************************************************)
(* The refinement: the division is a log of entries.                       *)
(***************************************************************************)

(* One entry of the log. *)
EntryOf(q, c, i) ==
    [key |-> Idx(q, i - 1).key, expires |-> Idx(q, i - 1).expires,
     removed |-> Idx(q, i - 1).removed,
     data |-> Cton(c.data, Idx(q, i - 1).offset, Idx(q, i - 1).length)]

LEMMA LogIs ==
    ASSUME NEW q, NEW c, q.pos_count \in Nat, NEW S,
           \A i \in 1 .. q.pos_count : EntryOf(q, c, i) \in S
    PROVE  /\ LogOf(q, c) \in Seq(S) /\ Len(LogOf(q, c)) = q.pos_count
           /\ \A i \in 1 .. q.pos_count : LogOf(q, c)[i] = EntryOf(q, c, i)
  <1>1. PICK f : f = LogOf(q, c)
    OBVIOUS
  <1>2. f = [i \in 1 .. q.pos_count |-> EntryOf(q, c, i)]
    BY <1>1 DEF LogOf, EntryOf
  <1>3. f \in [1 .. q.pos_count -> S]
    BY <1>2
  <1>4. f \in Seq(S) /\ Len(f) = q.pos_count
    BY <1>3, IsASeq, LenProperties
  <1> QED
    BY <1>1, <1>2, <1>4

(* A dropped prefix is a dropped prefix of the log. *)
LEMMA LogDrops ==
    ASSUME NEW q, NEW c, q.pos_count \in Nat, NEW n \in 0 .. q.pos_count, NEW d, Drops(q, c, d, n)
    PROVE  /\ LogOf(d.queue, d.cache) = SubSeq(LogOf(q, c), n + 1, Len(LogOf(q, c)))
           /\ Len(LogOf(q, c)) = q.pos_count
  <1>0. PICK m \in Nat : m = q.pos_count
    OBVIOUS
  <1>1. PICK r, s : m = q.pos_count /\ r = d.queue /\ s = d.cache
    BY <1>0
  <1>2. PICK S : S = {EntryOf(q, c, i) : i \in 1 .. m}
    OBVIOUS
  <1>3. n \in Nat /\ n <= m /\ r.pos_count = m - n /\ r.pos_count \in Nat
    BY <1>1 DEF Drops
  <1>4. ASSUME NEW i \in 1 .. m - n
        PROVE  /\ EntryOf(r, s, i) = EntryOf(q, c, n + i) /\ n + i \in 1 .. m
    <2>1. i - 1 \in 0 .. m - n - 1 /\ n + i \in 1 .. m /\ n + (i - 1) = n + i - 1
      BY <1>3
    <2>2. Idx(r, i - 1) = Idx(q, n + i - 1) /\ s.data = c.data
      BY <1>1, <2>1 DEF Drops
    <2> QED
      BY <2>1, <2>2 DEF EntryOf
  <1>5. /\ LogOf(q, c) \in Seq(S) /\ Len(LogOf(q, c)) = m
        /\ \A i \in 1 .. m : LogOf(q, c)[i] = EntryOf(q, c, i)
    BY <1>1, <1>2, LogIs
  <1>6. /\ LogOf(r, s) \in Seq(S) /\ Len(LogOf(r, s)) = m - n
        /\ \A i \in 1 .. m - n : LogOf(r, s)[i] = EntryOf(r, s, i)
    <2>1. \A i \in 1 .. r.pos_count : EntryOf(r, s, i) \in S
      BY <1>2, <1>3, <1>4
    <2> QED
      BY <1>3, <2>1, LogIs
  <1>7. PICK l \in Seq(S) : l = LogOf(q, c) /\ Len(l) = m
    BY <1>5
  <1>8. /\ SubSeq(l, n + 1, m) \in Seq(S) /\ Len(SubSeq(l, n + 1, m)) = m - n
        /\ \A i \in 1 .. m - n : SubSeq(l, n + 1, m)[i] = l[n + i]
    <2>1. n + 1 \in Nat \ {0} /\ n + 1 <= m + 1 /\ m - (n + 1) + 1 = m - n /\ m <= Len(l)
      BY <1>3, <1>7
    <2>2. \A i \in 1 .. m - n : n + 1 + i - 1 = n + i
      BY <1>3
    <2>3. /\ SubSeq(l, n + 1, m) \in Seq(S) /\ Len(SubSeq(l, n + 1, m)) = m - (n + 1) + 1
          /\ \A i \in 1 .. m - (n + 1) + 1 : SubSeq(l, n + 1, m)[i] = l[n + 1 + i - 1]
      BY <2>1, SegmentFacts
    <2> QED
      BY <2>1, <2>2, <2>3
  <1>9. \A i \in 1 .. m - n : LogOf(r, s)[i] = SubSeq(l, n + 1, m)[i]
    BY <1>4, <1>5, <1>6, <1>7, <1>8
  <1>10. LogOf(r, s) = SubSeq(l, n + 1, m)
    BY <1>6, <1>8, <1>9, SeqEqual
  <1> QED
    BY <1>1, <1>5, <1>7, <1>10

(* A new entry is the last of the log. *)
LEMMA LogAdds ==
    ASSUME NEW q, NEW c, Sound(q, c), NEW v \in Values, NEW k \in Keys, NEW x \in Expiries,
           c.pos_count + Size[v] <= DataSize, q.pos_count # IndexNum
    PROVE  LogOf(NewQueue(q, c, v, k, x), NewCache(c, v)) =
             Append(LogOf(q, c), [key |-> k, expires |-> x, removed |-> FALSE, data |-> Payload(v)])
  <1>0. PICK m \in Nat : m = q.pos_count
    BY SoundParts
  <1>1. PICK r, s, e :
           /\ m = q.pos_count /\ r = NewQueue(q, c, v, k, x) /\ s = NewCache(c, v)
           /\ e = [key |-> k, expires |-> x, removed |-> FALSE, data |-> Payload(v)]
    BY <1>0
  <1>2. /\ r.pos_count = m + 1
        /\ \A i \in 0 .. m - 1 :
                /\ Idx(r, i) = Idx(q, i)
                /\ Cton(s.data, Idx(q, i).offset, Idx(q, i).length)
                     = Cton(c.data, Idx(q, i).offset, Idx(q, i).length)
        /\ Idx(r, m) = NewIndex(c, v, k, x)
        /\ Cton(s.data, NewIndex(c, v, k, x).offset, Size[v]) = Payload(v)
    BY <1>1, StoreAdds
  <1>3. \A i \in 1 .. m : EntryOf(r, s, i) = EntryOf(q, c, i)
    <2>1. \A i \in 1 .. m : i - 1 \in 0 .. m - 1
      OBVIOUS
    <2> QED
      BY <1>2, <2>1 DEF EntryOf
  <1>4. EntryOf(r, s, m + 1) = e
    <2>1. Idx(r, m + 1 - 1) = NewIndex(c, v, k, x)
      BY <1>2
    <2>2. /\ NewIndex(c, v, k, x).key = k /\ NewIndex(c, v, k, x).expires = x
          /\ NewIndex(c, v, k, x).removed = FALSE /\ NewIndex(c, v, k, x).length = Size[v]
      BY DEF NewIndex
    <2>3. PICK w : w = NewIndex(c, v, k, x)
      OBVIOUS
    <2>4. /\ Idx(r, m + 1 - 1) = w /\ w.key = k /\ w.expires = x /\ w.removed = FALSE
          /\ Cton(s.data, w.offset, w.length) = Payload(v)
      BY <1>2, <2>1, <2>2, <2>3, Zenon
    <2>5. PICK b : b = FALSE
      OBVIOUS
    <2>6. w.removed = b
      BY <2>4, <2>5, Zenon
    <2>7. EntryOf(r, s, m + 1) = [key |-> k, expires |-> x, removed |-> b, data |-> Payload(v)]
      BY <2>4, <2>6 DEF EntryOf
    <2> QED
      BY <1>1, <2>5, <2>7, Zenon
  <1>5. PICK S : S = {EntryOf(q, c, i) : i \in 1 .. m} \cup {e}
    OBVIOUS
  <1>6. \A i \in 1 .. m + 1 : i \in 1 .. m \/ i = m + 1
    OBVIOUS
  <1>7. /\ LogOf(q, c) \in Seq(S) /\ Len(LogOf(q, c)) = m
        /\ \A i \in 1 .. m : LogOf(q, c)[i] = EntryOf(q, c, i)
    <2>1. \A i \in 1 .. q.pos_count : EntryOf(q, c, i) \in S
      BY <1>1, <1>5
    <2>2. q.pos_count \in Nat
      BY <1>1
    <2> QED
      BY <1>1, <2>1, <2>2, LogIs
  <1>8. /\ LogOf(r, s) \in Seq(S) /\ Len(LogOf(r, s)) = m + 1
        /\ \A i \in 1 .. m + 1 : LogOf(r, s)[i] = EntryOf(r, s, i)
    <2>1. r.pos_count \in Nat /\ \A i \in 1 .. r.pos_count : EntryOf(r, s, i) \in S
      BY <1>2, <1>3, <1>4, <1>5, <1>6
    <2> QED
      BY <1>2, <2>1, LogIs
  <1>9. PICK l \in Seq(S) : l = LogOf(q, c) /\ Len(l) = m
    BY <1>7
  <1>10. e \in S
    BY <1>5
  <1>11. /\ Append(l, e) \in Seq(S) /\ Len(Append(l, e)) = m + 1
         /\ \A i \in 1 .. m : Append(l, e)[i] = l[i]
         /\ Append(l, e)[m + 1] = e
    BY <1>9, <1>10, AppendProperties
  <1>12. \A i \in 1 .. m + 1 : LogOf(r, s)[i] = Append(l, e)[i]
    BY <1>3, <1>4, <1>6, <1>7, <1>8, <1>9, <1>11
  <1>13. LogOf(r, s) = Append(l, e)
    BY <1>8, <1>11, <1>12, SeqEqual
  <1> QED
    BY <1>1, <1>9, <1>13

(* An index with another flag is an entry with another flag. *)
LEMMA MarkedEntry ==
    ASSUME NEW q, NEW r, NEW c, NEW i \in Nat, NEW b, Idx(q, i) \in Indexes,
           Idx(r, i) = [Idx(q, i) EXCEPT !.removed = b]
    PROVE  EntryOf(r, c, i + 1) = [EntryOf(q, c, i + 1) EXCEPT !.removed = b]
  <1>1. PICK u, w : u = Idx(q, i) /\ w = Idx(r, i)
    OBVIOUS
  <1>2. Idx(q, i + 1 - 1) = u /\ Idx(r, i + 1 - 1) = w
    BY <1>1
  <1>3. /\ w.key = u.key /\ w.expires = u.expires /\ w.removed = b
        /\ w.offset = u.offset /\ w.length = u.length
    BY <1>1 DEF Indexes
  <1> QED
    BY <1>2, <1>3 DEF EntryOf

(* A flagged index is a flagged entry. *)
LEMMA LogMarks ==
    ASSUME NEW q, NEW c, Sound(q, c), NEW i \in 0 .. q.pos_count - 1, NEW b \in BOOLEAN, NEW r,
           r = [q EXCEPT !.indexes[CyclicIncrement(IndexNum, q.first_pos, i)].removed = b]
    PROVE  LogOf(r, c) = [LogOf(q, c) EXCEPT ![i + 1].removed = b]
  <1>1. /\ r.pos_count = q.pos_count /\ q.pos_count \in Nat
        /\ Idx(r, i) = [Idx(q, i) EXCEPT !.removed = b] /\ Idx(q, i) \in Indexes
        /\ \A j \in 0 .. q.pos_count - 1 : j # i => Idx(r, j) = Idx(q, j)
    <2>1. q.pos_count \in Nat /\ Idx(q, i) \in Indexes
      BY SoundParts
    <2>2. /\ r.pos_count = q.pos_count
          /\ Idx(r, i) = [Idx(q, i) EXCEPT !.removed = b]
          /\ \A j \in 0 .. q.pos_count - 1 : j # i => Idx(r, j) = Idx(q, j)
      BY RemoveMarks
    <2> QED
      BY <2>1, <2>2
  <1>2. PICK m \in Nat : m = q.pos_count
    BY <1>1
  <1>3. LogOf(q, c) = [j \in 1 .. m |-> EntryOf(q, c, j)] /\ LogOf(r, c) = [j \in 1 .. m |-> EntryOf(r, c, j)]
    BY <1>1, <1>2 DEF LogOf, EntryOf
  <1>4. ASSUME NEW j \in 1 .. m, j # i + 1 PROVE EntryOf(r, c, j) = EntryOf(q, c, j)
    <2>1. j - 1 \in 0 .. m - 1 /\ j - 1 # i
      BY <1>4
    <2> QED
      BY <1>1, <1>2, <2>1 DEF EntryOf
  <1>5. EntryOf(r, c, i + 1) = [EntryOf(q, c, i + 1) EXCEPT !.removed = b]
    <2>1. i \in Nat
      BY <1>2
    <2> QED
      BY <1>1, <2>1, MarkedEntry
  <1>6. i + 1 \in 1 .. m
    BY <1>2
  <1>7. [LogOf(q, c) EXCEPT ![i + 1].removed = b] =
          [j \in 1 .. m |-> IF j = i + 1 THEN [EntryOf(q, c, j) EXCEPT !.removed = b]
                            ELSE EntryOf(q, c, j)]
    BY <1>3, <1>6
  <1>8. ASSUME NEW j \in 1 .. m
        PROVE  EntryOf(r, c, j) = IF j = i + 1 THEN [EntryOf(q, c, j) EXCEPT !.removed = b]
                                  ELSE EntryOf(q, c, j)
    BY <1>4, <1>5
  <1>9. [j \in 1 .. m |-> EntryOf(r, c, j)] =
          [j \in 1 .. m |-> IF j = i + 1 THEN [EntryOf(q, c, j) EXCEPT !.removed = b]
                            ELSE EntryOf(q, c, j)]
    BY <1>8
  <1> QED
    BY <1>3, <1>7, <1>9

(* What is remembered after a step. *)
LEMMA RememberedNext == Remembered' = LogOf(queue', cache')
  BY DEF Remembered, LogOf, Idx, Cton, CyclicIncrement

(* A step that drops a prefix forgets a prefix. *)
LEMMA StepForgets ==
    ASSUME IInv, NEW d, NEW n \in 0 .. queue.pos_count, Drops(queue, cache, d, n),
           queue' = d.queue, cache' = d.cache
    PROVE  n \in 0 .. Len(Remembered) /\ Remembered' = Log!Rest(n)
  <1>1. PICK q, c : q = queue /\ c = cache
    OBVIOUS
  <1>2. q.pos_count \in Nat /\ n \in 0 .. q.pos_count /\ Drops(q, c, d, n)
    <2>1. Sound(q, c)
      BY <1>1, InvIsSound
    <2> QED
      BY <1>1, <2>1, SoundParts
  <1>3. /\ LogOf(d.queue, d.cache) = SubSeq(LogOf(q, c), n + 1, Len(LogOf(q, c)))
        /\ Len(LogOf(q, c)) = q.pos_count
    BY <1>2, LogDrops
  <1> QED
    BY <1>1, <1>2, <1>3, RememberedNext DEF Remembered, Log!Rest

(* A store is a store of the log. *)
LEMMA StoreLogs ==
    ASSUME IInv, NEW r \in Requests, Store(r[1], r[2], r[3])
    PROVE  Log!Next
  <1>1. PICK d : \E n \in 0 .. queue.pos_count, v \in Values, k \in Keys, x \in Expiries :
            /\ Drops(queue, cache, d, n)
            /\ d.cache.pos_count + Size[v] <= DataSize /\ d.queue.pos_count # IndexNum
            /\ queue' = NewQueue(d.queue, d.cache, v, k, x) /\ cache' = NewCache(d.cache, v)
            /\ reply' = Miss /\ now' = now
    BY StoreStep
  <1>2. PICK n \in 0 .. queue.pos_count, v \in Values, k \in Keys, x \in Expiries :
            /\ Drops(queue, cache, d, n)
            /\ d.cache.pos_count + Size[v] <= DataSize /\ d.queue.pos_count # IndexNum
            /\ queue' = NewQueue(d.queue, d.cache, v, k, x) /\ cache' = NewCache(d.cache, v)
            /\ reply' = Miss /\ now' = now
    BY <1>1
  <1>3. PICK q, c, q0, c0 : q = d.queue /\ c = d.cache /\ q0 = queue /\ c0 = cache
    OBVIOUS
  <1>4. PICK e : e = [key |-> k, expires |-> x, removed |-> FALSE, data |-> Payload(v)]
    OBVIOUS
  <1>5. Sound(q, c) /\ Sound(q0, c0) /\ q0.pos_count \in Nat
    <2>1. Sound(q, c) /\ Sound(q0, c0)
      BY <1>2, <1>3, InvIsSound DEF Drops
    <2> QED
      BY <2>1, SoundParts
  <1>6. Remembered' = Append(LogOf(q, c), e)
    <2>1. c.pos_count + Size[v] <= DataSize /\ q.pos_count # IndexNum
      BY <1>2, <1>3
    <2>2. LogOf(NewQueue(q, c, v, k, x), NewCache(c, v)) =
             Append(LogOf(q, c), [key |-> k, expires |-> x, removed |-> FALSE, data |-> Payload(v)])
      BY <1>5, <2>1, LogAdds
    <2>3. queue' = NewQueue(q, c, v, k, x) /\ cache' = NewCache(c, v)
      BY <1>2, <1>3
    <2> QED
      BY <1>4, <2>2, <2>3, RememberedNext, Zenon
  <1>7. LogOf(q, c) = Log!Rest(n) /\ n \in 0 .. Len(Remembered)
    <2>1. n \in 0 .. q0.pos_count /\ Drops(q0, c0, d, n)
      BY <1>2, <1>3
    <2>2. /\ LogOf(d.queue, d.cache) = SubSeq(LogOf(q0, c0), n + 1, Len(LogOf(q0, c0)))
          /\ Len(LogOf(q0, c0)) = q0.pos_count
      BY <1>5, <2>1, LogDrops
    <2> QED
      BY <1>3, <2>1, <2>2 DEF Remembered, Log!Rest
  <1>8. e \in Log!Entries
    <2>1. Payload(v) \in Payloads
      BY DEF Payloads
    <2>2. PICK b : b = FALSE
      OBVIOUS
    <2>3. b \in {FALSE}
      BY <2>2, Zenon
    <2>4. PICK T : T = {FALSE}
      OBVIOUS
    <2>5. b \in T
      BY <2>3, <2>4, Zenon
    <2>6. [key |-> k, expires |-> x, removed |-> b, data |-> Payload(v)]
             \in [key : Keys, data : Payloads, expires : Expiries, removed : T]
      BY <2>1, <2>5
    <2> QED
      BY <1>4, <2>2, <2>4, <2>6, Zenon DEF Log!Entries
  <1>9. Remembered' # <<>> /\ Remembered'[Len(Remembered')] = e
    <2>1. PICK l : l = LogOf(q, c)
      OBVIOUS
    <2>2. PICK S : S = {EntryOf(q, c, i) : i \in 1 .. q.pos_count} \cup {e}
      OBVIOUS
    <2>3. l \in Seq(S)
      <3>1. q.pos_count \in Nat
        BY <1>5, SoundParts
      <3>2. \A i \in 1 .. q.pos_count : EntryOf(q, c, i) \in S
        BY <2>2
      <3> QED
        BY <2>1, <3>1, <3>2, LogIs
    <2>4. /\ Len(Append(l, e)) = Len(l) + 1 /\ Append(l, e)[Len(l) + 1] = e
          /\ Append(l, e) # <<>>
      <3>1. e \in S
        BY <2>2
      <3> QED
        BY <2>3, <3>1, AppendProperties
    <2> QED
      BY <1>6, <2>1, <2>4
  <1>10. Log!Store(Remembered'[Len(Remembered')])
    BY <1>2, <1>6, <1>7, <1>8, <1>9 DEF Log!Store
  <1> QED
    BY <1>9, <1>10 DEF Log!Next

(* The log of the current state, entry by entry. *)
LEMMA RememberedIs ==
    ASSUME IInv
    PROVE  /\ Len(Remembered) = queue.pos_count /\ queue.pos_count \in Nat
           /\ \A i \in 1 .. queue.pos_count : Remembered[i] = EntryOf(queue, cache, i)
           /\ Remembered = [i \in 1 .. queue.pos_count |-> EntryOf(queue, cache, i)]
  <1>1. PICK q, c : q = queue /\ c = cache
    OBVIOUS
  <1>2. q.pos_count \in Nat
    <2>1. Sound(q, c)
      BY <1>1, InvIsSound
    <2> QED
      BY <2>1, SoundParts
  <1>3. PICK S : S = {EntryOf(q, c, i) : i \in 1 .. q.pos_count}
    OBVIOUS
  <1>4. \A i \in 1 .. q.pos_count : EntryOf(q, c, i) \in S
    BY <1>3
  <1>5. /\ Len(LogOf(q, c)) = q.pos_count
        /\ \A i \in 1 .. q.pos_count : LogOf(q, c)[i] = EntryOf(q, c, i)
    BY <1>2, <1>4, LogIs
  <1>6. LogOf(q, c) = [i \in 1 .. q.pos_count |-> EntryOf(q, c, i)]
    BY DEF LogOf, EntryOf
  <1> QED
    BY <1>1, <1>2, <1>5, <1>6 DEF Remembered

(* A lookup finds the first live entry of the log. *)
LEMMA RetrieveLogs ==
    ASSUME IInv, NEW id \in Ids, Retrieve(id)
    PROVE  Log!Next
  <1>0. PICK q, k, d : q = queue /\ k = Hash[id] /\ d = Expire(queue, cache)
    OBVIOUS
  <1>1. PICK m \in Nat :
           /\ m = queue.pos_count /\ q = queue /\ k = Hash[id] /\ d = Expire(queue, cache)
    BY <1>0, RememberedIs
  <1>2. PICK n \in 0 .. m : /\ Drops(queue, cache, d, n)
                            /\ \A i \in 0 .. n - 1 : Idx(queue, i).expires <= now
    <2>1. Sound(queue, cache) /\ now \in Nat
      BY InvIsSound
    <2> QED
      BY <1>1, <2>1, ExpireDrops
  <1>3. /\ queue' = d.queue /\ cache' = d.cache /\ now' = now
        /\ d.queue.pos_count = m - n
        /\ \A i \in 0 .. m - n - 1 : Idx(d.queue, i) = Idx(queue, n + i)
    BY <1>1, <1>2 DEF Retrieve, Drops
  <1>4. n \in 0 .. Len(Remembered) /\ Remembered' = Log!Rest(n)
    BY <1>1, <1>2, <1>3, StepForgets
  <1>5. Len(Remembered) = m /\ \A j \in 1 .. m : Remembered[j] = EntryOf(queue, cache, j)
    BY <1>1, RememberedIs
  <1>6. \A j \in 1 .. m : Log!Live(Remembered[j], k) <=> Found(queue, j - 1, k)
    BY <1>5 DEF Log!Live, Found, EntryOf
  <1>7. \A j \in 1 .. n : /\ Remembered[j].expires <= now /\ j \in 1 .. m
                           /\ ~Log!Live(Remembered[j], k)
    <2>1. ASSUME NEW j \in 1 .. n
          PROVE  /\ Remembered[j].expires <= now /\ j \in 1 .. m
                 /\ ~Log!Live(Remembered[j], k)
      <3>1. j \in 1 .. m /\ j - 1 \in 0 .. n - 1 /\ j - 1 \in 0 .. m - 1
        OBVIOUS
      <3>2. Idx(queue, j - 1).expires <= now /\ Idx(queue, j - 1) \in Indexes
        BY <1>1, <1>2, <3>1 DEF IInv, Filled
      <3>3. Idx(queue, j - 1).expires \in Nat /\ now \in Nat
        <4>1. now \in Nat
          BY InvIsSound
        <4>2. Idx(queue, j - 1).expires \in Expiries
          BY <3>2 DEF Indexes
        <4> QED
          BY <4>1, <4>2, SizesAssumption
      <3>4. Remembered[j].expires = Idx(queue, j - 1).expires
        BY <1>5, <3>1 DEF EntryOf
      <3>5. ~(Remembered[j].expires > now)
        BY <3>2, <3>3, <3>4
      <3> QED
        BY <3>1, <3>2, <3>4, <3>5 DEF Log!Live
    <2> QED
      BY <2>1
  <1>8. \A i \in 0 .. m - n - 1 : /\ n + i + 1 \in 1 .. m
                                   /\ Found(d.queue, i, k) <=> Log!Live(Remembered[n + i + 1], k)
    <2>1. ASSUME NEW i \in 0 .. m - n - 1
          PROVE  /\ n + i + 1 \in 1 .. m
                 /\ Found(d.queue, i, k) <=> Log!Live(Remembered[n + i + 1], k)
      <3>1. n + i + 1 \in 1 .. m /\ n + i + 1 - 1 = n + i
        OBVIOUS
      <3>2. Found(d.queue, i, k) <=> Found(queue, n + i, k)
        BY <1>3 DEF Found
      <3> QED
        BY <1>6, <3>1, <3>2
    <2> QED
      BY <2>1
  <1>9. \A j \in 1 .. m : j \in 1 .. n \/ (j - n - 1 \in 0 .. m - n - 1 /\ n + (j - n - 1) + 1 = j)
    OBVIOUS
  <1>10. k \in Keys
    BY <1>1 DEF Keys
  <1>11. ASSUME NEW i \in 0 .. m - n - 1, Found(d.queue, i, k),
                \A j \in 0 .. m - n - 1 : Found(d.queue, j, k) => i <= j,
                reply' \in {Cton(cache.data, Idx(d.queue, i).offset, Idx(d.queue, i).length),
                            NoMemory}
         PROVE  Log!Retrieve(k)
    <2>1. n + i + 1 \in 1 .. m /\ Log!Live(Remembered[n + i + 1], k)
      BY <1>8, <1>11
    <2>2. ASSUME NEW j \in 1 .. (n + i + 1) - 1 PROVE ~Log!Live(Remembered[j], k)
      <3>1. CASE j \in 1 .. n
        BY <1>7, <3>1
      <3>2. CASE j \notin 1 .. n
        <4>1. j \in 1 .. m
          BY <2>1
        <4>2. j - n - 1 \in 0 .. m - n - 1 /\ n + (j - n - 1) + 1 = j
          BY <1>9, <3>2, <4>1
        <4>3. ~(i <= j - n - 1)
          OBVIOUS
        <4>4. ~Found(d.queue, j - n - 1, k)
          BY <1>11, <4>2, <4>3
        <4> QED
          BY <1>8, <4>2, <4>4
      <3> QED
        BY <3>1, <3>2
    <2>3. reply' \in {Remembered[n + i + 1].data, NoMemory}
      <3>1. n + i + 1 - 1 = n + i
        OBVIOUS
      <3> QED
        BY <1>3, <1>5, <1>11, <2>1, <3>1 DEF EntryOf
    <2>4. \E j \in 1 .. Len(Remembered) :
            /\ Log!Live(Remembered[j], k) /\ \A h \in 1 .. j - 1 : ~Log!Live(Remembered[h], k)
            /\ reply' \in {Remembered[j].data, NoMemory}
      <3>1. n + i + 1 \in 1 .. Len(Remembered)
        BY <1>5, <2>1
      <3>2. WITNESS n + i + 1 \in 1 .. Len(Remembered)
      <3> QED
        BY <2>1, <2>2, <2>3
    <2> QED
      BY <1>3, <1>4, <1>7, <2>4 DEF Log!Retrieve
  <1>12. ASSUME \A i \in 0 .. m - n - 1 : ~Found(d.queue, i, k), reply' = Miss
         PROVE  Log!Retrieve(k)
    <2>1. \A j \in 1 .. Len(Remembered) : ~Log!Live(Remembered[j], k)
      BY <1>5, <1>7, <1>8, <1>9, <1>12
    <2> QED
      BY <1>3, <1>4, <1>7, <1>12, <2>1 DEF Log!Retrieve
  <1>13. Log!Retrieve(k)
    <2>1. \/ \E i \in {i \in 0 .. d.queue.pos_count - 1 : Found(d.queue, i, k)} :
               /\ \A j \in {j \in 0 .. d.queue.pos_count - 1 : Found(d.queue, j, k)} : i <= j
               /\ reply' \in {Cton(cache.data, Idx(d.queue, i).offset, Idx(d.queue, i).length),
                              NoMemory}
          \/ {i \in 0 .. d.queue.pos_count - 1 : Found(d.queue, i, k)} = {} /\ reply' = Miss
      BY <1>1 DEF Retrieve
    <2> QED
      BY <1>3, <1>11, <1>12, <2>1
  <1> QED
    BY <1>10, <1>13 DEF Log!Next

(* A removal flags the first entry under its key, or forgets. *)
LEMMA RemoveLogs ==
    ASSUME IInv, NEW id \in Ids, Remove(id)
    PROVE  Log!Next
  <1>0. PICK q, c, k, d : q = queue /\ c = cache /\ k = Hash[id] /\ d = Expire(queue, cache)
    OBVIOUS
  <1>1. PICK m \in Nat :
           /\ m = queue.pos_count /\ q = queue /\ c = cache /\ k = Hash[id]
           /\ d = Expire(queue, cache)
    BY <1>0, RememberedIs
  <1>2. k \in Keys /\ Sound(q, c) /\ now \in Nat
    BY <1>1, InvIsSound DEF Keys
  <1>3. now' = now /\ reply' = Miss
    BY DEF Remove
  <1>4. CASE queue' = d.queue /\ cache' = d.cache
    <2>1. PICK n \in 0 .. queue.pos_count : Drops(queue, cache, d, n)
      BY <1>1, <1>2, ExpireDrops
    <2>2. n \in 0 .. Len(Remembered) /\ Remembered' = Log!Rest(n)
      BY <1>4, <2>1, StepForgets
    <2> QED
      BY <1>3, <2>2 DEF Log!Next, Log!Forget
  <1>5. ASSUME NEW i \in 0 .. m - 1, Idx(queue, i).key = k, cache' = cache,
               \A j \in 0 .. m - 1 : Idx(queue, j).key = k => i <= j,
               queue' = [queue EXCEPT
                 !.indexes[CyclicIncrement(IndexNum, queue.first_pos, i)].removed = TRUE]
        PROVE  Log!Next
    <2>0. PICK r : r = queue'
      OBVIOUS
    <2>1. PICK b \in BOOLEAN : b = TRUE /\ r = queue'
      BY <2>0, Zenon
    <2>2. r = [q EXCEPT !.indexes[CyclicIncrement(IndexNum, q.first_pos, i)].removed = b]
      BY <1>1, <1>5, <2>1, Zenon
    <2>3. LogOf(r, c) = [LogOf(q, c) EXCEPT ![i + 1].removed = b]
      <3>1. i \in 0 .. q.pos_count - 1
        BY <1>1
      <3> QED
        BY <1>2, <2>2, <3>1, LogMarks
    <2>4. Remembered' = LogOf(r, c) /\ Remembered = LogOf(q, c)
      BY <1>1, <1>5, <2>1, RememberedNext DEF Remembered
    <2>5. Remembered' = [Remembered EXCEPT ![i + 1].removed = TRUE]
      BY <2>1, <2>3, <2>4, Zenon
    <2>6. Len(Remembered) = m /\ \A j \in 1 .. m : Remembered[j] = EntryOf(queue, cache, j)
      BY <1>1, RememberedIs
    <2>7. \A j \in 1 .. m : Remembered[j].key = Idx(queue, j - 1).key
      BY <2>6 DEF EntryOf
    <2>8. i + 1 \in 1 .. Len(Remembered) /\ Remembered[i + 1].key = k
      <3>1. i + 1 \in 1 .. m /\ i + 1 - 1 = i
        OBVIOUS
      <3> QED
        BY <1>5, <2>6, <2>7, <3>1
    <2>9. \A j \in 1 .. (i + 1) - 1 : Remembered[j].key # k
      <3>1. \A j \in 1 .. (i + 1) - 1 : j \in 1 .. m /\ j - 1 \in 0 .. m - 1 /\ ~(i <= j - 1)
        OBVIOUS
      <3> QED
        BY <1>5, <2>7, <3>1
    <2>10. Log!Remove(k)
      BY <1>3, <2>5, <2>8, <2>9, Zenon DEF Log!Remove
    <2> QED
      BY <1>2, <2>10 DEF Log!Next
  <1> QED
    BY <1>1, <1>4, <1>5 DEF Remove

(* The division implements the log: entries leave in the order they came,  *)
(* what is remembered keeps its bytes whatever is written around it, and a *)
(* lookup returns the first live entry's, for every size of the index and  *)
(* of the buffer.                                                          *)
THEOREM CacheImplementsLog == Spec => LogSpec
  <1>1. Init => Log!Init
    <2> SUFFICES ASSUME Init PROVE Log!Init
      OBVIOUS
    <2>1. Remembered = <<>>
      BY DEF Init, Remembered, LogOf
    <2> QED
      BY <2>1 DEF Init, Log!Init
  <1>2. IInv /\ [Next]_vars => [Log!Next]_(Log!vars)
    <2> SUFFICES ASSUME IInv, [Next]_vars PROVE [Log!Next]_(Log!vars)
      OBVIOUS
    <2>1. ASSUME NEW r \in Requests, Store(r[1], r[2], r[3]) PROVE Log!Next
      BY <2>1, StoreLogs
    <2>2. ASSUME NEW v \in Values, StoreFails(v) PROVE Log!Next
      <3>1. PICK d : \E n \in 0 .. queue.pos_count :
               /\ Drops(queue, cache, d, n) /\ queue' = d.queue /\ cache' = d.cache
               /\ reply' = Miss /\ now' = now
        BY <2>2, StoreFailsStep
      <3>2. PICK n \in 0 .. queue.pos_count :
               /\ Drops(queue, cache, d, n) /\ queue' = d.queue /\ cache' = d.cache
               /\ reply' = Miss /\ now' = now
        BY <3>1
      <3>3. n \in 0 .. Len(Remembered) /\ Remembered' = Log!Rest(n)
        BY <3>2, StepForgets
      <3> QED
        BY <3>2, <3>3 DEF Log!Next, Log!Forget
    <2>3. ASSUME NEW id \in Ids, Retrieve(id) PROVE Log!Next
      BY <2>3, RetrieveLogs
    <2>4. ASSUME NEW id \in Ids, Remove(id) PROVE Log!Next
      BY <2>4, RemoveLogs
    <2>5. queue' = queue /\ cache' = cache => Remembered' = Remembered
      BY RememberedNext DEF Remembered
    <2>6. CASE Tick
      <3>1. now' \in Nat /\ now' > now
        BY <2>6 DEF Tick, IInv, TypeOK
      <3> QED
        BY <2>5, <2>6, <3>1 DEF Tick, Log!Next, Log!Tick
    <2>7. CASE UNCHANGED vars
      BY <2>5, <2>7 DEF vars, Log!vars
    <2> QED
      BY <2>1, <2>2, <2>3, <2>4, <2>6, <2>7 DEF Next
  <1> QED
    BY <1>1, <1>2, CacheInvariant, PTL DEF Spec, LogSpec, Log!Spec

=============================================================================
