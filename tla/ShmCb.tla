------------------------------- MODULE ShmCb --------------------------------
(***************************************************************************)
(* A division of the shared-memory cache of apps/zcache/src/zcache_shmcb.c:*)
(* a cyclic array of indexes (the queue) and a cyclic buffer of bytes (the *)
(* cache), each a first position and a count.  Entries leave at the front  *)
(* only, when they expire or when room is needed.  Every operation runs    *)
(* under the cache's mutex (zcache_mutex_on) and is one step.              *)
(*                                                                         *)
(* A value of size n is n different bytes <<value, 1>> to <<value, n>>, so *)
(* bytes that belong to something else are told apart.  Ids are compared   *)
(* by their hash, and the hash also chooses the division; the ids here are *)
(* those of one division.                                                  *)
(***************************************************************************)
EXTENDS Naturals, Sequences

CONSTANTS
    Ids, Hash,          \* Hash[id] = hash(id, idlen, 0)
    Values, Size,       \* Size[v] is nlen
    IndexNum,           \* header->index_num
    DataSize,           \* header->cache_data_size
    Blank,              \* contents of memory nobody wrote
    Miss,               \* NULL from zcache_shmcb_retrieve, nothing found
    NoMemory,           \* NULL, but *nlen is set: malloc failed
    Expiries,           \* the expiry times callers ask for
    Requests,           \* the stores <<id, value, expires>> callers make
    MaxTime             \* bound of the clock

ASSUME SizesAssumption ==
    /\ IndexNum \in Nat \ {0} /\ DataSize \in Nat \ {0} /\ MaxTime \in Nat
    /\ Expiries \subseteq Nat
    /\ Requests \subseteq Ids \X Values \X Expiries
    /\ Size \in [Values -> Nat \ {0}]
ASSUME HashAssumption == DOMAIN Hash = Ids

VARIABLES
    queue,  \* first_pos, pos_count, indexes
    cache,  \* first_pos, pos_count, data
    now,    \* time(NULL)
    reply   \* what a retrieve has just returned

vars == <<queue, cache, now, reply>>

Positions == 0 .. IndexNum - 1
Offsets == 0 .. DataSize - 1
Keys == {Hash[id] : id \in Ids}

Payload(v) == [i \in 1 .. Size[v] |-> <<v, i>>]

(* shmcb_cyclic_increment, shmcb_cyclic_space *)
CyclicIncrement(size, start, add) == (start + add) % size
CyclicSpace(size, start, next) ==
    IF start <= next THEN next - start ELSE (size - start) + next

(* shmcb_init_memory, on memory that was never written. *)
Init ==
    /\ queue = [first_pos |-> 0, pos_count |-> 0,
                indexes |-> [p \in Positions |-> Blank]]
    /\ cache = [first_pos |-> 0, pos_count |-> 0,
                data |-> [o \in Offsets |-> Blank]]
    /\ now = 0
    /\ reply = Miss

-----------------------------------------------------------------------------
(* The queue q and the cache c as a pair: what one operation does to them. *)
Division(q, c) == [queue |-> q, cache |-> c]

(* The i-th index of q, from 0. *)
Idx(q, i) == q.indexes[CyclicIncrement(IndexNum, q.first_pos, i)]

(* The first n < pos_count entries go. *)
Advance(q, c, n) ==
    Division([q EXCEPT !.pos_count = @ - n,
                       !.first_pos = CyclicIncrement(IndexNum, @, n)],
             [c EXCEPT !.pos_count = @ - CyclicSpace(DataSize, c.first_pos,
                                                     Idx(q, n).offset),
                       !.first_pos = Idx(q, n).offset])

(* How many entries have expired at the front. *)
ExpireCount(q) ==
    CHOOSE n \in 0 .. q.pos_count :
      /\ \A i \in 0 .. n - 1 : Idx(q, i).expires <= now
      /\ n = q.pos_count \/ Idx(q, n).expires > now

(* Mutant: when everything expires the bytes stay counted. *)
ExpireKeepsBytes(q, c) ==
    LET n == ExpireCount(q)
    IN  CASE n = 0 -> Division(q, c)
          [] n > 0 /\ n = q.pos_count -> Division([q EXCEPT !.pos_count = 0], c)
          [] OTHER -> Advance(q, c, n)

(* shmcb_expire_division *)
Expire(q, c) ==
    LET n == ExpireCount(q)
    IN  CASE n = 0 -> Division(q, c)
          [] n > 0 /\ n = q.pos_count ->
               Division([q EXCEPT !.pos_count = 0], [c EXCEPT !.pos_count = 0])
          [] OTHER -> Advance(q, c, n)

(* Mutant: the loop ends one entry early. *)
ScrollShort(q, c, nlen) ==
    LET gap == DataSize - c.pos_count
        Enough(n) == gap + CyclicSpace(DataSize, c.first_pos, Idx(q, n).offset) >= nlen
    IN  IF gap >= nlen \/ q.pos_count < 2 THEN 0
        ELSE CHOOSE n \in 0 .. q.pos_count - 2 :
               /\ \A i \in 1 .. n - 1 : ~Enough(i)
               /\ n = q.pos_count - 2 \/ (n > 0 /\ Enough(n))

(* The loop of shmcb_insert_internal: entries scroll off until there is    *)
(* room, but the last one stays.                                           *)
ScrollCount(q, c, nlen) ==
    LET gap == DataSize - c.pos_count
        Enough(n) == gap + CyclicSpace(DataSize, c.first_pos, Idx(q, n).offset) >= nlen
    IN  IF gap >= nlen \/ q.pos_count = 0 THEN 0
        ELSE CHOOSE n \in 0 .. q.pos_count - 1 :
               /\ \A i \in 1 .. n - 1 : ~Enough(i)
               /\ n = q.pos_count - 1 \/ (n > 0 /\ Enough(n))

Scroll(q, c, nlen) ==
    IF ScrollCount(q, c, nlen) = 0 THEN Division(q, c)
    ELSE Advance(q, c, ScrollCount(q, c, nlen))

(* What is left when the insertion looks for room. *)
MadeRoom(nlen) == LET d == Expire(queue, cache) IN Scroll(d.queue, d.cache, nlen)

Room(d, nlen) ==
    /\ d.cache.pos_count + nlen <= DataSize
    /\ d.queue.pos_count # IndexNum

(* Mutant: a wrapped write starts over at the front of the buffer. *)
NtocUnwrapped(data, dest, v) ==
    [o \in Offsets |-> IF o >= dest /\ o < dest + Size[v] THEN <<v, o - dest + 1>>
                       ELSE IF dest + Size[v] > DataSize /\ o < dest + Size[v] - DataSize
                            THEN <<v, o + 1>>
                            ELSE data[o]]

(* shmcb_cyclic_ntoc_memcpy of v to dest, shmcb_cyclic_cton_memcpy *)
Ntoc(data, dest, v) ==
    [o \in Offsets |-> LET i == CyclicSpace(DataSize, dest, o)
                       IN  IF i < Size[v] THEN <<v, i + 1>> ELSE data[o]]

Cton(data, offset, length) ==
    [i \in 1 .. length |-> data[CyclicIncrement(DataSize, offset, i - 1)]]

(* Mutant: the check that "probably" is unnecessary is left out. *)
StoreUnchecked(id, v, expires) ==
    LET d == MadeRoom(Size[v])
        q == d.queue
        c == d.cache
        offset == CyclicIncrement(DataSize, c.first_pos, c.pos_count)
    IN  /\ q.pos_count # IndexNum
        /\ queue' = [q EXCEPT !.indexes[CyclicIncrement(IndexNum, q.first_pos, q.pos_count)]
                                = [expires |-> expires, offset |-> offset,
                                   length |-> Size[v], key |-> Hash[id], removed |-> FALSE],
                              !.pos_count = @ + 1]
        /\ cache' = [c EXCEPT !.data = Ntoc(@, offset, v), !.pos_count = @ + Size[v]]
        /\ reply' = Miss
        /\ UNCHANGED now

(* zcache_shmcb_store, shmcb_insert_internal *)
Store(id, v, expires) ==
    LET d == MadeRoom(Size[v])
        q == d.queue
        c == d.cache
        offset == CyclicIncrement(DataSize, c.first_pos, c.pos_count)
    IN  /\ Room(d, Size[v])
        /\ queue' = [q EXCEPT !.indexes[CyclicIncrement(IndexNum, q.first_pos, q.pos_count)]
                                = [expires |-> expires, offset |-> offset,
                                   length |-> Size[v], key |-> Hash[id], removed |-> FALSE],
                              !.pos_count = @ + 1]
        /\ cache' = [c EXCEPT !.data = Ntoc(@, offset, v), !.pos_count = @ + Size[v]]
        /\ reply' = Miss
        /\ UNCHANGED now

(* The store returns FALSE; what it made room with is gone. *)
StoreFails(v) ==
    LET d == MadeRoom(Size[v])
    IN  /\ ~Room(d, Size[v])
        /\ queue' = d.queue
        /\ cache' = d.cache
        /\ reply' = Miss
        /\ UNCHANGED now

Found(q, i, k) == Idx(q, i).key = k /\ ~Idx(q, i).removed /\ Idx(q, i).expires > now

(* zcache_shmcb_retrieve, shmcb_lookup_internal: a copy of the bytes of    *)
(* the first live entry under the key, or NULL when there is no memory for *)
(* the copy.                                                               *)
Retrieve(id) ==
    LET d == Expire(queue, cache)
        q == d.queue
        matches == {i \in 0 .. q.pos_count - 1 : Found(q, i, Hash[id])}
    IN  /\ queue' = q /\ cache' = d.cache
        /\ \/ \E i \in matches :
                /\ \A j \in matches : i <= j
                /\ reply' \in {Cton(cache.data, Idx(q, i).offset, Idx(q, i).length),
                               NoMemory}
           \/ matches = {} /\ reply' = Miss
        /\ UNCHANGED now

(* zcache_shmcb_remove, shmcb_remove_internal: the first index under the   *)
(* key is flagged; only when there is none are expired entries dropped.    *)
Remove(id) ==
    LET matches == {i \in 0 .. queue.pos_count - 1 : Idx(queue, i).key = Hash[id]}
        d == Expire(queue, cache)
    IN  /\ \/ \E i \in matches :
                /\ \A j \in matches : i <= j
                /\ queue' = [queue EXCEPT
                     !.indexes[CyclicIncrement(IndexNum, queue.first_pos, i)].removed = TRUE]
                /\ UNCHANGED cache
           \/ matches = {} /\ queue' = d.queue /\ cache' = d.cache
        /\ reply' = Miss
        /\ UNCHANGED now

Tick ==
    /\ now < MaxTime
    /\ now' = now + 1
    /\ reply' = Miss
    /\ UNCHANGED <<queue, cache>>

Next ==
    \/ \E r \in Requests : Store(r[1], r[2], r[3])
    \/ \E v \in Values : StoreFails(v)
    \/ \E id \in Ids : Retrieve(id) \/ Remove(id)
    \/ Tick

Spec == Init /\ [][Next]_vars

-----------------------------------------------------------------------------
Indexes == [expires : Expiries, offset : Offsets, length : 1 .. DataSize,
            key : Keys, removed : BOOLEAN]
Bytes == {<<v, i>> : v \in Values, i \in 1 .. DataSize} \cup {Blank}

(* Types: positions and counts of both cyclic arrays stay within them, so  *)
(* that every index shmcb_get_index hands out lies in the division.        *)
TypeOK ==
    /\ queue \in [first_pos : Positions, pos_count : 0 .. IndexNum,
                  indexes : [Positions -> Indexes \cup {Blank}]]
    /\ cache \in [first_pos : Offsets, pos_count : 0 .. DataSize,
                  data : [Offsets -> Bytes]]
    /\ now \in 0 .. MaxTime

(* The entries lie one behind the other from the cache's first position to *)
(* its count: what expiry and scrolling compute from two offsets, with an  *)
(* arithmetic that cannot tell a full buffer from an empty one, is what    *)
(* the entries' lengths say.                                               *)
Contiguous ==
    LET Start(i) == CyclicSpace(DataSize, cache.first_pos, Idx(queue, i).offset)
    IN  /\ queue.pos_count = 0 => cache.pos_count = 0
        /\ queue.pos_count > 0 => Start(0) = 0
        /\ \A i \in 0 .. queue.pos_count - 1 :
             Start(i) + Idx(queue, i).length =
               IF i = queue.pos_count - 1 THEN cache.pos_count ELSE Start(i + 1)

(* Every index in use was written. *)
Filled == \A i \in 0 .. queue.pos_count - 1 : Idx(queue, i) \in Indexes

(* The inductive invariant of the proofs. *)
IInv == TypeOK /\ Filled /\ Contiguous

(* The entries of a queue and a cache, in the order they were stored. *)
LogOf(q, c) == [i \in 1 .. q.pos_count |->
    [key |-> Idx(q, i - 1).key, expires |-> Idx(q, i - 1).expires,
     removed |-> Idx(q, i - 1).removed,
     data |-> Cton(c.data, Idx(q, i - 1).offset, Idx(q, i - 1).length)]]

Remembered == LogOf(queue, cache)
Payloads == {Payload(v) : v \in Values}

(* The cache implements a log of entries whose bytes stay what they were.  *)
Log == INSTANCE SessionLog WITH log <- Remembered

LogSpec == Log!Spec

(* A store may fail though the value would fit an empty cache, but only    *)
(* with the index full or one entry left that takes too much room.         *)
StoreFailsOnly ==
    [][\A v \in Values : StoreFails(v) /\ Size[v] <= DataSize
         => \/ queue'.pos_count = IndexNum
            \/ queue'.pos_count = 1 /\ cache'.pos_count > DataSize - Size[v]]_vars

(* "in this cache engine, "stores" should never fail": a value that fits   *)
(* the cache is stored.  TLC refutes it on the instance of Shm.cfg         *)
(* (README).                                                               *)
StoresNeverFail ==
    [][\A v \in Values : Size[v] <= DataSize => ~StoreFails(v)]_vars
=============================================================================
