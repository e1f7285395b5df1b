------------------------------ MODULE ResList -------------------------------
(***************************************************************************)
(* The resource list of common/misc/reslist.c, under the connection pools  *)
(* of common/pool: at most hmax resources exist, idle ones are kept in a   *)
(* ring with the time they were given back, and a thread that finds none   *)
(* waits on the condition variable avail.                                  *)
(*                                                                         *)
(* Every function is a critical section under listlock, ended by its       *)
(* unlock or its wait, and is one step here; reslist_release is two, for   *)
(* it unlocks before reslist_maint locks again.  nidle is the length of    *)
(* the ring, which push_resource and pop_resource keep it at.  Containers  *)
(* (free_list) are memory only.  A caller holds one resource at a time, as *)
(* the connection pools' users do.                                         *)
(***************************************************************************)
EXTENDS Naturals, Sequences, FiniteSets

CONSTANTS
    Threads,
    Resources,          \* what constructors can return
    None,
    Min, Smax, Hmax,    \* reslist_create's arguments
    Ttl,                \* 0: a resource does not age in reslist_acquire
    MaxTime             \* bound of the clock

(* reslist_create refuses other arguments. *)
ASSUME LimitsAssumption ==
    /\ {Min, Smax, Hmax, Ttl, MaxTime} \subseteq Nat
    /\ Min <= Smax /\ Smax <= Hmax /\ Hmax # 0
ASSUME ThreadsAssumption == IsFiniteSet(Threads)
ASSUME NoneAssumption == None \notin Resources

VARIABLES
    alive,      \* between reslist_create and reslist_destroy
    avail,      \* avail_list: idle resources, the last given back first
    ntotal,
    timed,      \* reslist->timeout is set
    now,        \* time_now(), assumed not to go back
    pc,         \* where each thread is
    held,       \* the resource each caller has
    dropped     \* history: a call that failed used up a wakeup while others slept

vars == <<alive, avail, ntotal, timed, now, pc, held, dropped>>

At(l) == {t \in Threads : pc[t] = l}

(* In thread_cond_wait, thread_cond_timedwait. *)
Sleepers == At("wait") \cup At("timed_wait")
Woken == At("woken")

Range0(s) == {s[i] : i \in 1 .. Len(s)}
Idle == {e.res : e \in Range0(avail)}
Unused == Resources \ (Idle \cup {held[t] : t \in Threads})

(* Resources that exist and are free, and ones that may yet be created. *)
Available == Len(avail) + (Hmax - ntotal)

Old(e) == now - e.freed >= Ttl
Entry(r) == [res |-> r, freed |-> now]

Init ==
    /\ alive = FALSE
    /\ avail = <<>> /\ ntotal = 0 /\ timed = FALSE
    /\ now = 0
    /\ pc = [t \in Threads |-> "out"]
    /\ held = [t \in Threads |-> None]
    /\ dropped = FALSE

-----------------------------------------------------------------------------
(* thread_cond_signal, called n times.  A thread whose timed wait ran out  *)
(* and that has not run yet ("late") may use up a signal (POSIX,           *)
(* pthread_cond_timedwait).                                                *)
SignalSets(n) ==
    LET late == At("late")
    IN  {S \in SUBSET (Sleepers \cup late) :
           /\ Cardinality(S) <= n
           /\ Cardinality(S) = n \/ Sleepers \subseteq S}

(* t goes to l while its signals wake the threads in S. *)
Goto(t, l, S) ==
    /\ pc' = [u \in Threads |->
                IF u = t THEN l
                ELSE IF u \in S
                     THEN IF pc[u] = "late" THEN "time_up" ELSE "woken"
                     ELSE pc[u]]
    /\ dropped' = (dropped \/ (S \cap At("late") # {} /\ ~(Sleepers \subseteq S)))

(* n new idle resources in front of the ring. *)
Constructed(n) ==
    {s \o avail : s \in {q \in [1 .. n -> {Entry(r) : r \in Unused}] :
                           \A i, j \in 1 .. n : i # j => q[i] # q[j]}}

(* reslist_create, with the maintenance that makes the first Min.  When a  *)
(* constructor fails, the resources made so far are destroyed again.  A    *)
(* timeout the caller sets before anybody else knows the list is part of   *)
(* the step.                                                               *)
Create(timeout) ==
    /\ ~alive
    /\ alive' = TRUE
    /\ avail' \in Constructed(Min)
    /\ ntotal' = Min
    /\ timed' = timeout
    /\ UNCHANGED <<now, pc, held, dropped>>

(* reslist_destroy, called when no caller has a resource or is in a call;  *)
(* it asserts that no resource is left.                                    *)
Destroy ==
    /\ alive
    /\ \A t \in Threads : pc[t] = "out" /\ held[t] = None
    /\ alive' = FALSE
    /\ avail' = <<>>
    /\ ntotal' = ntotal - Len(avail)
    /\ dropped' = FALSE
    /\ UNCHANGED <<timed, now, pc, held>>

(* Mutant: the first idle resource is used and left in the ring. *)
ObtainPeek(t, rest, n) ==
    /\ rest # <<>>
    /\ held' = [held EXCEPT ![t] = Head(rest).res]
    /\ avail' = rest
    /\ ntotal' = n
    /\ Goto(t, "out", {})

(* The rest of reslist_acquire once the ring is rest and ntotal is n: take *)
(* the first idle resource, wait, or create one.                           *)
Obtain(t, rest, n) ==
    \/ /\ rest # <<>>
       /\ held' = [held EXCEPT ![t] = Head(rest).res]
       /\ avail' = Tail(rest)
       /\ ntotal' = n
       /\ Goto(t, "out", {})
    \/ /\ rest = <<>> /\ n >= Hmax
       /\ avail' = rest /\ ntotal' = n
       /\ Goto(t, IF timed THEN "timed_wait" ELSE "wait", {})
       /\ UNCHANGED held
    \/ /\ rest = <<>> /\ n < Hmax
       /\ avail' = rest
       /\ \E r \in Unused : held' = [held EXCEPT ![t] = r]
       /\ ntotal' = n + 1
       /\ Goto(t, "out", {})

(* The constructor fails: the caller returns with nothing. *)
ObtainFails(t, rest, n) ==
    /\ rest = <<>> /\ n < Hmax
    /\ avail' = rest /\ ntotal' = n
    /\ pc' = [pc EXCEPT ![t] = "out"]
    /\ UNCHANGED held

(* How many of the first idle resources the loop of reslist_acquire finds  *)
(* too old.                                                                *)
Stale ==
    IF Ttl = 0 THEN 0
    ELSE CHOOSE n \in 0 .. Len(avail) :
           /\ \A i \in 1 .. n : Old(avail[i])
           /\ n = Len(avail) \/ ~Old(avail[n + 1])

Drop(n) == SubSeq(avail, n + 1, Len(avail))

(* Mutant: an expired resource is still counted. *)
AcquireCounted(t) ==
    /\ alive /\ pc[t] = "out" /\ held[t] = None
    /\ \/ Obtain(t, Drop(Stale), ntotal)
       \/ ObtainFails(t, Drop(Stale), ntotal - Stale) /\ UNCHANGED dropped
    /\ UNCHANGED <<alive, timed, now>>

(* Mutant: an expired resource is counted off twice. *)
AcquireTwice(t) ==
    /\ alive /\ pc[t] = "out" /\ held[t] = None
    /\ \E n \in 1 .. Stale :
         /\ avail' = Drop(n)
         /\ ntotal' = ntotal - 2 * n
    /\ UNCHANGED <<alive, timed, now, pc, held, dropped>>

(* reslist_acquire: expired resources are destroyed; when a destructor     *)
(* fails the call gives up there.                                          *)
Acquire(t) ==
    /\ alive /\ pc[t] = "out" /\ held[t] = None
    /\ \/ \E n \in 1 .. Stale :
            /\ avail' = Drop(n)
            /\ ntotal' = ntotal - n
            /\ UNCHANGED <<pc, held, dropped>>
       \/ Obtain(t, Drop(Stale), ntotal - Stale)
       \/ ObtainFails(t, Drop(Stale), ntotal - Stale) /\ UNCHANGED dropped
    /\ UNCHANGED <<alive, timed, now>>

(* The wait returns and the loop's condition is looked at again.  What is  *)
(* idle is taken whatever its age.  A constructor that fails now has used  *)
(* up the wakeup.                                                          *)
Wake(t) ==
    /\ pc[t] = "woken"
    /\ \/ Obtain(t, avail, ntotal)
       \/ ObtainFails(t, avail, ntotal) /\ dropped' = (dropped \/ Sleepers # {})
    /\ UNCHANGED <<alive, timed, now>>

(* thread_cond_timedwait runs out, ... *)
TimeUp(t) ==
    /\ pc[t] = "timed_wait"
    /\ pc' = [pc EXCEPT ![t] = "late"]
    /\ UNCHANGED <<alive, avail, ntotal, timed, now, held, dropped>>

(* ... and the caller returns its error once it has the mutex. *)
GiveUp(t) ==
    /\ pc[t] \in {"late", "time_up"}
    /\ pc' = [pc EXCEPT ![t] = "out"]
    /\ UNCHANGED <<alive, avail, ntotal, timed, now, held, dropped>>

SpuriousWakeup(t) ==
    /\ t \in Sleepers
    /\ pc' = [pc EXCEPT ![t] = "woken"]
    /\ UNCHANGED <<alive, avail, ntotal, timed, now, held, dropped>>

(* Mutant: the resource goes to the tail of the ring. *)
ReleaseTail(t) ==
    /\ pc[t] = "out" /\ held[t] # None
    /\ avail' = Append(avail, Entry(held[t]))
    /\ held' = [held EXCEPT ![t] = None]
    /\ \E S \in SignalSets(1) : Goto(t, "maint", S)
    /\ UNCHANGED <<alive, ntotal, timed, now>>

(* reslist_release *)
Release(t) ==
    /\ pc[t] = "out" /\ held[t] # None
    /\ avail' = <<Entry(held[t])>> \o avail
    /\ held' = [held EXCEPT ![t] = None]
    /\ \E S \in SignalSets(1) : Goto(t, "maint", S)
    /\ UNCHANGED <<alive, ntotal, timed, now>>

(* Mutant: the slot that became free is not announced. *)
InvalidateQuiet(t) ==
    /\ pc[t] = "out" /\ held[t] # None
    /\ ntotal' = ntotal - 1
    /\ held' = [held EXCEPT ![t] = None]
    /\ UNCHANGED <<alive, avail, timed, now, pc, dropped>>

(* reslist_invalidate *)
Invalidate(t) ==
    /\ pc[t] = "out" /\ held[t] # None
    /\ ntotal' = ntotal - 1
    /\ held' = [held EXCEPT ![t] = None]
    /\ \E S \in SignalSets(1) : Goto(t, "out", S)
    /\ UNCHANGED <<alive, avail, timed, now>>

(* How many resources reslist_maint has to create, ... *)
Missing ==
    IF Len(avail) >= Min \/ ntotal >= Hmax THEN 0
    ELSE IF Min - Len(avail) <= Hmax - ntotal THEN Min - Len(avail)
         ELSE Hmax - ntotal

(* ... and how many it may expire, from the ring's end. *)
Surplus ==
    IF Len(avail) <= Smax THEN 0
    ELSE CHOOSE n \in 0 .. Len(avail) - Smax :
           /\ \A i \in 1 .. n : Old(avail[Len(avail) + 1 - i])
           /\ n = Len(avail) - Smax \/ ~Old(avail[Len(avail) - n])

(* reslist_maint, after a release.  A failing constructor or destructor    *)
(* ends it early: n is how far it came.                                    *)
Maint(t) ==
    /\ pc[t] = "maint"
    /\ \/ /\ Missing > 0
          /\ \E n \in 0 .. Missing :
               /\ avail' \in Constructed(n)
               /\ ntotal' = ntotal + n
               /\ \E S \in SignalSets(n) : Goto(t, "out", S)
       \/ /\ Missing = 0
          /\ \E n \in 0 .. Surplus :
               /\ n = 0 => Surplus = 0
               /\ avail' = SubSeq(avail, 1, Len(avail) - n)
               /\ ntotal' = ntotal - n
          /\ Goto(t, "out", {})
    /\ UNCHANGED <<alive, timed, now, held>>

(* reslist_timeout_set, without the mutex. *)
TimeoutSet ==
    /\ alive
    /\ timed' \in BOOLEAN
    /\ UNCHANGED <<alive, avail, ntotal, now, pc, held, dropped>>

Tick ==
    /\ now < MaxTime
    /\ now' = now + 1
    /\ UNCHANGED <<alive, avail, ntotal, timed, pc, held, dropped>>

Next ==
    \/ \E timeout \in BOOLEAN : Create(timeout)
    \/ Destroy \/ TimeoutSet \/ Tick
    \/ \E t \in Threads :
         \/ Acquire(t) \/ Wake(t) \/ TimeUp(t) \/ GiveUp(t) \/ SpuriousWakeup(t)
         \/ Release(t) \/ Maint(t) \/ Invalidate(t)

Spec == Init /\ [][Next]_vars

-----------------------------------------------------------------------------
Entries == [res : Resources, freed : 0 .. MaxTime]
Holders == {t \in Threads : held[t] # None}

(* Types; the counts of reslist_t do not become negative. *)
TypeOK ==
    /\ alive \in BOOLEAN /\ timed \in BOOLEAN /\ dropped \in BOOLEAN
    /\ avail \in Seq(Entries)
    /\ ntotal \in Nat
    /\ now \in 0 .. MaxTime
    /\ pc \in [Threads -> {"out", "wait", "timed_wait", "woken", "late",
                           "time_up", "maint"}]
    /\ held \in [Threads -> Resources \cup {None}]

(* ntotal counts what is idle and what is out with a caller, through every *)
(* expiry, failure and invalidation, and never passes hmax; it is zero     *)
(* when reslist_cleanup asserts that it is.                                *)
Accounting ==
    /\ ntotal = Len(avail) + Cardinality(Holders)
    /\ ntotal <= Hmax
    /\ ~alive => ntotal = 0

(* A resource is in one place: with one caller or once in the ring. *)
OwnedOnce ==
    /\ \A i, j \in 1 .. Len(avail) : i # j => avail[i].res # avail[j].res
    /\ \A t \in Holders : held[t] \notin Idle
    /\ \A t, u \in Holders : t # u => held[t] # held[u]

(* reslist_maint stops at the first resource that is too young: "none of   *)
(* the others will be ready to be expired either".                         *)
AvailOrdered ==
    /\ \A i, j \in 1 .. Len(avail) : i < j => avail[j].freed <= avail[i].freed
    /\ \A i \in 1 .. Len(avail) : avail[i].freed <= now

(* "block until we're allowed to create a new one, or something becomes    *)
(* free": while a caller sleeps, every free resource and every free slot   *)
(* has a woken thread coming for it - unless a woken thread's constructor  *)
(* failed or a timed-out one used up a signal: neither passes it on.       *)
NoLostWakeup ==
    ~dropped /\ Sleepers # {} => Available <= Cardinality(Woken)

(* Without a list nobody is inside a call. *)
Dormant == ~alive => \A t \in Threads : pc[t] = "out"

(* A thread inside a call has no resource: what it gets is its only one. *)
EmptyHanded == \A t \in Threads : pc[t] # "out" => held[t] = None

(* The inductive invariant of the proofs. *)
ListInv ==
    /\ TypeOK /\ Accounting /\ OwnedOnce /\ AvailOrdered /\ NoLostWakeup
    /\ Dormant /\ EmptyHanded
=============================================================================
