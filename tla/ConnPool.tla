------------------------------ MODULE ConnPool ------------------------------
(***************************************************************************)
(* The connection pool of common/pool/conn_pool.c on top of its resource   *)
(* list.  When the server cannot be reached at conn_pool_init the list is  *)
(* created by the first conn_pool_acquire that succeeds in it, after a     *)
(* look at svr->connpool without and another with svr->mutex.  The pools   *)
(* for redis, mysql and mongo are the same code around another             *)
(* constructor.                                                            *)
(***************************************************************************)
EXTENDS ResList

CONSTANT HasTimeout     \* svr->timeout is not 0

ASSUME HasTimeoutAssumption == HasTimeout \in BOOLEAN
ASSUME MutexAssumption == Threads \cap {"none", "free"} = {}

VARIABLES
    connpool,   \* "uninitialised", "null" or "set"
    mutex,      \* "none" until it is created, then "free" or its owner
    at          \* where each thread is in conn_pool_acquire

poolVars == <<connpool, mutex, at>>
allVars == <<vars, poolVars>>

PoolInit ==
    /\ Init
    /\ connpool = "uninitialised"
    /\ mutex = "none"
    /\ at = [t \in Threads |-> "out"]

(* conn_pool_init, before the threads start: the list is created and its   *)
(* timeout set.                                                            *)
PoolInitOk ==
    /\ connpool = "uninitialised"
    /\ Create(HasTimeout)
    /\ connpool' = "set"
    /\ UNCHANGED <<mutex, at>>

(* No connection could be made: only now is the mutex created, and         *)
(* conn_pool_init reports its success.                                     *)
PoolInitFails ==
    /\ connpool = "uninitialised"
    /\ Min > 0
    /\ connpool' = "null"
    /\ mutex' = "free"
    /\ UNCHANGED <<vars, at>>

(* conn_pool_acquire looks at svr->connpool. *)
PoolAcquire(t) ==
    /\ connpool \in {"null", "set"}
    /\ at[t] = "out" /\ pc[t] = "out" /\ held[t] = None
    /\ at' = [at EXCEPT ![t] = IF connpool = "set" THEN "acquire" ELSE "lock"]
    /\ UNCHANGED <<vars, connpool, mutex>>

(* Mutant: svr->connpool is not looked at again with the mutex held. *)
SetupLockOnce(t) ==
    /\ at[t] = "lock" /\ mutex = "free"
    /\ mutex' = t
    /\ at' = [at EXCEPT ![t] = "setup"]
    /\ UNCHANGED <<vars, connpool>>

(* conn_pool_setup_lock takes the mutex and looks again. *)
SetupLock(t) ==
    /\ at[t] = "lock" /\ mutex = "free"
    /\ \/ /\ connpool = "null"
          /\ mutex' = t
          /\ at' = [at EXCEPT ![t] = "setup"]
       \/ /\ connpool = "set"
          /\ at' = [at EXCEPT ![t] = "acquire"]
          /\ UNCHANGED mutex
    /\ UNCHANGED <<vars, connpool>>

(* reslist_create stores the new list in svr->connpool, where every thread *)
(* sees it, before the timeout is set.                                     *)
SetupCreate(t) ==
    /\ at[t] = "setup"
    /\ Create(FALSE)
    /\ connpool' = "set"
    /\ at' = [at EXCEPT ![t] = "timeout"]
    /\ UNCHANGED mutex

SetupFails(t) ==
    /\ at[t] = "setup"
    /\ Min > 0
    /\ mutex' = "free"
    /\ at' = [at EXCEPT ![t] = "out"]
    /\ UNCHANGED <<vars, connpool>>

(* Mutant: the list created late gets no timeout. *)
SetupNoTimeout(t) ==
    /\ at[t] = "timeout"
    /\ mutex' = "free"
    /\ at' = [at EXCEPT ![t] = "acquire"]
    /\ UNCHANGED <<vars, connpool>>

SetupTimeout(t) ==
    /\ at[t] = "timeout"
    /\ timed' = HasTimeout
    /\ mutex' = "free"
    /\ at' = [at EXCEPT ![t] = "acquire"]
    /\ UNCHANGED <<alive, avail, ntotal, now, pc, held, dropped, connpool>>

(* The pool calls reslist_acquire. *)
ListAcquire(t) ==
    /\ at[t] = "acquire"
    /\ Acquire(t)
    /\ at' = [at EXCEPT ![t] = "out"]
    /\ UNCHANGED <<connpool, mutex>>

(* conn_pool_release, conn_pool_remove and what goes on in the list. *)
ListStep(t) ==
    /\ at[t] = "out"
    /\ \/ Wake(t) \/ TimeUp(t) \/ GiveUp(t) \/ SpuriousWakeup(t)
       \/ Release(t) \/ Maint(t) \/ Invalidate(t)
    /\ UNCHANGED poolVars

(* conn_pool_fini, when the threads are done; conn_pool_init may follow,   *)
(* and sets svr->connpool, which the code leaves dangling, to NULL.        *)
PoolFini ==
    /\ connpool = "set"
    /\ \A t \in Threads : at[t] = "out"
    /\ Destroy
    /\ connpool' = "uninitialised"
    /\ UNCHANGED <<mutex, at>>

PoolTick == Tick /\ UNCHANGED poolVars

PoolNext ==
    \/ PoolInitOk \/ PoolInitFails \/ PoolFini \/ PoolTick
    \/ \E t \in Threads :
         \/ PoolAcquire(t)
         \/ SetupLock(t) \/ SetupCreate(t) \/ SetupFails(t) \/ SetupTimeout(t)
         \/ ListAcquire(t) \/ ListStep(t)

PoolSpec == PoolInit /\ [][PoolNext]_allVars

-----------------------------------------------------------------------------
(* Nobody calls reslist_acquire on a list that is not there, and two       *)
(* threads never both create it, whatever they saw before they had the     *)
(* mutex.                                                                  *)
SetupOnce ==
    /\ connpool = "set" <=> alive
    /\ \A t \in Threads :
         /\ at[t] = "acquire" => alive
         /\ at[t] = "setup" => ~alive
         /\ at[t] \in {"setup", "timeout"} <=> mutex = t

(* With svr->timeout set, a thread that waits without a timeout entered    *)
(* the list between its creation and reslist_timeout_set.                  *)
UntimedOnlyInSetup ==
    [][\A t \in Threads : HasTimeout /\ pc[t] # "wait" /\ pc'[t] = "wait"
         => \E u \in Threads : at[u] = "timeout"]_allVars

(* Types of the list and of the pool around it; svr->mutex is held by a    *)
(* thread of the pool.                                                     *)
PoolTypeOK ==
    /\ TypeOK
    /\ connpool \in {"uninitialised", "null", "set"}
    /\ mutex \in {"none", "free"} \cup Threads
    /\ at \in [Threads -> {"out", "lock", "setup", "timeout", "acquire"}]

(* Before conn_pool_init nobody uses the pool; the thread that sets the    *)
(* timeout has created the list; until it has set it, or from the start,   *)
(* the list has the timeout the pool asks for.                             *)
SetupOrder ==
    /\ connpool = "uninitialised" => \A t \in Threads : at[t] = "out"
    /\ \A t \in Threads : at[t] = "timeout" => alive
    /\ HasTimeout /\ alive => timed \/ \E t \in Threads : at[t] = "timeout"

(* The inductive invariant of the proofs. *)
PoolInv == PoolTypeOK /\ ListInv /\ SetupOnce /\ SetupOrder
=============================================================================
