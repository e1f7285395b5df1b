---------------------------- MODULE ChildProcess ----------------------------
(***************************************************************************)
(* One child process of the zevent server: the main thread (child_main),   *)
(* the start thread, the listener thread and the worker threads of         *)
(* zevent.c, on top of the queue of ready connections and the count of     *)
(* idle workers of fdqueue.c.                                              *)
(*                                                                         *)
(* Each thread has a program counter.  A step is the code between two      *)
(* places where another thread can observe or change what it uses: a       *)
(* critical section of idlers_mutex or one_big_mutex is one step, except   *)
(* where it blocks on its condition variable.  A mutex operation does not  *)
(* fail (the mutexes exist for the whole life of the threads).             *)
(***************************************************************************)
EXTENDS Integers, Sequences, FiniteSets, SequencesExt

CONSTANTS
    ThreadsPerChild, \* zevent_threads_per_child
    MaxThreads,      \* bound on the worker threads the start thread creates
    Conns,           \* transaction pools; a pool carries one connection at a time
    ForeignSlots,    \* entries of the slot in which a thread of an older process
                     \* still runs when this process starts
    Failures,        \* the calls that may fail in this instance, see FailureKinds
    Forced,          \* whether the parent may write RESTART_CHAR to the pod
    MaxSpurious      \* bound on spurious wakeups of the listener; with 0 the
                     \* workers have none either

Entries == 0 .. ThreadsPerChild - 1  \* the thread entries of the process's slot
Workers == 0 .. MaxThreads - 1       \* worker threads, in the order of their creation
FailureKinds == {"pollset", "pool", "poll", "accept", "emfile", "thread", "memory"}

ASSUME ThreadsAssumption == ThreadsPerChild \in Nat \ {0}
ASSUME BoundAssumption == MaxThreads \in Nat /\ MaxThreads >= ThreadsPerChild
ASSUME SpuriousAssumption == MaxSpurious \in Nat
ASSUME SlotsAssumption == ForeignSlots \subseteq Entries
ASSUME FailuresAssumption == Failures \subseteq FailureKinds /\ Forced \in BOOLEAN

None   == "none"    \* a NULL socket
Listen == "listen"  \* the listening socket's entry in the pollset
ASSUME ConnsAssumption == None \notin Conns /\ Listen \notin Conns

VARIABLES
    \* fd_queue_info_t
    idlers, infoTerminated, recycled,
    \* fd_queue_t: the stack of connections handed to the workers
    queue, qTerminated,
    \* event_pollset's connections, and the pools created so far
    pollset, created,
    \* listener thread
    lpc, haveIdle, events, spurious,
    \* worker threads, and the entry of the slot each was created for
    wpc, entry, isIdle, csd,
    \* by entry: worker_sockets; the entries whose status in the scoreboard is
    \* SERVER_DEAD or SERVER_GRACEFUL, all that this process reads of it
    workerSockets, vacant,
    \* start thread
    spc, scan, threadsCreated,
    \* main thread
    mpc, request, sigterm, exitCode, closing, target,
    \* flags shared by the threads
    terminateMode, listenerMayExit, workersMayExit, startThreadMayExit, dying,
    resourceShortage

infoVars     == <<idlers, infoTerminated>>
queueVars    == <<queue, qTerminated>>
connVars     == <<pollset, created, recycled>>
listenerVars == <<lpc, haveIdle, events, spurious>>
workerVars   == <<wpc, entry, isIdle, csd, workerSockets, vacant>>
startVars    == <<spc, scan, threadsCreated>>
mainRest     == <<request, sigterm, exitCode, closing, target>>
mainVars     == <<mpc, mainRest>>
flagVars     == <<terminateMode, listenerMayExit, workersMayExit,
                  startThreadMayExit, dying, resourceShortage>>
dataVars     == <<infoVars, queueVars, connVars>>
vars == <<dataVars, listenerVars, workerVars, startVars, mainVars, flagVars>>

(* What a thread's own steps leave alone unless they say otherwise. *)
offListener == <<workerVars, startVars, mainVars>>
offWorker   == <<listenerVars, startVars, mainVars, flagVars, entry>>
offMain     == <<listenerVars, workerVars, startVars>>

Modes    == {"ST_INIT", "ST_GRACEFUL", "ST_UNGRACEFUL"}

ListenerPCs == {"none", "setup", "poll", "loop", "lock", "idlewait", "ret",
                "dispatch", "term", "interrupt", "dying", "kill", "done", "gone"}
WorkerPCs   == {"none", "start", "top", "setidle", "signal", "ready", "pop",
                "wait", "woken", "popped", "process", "clear", "exit", "done"}
MainPCs     == {"unblock", "handler", "watch", "read", "eintr", "joinstart",
                "signal", "interrupt", "infoterm", "close", "closing", "joinlistener",
                "joinworkers", "exited"}

Init ==
    /\ idlers = 0 /\ infoTerminated = FALSE /\ recycled = <<>>
    /\ queue = <<>> /\ qTerminated = FALSE
    /\ pollset = {} /\ created = {}
    /\ lpc = "none" /\ haveIdle = FALSE /\ events = {} /\ spurious = 0
    /\ wpc = [w \in Workers |-> "none"]
    /\ isIdle = [w \in Workers |-> FALSE]
    /\ csd = [w \in Workers |-> None]
    /\ entry = [w \in Workers |-> 0]
    /\ workerSockets = [i \in Entries |-> None]
    /\ vacant \in {(Entries \ ForeignSlots) \cup S : S \in SUBSET ForeignSlots}
    /\ spc = "scan" /\ scan = 0 /\ threadsCreated = 0
    /\ mpc = "unblock" /\ request = "ST_INIT" /\ sigterm = FALSE
    /\ exitCode = "running" /\ closing = 0 /\ target = None
    /\ terminateMode = "ST_INIT" /\ listenerMayExit = FALSE
    /\ workersMayExit = FALSE /\ startThreadMayExit = FALSE /\ dying = FALSE
    /\ resourceShortage = FALSE

Running == mpc # "exited"

(***************************************************************************)
(* Operations shared by the threads.                                       *)
(***************************************************************************)

(* signal_threads(ST_GRACEFUL): only wakes the listener.  The flag is what *)
(* makes the listener leave; LISTENER_SIGNAL merely hastens its poll,      *)
(* which returns after a second anyway.                                    *)
SignalThreadsGraceful ==
    /\ terminateMode' = "ST_GRACEFUL"
    /\ listenerMayExit' = (listenerMayExit \/ terminateMode # "ST_GRACEFUL")
    /\ UNCHANGED <<workersMayExit, startThreadMayExit, dying>>

(* clean_child_exit: exit() ends every thread of the process. *)
CleanChildExit(code) ==
    /\ mpc' = "exited"
    /\ exitCode' = code
    /\ UNCHANGED <<request, sigterm, closing, target>>

(* apr_thread_cond_signal on a set of threads blocked in "wait": one of    *)
(* them becomes runnable, if there is one.                                 *)
Waiting == {w \in Workers : wpc[w] = "wait"}

SignalNotEmpty ==
    IF Waiting = {} THEN wpc' = wpc
    ELSE \E w \in Waiting : wpc' = [wpc EXCEPT ![w] = "woken"]

BroadcastNotEmpty ==
    wpc' = [w \in Workers |-> IF wpc[w] = "wait" THEN "woken" ELSE wpc[w]]

(* zevent_pop_pool and zevent_push_pool on the stack of cleared pools; the *)
(* compare-and-swap loops are the subject of module RecycledPools.         *)
PoolAvailable == recycled # <<>> \/ created # Conns

(***************************************************************************)
(* Listener thread.                                                        *)
(***************************************************************************)

(* Creation of the pollset; on failure the thread function returns. *)
ListenerSetup ==
    /\ lpc = "setup"
    /\ \/ /\ lpc' = "poll"
          /\ UNCHANGED flagVars
       \/ /\ "pollset" \in Failures
          /\ lpc' = "gone"
          /\ SignalThreadsGraceful
          /\ UNCHANGED resourceShortage
    /\ UNCHANGED <<haveIdle, events, spurious, dataVars, offListener>>

(* The two tests of listener_may_exit around apr_pollset_poll. *)
ListenerLeave ==
    /\ lpc = "poll"
    /\ listenerMayExit
    /\ lpc' = "term"
    /\ UNCHANGED <<haveIdle, events, spurious, flagVars, dataVars,
                   offListener>>

(* apr_pollset_poll returns ready descriptors.  The listening socket is    *)
(* reported only while a pool is left, which bounds the connections.       *)
ListenerPoll ==
    /\ lpc = "poll"
    /\ ~listenerMayExit
    /\ \E ready \in SUBSET (pollset \cup {Listen}) \ {{}} :
          /\ Listen \in ready => PoolAvailable
          /\ events' = ready
    /\ lpc' = "loop"
    /\ UNCHANGED <<haveIdle, spurious, flagVars, dataVars, offListener>>

(* apr_pollset_poll fails with an error that is neither EINTR nor TIMEUP. *)
ListenerPollError ==
    /\ lpc = "poll"
    /\ ~listenerMayExit
    /\ "poll" \in Failures
    /\ SignalThreadsGraceful
    /\ lpc' = "term"
    /\ UNCHANGED <<haveIdle, events, spurious, resourceShortage, dataVars,
                   offListener>>

(* while (num && get_worker(&have_idle_worker)): a reservation left over   *)
(* from an earlier event is reused, otherwise idlers is decremented.       *)
GetWorker ==
    /\ lpc = "loop"
    /\ \/ /\ events = {}
          /\ lpc' = "poll"
          /\ UNCHANGED idlers
       \/ /\ events # {} /\ haveIdle
          /\ lpc' = "dispatch"
          /\ UNCHANGED idlers
       \/ /\ events # {} /\ ~haveIdle
          /\ idlers' = idlers - 1
          /\ lpc' = IF idlers <= 0 THEN "lock" ELSE "ret"
    /\ UNCHANGED <<infoTerminated, haveIdle, events, spurious, queueVars,
                   connVars, flagVars, offListener>>

(* Mutant: the listener never waits for an idle worker. *)
WaitForIdlerNoWait ==
    /\ lpc = "lock"
    /\ lpc' = "ret"
    /\ UNCHANGED <<haveIdle, events, spurious, flagVars, dataVars,
                   offListener>>

(* The re-check of idlers inside idlers_mutex. *)
WaitForIdlerLock ==
    /\ lpc = "lock"
    /\ lpc' = IF idlers < 0 THEN "idlewait" ELSE "ret"
    /\ UNCHANGED <<haveIdle, events, spurious, flagVars, dataVars,
                   offListener>>

(* wait_for_idler returns, and get_worker with it: APR_EOF ends the loop   *)
(* over the events.                                                        *)
WaitForIdlerReturn ==
    /\ lpc = "ret"
    /\ haveIdle' = ~infoTerminated
    /\ lpc' = IF infoTerminated THEN "poll" ELSE "dispatch"
    /\ UNCHANGED <<events, spurious, flagVars, dataVars, offListener>>

(* apr_thread_cond_wait may return without a signal. *)
ListenerSpuriousWakeup ==
    /\ lpc = "idlewait"
    /\ spurious < MaxSpurious
    /\ spurious' = spurious + 1
    /\ lpc' = "ret"
    /\ UNCHANGED <<haveIdle, events, flagVars, dataVars, offListener>>

(* Mutant: the descriptor stays in the pollset. *)
Push2WorkerKeep(c) ==
    /\ lpc = "dispatch"
    /\ c \in events \cap Conns
    /\ queue' = Append(queue, c)
    /\ SignalNotEmpty
    /\ haveIdle' = FALSE
    /\ events' = events \ {c}
    /\ lpc' = "loop"
    /\ UNCHANGED <<spurious, infoVars, qTerminated, connVars, entry, isIdle, csd,
                   workerSockets, vacant, startVars, mainVars, flagVars>>

(* push2worker: the descriptor leaves the pollset and the connection goes  *)
(* on the queue, with no test of the queue's bounds.                       *)
Push2Worker(c) ==
    /\ lpc = "dispatch"
    /\ c \in events \cap Conns
    /\ pollset' = pollset \ {c}
    /\ queue' = Append(queue, c)
    /\ SignalNotEmpty
    /\ haveIdle' = FALSE
    /\ events' = events \ {c}
    /\ lpc' = "loop"
    /\ UNCHANGED <<spurious, infoVars, qTerminated, created, recycled,
                   entry, isIdle, csd, workerSockets, vacant, startVars,
                   mainVars, flagVars>>

(* What unixd_accept returns: a connection, an error that is the client's  *)
(* or the network's, or APR_EGENERAL for any other.                        *)
UnixdAccept == {"APR_SUCCESS"} \cup ({"accept", "emfile"} \cap Failures)

(* The accept branch of the loop: a recycled pool or a new one, then the   *)
(* accepted connection joins the pollset, or the pool goes back.  The      *)
(* reservation is kept.                                                    *)
Accept ==
    /\ lpc = "dispatch"
    /\ Listen \in events
    /\ PoolAvailable
    /\ events' = events \ {Listen}
    /\ lpc' = "loop"
    /\ \E ptrans \in IF recycled # <<>> THEN {Last(recycled)} ELSE Conns \ created :
          LET rest == IF recycled # <<>> THEN Front(recycled) ELSE recycled
          IN  /\ created' = created \cup {ptrans}
              /\ \E rc \in UnixdAccept :
                    /\ IF rc = "APR_SUCCESS"
                       THEN pollset' = pollset \cup {ptrans} /\ recycled' = rest
                       ELSE pollset' = pollset /\ recycled' = Append(rest, ptrans)
                    /\ IF rc = "emfile"
                       THEN resourceShortage' = TRUE /\ SignalThreadsGraceful
                       ELSE UNCHANGED flagVars
    /\ UNCHANGED <<haveIdle, spurious, infoVars, queueVars, offListener>>

(* No pool can be created: the thread function returns. *)
AcceptNoPool ==
    /\ lpc = "dispatch"
    /\ Listen \in events
    /\ recycled = <<>>
    /\ "pool" \in Failures
    /\ SignalThreadsGraceful
    /\ lpc' = "gone"
    /\ UNCHANGED <<haveIdle, events, spurious, resourceShortage, dataVars,
                   offListener>>

(* zevent_queue_term, first critical section. *)
ListenerQueueTerm ==
    /\ lpc = "term"
    /\ qTerminated' = TRUE
    /\ lpc' = "interrupt"
    /\ UNCHANGED <<haveIdle, events, spurious, infoVars, queue, connVars,
                   flagVars, offListener>>

(* Mutant: the queue is terminated and nobody is told. *)
ListenerInterruptNone ==
    /\ lpc = "interrupt"
    /\ lpc' = "dying"
    /\ UNCHANGED <<haveIdle, events, spurious, flagVars, dataVars,
                   offListener>>

(* zevent_queue_term, second critical section: zevent_queue_interrupt_all. *)
ListenerInterruptAll ==
    /\ lpc = "interrupt"
    /\ BroadcastNotEmpty
    /\ lpc' = "dying"
    /\ UNCHANGED <<haveIdle, events, spurious, entry, isIdle, csd,
                   workerSockets, vacant, startVars, mainVars, flagVars, dataVars>>

(* dying and, in the scoreboard, quiescing are set: from here on the       *)
(* parent may give the slot to another process.                            *)
ListenerDying ==
    /\ lpc = "dying"
    /\ dying' = TRUE
    /\ lpc' = "kill"
    /\ UNCHANGED <<haveIdle, events, spurious, terminateMode,
                   listenerMayExit, workersMayExit, startThreadMayExit,
                   resourceShortage, dataVars, offListener>>

(* SIGTERM reaches the main thread: blocked it stays pending, before the   *)
(* dummy handler is installed it is just_die, and afterwards it only       *)
(* interrupts a read that has already begun.                               *)
DeliverSigterm ==
    CASE mpc = "unblock" -> /\ sigterm' = TRUE
                            /\ UNCHANGED <<mpc, request, exitCode, closing, target>>
      [] mpc = "handler" -> CleanChildExit("ok")
      [] mpc = "read"    -> /\ mpc' = "eintr"
                            /\ UNCHANGED mainRest
      [] OTHER           -> UNCHANGED mainVars

(* kill(zevent_my_pid, SIGTERM), the listener's last act. *)
ListenerKillSelf ==
    /\ lpc = "kill"
    /\ DeliverSigterm
    /\ lpc' = "done"
    /\ UNCHANGED <<haveIdle, events, spurious, workerVars, startVars,
                   flagVars, dataVars>>

ListenerStep ==
    /\ Running
    /\ \/ ListenerSetup \/ ListenerLeave \/ GetWorker \/ WaitForIdlerLock
       \/ WaitForIdlerReturn \/ Accept \/ AcceptNoPool
       \/ ListenerQueueTerm \/ ListenerInterruptAll \/ ListenerDying
       \/ ListenerKillSelf
       \/ \E c \in Conns : Push2Worker(c)

ListenerInput ==
    Running /\ (ListenerPoll \/ ListenerPollError \/ ListenerSpuriousWakeup)

(***************************************************************************)
(* Worker threads.                                                         *)
(***************************************************************************)

WorkerStart(w) ==
    /\ wpc[w] = "start"
    /\ wpc' = [wpc EXCEPT ![w] = "top"]
    /\ vacant' = vacant \ {entry[w]}
    /\ UNCHANGED <<isIdle, csd, workerSockets, dataVars, offWorker>>

(* while (!workers_may_exit) *)
WorkerTop(w) ==
    /\ wpc[w] = "top"
    /\ wpc' = [wpc EXCEPT ![w] = IF workersMayExit THEN "exit" ELSE "setidle"]
    /\ UNCHANGED <<isIdle, csd, workerSockets, vacant, dataVars, offWorker>>

(* Mutant: no signal to the listener. *)
SetIdleSilent(w) ==
    /\ wpc[w] = "setidle"
    /\ idlers' = idlers + 1
    /\ isIdle' = [isIdle EXCEPT ![w] = TRUE]
    /\ wpc' = [wpc EXCEPT ![w] = "ready"]
    /\ UNCHANGED <<infoTerminated, csd, workerSockets, vacant, queueVars,
                   connVars, offWorker>>

(* zevent_queue_info_set_idle(worker_queue_info, NULL), the increment. *)
SetIdle(w) ==
    /\ wpc[w] = "setidle"
    /\ idlers' = idlers + 1
    /\ isIdle' = [isIdle EXCEPT ![w] = TRUE]
    /\ wpc' = [wpc EXCEPT ![w] = IF idlers < 0 THEN "signal" ELSE "ready"]
    /\ UNCHANGED <<infoTerminated, csd, workerSockets, vacant, queueVars,
                   connVars, offWorker>>

(* set_idle's second half: signal wait_for_idler inside idlers_mutex. *)
SetIdleSignal(w) ==
    /\ wpc[w] = "signal"
    /\ lpc' = IF lpc = "idlewait" THEN "ret" ELSE lpc
    /\ wpc' = [wpc EXCEPT ![w] = "ready"]
    /\ UNCHANGED <<entry, isIdle, csd, workerSockets, vacant, haveIdle,
                   events, spurious, startVars, mainVars, flagVars, dataVars>>

(* The update to SERVER_READY and the test at worker_pop. *)
WorkerReady(w) ==
    /\ wpc[w] = "ready"
    /\ vacant' = vacant \ {entry[w]}
    /\ wpc' = [wpc EXCEPT ![w] = IF workersMayExit THEN "exit" ELSE "pop"]
    /\ UNCHANGED <<isIdle, csd, workerSockets, dataVars, offWorker>>

(* Mutant: is_idle is not reset, so the worker is not counted again. *)
TakeElementStaysIdle(w) ==
    /\ queue' = Front(queue)
    /\ csd' = [csd EXCEPT ![w] = Last(queue)]
    /\ workerSockets' = [workerSockets EXCEPT ![entry[w]] = Last(queue)]
    /\ wpc' = [wpc EXCEPT ![w] = "process"]
    /\ UNCHANGED isIdle

(* Mutant: the worker's socket is not stored. *)
TakeElementNoSocket(w) ==
    /\ queue' = Front(queue)
    /\ isIdle' = [isIdle EXCEPT ![w] = FALSE]
    /\ wpc' = [wpc EXCEPT ![w] = "process"]
    /\ UNCHANGED <<csd, workerSockets>>

(* The tail of zevent_queue_pop and what worker_thread does with it. *)
TakeElement(w) ==
    /\ queue' = Front(queue)
    /\ csd' = [csd EXCEPT ![w] = Last(queue)]
    /\ workerSockets' = [workerSockets EXCEPT ![entry[w]] = Last(queue)]
    /\ isIdle' = [isIdle EXCEPT ![w] = FALSE]
    /\ wpc' = [wpc EXCEPT ![w] = "process"]

(* zevent_queue_pop up to its return or its cond_wait. *)
QueuePop(w) ==
    /\ wpc[w] = "pop"
    /\ \/ queue # <<>> /\ TakeElement(w)
       \/ /\ queue = <<>>
          /\ wpc' = [wpc EXCEPT ![w] = IF qTerminated THEN "exit" ELSE "wait"]
          /\ UNCHANGED <<queue, csd, workerSockets, isIdle>>
    /\ UNCHANGED <<vacant, infoVars, qTerminated, connVars, offWorker>>

(* Mutant: termination is tested before the queue. *)
QueuePopEof(w) ==
    /\ wpc[w] = "woken"
    /\ \/ ~qTerminated /\ queue # <<>> /\ TakeElement(w)
       \/ /\ qTerminated \/ queue = <<>>
          /\ wpc' = [wpc EXCEPT ![w] = "popped"]
          /\ UNCHANGED <<queue, csd, workerSockets, isIdle>>
    /\ UNCHANGED <<vacant, infoVars, qTerminated, connVars, offWorker>>

(* zevent_queue_pop after its cond_wait, up to its unlock: an element, or  *)
(* none.                                                                   *)
QueuePopWoken(w) ==
    /\ wpc[w] = "woken"
    /\ \/ queue # <<>> /\ TakeElement(w)
       \/ /\ queue = <<>>
          /\ wpc' = [wpc EXCEPT ![w] = "popped"]
          /\ UNCHANGED <<queue, csd, workerSockets, isIdle>>
    /\ UNCHANGED <<vacant, infoVars, qTerminated, connVars, offWorker>>

(* The mutex is released, and only now is queue->terminated read: APR_EOF  *)
(* ends the worker, APR_EINTR takes it back to the test at worker_pop.     *)
QueuePopEmpty(w) ==
    /\ wpc[w] = "popped"
    /\ wpc' = [wpc EXCEPT ![w] = IF qTerminated \/ workersMayExit THEN "exit" ELSE "pop"]
    /\ UNCHANGED <<isIdle, csd, workerSockets, vacant, dataVars, offWorker>>

WorkerSpuriousWakeup(w) ==
    /\ wpc[w] = "wait"
    /\ MaxSpurious > 0
    /\ wpc' = [wpc EXCEPT ![w] = "woken"]
    /\ UNCHANGED <<isIdle, csd, workerSockets, vacant, dataVars, offWorker>>

(* process_socket when the hook keeps the connection: the hook has put it  *)
(* back in the pollset.                                                    *)
ProcessKeep(w) ==
    /\ wpc[w] = "process"
    /\ pollset' = pollset \cup {csd[w]}
    /\ wpc' = [wpc EXCEPT ![w] = "clear"]
    /\ UNCHANGED <<isIdle, csd, workerSockets, vacant, infoVars, queueVars,
                   created, recycled, offWorker>>

(* process_socket when the hook fails: the socket is closed and the pool   *)
(* cleared and recycled.                                                   *)
ProcessClose(w) ==
    /\ wpc[w] = "process"
    /\ recycled' = Append(recycled, csd[w])
    /\ wpc' = [wpc EXCEPT ![w] = "clear"]
    /\ UNCHANGED <<isIdle, csd, workerSockets, vacant, infoVars, queueVars,
                   pollset, created, offWorker>>

WorkerClear(w) ==
    /\ wpc[w] = "clear"
    /\ workerSockets' = [workerSockets EXCEPT ![entry[w]] = None]
    /\ csd' = [csd EXCEPT ![w] = None]
    /\ wpc' = [wpc EXCEPT ![w] = "top"]
    /\ UNCHANGED <<isIdle, vacant, dataVars, offWorker>>

WorkerExit(w) ==
    /\ wpc[w] = "exit"
    /\ vacant' = vacant \cup {entry[w]}
    /\ wpc' = [wpc EXCEPT ![w] = "done"]
    /\ UNCHANGED <<isIdle, csd, workerSockets, dataVars, offWorker>>

WorkerStep(w) ==
    /\ Running
    /\ \/ WorkerStart(w) \/ WorkerTop(w) \/ SetIdle(w) \/ SetIdleSignal(w)
       \/ WorkerReady(w) \/ QueuePop(w) \/ QueuePopWoken(w) \/ QueuePopEmpty(w)
       \/ ProcessKeep(w) \/ ProcessClose(w) \/ WorkerClear(w) \/ WorkerExit(w)

WorkerInput(w) == Running /\ WorkerSpuriousWakeup(w)

(***************************************************************************)
(* Start thread.                                                           *)
(***************************************************************************)

(* Mutant: the entry is not marked before the thread is created. *)
StartScanUnmarked ==
    /\ spc = "scan"
    /\ scan \in Entries
    /\ IF /\ scan \in vacant
          /\ threadsCreated < MaxThreads
       THEN /\ wpc' = [wpc EXCEPT ![threadsCreated] = "start"]
            /\ entry' = [entry EXCEPT ![threadsCreated] = scan]
            /\ threadsCreated' = threadsCreated + 1
       ELSE UNCHANGED <<wpc, entry, threadsCreated>>
    /\ scan' = scan + 1
    /\ UNCHANGED <<isIdle, vacant, csd, workerSockets, spc, listenerVars,
                   mainVars, flagVars, dataVars>>

(* One iteration of the loop over the entries.  An entry is free when its  *)
(* status says so, whoever wrote that: a worker of this process that has   *)
(* left is replaced, and one whose entry another process marked free gets  *)
(* a companion, threads[i] then naming the later of the two.               *)
StartScan ==
    /\ spc = "scan"
    /\ scan \in Entries
    /\ IF /\ scan \in vacant
          /\ threadsCreated < MaxThreads
       THEN \/ /\ vacant' = vacant \ {scan}
               /\ wpc' = [wpc EXCEPT ![threadsCreated] = "start"]
               /\ entry' = [entry EXCEPT ![threadsCreated] = scan]
               /\ threadsCreated' = threadsCreated + 1
               /\ scan' = scan + 1
               /\ UNCHANGED mainVars
            \/ /\ "thread" \in Failures
               /\ CleanChildExit("sick")
               /\ vacant' = vacant \ {scan}
               /\ UNCHANGED <<wpc, entry, threadsCreated, scan>>
       ELSE /\ scan' = scan + 1
            /\ UNCHANGED <<vacant, wpc, entry, threadsCreated, mainVars>>
    /\ UNCHANGED <<isIdle, csd, workerSockets, spc, listenerVars, flagVars,
                   dataVars>>

(* After the loop: create the listener once there is a worker, then leave  *)
(* or sleep and scan again.                                                *)
StartLoop ==
    /\ spc = "scan"
    /\ scan = ThreadsPerChild
    /\ lpc' = IF lpc = "none" /\ threadsCreated > 0 THEN "setup" ELSE lpc
    /\ IF startThreadMayExit \/ threadsCreated = ThreadsPerChild
       THEN spc' = "done" /\ scan' = scan
       ELSE spc' = spc /\ scan' = 0
    /\ UNCHANGED <<threadsCreated, haveIdle, events, spurious, workerVars,
                   mainVars, flagVars, dataVars>>

(* The queues cannot be made, before any thread is, or a worker's          *)
(* arguments cannot be allocated, or the listener thread cannot be         *)
(* created: the process exits.                                             *)
StartFail ==
    /\ spc = "scan"
    /\ \/ /\ "memory" \in Failures
          /\ scan \in Entries
          /\ threadsCreated = 0 \/ scan \in vacant
          /\ CleanChildExit("fatal")
       \/ /\ "thread" \in Failures
          /\ scan = ThreadsPerChild /\ lpc = "none" /\ threadsCreated > 0
          /\ CleanChildExit("sick")
    /\ UNCHANGED <<startVars, listenerVars, workerVars, flagVars, dataVars>>

StartStep == Running /\ (StartScan \/ StartLoop \/ StartFail)

(***************************************************************************)
(* The entries of the slot are shared with other processes: older ones     *)
(* whose threads still run, and, once this process is quiescing, the       *)
(* parent and the processes it puts in the slot next.  How many threads    *)
(* these have, and when, is left open.                                     *)
(***************************************************************************)

offBoard == <<wpc, entry, isIdle, csd, workerSockets, dataVars, listenerVars,
              startVars, mainVars, flagVars>>

(* The entries that threads of other processes may write. *)
Shared == IF dying THEN Entries ELSE ForeignSlots

(* worker_thread of an older process before it waits for a connection, or  *)
(* start_threads and worker_thread of a process that got the slot next.    *)
OthersTake(i) ==
    /\ i \in Shared
    /\ vacant' = vacant \ {i}
    /\ UNCHANGED offBoard

(* worker_thread of another process ends. *)
OthersLeave(i) ==
    /\ i \in Shared
    /\ vacant' = vacant \cup {i}
    /\ UNCHANGED offBoard

(* server_main_loop reaps a process that got the slot after this one and   *)
(* marks every entry dead, those of this process's running threads too.    *)
SuccessorReaped ==
    /\ dying
    /\ vacant' = Entries
    /\ UNCHANGED offBoard

(* make_child fails to fork a process for the slot. *)
SuccessorForkFails ==
    /\ dying
    /\ vacant' = vacant \cup {0}
    /\ UNCHANGED offBoard

(* Only the start thread reads the entries: once it has ended, what others *)
(* write there is of no consequence to this process and left out.          *)
BoardInput ==
    /\ Running
    /\ spc = "scan"
    /\ \/ SuccessorReaped \/ SuccessorForkFails
       \/ \E i \in Entries : OthersTake(i) \/ OthersLeave(i)

(***************************************************************************)
(* Main thread.                                                            *)
(***************************************************************************)

(* unblock_signal(SIGTERM) and then apr_signal(SIGTERM, dummy_signal_handler) *)
MainUnblock ==
    /\ mpc = "unblock"
    /\ IF sigterm THEN CleanChildExit("ok")
                  ELSE mpc' = "handler" /\ UNCHANGED mainRest
    /\ UNCHANGED <<flagVars, dataVars, offMain>>

MainInstallHandler ==
    /\ mpc = "handler"
    /\ mpc' = "watch"
    /\ UNCHANGED <<mainRest, flagVars, dataVars, offMain>>

(* Entering the read of zevent_pod_check. *)
MainEnterRead ==
    /\ mpc = "watch"
    /\ mpc' = "read"
    /\ UNCHANGED <<mainRest, flagVars, dataVars, offMain>>

(* zevent_pod_check returns an order the parent wrote.  The pipe is read   *)
(* nowhere else, so an order arrives when it is read.                      *)
MainPodRead ==
    /\ mpc = "read"
    /\ request' \in {"ST_GRACEFUL"} \cup (IF Forced THEN {"ST_UNGRACEFUL"} ELSE {})
    /\ mpc' = "joinstart"
    /\ startThreadMayExit' = TRUE
    /\ UNCHANGED <<sigterm, exitCode, closing, target, terminateMode,
                   listenerMayExit, workersMayExit, dying, resourceShortage,
                   dataVars, offMain>>

(* The read was interrupted: see if termination was triggered meanwhile. *)
MainInterrupted ==
    /\ mpc = "eintr"
    /\ IF terminateMode = "ST_INIT"
       THEN mpc' = "watch" /\ UNCHANGED <<request, startThreadMayExit>>
       ELSE /\ mpc' = "joinstart"
            /\ request' = terminateMode
            /\ startThreadMayExit' = TRUE
    /\ UNCHANGED <<sigterm, exitCode, closing, target, terminateMode,
                   listenerMayExit, workersMayExit, dying, resourceShortage,
                   dataVars, offMain>>

(* join_start_thread *)
MainJoinStart ==
    /\ mpc = "joinstart"
    /\ spc = "done"
    /\ mpc' = "signal"
    /\ UNCHANGED <<mainRest, flagVars, dataVars, offMain>>

(* signal_threads(request) up to the test for ungraceful termination. *)
MainSignalThreads ==
    /\ mpc = "signal"
    /\ terminateMode' = request
    /\ listenerMayExit' = (listenerMayExit \/ terminateMode # request)
    /\ IF request = "ST_UNGRACEFUL" /\ terminateMode # request
       THEN workersMayExit' = TRUE /\ mpc' = "interrupt"
       ELSE workersMayExit' = workersMayExit /\ mpc' = "joinlistener"
    /\ UNCHANGED <<mainRest, startThreadMayExit, dying, resourceShortage,
                   dataVars, offMain>>

(* Mutant: zevent_queue_term in place of zevent_queue_interrupt_all. *)
MainInterruptTerm ==
    /\ mpc = "interrupt"
    /\ BroadcastNotEmpty
    /\ qTerminated' = TRUE
    /\ mpc' = "infoterm"
    /\ UNCHANGED <<mainRest, listenerVars, entry, isIdle, csd,
                   workerSockets, vacant, startVars, flagVars, infoVars, queue, connVars>>

(* zevent_queue_interrupt_all(worker_queue) *)
MainInterruptAll ==
    /\ mpc = "interrupt"
    /\ BroadcastNotEmpty
    /\ mpc' = "infoterm"
    /\ UNCHANGED <<mainRest, listenerVars, entry, isIdle, csd,
                   workerSockets, vacant, startVars, flagVars, dataVars>>

(* zevent_queue_info_term(worker_queue_info) *)
MainInfoTerm ==
    /\ mpc = "infoterm"
    /\ infoTerminated' = TRUE
    /\ lpc' = IF lpc = "idlewait" THEN "ret" ELSE lpc
    /\ mpc' = "close"
    /\ UNCHANGED <<mainRest, idlers, queueVars, connVars, haveIdle, events,
                   spurious, workerVars, startVars, flagVars>>

(* close_worker_sockets, the test of one thread's entry. *)
MainCloseTest ==
    /\ mpc = "close"
    /\ closing \in Entries
    /\ target' = workerSockets[closing]
    /\ IF workerSockets[closing] = None
       THEN mpc' = mpc /\ closing' = closing + 1
       ELSE mpc' = "closing" /\ closing' = closing
    /\ UNCHANGED <<request, sigterm, exitCode, flagVars, dataVars,
                   offMain>>

(* close_worker_sockets, apr_socket_close of the entry tested before: the  *)
(* entry is read again, or its first value is used, as the compiler likes. *)
(* Closing NULL ends the process.  epoll forgets a closed descriptor.      *)
MainCloseSocket ==
    /\ mpc = "closing"
    /\ \E sock \in {target, workerSockets[closing]} :
          IF sock = None
          THEN /\ CleanChildExit("crash")
               /\ UNCHANGED <<pollset, workerSockets>>
          ELSE /\ pollset' = pollset \ {sock}
               /\ workerSockets' = [workerSockets EXCEPT ![closing] = None]
               /\ mpc' = "close" /\ closing' = closing + 1 /\ target' = None
               /\ UNCHANGED <<request, sigterm, exitCode>>
    /\ UNCHANGED <<infoVars, queueVars, created, recycled, listenerVars, wpc,
                   entry, isIdle, csd, vacant, startVars, flagVars>>

MainCloseDone ==
    /\ mpc = "close"
    /\ closing = ThreadsPerChild
    /\ mpc' = "joinlistener"
    /\ UNCHANGED <<mainRest, flagVars, dataVars, offMain>>

(* join_workers, the listener: joined once it is gone, given up on after   *)
(* ten half-second attempts to wake it.                                    *)
MainJoinListener ==
    /\ mpc = "joinlistener"
    /\ mpc' = "joinworkers"
    /\ listenerMayExit' = (listenerMayExit \/ lpc \notin {"none", "done", "gone"})
    /\ UNCHANGED <<mainRest, terminateMode, workersMayExit,
                   startThreadMayExit, dying, resourceShortage, dataVars,
                   offMain>>

(* threads[i] is the last thread created for entry i. *)
Latest(w) == \A v \in Workers : v > w /\ v < threadsCreated => entry[v] # entry[w]

(* join_workers, the threads that threads[] names, and clean_child_exit. *)
MainJoinWorkers ==
    /\ mpc = "joinworkers"
    /\ \A w \in Workers : Latest(w) => wpc[w] \in {"none", "done"}
    /\ CleanChildExit(IF resourceShortage THEN "sick" ELSE "ok")
    /\ UNCHANGED <<flagVars, dataVars, offMain>>

MainStep ==
    \/ MainUnblock \/ MainInstallHandler \/ MainEnterRead \/ MainInterrupted
    \/ MainJoinStart \/ MainSignalThreads
    \/ MainInterruptAll \/ MainInfoTerm \/ MainCloseTest
    \/ MainCloseSocket \/ MainCloseDone
    \/ MainJoinListener \/ MainJoinWorkers

(***************************************************************************)
(* The parent process, as far as this child sees it.                       *)
(***************************************************************************)

(* reclaim_one_pid(pid, SEND_SIGTERM) *)
ParentSigterm ==
    /\ Running
    /\ Forced
    /\ DeliverSigterm
    /\ UNCHANGED <<flagVars, dataVars, offMain>>

Exited == ~Running /\ UNCHANGED vars

Next ==
    \/ ListenerStep \/ ListenerInput
    \/ \E w \in Workers : WorkerStep(w) \/ WorkerInput(w)
    \/ BoardInput
    \/ StartStep \/ MainStep \/ MainPodRead \/ ParentSigterm \/ Exited

(* Every thread is scheduled as long as it can run; what clients, the      *)
(* parent and older processes do is not assumed to happen.                 *)
Fairness ==
    /\ WF_vars(ListenerStep)
    /\ \A w \in Workers : WF_vars(WorkerStep(w))
    /\ WF_vars(StartStep)
    /\ WF_vars(MainStep)

Spec == Init /\ [][Next]_vars /\ Fairness

(***************************************************************************)
(* Properties.                                                             *)
(***************************************************************************)

(* Every variable has its type: the queue, the pollset and the workers     *)
(* hold connections, never a NULL socket.                                  *)
TypeOK ==
    /\ idlers \in Int /\ infoTerminated \in BOOLEAN /\ recycled \in Seq(Conns)
    /\ queue \in Seq(Conns) /\ qTerminated \in BOOLEAN
    /\ pollset \subseteq Conns /\ created \subseteq Conns
    /\ lpc \in ListenerPCs /\ haveIdle \in BOOLEAN
    /\ events \subseteq Conns \cup {Listen} /\ spurious \in 0 .. MaxSpurious
    /\ wpc \in [Workers -> WorkerPCs] /\ isIdle \in [Workers -> BOOLEAN]
    /\ entry \in [Workers -> Entries] /\ csd \in [Workers -> Conns \cup {None}]
    /\ workerSockets \in [Entries -> Conns \cup {None}]
    /\ vacant \subseteq Entries
    /\ spc \in {"scan", "done"} /\ scan \in 0 .. ThreadsPerChild
    /\ threadsCreated \in 0 .. MaxThreads
    /\ mpc \in MainPCs /\ request \in Modes /\ sigterm \in BOOLEAN
    /\ exitCode \in {"running", "ok", "sick", "fatal", "crash"}
    /\ closing \in 0 .. ThreadsPerChild /\ target \in Conns \cup {None}
    /\ terminateMode \in Modes
    /\ listenerMayExit \in BOOLEAN /\ workersMayExit \in BOOLEAN
    /\ startThreadMayExit \in BOOLEAN /\ dying \in BOOLEAN
    /\ resourceShortage \in BOOLEAN

(* The listener holds, or is about to be given, a reserved worker. *)
Reserving == haveIdle \/ lpc \in {"lock", "idlewait", "ret"}

(* The listener may still hand out connections. *)
Granting ==
    /\ haveIdle \/ ~infoTerminated
    /\ lpc \notin {"term", "interrupt", "dying", "kill", "done", "gone"}

Idle == {w \in Workers : isIdle[w]}

(* As long as the listener hands out connections, idlers is exactly the    *)
(* number of workers that announced themselves idle, less the connections  *)
(* queued for them and the listener's own reservation (fdqueue.c, the      *)
(* comment on idlers, and the two atomic updates around the queue).        *)
IdlersAccount ==
    Granting =>
        idlers = Cardinality(Idle) - Len(queue) - (IF Reserving THEN 1 ELSE 0)

(* The queue never holds more than two connections per worker thread       *)
(* created plus the spurious wakeups of the listener: how far              *)
(* wait_for_idler's single cond_wait lets zevent_queue_push go.            *)
QueueBound == Len(queue) <= 2 * threadsCreated + spurious

(* The workers that have counted themselves idle while the count was       *)
(* negative and are on their way to signal the listener.                   *)
Signalling == {w \in Workers : wpc[w] = "signal"}

(* How negative idlers may get: every reservation below zero is paid for   *)
(* by a signal, and a signal may be kept back by a worker until a later    *)
(* wait of the listener.                                                   *)
SignalDebt ==
    Granting =>
        idlers - Cardinality(Signalling)
            >= 0 - threadsCreated - spurious
                 - (IF lpc \in {"lock", "idlewait"} THEN 1 ELSE 0)

(* get_worker's comment, "this prevents the worker queue from overflowing": *)
(* the queue's data array has ThreadsPerChild entries.                     *)
QueueFits == Len(queue) <= ThreadsPerChild

(* The places that hold a transaction pool. *)
Places(c) ==
    {<<"pollset">> : x \in pollset \cap {c}}
    \cup {<<"queue", i>> : i \in {i \in DOMAIN queue : queue[i] = c}}
    \cup {<<"recycled", i>> : i \in {i \in DOMAIN recycled : recycled[i] = c}}
    \cup {<<"worker", w>> : w \in {w \in Workers : wpc[w] = "process" /\ csd[w] = c}}

(* A pool and its connection are in one place at a time: the pollset, one  *)
(* entry of the queue, one worker, one entry of the recycled list; and     *)
(* until workers are forced out none is lost.                              *)
OnePlace ==
    \A c \in Conns :
        /\ Cardinality(Places(c)) <= 1
        /\ (c \in created /\ ~workersMayExit) => Places(c) # {}

(* What is left of zevent_queue_pop's comment on APR_EOF, "no more         *)
(* elements ever again": a woken worker may get APR_EOF although something *)
(* was queued after it released the mutex, but without spurious wakeups    *)
(* the worker that took its element comes back, so that between them the   *)
(* workers of a graceful exit leave nothing in the queue.                  *)
WorkersDrain ==
    MaxSpurious = 0 /\ ~workersMayExit /\ lpc = "done"
        /\ (\A w \in Workers : wpc[w] \in {"none", "done"}) => queue = <<>>

(* Where the threads' program counters and the flags stand to each other.  *)
(* A worker leaves because workers are forced out or because the queue was *)
(* terminated.                                                             *)
Leaving ==
    \A w \in Workers : wpc[w] \in {"exit", "done"} => workersMayExit \/ qTerminated

ListenerPhases ==
    /\ lpc = "dispatch" => haveIdle
    /\ lpc \in {"lock", "idlewait", "ret"} => ~haveIdle
    /\ qTerminated => lpc \in {"interrupt", "dying", "kill", "done"}

WorkerPhases ==
    \A w \in Workers :
        /\ wpc[w] \in {"none", "start", "top", "setidle", "process", "clear"} => ~isIdle[w]
        /\ wpc[w] \in {"signal", "ready", "pop", "wait", "woken", "popped"} =>
              isIdle[w]
        /\ wpc[w] = "process" => csd[w] \in Conns

MainPhases ==
    /\ workersMayExit => spc = "done"
    /\ mpc \in {"signal", "interrupt", "infoterm", "close", "closing",
                "joinlistener", "joinworkers"} => spc = "done"
    /\ mpc = "closing" => closing \in Entries

(* Threads are numbered as they are created. *)
Numbered == \A w \in Workers : w >= threadsCreated => wpc[w] = "none"

(* The worker threads in entries that belong to this process alone, until  *)
(* it announces its end: no older thread ran there when it started.        *)
Sole ==
    {w \in Workers : /\ ~dying /\ wpc[w] \notin {"none", "done"}
                     /\ entry[w] \notin ForeignSlots}

(* start_threads does not start a second thread over a running one: a      *)
(* process that has not announced its end runs at most one in each entry   *)
(* that no older thread still writes.  It may elsewhere: an older thread   *)
(* leaves an entry marked free, and so do, once the process is quiescing,  *)
(* the parent's reap of its successor and its failed fork.                 *)
OneThreadPerEntry == \A v, w \in Sole : entry[v] = entry[w] => v = w

(* The entry of such a thread is not shown as free. *)
EntryTaken == \A w \in Sole : entry[w] \notin vacant

(* The inductive invariant behind IdlersAccount and QueueBound. *)
IInv ==
    /\ TypeOK
    /\ ListenerPhases /\ WorkerPhases /\ MainPhases /\ Leaving
    /\ Numbered /\ OneThreadPerEntry /\ EntryTaken
    /\ IdlersAccount /\ SignalDebt /\ QueueBound

(* The inductive invariant behind OnePlace: no pool occurs twice in the    *)
(* queue, the recycled list or the workers' hands, these and the pollset   *)
(* have none in common, and an event the listener has not yet served is of *)
(* a connection that is nowhere else, though the main thread may have      *)
(* closed it meanwhile.                                                    *)
Queued == {queue[i] : i \in DOMAIN queue}
Free == {recycled[i] : i \in DOMAIN recycled}
Holding == {w \in Workers : wpc[w] = "process"}
Held == {csd[w] : w \in Holding}
Watched == pollset \cup (events \ {Listen})
OnceEach(s) == \A i, j \in DOMAIN s : s[i] = s[j] => i = j

PlacesApart ==
    /\ OnceEach(queue) /\ OnceEach(recycled)
    /\ \A v, w \in Holding : csd[v] = csd[w] => v = w
    /\ Watched \cap Queued = {} /\ Watched \cap Free = {} /\ Watched \cap Held = {}
    /\ Queued \cap Free = {} /\ Queued \cap Held = {} /\ Free \cap Held = {}
    /\ Watched \cup Queued \cup Free \cup Held \subseteq created
    /\ workersMayExit \/ created \subseteq pollset \cup Queued \cup Free \cup Held
    /\ mpc \in {"interrupt", "infoterm", "close", "closing"} => workersMayExit

(* The inductive invariant behind WorkersDrain: as long as something is    *)
(* queued, a worker is on its way to the queue; and when nothing is, not   *)
(* all workers have been woken in vain, so that the next push finds one.   *)
Coming == {w \in Workers : wpc[w] \in {"start", "top", "setidle", "signal", "ready",
                                       "pop", "woken", "process", "clear"}}
Vain == {w \in Workers : wpc[w] \in {"woken", "popped"}}
Absent == {w \in Workers : wpc[w] \in {"none", "exit", "done"}}

Staffed ==
    /\ threadsCreated > 0 \/ lpc # "none" => \E w \in Workers : wpc[w] # "none"
    /\ lpc = "interrupt" => qTerminated
    /\ MaxSpurious = 0 /\ ~workersMayExit =>
          /\ queue # <<>> => Coming # {}
          /\ ~qTerminated /\ queue = <<>> /\ Vain # {} => Workers # Vain \cup Absent

(* Once zevent_queue_term has run nothing is pushed. *)
NoPushAfterTerm == [][qTerminated => Len(queue') <= Len(queue)]_vars

(* No wakeup of the listener is lost: it does not wait for an idle worker  *)
(* for ever (set_idle's signal, wait_for_idler's re-check).                *)
ListenerWoken == lpc = "idlewait" ~> (lpc # "idlewait" \/ ~Running)

Stopping == mpc \in {"joinstart", "signal", "interrupt", "infoterm", "close",
                     "closing", "joinlistener", "joinworkers", "exited"}

(* A child told by the pod to stop, gracefully or not, does stop. *)
ChildExits == Stopping ~> ~Running

(* signal_threads' comment: "for graceful termination, the listener thread *)
(* will notify the workers to exit".  Termination that a thread started    *)
(* ends with the process.                                                  *)
TerminationCompletes == terminateMode # "ST_INIT" ~> ~Running

(* listener_thread's comment "wake up the main thread" on its SIGTERM.     *)
(* TLC refutes it with one worker and the failure "poll" (README).         *)
MainWoken == lpc = "done" ~> Stopping

(* child_main's comment on join_workers: "if the worker hasn't exited, then *)
(* this blocks until they have".  TLC refutes it with the constants of     *)
(* ChildConns.cfg (README): a worker whose entry was given to a second     *)
(* thread is not joined, and ends with the process.                        *)
AllJoined ==
    [][mpc = "joinworkers" /\ mpc' = "exited" =>
          \A w \in Workers : wpc[w] \in {"none", "done"}]_vars

(* close_worker_sockets closes connections, never a NULL pointer.  TLC     *)
(* refutes it with one worker, one connection and Forced (README).         *)
NoNullClose == exitCode # "crash"
=============================================================================
