---------------------------- MODULE ServerParent ----------------------------
(***************************************************************************)
(* The parent process of the zevent server and its children, as they meet  *)
(* in the scoreboard, the pipe of death and the process table: startup,    *)
(* idle server maintenance, the reaping of children and the shutdown.  A   *)
(* child is reduced to what it writes to the scoreboard and to how it      *)
(* ends; its threads are the subject of module ChildProcess.               *)
(*                                                                         *)
(* One run of zevent_run, as its callers make it: the generation does not  *)
(* change and no child is left over from before.                           *)
(***************************************************************************)
EXTENDS Integers, Sequences, FiniteSets, SequencesExt

CONSTANTS
    ServerLimit,     \* zevent_daemons_limit
    ThreadsPerChild, \* zevent_threads_per_child
    Pids,            \* process ids; fork fails when none is left
    StartServers, MinSpareThreads, MaxSpareThreads,
    MaxSpawnRate,    \* MAX_SPAWN_RATE
    PodCap,          \* bound: unread characters the maintenance leaves in the pod
    Signals,         \* signals the parent may get, see SignalKinds
    Failures         \* what may go wrong, see FailureKinds

Slots   == 0 .. ServerLimit - 1
Threads == 0 .. ThreadsPerChild - 1
None    == "none"
SignalKinds  == {"SIGTERM", "GRACEFUL_STOP", "SIGHUP", "SIG_GRACEFUL"}
FailureKinds == {"fork", "crash", "sick", "fatal", "listener"}

ASSUME LimitAssumption == ServerLimit \in Nat \ {0} /\ ThreadsPerChild \in Nat \ {0}
ASSUME SpareAssumption == /\ StartServers \in Nat /\ MinSpareThreads \in Nat
                          /\ MaxSpareThreads \in Nat
ASSUME RateAssumption == MaxSpawnRate \in Nat \ {0} /\ PodCap \in Nat
ASSUME KindAssumption == Signals \subseteq SignalKinds /\ Failures \subseteq FailureKinds
ASSUME PidAssumption == None \notin Pids

(* max_spare_threads after the adjustment "don't thrash". *)
MaxSpare == IF MaxSpareThreads < MinSpareThreads + ThreadsPerChild
            THEN MinSpareThreads + ThreadsPerChild ELSE MaxSpareThreads

(* scoreboard.h; the tests of the maintenance depend on the order. *)
SERVER_DEAD     == 0
SERVER_STARTING == 1
SERVER_READY    == 2
SERVER_GRACEFUL == 9
Statuses == {SERVER_DEAD, SERVER_STARTING, SERVER_READY, SERVER_GRACEFUL}

VARIABLES
    \* scoreboard: parent[i].pid, parent[i].quiescing, servers[i][j].status
    parentPid, quiescing, status,
    \* process table: state, slot and exit code of each process, and the signal
    \* that zevent_reclaim_child_processes last sent it
    pstate, slot, code, sent,
    \* children: running workers, number of workers created, the start thread's
    \* index (i, threads_created), listener phase, what the main thread knows
    workers, created, scan, listener, mode,
    \* pipe of death
    pod,
    \* parent: program counter, slots to fork into, child forked and not yet recorded
    ppc, todo, born,
    \* the locals of perform_idle_server_maintenance
    idx, idle, active, free, totallyFree, lastNonDead,
    \* the parent's globals
    maxDaemonsLimit, spawnRate, sick, shutdownPending, restartPending,
    isGraceful, childFatal,
    \* index into the action table of zevent_reclaim_child_processes
    nextAction

boardVars  == <<parentPid, quiescing, status>>
procVars   == <<pstate, slot, code, sent>>
childVars  == <<workers, created, scan, listener, mode>>
forkVars   == <<todo, born>>
scanVars   == <<idx, idle, active, free, totallyFree, lastNonDead>>
signalVars == <<shutdownPending, restartPending, isGraceful, childFatal>>
rateVars   == <<maxDaemonsLimit, spawnRate, sick>>
parentVars == <<ppc, forkVars, scanVars, rateVars, signalVars, nextAction>>
vars == <<boardVars, procVars, childVars, pod, parentVars>>

(* startup_children takes the first slots without a process. *)
FirstSlots == [i \in 1 .. (IF StartServers > ServerLimit THEN ServerLimit
                                                         ELSE StartServers) |-> i - 1]

Init ==
    /\ parentPid = [i \in Slots |-> None]
    /\ quiescing = [i \in Slots |-> FALSE]
    /\ status = [i \in Slots |-> [j \in Threads |-> SERVER_DEAD]]
    /\ pstate = [p \in Pids |-> "unborn"]
    /\ slot = [p \in Pids |-> 0]
    /\ code = [p \in Pids |-> "ok"]
    /\ sent = [p \in Pids |-> None]
    /\ workers = [p \in Pids |-> {}]
    /\ created = [p \in Pids |-> 0]
    /\ scan = [p \in Pids |-> 0]
    /\ listener = [p \in Pids |-> "none"]
    /\ mode = [p \in Pids |-> "init"]
    /\ pod = <<>>
    /\ ppc = "startup" /\ todo = FirstSlots /\ born = None
    /\ idx = 0 /\ idle = 0 /\ active = 0 /\ lastNonDead = -1
    /\ free = <<>> /\ totallyFree = 0
    /\ maxDaemonsLimit = -1 /\ spawnRate = 1 /\ sick = FALSE
    /\ shutdownPending = FALSE /\ restartPending = FALSE
    /\ isGraceful = FALSE /\ childFatal = FALSE
    /\ nextAction = 1

Alive(p) == pstate[p] = "alive"

(* zevent_update_child_status_from_indexes: one status of the scoreboard.  *)
(* The first change to SERVER_READY also stores the generation, the only   *)
(* one there is.                                                           *)
UpdateChildStatus(i, j, s) == status' = [status EXCEPT ![i][j] = s]

(* find_child_by_pid: the slot that holds p, none or one. *)
FindChildByPid(p) == {i \in Slots : parentPid[i] = p}

(***************************************************************************)
(* A child process.                                                        *)
(***************************************************************************)

(* The start thread runs, it has not left its loop. *)
Starting(p) == scan[p] <= ThreadsPerChild

(* Bound: workers a start thread makes, the ones it makes again included. *)
CreatedBound == 2 * ThreadsPerChild

(* start_threads, one thread slot: a worker is made where it looks free. *)
ScanThread(p) ==
    /\ Alive(p) /\ scan[p] \in Threads /\ created[p] < CreatedBound
    /\ IF status[slot[p]][scan[p]] \in {SERVER_DEAD, SERVER_GRACEFUL}
       THEN /\ UpdateChildStatus(slot[p], scan[p], SERVER_STARTING)
            /\ workers' = [workers EXCEPT ![p] = @ \cup {scan[p]}]
            /\ created' = [created EXCEPT ![p] = @ + 1]
       ELSE UNCHANGED <<status, workers, created>>
    /\ scan' = [scan EXCEPT ![p] = @ + 1]
    /\ UNCHANGED <<parentPid, quiescing, procVars, listener, mode, pod, parentVars>>

(* The end of a pass: the listener is started once there is a worker; the  *)
(* start thread leaves when it is told to or has made all workers.         *)
ScanEnd(p) ==
    /\ Alive(p) /\ scan[p] = ThreadsPerChild
    /\ listener' = [listener EXCEPT ![p] =
                       IF @ = "none" /\ created[p] > 0 THEN "accepting" ELSE @]
    /\ scan' = [scan EXCEPT ![p] = IF mode[p] # "init" \/ created[p] = ThreadsPerChild
                                   THEN ThreadsPerChild + 1 ELSE 0]
    /\ UNCHANGED <<boardVars, procVars, workers, created, mode, pod, parentVars>>

(* A worker announces itself, at the start (its SERVER_STARTING repeats    *)
(* what the start thread wrote) and after each connection.  No state is    *)
(* written while it is busy with one.                                      *)
WorkerReady(p, j) ==
    /\ Alive(p) /\ j \in workers[p]
    /\ UpdateChildStatus(slot[p], j, SERVER_READY)
    /\ UNCHANGED <<parentPid, quiescing, procVars, childVars, pod, parentVars>>

(* join_start_thread is over: signal_threads tells the other threads. *)
Signalled(p) == mode[p] # "init" /\ ~Starting(p)

(* A worker leaves after zevent_queue_term or when it is forced out. *)
WorkerExit(p, j) ==
    /\ Alive(p) /\ j \in workers[p]
    /\ (Signalled(p) /\ mode[p] = "forced") \/ listener[p] \in {"term", "dying", "quiesced"}
    /\ UpdateChildStatus(slot[p], j, IF listener[p] \in {"dying", "quiesced"}
                                     THEN SERVER_DEAD ELSE SERVER_GRACEFUL)
    /\ workers' = [workers EXCEPT ![p] = @ \ {j}]
    /\ UNCHANGED <<parentPid, quiescing, procVars, created, scan, listener, mode,
                   pod, parentVars>>

(* zevent_pod_check: the first child to read gets the character. *)
PodRead(p) ==
    /\ Alive(p) /\ mode[p] = "init" /\ pod # <<>>
    /\ mode' = [mode EXCEPT ![p] = Head(pod)]
    /\ pod' = Tail(pod)
    /\ UNCHANGED <<boardVars, procVars, workers, created, scan, listener,
                   parentVars>>

(* The listener ends because the main thread says so or after an error of  *)
(* its own: zevent_queue_term, then dying = 1, then quiescing = 1.         *)
ListenerTerm(p) ==
    /\ Alive(p) /\ listener[p] = "accepting"
    /\ Signalled(p) \/ "listener" \in Failures
    /\ listener' = [listener EXCEPT ![p] = "term"]
    /\ UNCHANGED <<boardVars, procVars, workers, created, scan, mode, pod, parentVars>>

ListenerDying(p) ==
    /\ Alive(p) /\ listener[p] = "term"
    /\ listener' = [listener EXCEPT ![p] = "dying"]
    /\ UNCHANGED <<boardVars, procVars, workers, created, scan, mode, pod, parentVars>>

ListenerQuiesce(p) ==
    /\ Alive(p) /\ listener[p] = "dying"
    /\ listener' = [listener EXCEPT ![p] = "quiesced"]
    /\ quiescing' = [quiescing EXCEPT ![slot[p]] = TRUE]
    /\ UNCHANGED <<parentPid, status, procVars, workers, created, scan, mode, pod,
                   parentVars>>

(* The listener's SIGTERM interrupts the main thread's read of the pod. *)
MainInterrupted(p) ==
    /\ Alive(p) /\ mode[p] = "init" /\ listener[p] = "quiesced"
    /\ mode' = [mode EXCEPT ![p] = "graceful"]
    /\ UNCHANGED <<boardVars, procVars, workers, created, scan, listener, pod,
                   parentVars>>

(* The process ends with exit code c and takes its threads with it. *)
Exit(p, c) ==
    /\ pstate' = [pstate EXCEPT ![p] = "zombie"]
    /\ code' = [code EXCEPT ![p] = c]
    /\ workers' = [workers EXCEPT ![p] = {}] /\ created' = [created EXCEPT ![p] = 0]
    /\ scan' = [scan EXCEPT ![p] = 0] /\ listener' = [listener EXCEPT ![p] = "none"]
    /\ mode' = [mode EXCEPT ![p] = "init"] /\ sent' = [sent EXCEPT ![p] = None]
    /\ UNCHANGED <<boardVars, slot, pod, parentVars>>

(* clean_child_exit at the end of child_main, once the workers are joined. *)
ChildExit(p) ==
    /\ Alive(p) /\ Signalled(p) /\ workers[p] = {}
    /\ \/ Exit(p, "ok")
       \/ "listener" \in Failures /\ Exit(p, "CHILDSICK")  \* resource_shortage

(* A child ends early: it crashes, cannot create a thread or its queues. *)
ChildDies(p) ==
    /\ Alive(p)
    /\ \/ "crash" \in Failures /\ Exit(p, "signaled")
       \/ "sick" \in Failures /\ Starting(p) /\ Exit(p, "CHILDSICK")
       \/ "fatal" \in Failures /\ Starting(p) /\ Exit(p, "CHILDFATAL")

(* The parent's signal ends the child, now or later: SIGTERM one that has  *)
(* not installed its handler yet, SIGKILL any.                             *)
DieOfSignal(p) ==
    /\ Alive(p)
    /\ sent[p] = "SIGKILL" \/ (sent[p] = "SIGTERM" /\ mode[p] = "init")
    /\ Exit(p, "signaled")

ChildStep(p) ==
    \/ \E j \in Threads : WorkerReady(p, j) \/ WorkerExit(p, j)
    \/ ScanThread(p) \/ ScanEnd(p) \/ PodRead(p) \/ ListenerTerm(p) \/ ListenerDying(p) \/ ListenerQuiesce(p)
    \/ MainInterrupted(p) \/ ChildExit(p)

(***************************************************************************)
(* Parent: make_child.                                                     *)
(***************************************************************************)

(* zevent_max_daemons_limit follows the slot, whether fork succeeds or not. *)
RaiseLimit(i) ==
    maxDaemonsLimit' = IF i + 1 > maxDaemonsLimit THEN i + 1 ELSE maxDaemonsLimit

(* fork() succeeds: from here on the child runs. *)
Fork(p) ==
    /\ ppc \in {"startup", "spawn"} /\ born = None /\ todo # <<>>
    /\ pstate[p] = "unborn"
    /\ RaiseLimit(Head(todo))
    /\ pstate' = [pstate EXCEPT ![p] = "alive"]
    /\ slot' = [slot EXCEPT ![p] = Head(todo)]
    /\ born' = p
    /\ UNCHANGED <<boardVars, code, sent, childVars, pod, ppc, todo, scanVars,
                   spawnRate, sick, signalVars, nextAction>>

(* fork() fails: the slot's first thread is marked dead; startup_children  *)
(* gives up, the maintenance goes on with the next slot.                   *)
ForkFail ==
    /\ ppc \in {"startup", "spawn"} /\ born = None /\ todo # <<>>
    /\ "fork" \in Failures \/ \A p \in Pids : pstate[p] # "unborn"
    /\ RaiseLimit(Head(todo))
    /\ UpdateChildStatus(Head(todo), 0, SERVER_DEAD)
    /\ todo' = IF ppc = "startup" THEN <<>> ELSE Tail(todo)
    /\ UNCHANGED <<parentPid, quiescing, procVars, childVars, pod, ppc, born,
                   scanVars, spawnRate, sick, signalVars, nextAction>>

(* Mutant: the new child's pid is not written. *)
RecordChildNoPid ==
    /\ born # None
    /\ quiescing' = [quiescing EXCEPT ![slot[born]] = FALSE]
    /\ born' = None
    /\ todo' = Tail(todo)
    /\ UNCHANGED <<parentPid, status, procVars, childVars, pod, ppc, scanVars, rateVars,
                   signalVars, nextAction>>

(* The end of make_child in the parent. *)
RecordChild ==
    /\ born # None
    /\ quiescing' = [quiescing EXCEPT ![slot[born]] = FALSE]
    /\ parentPid' = [parentPid EXCEPT ![slot[born]] = born]
    /\ born' = None
    /\ todo' = Tail(todo)
    /\ UNCHANGED <<status, procVars, childVars, pod, ppc, scanVars, rateVars,
                   signalVars, nextAction>>

(* The end of startup_children; zevent_run resets the pending flags. *)
StartupDone ==
    /\ ppc = "startup" /\ todo = <<>>
    /\ shutdownPending' = FALSE /\ restartPending' = FALSE
    /\ ppc' = "loop"
    /\ UNCHANGED <<boardVars, procVars, childVars, pod, forkVars, scanVars,
                   rateVars, isGraceful, childFatal, nextAction>>

(***************************************************************************)
(* Parent: server_main_loop.                                               *)
(***************************************************************************)

Pending == shutdownPending \/ restartPending

(* zevent_process_child_status: a fatal or sick exit; all else is as good  *)
(* as a normal one, the end by a signal too.                               *)
ProcessChildStatus(c) == IF c \in {"CHILDSICK", "CHILDFATAL"} THEN c ELSE "ok"

(* A child has ended: its slot is cleared, if the scoreboard still knows it. *)
Reap(p) ==
    /\ ppc = "loop" /\ ~Pending /\ pstate[p] = "zombie"
    /\ pstate' = [pstate EXCEPT ![p] = "gone"]
    /\ slot' = [slot EXCEPT ![p] = 0] /\ code' = [code EXCEPT ![p] = "ok"]
    /\ IF ProcessChildStatus(code[p]) = "CHILDFATAL"
       THEN /\ shutdownPending' = TRUE /\ childFatal' = TRUE
            /\ UNCHANGED <<boardVars, spawnRate, sick>>
       ELSE LET known == FindChildByPid(p)
            IN  /\ sick' = (sick \/ ProcessChildStatus(code[p]) = "CHILDSICK")
                /\ status' = [i \in Slots |-> IF i \in known
                                 THEN [j \in Threads |-> SERVER_DEAD] ELSE status[i]]
                /\ parentPid' = [i \in Slots |-> IF i \in known THEN None ELSE parentPid[i]]
                /\ quiescing' = [i \in Slots |-> i \notin known /\ quiescing[i]]
                /\ spawnRate' = IF known # {} /\ ProcessChildStatus(code[p]) = "CHILDSICK"
                                THEN 1 ELSE spawnRate
                /\ UNCHANGED <<shutdownPending, childFatal>>
    /\ UNCHANGED <<sent, childVars, pod, ppc, forkVars, scanVars,
                   maxDaemonsLimit, restartPending, isGraceful, nextAction>>

(* Nothing to reap for a second: perform_idle_server_maintenance begins. *)
Timeout ==
    /\ ppc = "loop" /\ ~Pending
    /\ \A p \in Pids : pstate[p] # "zombie"
    /\ ppc' = "scan"
    /\ UNCHANGED <<boardVars, procVars, childVars, pod, forkVars, scanVars, rateVars,
                   signalVars, nextAction>>

(* The threads of a slot whose status lies between two others. *)
Count(i, low, high) == Cardinality({j \in Threads : status[i][j] \in low .. high})

(* Mutant: dead threads are enough, a process in the slot or not. *)
SpawnableAny(i) ==
    /\ \E j \in Threads : status[i][j] = SERVER_DEAD
    /\ totallyFree < spawnRate /\ Len(free) < MaxSpawnRate

(* A slot the maintenance may fork into. *)
Spawnable(i) ==
    /\ \E j \in Threads : status[i][j] = SERVER_DEAD
    /\ totallyFree < spawnRate /\ Len(free) < MaxSpawnRate
    /\ parentPid[i] = None \/ quiescing[i]

(* Mutant: the slot is written before the one it displaces is saved. *)
InsertFreeSwapped(i, allDead) ==
    IF ~allDead THEN Append(free, i)
    ELSE IF totallyFree = Len(free) THEN Append(free, i)
    ELSE Append([free EXCEPT ![totallyFree + 1] = i], i)

(* Slots without any thread go ahead of the slots still in use: the first  *)
(* of those is moved to the end.                                           *)
InsertFree(i, allDead) ==
    IF ~allDead THEN Append(free, i)
    ELSE IF totallyFree = Len(free) THEN Append(free, i)
    ELSE Append([free EXCEPT ![totallyFree + 1] = i], free[totallyFree + 1])

(* One iteration of the loop over the slots. *)
ScanSlot ==
    /\ ppc = "scan" /\ idx \in Slots
    /\ ~(idx >= maxDaemonsLimit /\ totallyFree = spawnRate)
    /\ LET allDead == \A j \in Threads : status[idx][j] \in {SERVER_DEAD, SERVER_GRACEFUL}
           dying   == \E j \in Threads : status[idx][j] = SERVER_GRACEFUL
           used    == parentPid[idx] # None
       IN  /\ idle' = idle + (IF used /\ ~quiescing[idx]
                              THEN Count(idx, SERVER_DEAD, SERVER_READY) ELSE 0)
           /\ active' = active + (IF used
                                  THEN Count(idx, SERVER_READY, SERVER_GRACEFUL - 1)
                                  ELSE 0)
           /\ free' = IF Spawnable(idx) THEN InsertFree(idx, allDead) ELSE free
           /\ totallyFree' = totallyFree + (IF Spawnable(idx) /\ allDead THEN 1 ELSE 0)
           /\ lastNonDead' = IF dying THEN lastNonDead ELSE idx
    /\ idx' = idx + 1
    /\ UNCHANGED <<boardVars, procVars, childVars, pod, ppc, forkVars, rateVars,
                   signalVars, nextAction>>

(* zevent_pod_signal and zevent_pod_killpg *)
PodSignal(c) == pod' = IF Len(pod) < PodCap THEN Append(pod, c) ELSE pod
PodKillpg(c) == pod' = pod \o [k \in 1 .. ServerLimit |-> c]

(* The rest of the maintenance: give up after a sick child, else adjust    *)
(* the limit and kill one child, spawn some or leave things as they are.   *)
Maintain ==
    /\ ppc = "scan"
    /\ idx = ServerLimit \/ (idx >= maxDaemonsLimit /\ totallyFree = spawnRate)
    /\ IF sick /\ active = 0
       THEN /\ shutdownPending' = TRUE /\ childFatal' = TRUE
            /\ ppc' = "loop"
            /\ UNCHANGED <<sick, maxDaemonsLimit, spawnRate, pod, todo>>
       ELSE /\ sick' = FALSE
            /\ maxDaemonsLimit' = lastNonDead + 1
            /\ \/ /\ idle > MaxSpare
                  /\ PodSignal("graceful")
                  /\ spawnRate' = 1
                  /\ ppc' = "loop"
                  /\ UNCHANGED todo
               \/ /\ idle < MinSpareThreads /\ free # <<>>
                  /\ todo' = SubSeq(free, 1, IF Len(free) > spawnRate THEN spawnRate ELSE Len(free))
                  /\ ppc' = "spawn"
                  /\ UNCHANGED <<spawnRate, pod>>
               \/ /\ idle <= MaxSpare
                  /\ idle < MinSpareThreads => free = <<>>
                  /\ spawnRate' = 1
                  /\ ppc' = "loop"
                  /\ UNCHANGED <<pod, todo>>
            /\ UNCHANGED <<shutdownPending, childFatal>>
    /\ idx' = 0 /\ idle' = 0 /\ active' = 0 /\ lastNonDead' = -1
    /\ free' = <<>> /\ totallyFree' = 0
    /\ UNCHANGED <<boardVars, procVars, childVars, born, restartPending, isGraceful,
                   nextAction>>

(* Mutant: the spawn rate is doubled without a limit. *)
SpawnDoneUncapped ==
    /\ ppc = "spawn" /\ todo = <<>>
    /\ spawnRate' = 2 * spawnRate
    /\ ppc' = "loop"
    /\ UNCHANGED <<boardVars, procVars, childVars, pod, forkVars, scanVars,
                   maxDaemonsLimit, sick, signalVars, nextAction>>

(* All children of this pass are made: spawn twice as many the next time. *)
SpawnDone ==
    /\ ppc = "spawn" /\ todo = <<>>
    /\ spawnRate' = IF spawnRate < MaxSpawnRate THEN 2 * spawnRate ELSE spawnRate
    /\ ppc' = "loop"
    /\ UNCHANGED <<boardVars, procVars, childVars, pod, forkVars, scanVars,
                   maxDaemonsLimit, sick, signalVars, nextAction>>

(***************************************************************************)
(* Parent: signals, shutdown and restart.                                  *)
(***************************************************************************)

(* sig_term and restart *)
Signal(sig) ==
    /\ ppc # "returned"
    /\ \/ /\ sig \in {"SIGTERM", "GRACEFUL_STOP"}
          /\ shutdownPending' = TRUE
          /\ isGraceful' = IF shutdownPending THEN isGraceful ELSE sig = "GRACEFUL_STOP"
          /\ UNCHANGED restartPending
       \/ /\ sig \in {"SIGHUP", "SIG_GRACEFUL"}
          /\ restartPending' = TRUE
          /\ isGraceful' = IF restartPending THEN isGraceful ELSE sig = "SIG_GRACEFUL"
          /\ UNCHANGED shutdownPending
    /\ UNCHANGED <<boardVars, procVars, childVars, pod, ppc, forkVars, scanVars,
                   rateVars, childFatal, nextAction>>

(* The slots zevent_reclaim_child_processes and its sibling look at. *)
Used == {i \in Slots : i < maxDaemonsLimit /\ parentPid[i] # None}
Done == {i \in Used : pstate[parentPid[i]] \in {"zombie", "gone"}}

(* reclaim_one_pid on every used slot: ended children are waited for and   *)
(* forgotten.  This is all that zevent_relieve_child_processes does.       *)
Relieve ==
    /\ pstate' = [p \in Pids |->
          IF \E i \in Done : parentPid[i] = p THEN "gone" ELSE pstate[p]]
    /\ parentPid' = [i \in Slots |-> IF i \in Done THEN None ELSE parentPid[i]]

(* zevent_mpm_safe_kill(pid, 0): the process exists, if only as a zombie. *)
SafeKill(i, pid, state) == pid[i] # None /\ state[pid[i]] # "gone"

(* After the main loop: the characters of death and, for a graceful        *)
(* shutdown, zevent_relieve_child_processes.                               *)
Stop ==
    /\ ppc = "loop" /\ Pending
    /\ PodKillpg(IF isGraceful THEN "graceful" ELSE "forced")
    /\ IF shutdownPending /\ isGraceful
       THEN Relieve /\ shutdownPending' = FALSE
       ELSE UNCHANGED <<pstate, parentPid, shutdownPending>>
    /\ ppc' = IF ~isGraceful THEN "reclaim"
              ELSE IF shutdownPending THEN "drain" ELSE "returned"
    /\ UNCHANGED <<quiescing, status, slot, code, sent, childVars, forkVars, scanVars,
                   rateVars, restartPending, isGraceful, childFatal, nextAction>>

(* A graceful shutdown waits until no recorded child is left or SIGTERM    *)
(* comes, and then turns to force.                                         *)
Drain ==
    /\ ppc = "drain"
    /\ Relieve
    /\ IF shutdownPending \/ \A i \in Slots : ~SafeKill(i, parentPid', pstate')
       THEN ppc' = "reclaim" /\ PodKillpg("forced")
       ELSE UNCHANGED <<ppc, pod>>
    /\ UNCHANGED <<quiescing, status, slot, code, sent, childVars, forkVars, scanVars,
                   rateVars, signalVars, nextAction>>

(* Mutant: the last resort is one more SIGTERM. *)
ActionTableNoKill == <<"DO_NOTHING", "SEND_SIGTERM", "SEND_SIGTERM", "SEND_SIGTERM",
                       "SEND_SIGTERM", "GIVEUP">>

ActionTable == <<"DO_NOTHING", "SEND_SIGTERM", "SEND_SIGTERM", "SEND_SIGTERM",
                 "SEND_SIGKILL", "GIVEUP">>

(* Mutant: the next action is taken again and again. *)
ReclaimRoundStuck(due) ==
    /\ ppc = "reclaim"
    /\ LET action     == IF due THEN ActionTable[nextAction + 1] ELSE "DO_NOTHING"
           stragglers == {parentPid[i] : i \in Used \ Done}
       IN  /\ Relieve
           /\ ppc' = IF stragglers = {} \/ action = "GIVEUP" THEN "returned" ELSE ppc
    /\ UNCHANGED <<quiescing, status, slot, code, sent, childVars, pod, forkVars,
                   scanVars, rateVars, signalVars, nextAction>>

(* One round of zevent_reclaim_child_processes, with the next action if    *)
(* its time has come.  kill() only sends the signal: a straggler may live  *)
(* on, SIGKILL or not, when the last round gives up.                       *)
ReclaimRound(due) ==
    /\ ppc = "reclaim"
    /\ LET action     == IF due THEN ActionTable[nextAction + 1] ELSE "DO_NOTHING"
           stragglers == {parentPid[i] : i \in Used \ Done}
           signal     == CASE action = "SEND_SIGTERM" -> "SIGTERM"
                           [] action = "SEND_SIGKILL" -> "SIGKILL"
                           [] OTHER                   -> None
       IN  /\ Relieve
           /\ sent' = [p \in Pids |-> IF p \in stragglers /\ signal # None
                                      THEN signal ELSE sent[p]]
           /\ ppc' = IF stragglers = {} \/ action = "GIVEUP" THEN "returned" ELSE ppc
    /\ nextAction' = IF due THEN nextAction + 1 ELSE nextAction
    /\ UNCHANGED <<quiescing, status, slot, code, childVars, pod, forkVars, scanVars,
                   rateVars, signalVars>>

ParentStep ==
    \/ \E p \in Pids : Fork(p) \/ Reap(p)
    \/ ForkFail \/ RecordChild \/ StartupDone \/ Timeout \/ ScanSlot \/ Maintain
    \/ SpawnDone \/ Stop \/ Drain \/ ReclaimRound(TRUE)

Returned == ppc = "returned" /\ UNCHANGED vars

Next ==
    \/ ParentStep \/ ReclaimRound(FALSE) \/ Returned
    \/ \E p \in Pids : ChildStep(p) \/ ChildDies(p) \/ DieOfSignal(p)
    \/ \E sig \in Signals : Signal(sig)

(* The parent is scheduled, and time passes for its reclaim; nothing is    *)
(* assumed of the children, not even that SIGKILL ends them in time, or of *)
(* the signals.                                                            *)
Fairness == WF_vars(ParentStep)

Spec == Init /\ [][Next]_vars /\ Fairness

(***************************************************************************)
(* Properties.                                                             *)
(***************************************************************************)

BoardTypes ==
    /\ parentPid \in [Slots -> Pids \cup {None}] /\ quiescing \in [Slots -> BOOLEAN]
    /\ status \in [Slots -> [Threads -> Statuses]]

ProcTypes ==
    /\ pstate \in [Pids -> {"unborn", "alive", "zombie", "gone"}]
    /\ slot \in [Pids -> Slots]
    /\ code \in [Pids -> {"ok", "CHILDSICK", "CHILDFATAL", "signaled"}]
    /\ sent \in [Pids -> {None, "SIGTERM", "SIGKILL"}]

ChildTypes ==
    /\ workers \in [Pids -> SUBSET Threads] /\ created \in [Pids -> 0 .. CreatedBound]
    /\ scan \in [Pids -> 0 .. ThreadsPerChild + 1]
    /\ listener \in [Pids -> {"none", "accepting", "term", "dying", "quiesced"}]
    /\ mode \in [Pids -> {"init", "graceful", "forced"}]
    /\ pod \in Seq({"graceful", "forced"})

ScanTypes ==
    /\ idx \in 0 .. ServerLimit /\ idle \in Nat /\ active \in Nat
    /\ free \in Seq(Slots) /\ totallyFree \in 0 .. ServerLimit
    /\ lastNonDead \in -1 .. ServerLimit - 1

ParentTypes ==
    /\ ppc \in {"startup", "loop", "scan", "spawn", "drain", "reclaim", "returned"}
    /\ todo \in Seq(Slots) /\ born \in Pids \cup {None}
    /\ maxDaemonsLimit \in -1 .. ServerLimit /\ spawnRate \in 1 .. 2 * MaxSpawnRate
    /\ sick \in BOOLEAN /\ shutdownPending \in BOOLEAN /\ restartPending \in BOOLEAN
    /\ isGraceful \in BOOLEAN /\ childFatal \in BOOLEAN /\ nextAction \in 1 .. 6

(* Every variable has its type; in particular the spawn rate stays within  *)
(* twice its maximum and slots to fork into are slots.                     *)
TypeOK == BoardTypes /\ ProcTypes /\ ChildTypes /\ ScanTypes /\ ParentTypes

Accepting(p) == Alive(p) /\ listener[p] # "quiesced"

(* A child that has not announced its end is known to the parent: its slot *)
(* holds its pid, or make_child is about to write it.                      *)
NoLostChild ==
    \A p \in Pids : Accepting(p) => p = born \/ parentPid[slot[p]] = p

(* Two children in one scoreboard slot never both accept connections: the  *)
(* maintenance forks only where there is no process or it "is going away". *)
OneListenerPerSlot ==
    \A p, q \in Pids : Accepting(p) /\ Accepting(q) /\ slot[p] = slot[q] => p = q

(* The free list names each slot once, totally free slots first as far as  *)
(* it was filled, and what the scan found free is still free when the      *)
(* maintenance forks into it, whatever the children did in between: no     *)
(* process has the slot, or one that is going away.                        *)
FreeListSound ==
    LET slots   == IF ppc = "scan" THEN free ELSE todo
        pending == IF born = None THEN 1 ELSE 2
    IN  /\ ppc = "scan" => totallyFree <= Len(free) /\ \A k \in DOMAIN free : free[k] < idx
        /\ ppc \in {"scan", "startup", "spawn"} =>
              /\ IsInjective(slots)
              /\ \A k \in pending .. Len(slots) :
                    parentPid[slots[k]] = None \/ quiescing[slots[k]]

(* A slot make_child may use. *)
Vacant(i) == parentPid[i] = None \/ quiescing[i]

(* Where the parent's locals stand in each phase: a child that is not      *)
(* recorded yet belongs to the first slot of the list, and between two     *)
(* scans the scan's locals are those it starts with.                       *)
ParentPhases ==
    /\ born # None => todo # <<>> /\ slot[born] = Head(todo) /\ pstate[born] # "unborn"
    /\ todo # <<>> => ppc \in {"startup", "spawn"}
    /\ ppc # "scan" => idx = 0 /\ free = <<>> /\ totallyFree = 0
    /\ ppc \notin {"reclaim", "returned"} => nextAction = 1
    /\ ppc = "reclaim" => nextAction <= 5

(* The slots the scan has collected and the slots left to fork into. *)
ScanSound ==
    /\ totallyFree <= Len(free) /\ totallyFree <= idx
    /\ \A k \in 1 .. Len(free) : free[k] < idx /\ Vacant(free[k])
    /\ IsInjective(free)

TodoSound ==
    /\ \A k \in 1 .. Len(todo) : Vacant(todo[k])
    /\ IsInjective(todo)

(* quiescing speaks of the process the slot's pid names, and a pid in the  *)
(* scoreboard belongs to a process that was forked.                        *)
Quiescent ==
    \A i \in Slots : parentPid[i] # None =>
        /\ pstate[parentPid[i]] # "unborn"
        /\ quiescing[i] /\ Alive(parentPid[i]) => listener[parentPid[i]] = "quiesced"

(* After SEND_SIGKILL every child that the next round finds alive has been *)
(* sent it.                                                                *)
Killed ==
    ppc = "reclaim" /\ nextAction = 5 =>
        \A i \in Used : Alive(parentPid[i]) => sent[parentPid[i]] = "SIGKILL"

(* The inductive invariant of the proofs. *)
IInv ==
    /\ TypeOK /\ ParentPhases /\ ScanSound /\ TodoSound /\ Quiescent /\ Killed
    /\ NoLostChild

(* zevent_reclaim_child_processes gives up on no child it could have ended: *)
(* when it returns, each slot it looks at is cleared and its child waited  *)
(* for, or its child, ignoring the pipe and SIGTERM, was sent SIGKILL in   *)
(* an earlier round and was still there at the last look.                  *)
NoStragglerSpared ==
    [][ppc = "reclaim" /\ ppc' = "returned" =>
          \A i \in Used : \/ parentPid'[i] = None /\ pstate'[parentPid[i]] = "gone"
                          \/ parentPid'[i] = parentPid[i] /\ sent[parentPid[i]] = "SIGKILL"]_vars

(* A forced shutdown the main loop can see, and SIGTERM during a graceful  *)
(* one, make zevent_run return, whatever the children do; unless a         *)
(* graceful restart is requested too, which makes the shutdown graceful    *)
(* because sig_term and restart share is_graceful.                         *)
ShutdownCompletes ==
    shutdownPending /\ (ppc = "drain" \/ (ppc # "startup" /\ ~isGraceful))
        ~> ppc = "returned" \/ (restartPending /\ isGraceful)

(* The comment on zevent_max_daemons_limit: "the max child slot ever       *)
(* assigned", used by the routines that scan the scoreboard.  TLC refutes  *)
(* it with two slots (README).                                             *)
LimitCoversChildren ==
    ppc = "loop" => \A i \in Slots : parentPid[i] # None => i < maxDaemonsLimit

(* scoreboard.c: "only one process writes to a given scoreboard slot at a  *)
(* time": no two live children have a worker in the same thread slot.  TLC *)
(* refutes it with one slot of two threads and three processes (README).   *)
SlotWriter ==
    \A p, q \in Pids : Alive(p) /\ Alive(q) /\ slot[p] = slot[q] /\ p # q =>
        workers[p] \cap workers[q] = {}
=============================================================================
