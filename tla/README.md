# Formal models of the zevent server

zevent (`src/src`) is a multi-process, multi-threaded event server in the style
of Apache's event MPM: a parent process keeps a pool of child processes, each
child has a listener thread that polls connections and a fixed set of worker
threads that run an application's connection hook.  This directory holds TLA+
models of that core and of the libraries beside it that other threads or
signal handlers share (`common/`, the shared cache of `apps/zcache`), the TLC
instances that check them, and TLAPS proofs of the results that hold for every
size of the server.

Line numbers below refer to the files under `src/`; `PROJECT.json` maps each
definition to the lines it models.

## 1. Inventory

| Component | State it keeps | Operations | Interacts through | Modelled in |
|---|---|---|---|---|
| child process: main, start, listener and worker threads (`src/zevent.c`) | `terminate_mode`, `listener_may_exit`, `workers_may_exit`, `start_thread_may_exit`, `dying`, `worker_sockets`, the pollset | `child_main`, `start_threads`, `listener_thread`, `worker_thread`, `signal_threads`, `join_*` | the worker queue, the scoreboard, the pipe of death, SIGTERM to itself | `ChildProcess` |
| worker queue and idle count (`src/fdqueue.c`) | `data[]`, `nelts`, `terminated`; `idlers`, `terminated` | push, pop, interrupt_all, term; set_idle, wait_for_idler, info_term | two mutexes and two condition variables, an atomic counter | `ChildProcess` |
| recycled pools (`src/fdqueue.c`) | a linked list whose nodes lie in the pools | `zevent_push_pool`, `zevent_pop_pool` | compare-and-swap | `RecycledPools`, `PoolStack` |
| parent process (`src/zevent.c`) | `zevent_max_daemons_limit`, `idle_spawn_rate`, pending flags, free list | `make_child`, `startup_children`, `perform_idle_server_maintenance`, `server_main_loop`, `sig_term`, `restart`, `zevent_run` | fork, wait, signals, scoreboard, pod | `ServerParent` |
| child reclaim (`src/zevent_mpm.c`) | the action table | `reclaim_one_pid`, `zevent_reclaim_child_processes`, `zevent_relieve_child_processes`, `zevent_mpm_safe_kill`, `zevent_process_child_status` | kill, waitpid | `ServerParent` |
| scoreboard (`src/scoreboard.c`) | pid, quiescing and thread statuses of each slot | `find_child_by_pid`, `zevent_update_child_status` | shared memory, no lock | `ServerParent`, `ChildProcess` |
| pipe of death (`src/pod.c`) | unread characters | check, signal, killpg | a pipe shared by all children | `ServerParent`, `ChildProcess` |
| accept (`src/zevent_network.c`) | none | `unixd_accept` | the listener | `ChildProcess` |
| alarm (`src/zevent_alarm.c`) | the list `thealarms`, `regnum`, `start_alarms`, the interval timer | register, unregister, unregister_all, `run_alarms`, `alarm_handler`, `set_an_alarm` | SIGALRM, callbacks | `Alarm` |
| blocking queue (`common/misc/queue.c`) | the ring, two counts of waiters, `terminated` | push, trypush, pop, trypop, interrupt_all, term | a mutex, two condition variables | `BlockingQueue`, `BoundedFifo` |
| resource list (`common/misc/reslist.c`) | `ntotal`, the ring of idle resources with their times, `timeout` | create, acquire, release, maintenance, invalidate, destroy | a mutex, a condition variable, constructors | `ResList` |
| connection pool (`common/pool/conn_pool.c`) | `svr->connpool`, `svr->mutex` | init, acquire with late set-up, release, remove, fini | the resource list | `ConnPool` |
| shared cache (`apps/zcache/src/zcache_shmcb.c`) | per division a cyclic array of indexes and a cyclic buffer | store, retrieve, remove, with expiry and scrolling | shared memory under one mutex | `ShmCb`, `SessionLog` |
| ini file and dictionary, log, hooks (`src/`) | - | - | - | no (section 8) |
| hash, allocator, locks (`common/`) | - | - | - | no (section 8) |
| rtservice (`apps/`), znet | - | - | - | no (section 8) |

What is hard to get right here, and hard to test:

* the listener and the workers agree on the number of idle workers with one
  atomic counter and one condition variable, and the queue's capacity rests on
  that agreement alone (`zevent_queue_push` tests no bound);
* termination is started by any of three threads, travels over flags, a queue,
  two broadcasts, a signal and a pipe, and some of these are read outside the
  lock that protects them;
* recycled pools are reused while the listener is in the middle of a pop;
* a scoreboard slot may hold a dying process and its successor, both of which
  write it while the parent reads it to decide where to fork;
* the shutdown must end although children may ignore it, may die at any time,
  and signals may come at any point;
* the queue and the resource list signal one waiter per event, and what the
  event announced may be gone, or the call may fail, before the waiter runs;
* the connection pool looks at its list without the lock, and shows it to other
  threads before its timeout is set;
* the cyclic buffer cannot tell full from empty by its offsets;
* the alarm list is changed by the program, by callbacks and by the handler
  that interrupts the program.

The hazards list of `PROJECT.json` has each of these at its line, with the
properties that would catch it.

## 2. Modules

`ChildProcess` - one child.  Each thread has a program counter (`mpc`, `spc`,
`lpc`, `wpc[w]`).  A step is the code between two places where another thread
can see or change what it uses; a critical section of `idlers_mutex` or
`one_big_mutex` is one step, cut only where it blocks on its condition
variable.  So `set_idle` is `SetIdle` (the atomic increment) and
`SetIdleSignal` (signal under the mutex), `wait_for_idler` is `GetWorker`
(decrement), `WaitForIdlerLock` (re-check under the mutex), the wait itself, and
`WaitForIdlerReturn`; `zevent_queue_pop` is `QueuePop`, the wait,
`QueuePopWoken` and `QueuePopEmpty` (the read of `terminated` after the
unlock); `close_worker_sockets` is a test and a separate close per entry.
Connections are model values: a transaction pool carries one connection at a
time, so the two are one thing, and it is in the pollset, in the queue, at a
worker or in the recycled list.  The queue is a sequence used as a stack, as in
the code; where C would write past the end of `data[]` (undefined behaviour)
the sequence simply grows, which is what `QueueBound` and `QueueFits` measure.
The connection hook is external: it keeps a connection (back to the pollset) or
fails (closed, pool recycled), which is what the echo server does.  The parent's
orders are `MainPodRead` and `ParentSigterm`.

A worker thread is named by the order of its creation, and `entry[w]` is the
thread entry of the scoreboard slot it was created for; two threads may get the
same entry, and `threads[i]` then names the later one (`Latest`).  Of the board
the model keeps what the start thread reads: `vacant`, the entries whose status
is SERVER_DEAD or SERVER_GRACEFUL.  Others write them too (`BoardInput`).
Threads of an older process write the entries `ForeignSlots` (`OthersTake`,
`OthersLeave`).  Once this process has set `dying` and `quiescing` the parent
may give the slot away, and then any entry may change: by threads of a
successor, by the parent's reap of it, which marks every entry dead
(`SuccessorReaped`, `src/zevent.c:1402`), and by a fork that fails, which marks
the first (`SuccessorForkFails`, `src/zevent.c:1164`).  This environment is
larger than the real one: `dying` stands for `dying` and `quiescing` together,
and the parent's own condition for using a quiescing slot, that one of its
entries is dead, is not asked for.  What is proved of the child holds for all
of it.

`RecycledPools` - the compare-and-swap list, one action per memory access that
matters.  `UsePool` lets the owner of a pool overwrite the list node inside it
with anything, as clearing or allocating from the pool does.  `stack` is a
history variable, the list in the order of successful exchanges.  `PoolStack`
is the abstract specification: an atomic stack whose pools belong to the stack
or to one thread.  `ChildProcess` uses that abstraction (`recycled`).

`ServerParent` - the parent and its children as they meet in the scoreboard,
the pod and the process table.  `make_child` is `Fork` (the child runs from
there) and `RecordChild` (the pid is written afterwards), or `ForkFail`.  The
maintenance is one `ScanSlot` per slot, `Maintain`, and the forks; a slot's
threads are read in one step.  `server_main_loop` is `Reap` and `Timeout`; the
end of `zevent_run` is `Stop`, `Drain`, `ReclaimRound`.  A child is reduced to
what it writes to the scoreboard and how it ends.  `due` in `ReclaimRound` says
whether the next action's time has come.  `ReclaimRound` waits for
who has ended and only sends its signal to the others: `sent[p]` is the last one
sent, and `DieOfSignal` is its effect, at any later time or never.  SIGKILL ends
any child; SIGTERM only one whose main thread has not installed
`dummy_signal_handler`, for which the model takes one that has not read the pod,
a superset.  So the reclaim may come to GIVEUP with a child alive, the case that
the comment at `src/zevent_mpm.c:115` provides for.

`BlockingQueue` - a step is one critical section up to its unlock or its wait,
or one access outside the mutex: the look at `terminated` that starts a call
(`Begin`), and the one after a failed call's unlock (`AfterUnlock`).  Sleeping
and woken threads are places of `pc`, so a signal is a choice of one sleeper.
`BoundedFifo` is the abstract specification, two actions and two variables;
`Fifo == INSTANCE BoundedFifo WITH fifo <- Contents` maps the ring to it, read
from `out` on, and every failed or interrupted call to a stutter.

`ResList` - every function is one critical section, `reslist_release` two.
Resources are model values.  A thread whose timed wait ran out is "late" until
it has the mutex, and may use up a signal meanwhile, as POSIX allows.
`dropped` is a history variable: a wakeup was used up by a call that failed
while others slept.  `ConnPool` extends it with the pool: `SetupLock` and
`SetupCreate` are the second look under the mutex and `reslist_create`,
`SetupTimeout` the separate `reslist_timeout_set`.

`ShmCb` - one division; each operation holds the cache's mutex and is one step.
Loops that walk the front (expiry, scrolling) are the number of entries they
pass, described by what makes them stop.  A value of n bytes is n different
bytes, so that `Cton` of a damaged entry shows.  A retrieve that finds an entry
may have no memory for the copy (`zcache_shmcb.c:1099`); it returns NULL as a
miss does, but has set `*nlen`, and the model calls that reply `NoMemory`.
`SessionLog` is the abstract specification: a sequence of entries with key, expiry, removed flag and data,
that loses entries at its front, gains one at its end, and flags one;
`Log == INSTANCE SessionLog WITH log <- ..., Payloads <- ...` decodes the cyclic
memory to it.

`Alarm` - contexts "main" and "handler" step through library calls (`call[c]`);
the handler interrupts "main" between any two steps, and a callback is the
context "handler" making calls of its own before `CallbackReturn`.  The entry is
linked before it is filled, as in the code, and each access through `sa_pptr`
is made at the place the list has by then.  A use of freed or unfinished memory
sets `broken`, after which nothing is claimed.  The assignments to the members
of a new entry are one step, and the timer starts when the clock is read.

At the end of each module stand the invariants its proofs need beside the ones
the runs check (section 6).

`SequenceFacts` - facts about `Front`, `Append`, `SubSeq` and least numbers used
by the proofs.
`MCChild`, `MCParent`, `MCPools`, `MCQueue`, `MCConnPool`, `MCShm`, `MCAlarm` -
symmetry sets and constants for the TLC instances.
`ChildProcessProofs`, `RecycledPoolsProofs`, `ServerParentProofs`,
`BlockingQueueProofs`, `ConnPoolProofs`, `ShmCbProofs`, `AlarmProofs` -
section 6.

## 3. Runs that pass

| Run | Instance | Properties |
|---|---|---|
| `child_queue` | 1 worker, 3 connections, every failure, 1 spurious wakeup | `TypeOK`, `IdlersAccount`, `QueueBound` |
| `child_conns` | 2 workers, 2 connections, an older thread in one entry, failures of poll, accept and pool creation | `OnePlace`, `WorkersDrain`, `OneThreadPerEntry`, `NoPushAfterTerm` |
| `child_live` | 2 workers, 1 connection, an older thread in one entry, graceful and forced | `ListenerWoken`, `ChildExits` |
| `parent_slots` | 2 slots, 2 threads each, 2 processes, children that quiesce on their own | `TypeOK`, `NoLostChild`, `OneListenerPerSlot`, `FreeListSound` |
| `parent_stop` | 1 slot, 2 processes, all four signals, every failure | `NoStragglerSpared`, `ShutdownCompletes` |
| `pools` | 3 pools, 2 workers and the listener | `Linked`, `OwnedOnce`, `PopLocal`, `ImplementsStack` |
| `queue` | 3 threads, 2 values, capacity 2, spurious wakeups | `TypeOK`, `WaitersCounted`, `NoLostWakeup`, `TermLeavesNoSleeper`, `FifoSpec`, `TermEndsCalls` |
| `conn_pool` | 5 threads, 3 resources, limits 1, 1, 2, ttl 1, timeout set | `PoolTypeOK`, `Accounting`, `OwnedOnce`, `AvailOrdered`, `NoLostWakeup`, `SetupOnce`, `UntimedOnlyInSetup` |
| `shm` | 3 indexes, 4 bytes, values of 1 and 3 bytes, 2 ids under different keys (the second stores short values only) | `TypeOK`, `Contiguous`, `LogSpec`, `StoreFailsOnly` |
| `alarm` | 3 registrations, intervals 0, 1 and 2, 4 clock readings | `TypeOK`, `TimerCovers`, `CalledOnTime`, `CallbacksSafe` |

What they show:

* `IdlersAccount` - while the listener hands out connections, `idlers` is the
  number of workers that announced themselves, less the queued connections, less
  the listener's own reservation; through every interleaving of the atomic
  updates and the queue.
* `QueueBound` - a consequence of that and of the signals that can be
  outstanding: at most two connections per worker created (plus one per
  spurious wakeup) are queued.  The array has room for ThreadsPerChild (section 4).
* `OnePlace` - a connection is in one place at a time, and until workers are
  forced out none is lost.
* `WorkersDrain` - a woken worker reads `terminated` after it released the
  mutex, and may leave although something was queued for it; yet without
  spurious wakeups the workers between them leave nothing in the queue.
* `NoPushAfterTerm` - nothing is queued after `zevent_queue_term`.
* `OneThreadPerEntry` - the start thread goes by what the board says.  Until the
  process is quiescing it starts no second worker over a running one in an entry
  that no older thread writes; it may in the others (section 4, `AllJoined`).
* `ListenerWoken`, `ChildExits` - no wakeup of the listener is lost, and a child
  whose main thread knows that it should stop does stop, also one whose start
  thread still waits for an entry that an older process holds for ever.
* `NoLostChild`, `OneListenerPerSlot` - the maintenance works from statuses,
  pids and quiescing flags that children change under it, and still never forks
  over a child that accepts connections.
* `FreeListSound` - the list shuffled in place keeps every slot once, and each
  is still free when its turn comes.
* `NoStragglerSpared`, `ShutdownCompletes` - the reclaim does return, and when it
  does each slot it looks at has been cleared after a wait for its child, or the
  child was sent SIGKILL in an earlier round and was still there at the last
  look: it never gives up on a child it could still have killed, and never
  clears the slot of one that lives.  A graceful restart requested
  after the SIGTERM is excepted: `sig_term` and `restart` share `is_graceful`
  (`src/zevent.c:320`), so the shutdown becomes graceful and waits.
* `Linked`, `OwnedOnce`, `PopLocal`, `ImplementsStack` - the list is what its
  nodes say, a pool has one owner, and the list implements `PoolStack`.  It is
  the single popper that makes it safe against reuse of nodes.
* `FifoSpec` - whatever pushes, pops, tries, interrupts and terminations do to
  each other, what was pushed comes out once and in order, and never more than
  the capacity is held: a woken push or pop that finds its slot or element gone
  gives up instead of going on.
* `NoLostWakeup` (queue) - while a thread sleeps for an element, every element
  has a woken thread coming for it, and likewise for free slots.  A trypop or a
  new pop may take it first, so the property counts; `WaitersCounted` is what
  the signals depend on.
* `TermLeavesNoSleeper`, `TermEndsCalls` - the argument of the comment in
  `queue_term`, and its consequence that every call returns.
* `Accounting`, `OwnedOnce` - `ntotal` is what is idle and what is out, through
  every expiry and failure, is at most `hmax` and is zero when `reslist_cleanup`
  asserts so; a resource has one owner.
* `AvailOrdered` - the ring is ordered by the time of release, on which the early
  end of `reslist_maint`'s loop rests (its clock is assumed not to go back).
* `NoLostWakeup` (resource list) - no waiter sleeps while something is free for
  it, except after the event `dropped` records (section 4, observations).
* `SetupOnce`, `UntimedOnlyInSetup` - the list is created once and nobody uses
  it before; a wait without the configured timeout can only begin in the window
  between `reslist_create` and `reslist_timeout_set`.
* `Contiguous`, `LogSpec` - entries lie one behind the other from the first
  position to the count, so the distance of two offsets is the sum of the
  lengths although full and empty look alike; and the memory decodes to a log
  whose entries keep key, expiry and bytes until they leave at the front.  A
  retrieve misses only when no entry under its key is live.
* `StoreFailsOnly` - a value that fits the cache is refused only when the index
  is full or the one entry that is never scrolled off leaves too little room.
* `TimerCovers` - whenever the program is outside the library, the timer runs or
  its signal is pending, early enough for the first alarm, except after a delay
  of exactly zero.
* `CalledOnTime`, `CallbacksSafe` - no callback comes before its interval has
  passed, and callbacks may unregister themselves or all alarms and register
  new ones; both as long as the signal does not interrupt a call.

## 4. Runs that find a disagreement

Each states what a comment of the code says and finds a behaviour that breaks
it; the quotation is in `PROJECT.json`, `findings`.

* `child_overflow` (`QueueFits`, `src/zevent.c:487`) - `wait_for_idler` waits
  once, without a loop.  A worker increments `idlers` from below zero and is
  delayed before it signals; its signal ends a later wait of the listener, and a
  second connection is queued for a busy worker, past the array's end when
  ThreadsPerChild is 1.
* `child_early_return` (`TerminationCompletes`, `src/zevent.c:562`) - the
  listener that cannot create its pollset or a pool returns without terminating
  the queue or waking the main thread.  A later graceful order of the parent
  leaves every thread waiting for another, so this run alone switches TLC's
  deadlock check off: the lasso, not the deadlock, is the counterexample.

### Statements that TLC refutes

These definitions state what a comment says, as the two above do, and are kept
with the models.  Each is refuted within seconds by the instance named, as the
only property of a cfg.

* `MainWoken` (`ChildProcess`; 1 worker, 1 connection, `Failures = {"poll"}`) -
  the listener's only SIGTERM may arrive when the main thread is not in `read`,
  and `dummy_signal_handler` leaves no trace of it (`src/zevent.c:709`, "wake up
  the main thread").
* `AllJoined` (`ChildProcess`; constants of `ChildConns.cfg`) - not every worker is
  joined (`src/zevent.c:1130-1135`, "If the worker hasn't exited, then this
  blocks until they have").  A process is quiescing while its start thread still
  waits for an entry of an older process and its first worker is busy.  The
  older thread ends and leaves its entry dead, so the parent tries to fork into
  the slot; the fork fails, which marks the first entry dead, and the start
  thread starts another thread there.  `threads[0]` now names that one, only it
  is joined, and `exit()` ends the busy worker in the middle of its connection.
* `NoNullClose` (`ChildProcess`; 1 worker, 1 connection, no failures, `Forced`) -
  a worker clears its entry of `worker_sockets` between the test and the close
  (`src/zevent.c:153`).  Which value the close uses is up to the compiler; the
  model has both.
* `SlotWriter` (`ServerParent`; 1 slot, 2 threads, 3 processes, no signals,
  `Failures = {"listener"}`) - reaping the second process of a slot marks the
  first one's running threads dead, and a third process takes their entries
  (`src/zevent.c:1402`; `src/scoreboard.c:254`, "only one process writes to a
  given scoreboard slot at a time").
* `LimitCoversChildren` (`ServerParent`; 2 slots, 1 thread, 2 processes) - the
  maintenance lowers `zevent_max_daemons_limit` below the slot of a live child,
  which the reclaim then does not look at (`src/zevent.c:1323`).
* `StoresNeverFail` (`ShmCb`; instance of `Shm.cfg`) - a store fails when all
  indexes are in use by entries that leave room in the buffer, because only
  missing bytes make entries scroll off (`zcache_shmcb.c:285`, "in this cache
  engine, "stores" should never fail").
* `AlarmsScheduled` (`Alarm`; instance of `Alarm.cfg`) - an alarm due at exactly
  the time that `set_an_alarm` reads is not past for `run_alarms`, and "still in
  the future" for `get_next_alarm_delay_time` with a delay of zero; `setitimer`
  with a zero `it_value` stops the timer, and no alarm is served until the next
  registration (`src/zevent_alarm.c:241-289`).

### Observations

Seen while modelling, in the models as the code has them, without a run of
their own: a SIGTERM during `startup_children` is forgotten, because
`zevent_run` resets the pending flags afterwards (`src/zevent.c:1630`); a
graceful exit terminates the queue whatever is still in the pollset, so
connections that wait for their next request are dropped (`src/zevent.c:704`);
`worker_sockets` names a connection for a moment after the hook has given it
back (`src/zevent.c:788`); a busy worker's status stays SERVER_READY, so the
maintenance counts it as idle.

In the libraries: a pop or push that is woken and finds nothing returns
QUEUE_EINTR although nobody interrupted it (`queue.c:226`); a push that passed
its first look at `terminated` may still succeed after `queue_term`, and a pop
called then returns QUEUE_EOF although elements are left.  A waiter of the
resource list whose constructor fails does not pass its wakeup on, nor does one
that times out while it is signalled (`reslist.c:358`, `:379`); a woken waiter
takes an idle resource whatever its age.  `conn_pool.h:51` documents `timeout`
as milliseconds, and `thread_cond_timedwait` takes microseconds.  In the cache,
remove flags the first index under the key even if that one is removed already,
so a second entry under the key survives two removes; retrieve returns the
oldest entry under a key; a value of length zero would break the accounting
(the model excludes it); in `shmcb_init_memory` the statement of an `if` is
commented out, so the next assignment became its body, which is harmless on
fresh memory.  `zevent_alarm_register` returns the number it reads through the
list at the end: if an alarm was served meanwhile it may be another alarm's.

## 5. Bounds and fairness

* `ThreadsPerChild`, `Conns`: the overflow needs one worker and three
  connections (one served, two queued), a connection duplicated or lost between
  workers needs two of each.  A pool stands for a connection, so `Conns` also
  bounds the connections: the listening socket is only reported while a pool is
  left.
* `MaxSpurious` bounds the listener's spurious wakeups; each allows one more
  connection in the queue.  Workers loop on theirs, so theirs need no bound; with
  0 there are none.
* `MaxThreads` (`ChildProcess`), `CreatedBound` (`ServerParent`, twice the number
  of threads): while the start thread waits for entries it also starts threads
  in those whose workers have left, and in `ChildProcess` in those that others
  marked free; these bound how many in all.  With two entries, one of them
  held by an older thread, and `MaxThreads` 2 the second thread is one in that
  entry, a replacement, or a companion of the first.
* `PodCap` bounds the characters the maintenance leaves unread; `killpg` always
  writes its own.
* `Pids`: a process id is used once; `fork` fails when none is left.  Two
  processes are enough for two to meet in a slot; the three-process hand-over is
  behind `SlotWriter` (section 4).
* `Capacity` 2 with 3 threads: a ring that wraps, a sleeper, a woken thread and a
  third that takes what it was woken for.
* `Min`, `Smax`, `Hmax` = 1, 1, 2 with 5 threads: two holders and three waiters;
  maintenance both creates and expires.  `MaxTime` bounds the clock, in units of
  the ttl.
* `IndexNum` 3, `DataSize` 4: wrapped values, a full index with bytes left and a
  full buffer with indexes left.
* `MaxReg` 3, `MaxTime` 4 (alarm): three entries are a predecessor, an entry and
  one that a callback adds.
* Mutex operations do not fail: the mutexes live as long as the threads.

Fairness of a child: weak fairness of `ListenerStep`, of each `WorkerStep`, of
`StartStep` and of `MainStep` - the operating system schedules a thread that can
run.  What clients send (`ListenerPoll`), the parent's orders, foreign
processes and spurious wakeups are not assumed to happen.  The listener's exit
is in `ListenerStep` because its poll has a timeout of a second.  A hook that
never returns is outside the model.  Fairness of the parent: weak fairness of
`ParentStep`, in which `ReclaimRound(TRUE)` says that time passes.  Nothing is
assumed of children or of signals.

Fairness of the queue: weak fairness of each thread's `Step` inside a call, which
holds the mutex for a bounded time.  Nobody is obliged to call and a sleeper is
woken by signals only.

`parent_stop`, `child_live` and `queue` check liveness and use no symmetry.  The
`alarm` run switches the deadlock check off: the clock is bounded and a broken
program does nothing more.

## 6. Proofs

Every safety property that a passing run checks, invariant or action property,
and the three refinements are theorems, for arbitrary constants under the named
assumptions of the modules: sizes are positive, sets of threads are finite,
NULL and the like are not elements of the sets they stand beside.
`MutexAssumption` (`ConnPool`) keeps threads apart from the two values of
`mutex` that name no thread.

| Module | Invariant proved | Results |
|---|---|---|
| `ChildProcessProofs` | `IInv` (`ChildInvariant`) | `ChildTypes`, `IdleWorkersAccounted`, `QueueIsBounded`, `EntriesNotShared`, `TerminatedQueueShrinks` |
| | `PlacesApart`, `Staffed` | `PoolsInOnePlace`, `WorkersDrainQueue` |
| `RecycledPoolsProofs` | `Inv` (`PoolsSafe`) | `PoolsLinked`, `PoolsOwnedOnce`, `PoolsPopLocal`, `PoolsImplementStack` |
| `ServerParentProofs` | `IInv` (`ParentInvariant`) | `ParentTypesKept`, `ParentNoLostChild`, `ParentOneListener`, `ParentFreeList`, `ParentNoStraggler` |
| `BlockingQueueProofs` | `IInv` (`QueueInvariant`) | `QueueTypes`, `QueueWaitersCounted`, `QueueNoLostWakeup`, `QueueTermLeavesNoSleeper`, `QueueImplementsFifo` |
| `ConnPoolProofs` | `PoolInv` (`PoolInvariant`) | `PoolTypes`, `PoolAccounting`, `PoolOwnedOnce`, `PoolAvailOrdered`, `PoolNoLostWakeup`, `PoolSetupOnce`, `PoolUntimedOnlyInSetup` |
| `ShmCbProofs` | `IInv` (`CacheInvariant`) | `CacheTypes`, `CacheContiguous`, `CacheStoreFails`, `CacheImplementsLog` |
| `AlarmProofs` | `IInv` (`AlarmInvariant`) | `AlarmTypes`, `AlarmTimerCovers`, `AlarmCalledOnTime`, `AlarmCallbacksSafe` |

TLC checked each inductive invariant on the instance of the module's run before
it was proved.  What each argument rests on:

**Child: the count of idle workers.**  `IdlersAccount` bounds the queue by
the number of idle workers minus `idlers`, so the question is how negative
`idlers` may get.  It is not bounded by the counter alone: the listener may go
below zero once per wakeup, and wakeups may be late.  `SignalDebt` is the missing
half: `idlers` less the workers between `SetIdle` and `SetIdleSignal` never
falls below minus the number of workers, minus the spurious wakeups, minus one
while the listener is waiting.  A worker that signals gives back exactly what
the listener takes.  The phase invariants tie program counters to `isIdle`,
`haveIdle` and the flags; `MainPhases` says that the start thread is gone when
workers are forced out, and `Numbered` that the thread `StartScan` creates is a
new one.  The proof has, for each thread, lemmas on types, control (phases),
the board and counting, the last on `Cardinality` facts of `Idle` and
`Signalling`.  `OneThreadPerEntry` needs `EntryTaken`: the entry of a running
worker, where only this process writes, is not shown as free.

**Child: connections and the drained queue.**  `OnePlace` speaks of sets;
`PlacesApart` adds that no pool occurs twice in the queue or in the recycled
list, without which taking one occurrence out would leave another behind.
`WorkersDrain` speaks of the moment when every worker has gone; `Staffed` is
what makes it inductive: while something is queued a worker is on its way to
the queue, and while nothing is, not all workers have been woken in vain - else
a push between their wakeups and their look at `terminated` would find nobody.

**Recycled pools.**  `PopLocal` carries the argument against reuse: what the
listener read is still in the stack, with the same next, because only the
listener takes nodes out.  So a successful exchange takes the top.  The
refinement mapping is the identity on `stack` and `held`.

**Parent.**  `NoLostChild` rests on what `quiescing` means: `Quiescent` says that
it speaks of the process whose pid the slot holds, and `ScanSound` and
`TodoSound` that a slot collected by the scan is still vacant when its turn to
fork comes, although children change the board meanwhile; `ParentPhases` ties
the child forked and not yet recorded to the head of that list.
`OneListenerPerSlot` and `FreeListSound` follow.  `FreeListSound` depends on
the shuffle: `InsertKeeps` shows that putting a slot at the place of the first
partly free one, which moves to the end, loses and doubles none.
`NoStragglerSpared` needs `Killed`: from SEND_SIGKILL to the last round every
child alive in a slot the reclaim looks at has been sent SIGKILL.

**Blocking queue.**  `CursorsAgree` (`in` is `nelts` places after `out`, around
the ring) makes `Contents` grow at its end and shrink at its front, which is the
refinement of `BoundedFifo`; a thread's other steps stutter.  `NoLostWakeup` and
`WaitersCounted` need each other: the code signals only when it counts a waiter.

**Resource list and pool.**  `Accounting` and `NoLostWakeup` need `EmptyHanded`
(a thread in a call holds nothing, so what it gets is counted once) and
`Dormant` (nobody is in a call of a list that does not exist, so `SetupCreate`
starts from nothing).  `AvailOrdered` holds because releases put the latest time
in front and expiry takes from the back.  `SetupOrder` relates the window
between `reslist_create` and `reslist_timeout_set` to the thread inside it.

**Shared cache.**  The cyclic arithmetic is settled first (`IncrementIs` to
`SpaceAround`: on the positions of a ring `CyclicSpace` undoes
`CyclicIncrement`).  `StartsOrdered` derives from `Contiguous` that starts grow
with the index, so that two entries never overlap.  Expiry, scrolling and
`MadeRoom` are then one thing, dropping k entries at the front (`Drops`), and
`Ntoc` writes no byte of an entry in use (`NtocWrites`, `EntryBytes`).  From
these the log of `SessionLog` is what the memory decodes to, step by step.
`StartsOrdered` and the two counts of a loop (`ExpireCountIs`, `ScrollCountIs`)
are inductions; they go through `LeastNumber`, that a set of numbers which is
not empty has a least element, applied to the counterexamples.

**Alarms.**  The difficulty is that the list is hardly ever in order while a call
runs.  `UpToDate` says what may be out of order: the last entry, linked and not
filled or not brought up to date, while its own context registers it, or the
entry whose registration the running alarm interrupted.  The latter has a time
of zero, so `sa_find_next` finds it first and it is the one being called (`cur`);
`CallbackReturn` brings it up to date or removes it.  An entry not yet filled
stops the handler.  `Numbered` makes looking an entry up by its number safe;
`CallPhases` says that nothing moves what a callback's own call has found;
`OnTime` and `Covered` are the two properties carried through the callback and
through the steps after the last `set_an_alarm`.

Only model-checked, because fairness is outside the prover's reach:
`ListenerWoken`, `ChildExits`, `ShutdownCompletes`, `TermEndsCalls`.  The
disagreements of section 4 are refuted, by TLC, on the instances named there.

## 7. Plan

1. The life cycle of znet's peers (`znet/src/znet_peer.c`): `peer_kill` frees a
   peer before it removes it from the table; the time heap of its event loop.
2. The dictionary of the ini parser.
3. Proofs: safety consequences that stand behind the liveness properties, such
   as that a thread of the child that waits always has one that will wake it.

## 8. Not modelled

* `one_process` mode, the generation counter, `remaining_children_to_start` and
  the children a graceful restart leaves to the next call of `zevent_run`: the
  model is one call.
* The cleanups run when the pools of the queue are destroyed, failures of mutex
  operations, statistics in the scoreboard, creation of the shared memory.
* Listener configuration and lingering close (`src/zevent_network.c`): socket
  calls without shared state.
* Logging, hook registration, the ini parser: sequential, no state that the
  core reads while it runs.
* `common/` (hash, allocator, locks): single-threaded structures over raw
  memory or thin wrappers of pthreads.  The redis, mysql and mongo pools repeat
  `conn_pool.c` with other constructors.
* The shared cache beyond one division: the choice of the division by the hash,
  the layout computed at start, the statistics, the byte-wise access, and
  `zcache_shmcb_status`, which expires entries without the mutex.
* znet: planned (section 7).
* `apps/rtservice`: database calls; `libbt`, `minidownloader`, `rtsearch`,
  `upunch`, `webgame`: vendored code or separate programs.
