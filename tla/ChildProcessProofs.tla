------------------------- MODULE ChildProcessProofs -------------------------
(***************************************************************************)
(* Proofs about ChildProcess for any number of threads, connections and    *)
(* shared entries, any failures and any bound on spurious wakeups: its      *)
(* inductive invariant IInv, and from it the types, the account of idle    *)
(* workers, the bound on the queue, and what termination may do to it.     *)
(***************************************************************************)
EXTENDS ChildProcess, SequenceFacts, FiniteSetTheorems, TLAPS

(***************************************************************************)
(* Types.                                                                  *)
(***************************************************************************)

(* SIGTERM changes only what belongs to the main thread. *)
LEMMA DeliverSigtermTypes ==
    ASSUME TypeOK, DeliverSigterm
    PROVE  /\ mpc' \in MainPCs /\ request' \in Modes /\ sigterm' \in BOOLEAN
           /\ exitCode' \in {"running", "ok", "sick", "fatal", "crash"}
           /\ closing' \in 0 .. ThreadsPerChild /\ target' \in Conns \cup {None}
           /\ mpc' \in {mpc, "eintr", "exited"} /\ closing' = closing
  BY DEF TypeOK, DeliverSigterm, CleanChildExit, MainPCs, mainVars, mainRest

(* The steps of the listener keep the types. *)
LEMMA ListenerTypes ==
    ASSUME IInv, ListenerStep \/ ListenerInput
    PROVE  TypeOK'
  <1> USE DEF TypeOK, ListenerPCs, WorkerPCs, MainPCs, Modes,
      dataVars, infoVars, queueVars, connVars, listenerVars, workerVars,
      startVars, mainVars, mainRest, flagVars, offListener,
      SignalThreadsGraceful
  <1>0. TypeOK
    BY DEF IInv
  <1>1. CASE ListenerLeave
    BY <1>0, <1>1 DEF ListenerLeave
  <1>2. CASE ListenerPoll
    BY <1>0, <1>2 DEF ListenerPoll
  <1>3. CASE ListenerPollError
    BY <1>0, <1>3 DEF ListenerPollError
  <1>4. CASE GetWorker
    BY <1>0, <1>4 DEF GetWorker
  <1>5. CASE WaitForIdlerLock
    BY <1>0, <1>5 DEF WaitForIdlerLock
  <1>6. CASE WaitForIdlerReturn
    BY <1>0, <1>6 DEF WaitForIdlerReturn
  <1>7. CASE AcceptNoPool
    BY <1>0, <1>7 DEF AcceptNoPool
  <1>8. CASE ListenerQueueTerm
    BY <1>0, <1>8 DEF ListenerQueueTerm
  <1>9. CASE ListenerDying
    BY <1>0, <1>9 DEF ListenerDying
  <1>10. CASE ListenerSetup
    <2>1. CASE lpc' = "poll" /\ UNCHANGED flagVars
      BY <1>0, <1>10, <2>1 DEF ListenerSetup
    <2>2. CASE lpc' = "gone" /\ SignalThreadsGraceful /\ UNCHANGED resourceShortage
      BY <1>0, <1>10, <2>2 DEF ListenerSetup
    <2> QED
      BY <1>10, <2>1, <2>2 DEF ListenerSetup
  <1>11. CASE ListenerSpuriousWakeup
    BY <1>0, <1>11, SpuriousAssumption DEF ListenerSpuriousWakeup
  <1>12. CASE ListenerInterruptAll
    BY <1>0, <1>12 DEF ListenerInterruptAll, BroadcastNotEmpty
  <1>13. CASE ListenerKillSelf
    BY <1>0, <1>13, DeliverSigtermTypes DEF ListenerKillSelf
  <1>14. ASSUME NEW c \in Conns, Push2Worker(c) PROVE TypeOK'
    <2>1. queue' \in Seq(Conns)
      BY <1>0, <1>14, AppendFacts DEF Push2Worker
    <2>2. wpc' \in [Workers -> WorkerPCs]
      BY <1>0, <1>14 DEF Push2Worker, SignalNotEmpty, Waiting
    <2>3. pollset' \subseteq Conns /\ events' \subseteq Conns \cup {Listen}
      BY <1>0, <1>14 DEF Push2Worker
    <2>4. /\ lpc' \in ListenerPCs /\ haveIdle' \in BOOLEAN
          /\ UNCHANGED <<spurious, infoVars, qTerminated, created, recycled,
                         entry, isIdle, csd, workerSockets, vacant, startVars, mainVars,
                         flagVars>>
      BY <1>14 DEF Push2Worker
    <2> QED
      BY <1>0, <2>1, <2>2, <2>3, <2>4
  <1>15. CASE Accept
    <2>1. PICK ptrans \in IF recycled # <<>> THEN {Last(recycled)} ELSE Conns \ created :
             LET rest == IF recycled # <<>> THEN Front(recycled) ELSE recycled
             IN  /\ created' = created \cup {ptrans}
                 /\ \/ /\ pollset' = pollset \cup {ptrans}
                       /\ recycled' = rest
                       /\ UNCHANGED flagVars
                    \/ /\ recycled' = Append(rest, ptrans)
                       /\ UNCHANGED <<pollset, flagVars>>
                    \/ /\ recycled' = Append(rest, ptrans)
                       /\ resourceShortage' = TRUE
                       /\ SignalThreadsGraceful
                       /\ UNCHANGED pollset
      BY <1>15 DEF Accept
    <2> DEFINE rest == IF recycled # <<>> THEN Front(recycled) ELSE recycled
    <2>2. ptrans \in Conns /\ rest \in Seq(Conns)
      BY <1>0, <2>1, FrontFacts, LenProperties DEF Front, Last
    <2>3. Append(rest, ptrans) \in Seq(Conns)
      BY <2>2, AppendFacts
    <2>4. recycled' \in Seq(Conns) /\ created' \subseteq Conns /\ pollset' \subseteq Conns
      BY <1>0, <2>1, <2>2, <2>3
    <2>5. /\ terminateMode' \in Modes /\ listenerMayExit' \in BOOLEAN
          /\ workersMayExit' \in BOOLEAN /\ startThreadMayExit' \in BOOLEAN
          /\ dying' \in BOOLEAN /\ resourceShortage' \in BOOLEAN
      BY <1>0, <2>1
    <2> QED
      BY <1>0, <1>15, <2>4, <2>5 DEF Accept
  <1> QED
    BY <1>1, <1>2, <1>3, <1>4, <1>5, <1>6, <1>7, <1>8, <1>9, <1>10, <1>11, <1>12, <1>13, <1>14, <1>15
    DEF ListenerStep, ListenerInput

(* The tail of zevent_queue_pop takes a connection off a shorter queue. *)
LEMMA TakeElementFacts ==
    ASSUME TypeOK, queue # <<>>, NEW w \in Workers, TakeElement(w)
    PROVE  /\ queue' \in Seq(Conns)
           /\ Len(queue) \in Nat /\ Len(queue') \in Nat
           /\ Len(queue') = Len(queue) - 1
           /\ csd' \in [Workers -> Conns \cup {None}]
           /\ csd' = [csd EXCEPT ![w] = csd'[w]] /\ csd'[w] \in Conns
           /\ workerSockets' \in [Entries -> Conns \cup {None}]
           /\ isIdle' \in [Workers -> BOOLEAN] /\ wpc' \in [Workers -> WorkerPCs]
  <1>1. Front(queue) \in Seq(Conns) /\ Len(Front(queue)) = Len(queue) - 1
    BY FrontFacts DEF TypeOK, Front
  <1>2. Last(queue) \in Conns
    BY EmptySeq, LenProperties DEF TypeOK, Last
  <1>3. Len(queue) \in Nat /\ Len(Front(queue)) \in Nat
    BY <1>1, LenProperties DEF TypeOK
  <1>4. isIdle' \in [Workers -> BOOLEAN] /\ wpc' \in [Workers -> WorkerPCs]
    BY DEF TypeOK, TakeElement, WorkerPCs
  <1> QED
    BY <1>1, <1>2, <1>3, <1>4 DEF TypeOK, TakeElement

(* The steps of a worker keep the types. *)
LEMMA WorkerTypes ==
    ASSUME IInv, NEW w \in Workers,
           WorkerStep(w) \/ WorkerInput(w)
    PROVE  TypeOK'
  <1> USE DEF TypeOK, ListenerPCs, WorkerPCs, dataVars, infoVars,
      queueVars, connVars, listenerVars, workerVars, startVars, mainVars,
      mainRest, flagVars, offWorker
  <1>0. TypeOK
    BY DEF IInv
  <1>1. CASE WorkerStart(w)
    BY <1>0, <1>1 DEF WorkerStart
  <1>2. CASE WorkerTop(w)
    BY <1>0, <1>2 DEF WorkerTop
  <1>3. CASE SetIdle(w)
    BY <1>0, <1>3 DEF SetIdle
  <1>4. CASE SetIdleSignal(w)
    BY <1>0, <1>4 DEF SetIdleSignal
  <1>5. CASE WorkerReady(w)
    BY <1>0, <1>5 DEF WorkerReady
  <1>6. CASE WorkerSpuriousWakeup(w)
    BY <1>0, <1>6 DEF WorkerSpuriousWakeup
  <1>7. CASE WorkerClear(w)
    BY <1>0, <1>7 DEF WorkerClear
  <1>8. CASE WorkerExit(w)
    BY <1>0, <1>8 DEF WorkerExit
  <1>10. CASE QueuePop(w)
    <2>1. CASE queue # <<>> /\ TakeElement(w)
      <3>1. UNCHANGED <<vacant, infoVars, qTerminated, connVars, offWorker>>
        BY <1>10 DEF QueuePop
      <3> QED
        BY <1>0, <2>1, <3>1, TakeElementFacts
    <2>2. CASE queue = <<>>
      BY <1>0, <1>10, <2>2 DEF QueuePop
    <2> QED
      BY <1>10, <2>1, <2>2 DEF QueuePop
  <1>11. CASE QueuePopWoken(w)
    <2>1. CASE queue # <<>> /\ TakeElement(w)
      <3>1. UNCHANGED <<vacant, infoVars, qTerminated, connVars, offWorker>>
        BY <1>11 DEF QueuePopWoken
      <3> QED
        BY <1>0, <2>1, <3>1, TakeElementFacts
    <2>2. CASE queue = <<>>
      BY <1>0, <1>11, <2>2 DEF QueuePopWoken
    <2> QED
      BY <1>11, <2>1, <2>2 DEF QueuePopWoken
  <1>12. CASE ProcessKeep(w)
    BY <1>0, <1>12 DEF ProcessKeep, IInv, WorkerPhases
  <1>13. CASE ProcessClose(w)
    <2>1. recycled' \in Seq(Conns)
      BY <1>0, <1>13, AppendFacts DEF ProcessClose, IInv, WorkerPhases
    <2> QED
      BY <1>0, <1>13, <2>1 DEF ProcessClose
  <1>14. CASE QueuePopEmpty(w)
    BY <1>0, <1>14 DEF QueuePopEmpty
  <1> QED
    BY <1>1, <1>2, <1>3, <1>4, <1>5, <1>6, <1>7, <1>8, <1>10, <1>11, <1>12, <1>13,
       <1>14
    DEF WorkerStep, WorkerInput

(* The steps of the start thread keep the types. *)
LEMMA StartTypes ==
    ASSUME IInv, StartStep
    PROVE  TypeOK'
  <1> USE ThreadsAssumption, BoundAssumption DEF TypeOK, ListenerPCs, WorkerPCs, MainPCs, dataVars,
      infoVars, queueVars, connVars, listenerVars, workerVars, startVars,
      mainVars, mainRest, flagVars
  <1>0. TypeOK
    BY DEF IInv
  <1>1. CASE StartScan
    <2>0. scan \in Entries /\ scan + 1 \in 0 .. ThreadsPerChild
      BY <1>0, <1>1 DEF StartScan, Entries
    <2>1. /\ vacant' \subseteq Entries /\ wpc' \in [Workers -> WorkerPCs]
          /\ entry' \in [Workers -> Entries] /\ threadsCreated' \in 0 .. MaxThreads
      <3>1. CASE UNCHANGED <<wpc, entry, threadsCreated>> /\ vacant' \subseteq vacant
        BY <1>0, <3>1
      <3>2. CASE /\ threadsCreated < MaxThreads
                 /\ vacant' = vacant \ {scan}
                 /\ wpc' = [wpc EXCEPT ![threadsCreated] = "start"]
                 /\ entry' = [entry EXCEPT ![threadsCreated] = scan]
                 /\ threadsCreated' = threadsCreated + 1
        <4>1. threadsCreated' \in 0 .. MaxThreads
          BY <1>0, <3>2
        <4> QED
          BY <1>0, <2>0, <3>2, <4>1
      <3> QED
        BY <1>1, <3>1, <3>2 DEF StartScan
    <2>2. scan' \in 0 .. ThreadsPerChild
      BY <1>0, <1>1, <2>0 DEF StartScan
    <2>3. /\ mpc' \in MainPCs /\ exitCode' \in {"running", "ok", "sick", "fatal", "crash"}
          /\ UNCHANGED <<request, sigterm, closing, target>>
      BY <1>0, <1>1 DEF StartScan, CleanChildExit
    <2>4. /\ isIdle' = isIdle /\ csd' = csd /\ workerSockets' = workerSockets
          /\ spc' = spc
          /\ lpc' = lpc /\ haveIdle' = haveIdle /\ events' = events /\ spurious' = spurious
          /\ idlers' = idlers /\ infoTerminated' = infoTerminated /\ recycled' = recycled
          /\ queue' = queue /\ qTerminated' = qTerminated
          /\ pollset' = pollset /\ created' = created
      BY <1>1 DEF StartScan
    <2>5. /\ terminateMode' = terminateMode /\ listenerMayExit' = listenerMayExit
          /\ workersMayExit' = workersMayExit /\ dying' = dying
          /\ startThreadMayExit' = startThreadMayExit
          /\ resourceShortage' = resourceShortage
      BY <1>1 DEF StartScan
    <2> HIDE DEF ListenerPCs, WorkerPCs, MainPCs
    <2> QED
      BY <1>0, <2>1, <2>2, <2>3, <2>4, <2>5
  <1>2. CASE StartLoop
    BY <1>0, <1>2 DEF StartLoop
  <1>3. CASE StartFail
    BY <1>0, <1>3 DEF StartFail, CleanChildExit
  <1> QED
    BY <1>1, <1>2, <1>3 DEF StartStep

(* The steps of the main thread, and SIGTERM, keep the types. *)
LEMMA MainTypes ==
    ASSUME IInv, MainStep \/ MainPodRead \/ ParentSigterm
    PROVE  TypeOK'
  <1> USE DEF TypeOK, ListenerPCs, WorkerPCs, MainPCs, Modes,
      dataVars, infoVars, queueVars, connVars, listenerVars, workerVars,
      startVars, mainVars, mainRest, flagVars, offMain
  <1>0. TypeOK
    BY DEF IInv
  <1>1. CASE MainUnblock
    BY <1>0, <1>1 DEF MainUnblock, CleanChildExit
  <1>2. CASE MainInstallHandler
    BY <1>0, <1>2 DEF MainInstallHandler
  <1>3. CASE MainEnterRead
    BY <1>0, <1>3 DEF MainEnterRead
  <1>4. CASE MainPodRead
    BY <1>0, <1>4 DEF MainPodRead
  <1>5. CASE MainInterrupted
    <2>1. /\ mpc' \in MainPCs /\ request' \in Modes /\ startThreadMayExit' \in BOOLEAN
      BY <1>0, <1>5 DEF MainInterrupted
    <2> QED
      BY <1>0, <1>5, <2>1 DEF MainInterrupted
  <1>6. CASE MainJoinStart
    BY <1>0, <1>6 DEF MainJoinStart
  <1>7. CASE MainSignalThreads
    <2>1. /\ mpc' \in MainPCs /\ terminateMode' \in Modes
          /\ listenerMayExit' \in BOOLEAN /\ workersMayExit' \in BOOLEAN
      BY <1>0, <1>7 DEF MainSignalThreads
    <2>2. UNCHANGED <<mainRest, startThreadMayExit, dying, resourceShortage,
                      dataVars, offMain>>
      BY <1>7 DEF MainSignalThreads
    <2> QED
      BY <1>0, <2>1, <2>2
  <1>8. CASE MainInfoTerm
    BY <1>0, <1>8 DEF MainInfoTerm
  <1>9. CASE MainCloseTest
    BY <1>0, <1>9, ThreadsAssumption DEF MainCloseTest, Entries
  <1>10. CASE MainCloseSocket
    <2>1. PICK sock \in {target, workerSockets[closing]} :
             IF sock = None
             THEN /\ CleanChildExit("crash")
                  /\ UNCHANGED <<pollset, workerSockets>>
             ELSE /\ pollset' = pollset \ {sock}
                  /\ workerSockets' = [workerSockets EXCEPT ![closing] = None]
                  /\ mpc' = "close" /\ closing' = closing + 1 /\ target' = None
                  /\ UNCHANGED <<request, sigterm, exitCode>>
      BY <1>10 DEF MainCloseSocket
    <2>2. UNCHANGED <<infoVars, queueVars, created, recycled, listenerVars, wpc,
                      entry, isIdle, csd, vacant, startVars, flagVars>>
      BY <1>10 DEF MainCloseSocket
    <2>3. CASE sock = None
      BY <1>0, <2>1, <2>2, <2>3 DEF CleanChildExit
    <2>4. CASE sock # None
      <3>1. closing + 1 \in 0 .. ThreadsPerChild
        BY <1>0, <1>10, ThreadsAssumption DEF MainCloseSocket, IInv, MainPhases, Entries
      <3> QED
        BY <1>0, <2>1, <2>2, <2>4, <3>1
    <2> QED
      BY <2>3, <2>4
  <1>11. CASE MainCloseDone
    BY <1>0, <1>11 DEF MainCloseDone
  <1>12. CASE MainJoinListener
    BY <1>0, <1>12 DEF MainJoinListener
  <1>13. CASE MainJoinWorkers
    BY <1>0, <1>13 DEF MainJoinWorkers, CleanChildExit
  <1>14. CASE MainInterruptAll
    BY <1>0, <1>14 DEF MainInterruptAll, BroadcastNotEmpty
  <1>15. CASE ParentSigterm
    BY <1>0, <1>15, DeliverSigtermTypes DEF ParentSigterm
  <1> QED
    BY <1>1, <1>2, <1>3, <1>4, <1>5, <1>6, <1>7, <1>8, <1>9, <1>10, <1>11, <1>12, <1>13, <1>14, <1>15
    DEF MainStep

(***************************************************************************)
(* Control: program counters and flags.                                    *)
(***************************************************************************)

Control == ListenerPhases /\ WorkerPhases /\ MainPhases /\ Leaving

(* The steps of the listener keep the control invariants. *)
LEMMA ListenerControl ==
    ASSUME IInv, ListenerStep \/ ListenerInput
    PROVE  Control'
  <1> USE DEF Control, ListenerPhases, WorkerPhases, MainPhases, Leaving,
      dataVars, infoVars, queueVars, connVars, listenerVars,
      workerVars, startVars, mainVars, mainRest, flagVars, offListener,
      SignalThreadsGraceful
  <1>0. TypeOK /\ Control
    BY DEF IInv
  <1>1. CASE ListenerSetup
    BY <1>0, <1>1 DEF ListenerSetup
  <1>2. CASE ListenerLeave
    BY <1>0, <1>2 DEF ListenerLeave
  <1>3. CASE ListenerPoll
    BY <1>0, <1>3 DEF ListenerPoll
  <1>4. CASE ListenerPollError
    BY <1>0, <1>4 DEF ListenerPollError
  <1>5. CASE GetWorker
    BY <1>0, <1>5 DEF GetWorker
  <1>6. CASE WaitForIdlerLock
    BY <1>0, <1>6 DEF WaitForIdlerLock
  <1>7. CASE WaitForIdlerReturn
    BY <1>0, <1>7 DEF WaitForIdlerReturn
  <1>8. CASE ListenerSpuriousWakeup
    BY <1>0, <1>8 DEF ListenerSpuriousWakeup
  <1>9. CASE Accept
    BY <1>0, <1>9 DEF Accept
  <1>10. CASE AcceptNoPool
    BY <1>0, <1>10 DEF AcceptNoPool
  <1>11. CASE ListenerQueueTerm
    BY <1>0, <1>11 DEF ListenerQueueTerm
  <1>12. CASE ListenerInterruptAll
    BY <1>0, <1>12 DEF ListenerInterruptAll, BroadcastNotEmpty, TypeOK
  <1>13. CASE ListenerDying
    BY <1>0, <1>13 DEF ListenerDying
  <1>14. CASE ListenerKillSelf
    BY <1>0, <1>14, DeliverSigtermTypes DEF ListenerKillSelf
  <1>15. ASSUME NEW c \in Conns, Push2Worker(c) PROVE Control'
    BY <1>0, <1>15 DEF Push2Worker, SignalNotEmpty, Waiting, TypeOK
  <1> QED
    BY <1>1, <1>2, <1>3, <1>4, <1>5, <1>6, <1>7, <1>8, <1>9, <1>10, <1>11, <1>12, <1>13, <1>14, <1>15
    DEF ListenerStep, ListenerInput

(* Taking an element keeps them. *)
LEMMA TakeElementControl ==
    ASSUME TypeOK, Control, queue # <<>>, NEW w \in Workers, TakeElement(w),
           wpc[w] \in {"pop", "woken"},
           UNCHANGED <<vacant, infoVars, qTerminated, connVars, offWorker>>
    PROVE  Control'
  <1> USE DEF infoVars, connVars, offWorker, listenerVars, startVars, mainVars,
      mainRest, flagVars
  <1>1. ListenerPhases' /\ MainPhases'
    BY DEF Control, ListenerPhases, MainPhases
  <1>2. /\ wpc' = [wpc EXCEPT ![w] = "process"]
        /\ isIdle' = [isIdle EXCEPT ![w] = FALSE]
        /\ csd' = [csd EXCEPT ![w] = csd'[w]] /\ csd'[w] \in Conns
    BY TakeElementFacts DEF TakeElement
  <1>3. WorkerPhases'
    BY <1>2 DEF Control, WorkerPhases, TypeOK
  <1>4. \A v \in Workers : wpc[v] \in {"exit", "done"} => workersMayExit \/ qTerminated
    BY DEF Control, Leaving
  <1>5. Leaving'
    BY <1>2, <1>4 DEF Leaving, TypeOK
  <1> QED
    BY <1>1, <1>3, <1>5 DEF Control

(* The steps of a worker keep the control invariants. *)
LEMMA WorkerControl ==
    ASSUME IInv, NEW w \in Workers,
           WorkerStep(w) \/ WorkerInput(w)
    PROVE  Control'
  <1> USE DEF Control, ListenerPhases, WorkerPhases, MainPhases, Leaving,
      dataVars, infoVars, queueVars, connVars, listenerVars,
      workerVars, startVars, mainVars, mainRest, flagVars, offWorker
  <1>0. TypeOK /\ Control
    BY DEF IInv
  <1>1. CASE WorkerStart(w)
    BY <1>0, <1>1 DEF WorkerStart, TypeOK
  <1>2. CASE WorkerTop(w)
    BY <1>0, <1>2 DEF WorkerTop, TypeOK
  <1>3. CASE SetIdle(w)
    BY <1>0, <1>3 DEF SetIdle, TypeOK
  <1>4. CASE SetIdleSignal(w)
    BY <1>0, <1>4 DEF SetIdleSignal, TypeOK
  <1>5. CASE WorkerReady(w)
    BY <1>0, <1>5 DEF WorkerReady, TypeOK
  <1>6. CASE QueuePop(w)
    <2>1. CASE queue # <<>> /\ TakeElement(w)
      <3>1. /\ wpc[w] \in {"pop", "woken"}
            /\ UNCHANGED <<vacant, infoVars, qTerminated, connVars, offWorker>>
        BY <1>6 DEF QueuePop
      <3> QED
        BY <1>0, <2>1, <3>1, TakeElementControl
    <2>2. CASE queue = <<>>
      BY <1>0, <1>6, <2>2 DEF QueuePop, TakeElement, TypeOK
    <2> QED
      BY <1>6, <2>1, <2>2 DEF QueuePop
  <1>7. CASE QueuePopWoken(w)
    <2>1. CASE queue # <<>> /\ TakeElement(w)
      <3>1. /\ wpc[w] \in {"pop", "woken"}
            /\ UNCHANGED <<vacant, infoVars, qTerminated, connVars, offWorker>>
        BY <1>7 DEF QueuePopWoken
      <3> QED
        BY <1>0, <2>1, <3>1, TakeElementControl
    <2>2. CASE queue = <<>>
      BY <1>0, <1>7, <2>2 DEF QueuePopWoken, TakeElement, TypeOK
    <2> QED
      BY <1>7, <2>1, <2>2 DEF QueuePopWoken
  <1>8. CASE WorkerSpuriousWakeup(w)
    BY <1>0, <1>8 DEF WorkerSpuriousWakeup, TypeOK
  <1>9. CASE ProcessKeep(w)
    BY <1>0, <1>9 DEF ProcessKeep, TypeOK
  <1>10. CASE ProcessClose(w)
    BY <1>0, <1>10 DEF ProcessClose, TypeOK
  <1>11. CASE WorkerClear(w)
    BY <1>0, <1>11 DEF WorkerClear, TypeOK
  <1>12. CASE WorkerExit(w)
    BY <1>0, <1>12 DEF WorkerExit, TypeOK
  <1>14. CASE QueuePopEmpty(w)
    BY <1>0, <1>14 DEF QueuePopEmpty, TypeOK
  <1> QED
    BY <1>1, <1>2, <1>3, <1>4, <1>5, <1>6, <1>7, <1>8, <1>9, <1>10, <1>11, <1>12,
       <1>14
    DEF WorkerStep, WorkerInput

(* The steps of the start thread keep the control invariants. *)
LEMMA StartControl ==
    ASSUME IInv, StartStep
    PROVE  Control'
  <1> USE DEF Control, ListenerPhases, WorkerPhases, MainPhases, Leaving,
      dataVars, infoVars, queueVars, connVars, listenerVars,
      workerVars, startVars, mainVars, mainRest, flagVars
  <1>0. TypeOK /\ Control
    BY DEF IInv
  <1>1. CASE StartScan
    <2>1. /\ UNCHANGED <<isIdle, csd, lpc, haveIdle, qTerminated, workersMayExit, spc,
                         closing>>
          /\ mpc' \in {mpc, "exited"}
      BY <1>1 DEF StartScan, CleanChildExit
    <2>2. ListenerPhases' /\ MainPhases'
      BY <1>0, <2>1
    <2>3. CASE wpc' = wpc
      BY <1>0, <2>1, <2>2, <2>3
    <2>4. CASE /\ threadsCreated < MaxThreads
               /\ wpc' = [wpc EXCEPT ![threadsCreated] = "start"]
      <3>1. PICK n \in Workers : n = threadsCreated
        BY <1>0, <2>4, BoundAssumption DEF TypeOK, Workers
      <3>2. wpc[n] = "none"
        BY <3>1, BoundAssumption DEF IInv, Numbered, Workers
      <3>3. wpc'[n] = "start" /\ \A w \in Workers : w # n => wpc'[w] = wpc[w]
        BY <1>0, <2>4, <3>1 DEF TypeOK
      <3>4. WorkerPhases' /\ Leaving'
        BY <1>0, <2>1, <3>2, <3>3
      <3> QED
        BY <2>2, <3>4
    <2> QED
      BY <1>1, <2>3, <2>4 DEF StartScan
  <1>2. CASE StartLoop
    BY <1>0, <1>2 DEF StartLoop
  <1>3. CASE StartFail
    BY <1>0, <1>3 DEF StartFail, CleanChildExit
  <1> QED
    BY <1>1, <1>2, <1>3 DEF StartStep

(* The steps of the main thread, and SIGTERM, keep the control invariants. *)
LEMMA MainControl ==
    ASSUME IInv, MainStep \/ MainPodRead \/ ParentSigterm
    PROVE  Control'
  <1> USE DEF Control, ListenerPhases, WorkerPhases, MainPhases, Leaving,
      dataVars, infoVars, queueVars, connVars, listenerVars,
      workerVars, startVars, mainVars, mainRest, flagVars, offMain
  <1>0. TypeOK /\ Control
    BY DEF IInv
  <1>1. CASE MainUnblock
    BY <1>0, <1>1 DEF MainUnblock, CleanChildExit
  <1>2. CASE MainInstallHandler
    BY <1>0, <1>2 DEF MainInstallHandler
  <1>3. CASE MainEnterRead
    BY <1>0, <1>3 DEF MainEnterRead
  <1>4. CASE MainPodRead
    BY <1>0, <1>4 DEF MainPodRead
  <1>5. CASE MainInterrupted
    BY <1>0, <1>5 DEF MainInterrupted
  <1>6. CASE MainJoinStart
    BY <1>0, <1>6 DEF MainJoinStart
  <1>7. CASE MainSignalThreads
    BY <1>0, <1>7 DEF MainSignalThreads
  <1>8. CASE MainInterruptAll
    BY <1>0, <1>8 DEF MainInterruptAll, BroadcastNotEmpty, TypeOK
  <1>9. CASE MainInfoTerm
    BY <1>0, <1>9 DEF MainInfoTerm
  <1>10. CASE MainCloseTest
    BY <1>0, <1>10 DEF MainCloseTest
  <1>11. CASE MainCloseSocket
    BY <1>0, <1>11 DEF MainCloseSocket, CleanChildExit
  <1>12. CASE MainCloseDone
    BY <1>0, <1>12 DEF MainCloseDone
  <1>13. CASE MainJoinListener
    BY <1>0, <1>13 DEF MainJoinListener
  <1>14. CASE MainJoinWorkers
    BY <1>0, <1>14 DEF MainJoinWorkers, CleanChildExit
  <1>15. CASE ParentSigterm
    BY <1>0, <1>15, DeliverSigtermTypes DEF ParentSigterm
  <1> QED
    BY <1>1, <1>2, <1>3, <1>4, <1>5, <1>6, <1>7, <1>8, <1>9, <1>10, <1>11, <1>12, <1>13, <1>14, <1>15
    DEF MainStep

(***************************************************************************)
(* The entries of the slot and the threads in them.                        *)
(***************************************************************************)

Board == Numbered /\ OneThreadPerEntry /\ EntryTaken

(* A step that creates no thread and shows no more entries as free.        *)
LEMMA BoardFrame ==
    ASSUME Board, entry' = entry, threadsCreated' = threadsCreated,
           dying => dying', vacant' \subseteq vacant,
           \A w \in Workers : wpc[w] \in {"none", "done"} => wpc'[w] = wpc[w]
    PROVE  Board'
  <1>1. Numbered'
    BY DEF Board, Numbered
  <1>2. Sole' \subseteq Sole
    BY DEF Sole
  <1>3. OneThreadPerEntry' /\ EntryTaken'
    BY <1>2 DEF Board, OneThreadPerEntry, EntryTaken
  <1> QED
    BY <1>1, <1>3 DEF Board

(* The listener creates no thread. *)
LEMMA ListenerBoard ==
    ASSUME IInv, ListenerStep \/ ListenerInput
    PROVE  Board'
  <1>0. TypeOK /\ Board
    BY DEF IInv, Board
  <1>1. /\ entry' = entry /\ threadsCreated' = threadsCreated /\ vacant' = vacant
        /\ dying => dying'
    BY DEF ListenerStep, ListenerInput, ListenerSetup, ListenerLeave, ListenerPoll,
       ListenerPollError, GetWorker, WaitForIdlerLock, WaitForIdlerReturn,
       ListenerSpuriousWakeup, Push2Worker, Accept, AcceptNoPool, ListenerQueueTerm,
       ListenerInterruptAll, ListenerDying, ListenerKillSelf, SignalThreadsGraceful,
       offListener, workerVars, startVars, flagVars
  <1>2. CASE wpc' = wpc
    BY <1>0, <1>1, <1>2, BoardFrame
  <1>3. CASE BroadcastNotEmpty
    BY <1>0, <1>1, <1>3, BoardFrame DEF BroadcastNotEmpty
  <1>4. CASE SignalNotEmpty
    <2>1. \A w \in Workers : wpc[w] \in {"none", "done"} => wpc'[w] = wpc[w]
      BY <1>0, <1>4 DEF SignalNotEmpty, Waiting, TypeOK
    <2> QED
      BY <1>0, <1>1, <2>1, BoardFrame
  <1> QED
    BY <1>2, <1>3, <1>4
    DEF ListenerStep, ListenerInput, ListenerSetup, ListenerLeave, ListenerPoll,
       ListenerPollError, GetWorker, WaitForIdlerLock, WaitForIdlerReturn,
       ListenerSpuriousWakeup, Push2Worker, Accept, AcceptNoPool, ListenerQueueTerm,
       ListenerInterruptAll, ListenerDying, ListenerKillSelf, offListener, workerVars

(* A worker shows its own entry as free when it ends, and was alone there. *)
LEMMA WorkerBoard ==
    ASSUME IInv, NEW w \in Workers,
           WorkerStep(w) \/ WorkerInput(w)
    PROVE  Board'
  <1>0. TypeOK /\ Board
    BY DEF IInv, Board
  <1>1. /\ entry' = entry /\ threadsCreated' = threadsCreated /\ dying' = dying
        /\ wpc[w] \notin {"none", "done"}
        /\ \E pc \in WorkerPCs : wpc' = [wpc EXCEPT ![w] = pc]
    BY DEF WorkerStep, WorkerInput, WorkerStart, WorkerTop, SetIdle, SetIdleSignal,
       WorkerReady, QueuePop, QueuePopWoken, QueuePopEmpty, TakeElement,
       WorkerSpuriousWakeup, ProcessKeep, ProcessClose, WorkerClear, WorkerExit,
       offWorker, startVars, flagVars, WorkerPCs
  <1>2. \A v \in Workers : wpc[v] \in {"none", "done"} => wpc'[v] = wpc[v]
    BY <1>0, <1>1 DEF TypeOK
  <1>3. CASE vacant' \subseteq vacant
    BY <1>0, <1>1, <1>2, <1>3, BoardFrame
  <1>4. CASE WorkerExit(w)
    <2>1. Sole' \subseteq Sole \ {w}
      BY <1>0, <1>1, <1>4 DEF WorkerExit, Sole, TypeOK
    <2>2. OneThreadPerEntry'
      BY <1>0, <1>1, <2>1 DEF Board, OneThreadPerEntry
    <2>3. vacant' = vacant \cup {entry[w]}
      BY <1>4 DEF WorkerExit
    <2>4. EntryTaken'
      <3> SUFFICES ASSUME NEW v \in Sole' PROVE entry[v] \notin vacant'
        BY <1>1 DEF EntryTaken
      <3>1. v \in Sole /\ v # w /\ entry[v] \notin vacant
        BY <1>0, <2>1 DEF Board, EntryTaken
      <3>2. entry[v] # entry[w]
        BY <1>0, <1>1, <3>1 DEF Board, OneThreadPerEntry, Sole
      <3> QED
        BY <2>3, <3>1, <3>2
    <2>5. Numbered'
      BY <1>0, <1>1, <1>2 DEF Board, Numbered
    <2> QED
      BY <2>2, <2>4, <2>5 DEF Board
  <1> QED
    BY <1>3, <1>4
    DEF WorkerStep, WorkerInput, WorkerStart, WorkerTop, SetIdle, SetIdleSignal,
       WorkerReady, QueuePop, QueuePopWoken, QueuePopEmpty,
       WorkerSpuriousWakeup, ProcessKeep, ProcessClose, WorkerClear

(* A thread is created in an entry shown as free, which is then taken. *)
LEMMA StartBoard ==
    ASSUME IInv, StartStep
    PROVE  Board'
  <1>0. TypeOK /\ Board
    BY DEF IInv, Board
  <1>1. dying' = dying
    BY DEF StartStep, StartScan, StartLoop, StartFail, flagVars
  <1>2. CASE UNCHANGED <<wpc, entry, threadsCreated>> /\ vacant' \subseteq vacant
    BY <1>0, <1>1, <1>2, BoardFrame
  <1>3. CASE /\ scan \in vacant /\ threadsCreated < MaxThreads
             /\ vacant' = vacant \ {scan}
             /\ wpc' = [wpc EXCEPT ![threadsCreated] = "start"]
             /\ entry' = [entry EXCEPT ![threadsCreated] = scan]
             /\ threadsCreated' = threadsCreated + 1
    <2>1. PICK n \in Workers : n = threadsCreated
      BY <1>0, <1>3, BoundAssumption DEF TypeOK, Workers
    <2>2. wpc[n] = "none" /\ n \in Nat
      BY <1>0, <2>1, BoundAssumption DEF Board, Numbered, Workers
    <2>3. /\ \A w \in Workers : w # n => wpc'[w] = wpc[w] /\ entry'[w] = entry[w]
          /\ entry'[n] = scan
      BY <1>0, <1>3, <2>1 DEF TypeOK
    <2>4. Numbered'
      BY <1>0, <1>3, <2>1, <2>2, <2>3, BoundAssumption DEF Board, Numbered, Workers
    <2>5. \A w \in Sole' : w # n => w \in Sole /\ entry'[w] = entry[w]
      BY <1>1, <2>3 DEF Sole
    <2>6. \A w \in Sole' : w # n => entry'[w] \notin vacant
      BY <1>0, <2>5 DEF Board, EntryTaken
    <2>7. EntryTaken'
      BY <1>3, <2>3, <2>6 DEF EntryTaken
    <2>8. OneThreadPerEntry'
      BY <1>0, <1>3, <2>3, <2>5, <2>6 DEF Board, OneThreadPerEntry
    <2> QED
      BY <2>4, <2>7, <2>8 DEF Board
  <1> QED
    BY <1>2, <1>3 DEF StartStep, StartScan, StartLoop, StartFail, workerVars, startVars

(* The main thread creates no worker. *)
LEMMA MainBoard ==
    ASSUME IInv, MainStep \/ MainPodRead \/ ParentSigterm
    PROVE  Board'
  <1>0. TypeOK /\ Board
    BY DEF IInv, Board
  <1>1. /\ entry' = entry /\ threadsCreated' = threadsCreated /\ vacant' = vacant
        /\ dying' = dying
    BY DEF MainStep, MainPodRead, ParentSigterm, MainUnblock, MainInstallHandler,
       MainEnterRead, MainInterrupted, MainJoinStart, MainSignalThreads,
       MainInterruptAll, MainInfoTerm, MainCloseTest, MainCloseSocket, MainCloseDone,
       MainJoinListener, MainJoinWorkers, offMain, workerVars, startVars, flagVars
  <1>2. CASE wpc' = wpc
    BY <1>0, <1>1, <1>2, BoardFrame
  <1>3. CASE BroadcastNotEmpty
    BY <1>0, <1>1, <1>3, BoardFrame DEF BroadcastNotEmpty
  <1> QED
    BY <1>2, <1>3
    DEF MainStep, MainPodRead, ParentSigterm, MainUnblock, MainInstallHandler,
       MainEnterRead, MainInterrupted, MainJoinStart, MainSignalThreads,
       MainInterruptAll, MainInfoTerm, MainCloseTest, MainCloseSocket, MainCloseDone,
       MainJoinListener, MainJoinWorkers, offMain, workerVars

(* Other processes change nothing but the entries, and before this one     *)
(* announces its end only those of ForeignSlots.                           *)
LEMMA OthersFacts ==
    ASSUME BoardInput, TypeOK
    PROVE  /\ UNCHANGED offBoard
           /\ vacant' \subseteq Entries
           /\ \A i \in vacant' : i \in vacant \/ dying \/ i \in ForeignSlots
  <1>1. 0 \in Entries /\ vacant \subseteq Entries
    BY ThreadsAssumption DEF Entries, TypeOK
  <1>2. CASE SuccessorReaped \/ SuccessorForkFails
    BY <1>1, <1>2 DEF SuccessorReaped, SuccessorForkFails
  <1>3. ASSUME NEW i \in Entries, OthersTake(i) \/ OthersLeave(i)
        PROVE  /\ UNCHANGED offBoard
               /\ vacant' \subseteq Entries
               /\ \A j \in vacant' : j \in vacant \/ dying \/ j \in ForeignSlots
    BY <1>1, <1>3 DEF OthersTake, OthersLeave, Shared
  <1> QED
    BY <1>2, <1>3 DEF BoardInput

LEMMA OthersBoard ==
    ASSUME TypeOK, Board, BoardInput
    PROVE  Board'
  <1>1. Sole' = Sole /\ UNCHANGED <<wpc, entry, threadsCreated, dying>>
    BY OthersFacts DEF offBoard, Sole, startVars, flagVars
  <1>2. Numbered' /\ OneThreadPerEntry'
    BY <1>1 DEF Board, Numbered, OneThreadPerEntry
  <1>3. EntryTaken'
    BY <1>1, OthersFacts DEF Board, EntryTaken, Sole
  <1> QED
    BY <1>2, <1>3 DEF Board

LEMMA OthersIInv ==
    ASSUME IInv, BoardInput
    PROVE  IInv'
  <1>0. TypeOK /\ Board
    BY DEF IInv, Board
  <1>1. UNCHANGED offBoard /\ vacant' \subseteq Entries
    BY <1>0, OthersFacts
  <1> USE DEF offBoard, dataVars, infoVars, queueVars, connVars, listenerVars,
      startVars, mainVars, mainRest, flagVars
  <1>2. TypeOK'
    BY <1>0, <1>1 DEF TypeOK
  <1>3. ListenerPhases' /\ WorkerPhases' /\ MainPhases' /\ Leaving'
    BY <1>1 DEF IInv, ListenerPhases, WorkerPhases, MainPhases, Leaving
  <1>4. IdlersAccount' /\ SignalDebt' /\ QueueBound'
    BY <1>1 DEF IInv, IdlersAccount, SignalDebt, QueueBound, Granting, Reserving,
       Idle, Signalling
  <1> QED
    BY <1>0, <1>2, <1>3, <1>4, OthersBoard DEF IInv, Board

(***************************************************************************)
(* Counting: idle workers, signals owed and the queue's length.            *)
(***************************************************************************)

Counting == IdlersAccount /\ SignalDebt /\ QueueBound

(* Sets of workers are finite. *)
LEMMA WorkerSets ==
    ASSUME NEW S \in SUBSET Workers
    PROVE  IsFiniteSet(S) /\ Cardinality(S) \in Nat
  <1>1. IsFiniteSet(Workers)
    BY BoundAssumption, FS_Interval DEF Workers
  <1> QED
    BY <1>1, FS_Subset, FS_CardinalityType

(* The threads created are the first ones. *)
LEMMA CreatedSets ==
    ASSUME NEW n \in Nat, NEW S \in SUBSET (0 .. n - 1)
    PROVE  Cardinality(S) <= n
  <1>1. IsFiniteSet(0 .. n - 1) /\ Cardinality(0 .. n - 1) = n
    BY FS_Interval
  <1> QED
    BY <1>1, FS_Subset, FS_CardinalityType

(* One worker more, one worker less. *)
LEMMA WorkerAdded ==
    ASSUME NEW S \in SUBSET Workers, NEW w \in Workers, w \notin S
    PROVE  Cardinality(S \cup {w}) = Cardinality(S) + 1
  BY WorkerSets, FS_AddElement

LEMMA WorkerRemoved ==
    ASSUME NEW S \in SUBSET Workers, NEW w \in S
    PROVE  Cardinality(S \ {w}) = Cardinality(S) - 1
  BY WorkerSets, FS_RemoveElement

(* The counts are numbers, and no more workers are idle or signalling than *)
(* were created.                                                           *)
LEMMA CountTypes ==
    ASSUME TypeOK, Control, Board
    PROVE  /\ Cardinality(Idle) \in Nat /\ Cardinality(Idle) <= threadsCreated
           /\ Cardinality(Signalling) \in Nat /\ Cardinality(Signalling) <= threadsCreated
           /\ Len(queue) \in Nat /\ idlers \in Int /\ spurious \in Nat
           /\ threadsCreated \in Nat
  <1>1. Idle \in SUBSET Workers /\ Signalling \in SUBSET Workers
    BY DEF Idle, Signalling
  <1>2. Len(queue) \in Nat
    BY LenProperties DEF TypeOK
  <1>3. idlers \in Int /\ spurious \in Nat /\ threadsCreated \in Nat
    BY SpuriousAssumption, BoundAssumption DEF TypeOK
  <1>4. PICK n \in Nat : n = threadsCreated
    BY <1>3
  <1>5. \A w \in Idle \cup Signalling : w \in 0 .. n - 1
    <2> SUFFICES ASSUME NEW w \in Workers, w \in Idle \cup Signalling
                 PROVE  w \in 0 .. n - 1
      BY <1>1
    <2>1. wpc[w] # "none"
      BY DEF Control, WorkerPhases, Idle, Signalling
    <2> QED
      BY <1>4, <2>1, BoundAssumption DEF Board, Numbered, Workers
  <1>6. Cardinality(Idle) <= n /\ Cardinality(Signalling) <= n
    BY <1>5, CreatedSets
  <1> QED
    BY <1>1, <1>2, <1>3, <1>4, <1>6, WorkerSets

(* A step that leaves the counts alone and gives the listener no new right *)
(* to hand out connections keeps the account.                              *)
LEMMA CountingFrame ==
    ASSUME Counting,
           idlers' = idlers, queue' = queue, spurious' = spurious,
           threadsCreated' = threadsCreated,
           Granting' => /\ Granting
                        /\ Idle' = Idle /\ Signalling' = Signalling
                        /\ Reserving' <=> Reserving
                        /\ lpc' \in {"lock", "idlewait"} <=> lpc \in {"lock", "idlewait"}
    PROVE  Counting'
  <1>1. IdlersAccount'
    BY DEF Counting, IdlersAccount
  <1>2. SignalDebt'
    BY DEF Counting, SignalDebt
  <1>3. QueueBound'
    BY DEF Counting, QueueBound
  <1> QED
    BY <1>1, <1>2, <1>3 DEF Counting

(* The steps of the listener keep the account. *)
LEMMA ListenerCounting ==
    ASSUME IInv, ListenerStep \/ ListenerInput
    PROVE  Counting'
  <1> USE DEF dataVars, infoVars, queueVars, connVars, listenerVars,
      workerVars, startVars, offListener
  <1>0. TypeOK /\ Control /\ Board /\ Counting
    BY DEF IInv, Control, Board, Counting
  <1>1. CASE ListenerSetup
    BY <1>0, <1>1, CountingFrame DEF ListenerSetup, Granting, Reserving, Idle, Signalling
  <1>2. CASE ListenerLeave
    BY <1>0, <1>2, CountingFrame DEF ListenerLeave, Granting, Reserving, Idle, Signalling
  <1>3. CASE ListenerPoll
    BY <1>0, <1>3, CountingFrame DEF ListenerPoll, Granting, Reserving, Idle, Signalling
  <1>4. CASE ListenerPollError
    BY <1>0, <1>4, CountingFrame DEF ListenerPollError, Granting, Reserving, Idle, Signalling
  <1>5. CASE WaitForIdlerReturn
    BY <1>0, <1>5, CountingFrame DEF WaitForIdlerReturn, Granting, Reserving, Idle, Signalling
  <1>6. CASE Accept
    BY <1>0, <1>6, CountingFrame DEF Accept, Granting, Reserving, Idle, Signalling
  <1>7. CASE AcceptNoPool
    BY <1>0, <1>7, CountingFrame DEF AcceptNoPool, Granting, Reserving, Idle, Signalling
  <1>8. CASE ListenerQueueTerm
    BY <1>0, <1>8, CountingFrame DEF ListenerQueueTerm, Granting, Reserving, Idle, Signalling
  <1>9. CASE ListenerDying
    BY <1>0, <1>9, CountingFrame DEF ListenerDying, Granting, Reserving, Idle, Signalling
  <1>10. CASE ListenerKillSelf
    BY <1>0, <1>10, CountingFrame DEF ListenerKillSelf, Granting, Reserving, Idle, Signalling
  <1>11. CASE ListenerInterruptAll
    <2>1. Signalling' = Signalling
      BY <1>0, <1>11 DEF ListenerInterruptAll, BroadcastNotEmpty, Signalling, TypeOK
    <2> QED
      BY <1>0, <1>11, <2>1, CountingFrame
      DEF ListenerInterruptAll, Granting, Reserving, Idle
  <1>12. CASE GetWorker
    <2>1. CASE lpc' \in {"poll", "dispatch"} /\ UNCHANGED idlers
      BY <1>0, <1>12, <2>1, CountingFrame
      DEF GetWorker, Granting, Reserving, Idle, Signalling
    <2>2. CASE ~haveIdle /\ idlers' = idlers - 1 /\ lpc' = IF idlers <= 0 THEN "lock" ELSE "ret"
      <3>1. /\ ~Reserving /\ Reserving' /\ (Granting' <=> Granting)
            /\ Idle' = Idle /\ Signalling' = Signalling
            /\ UNCHANGED <<queue, spurious, threadsCreated>> /\ lpc = "loop"
        BY <1>12, <2>2 DEF GetWorker, Granting, Reserving, Idle, Signalling
      <3>2. IdlersAccount'
        BY <1>0, <2>2, <3>1, CountTypes DEF Counting, IdlersAccount
      <3>3. SignalDebt'
        BY <1>0, <2>2, <3>1, CountTypes DEF Counting, SignalDebt
      <3>4. QueueBound'
        BY <1>0, <3>1 DEF Counting, QueueBound
      <3> QED
        BY <3>2, <3>3, <3>4 DEF Counting
    <2> QED
      BY <1>12, <2>1, <2>2 DEF GetWorker
  <1>13. CASE WaitForIdlerLock
    <2>1. /\ (Granting' <=> Granting) /\ Reserving /\ Reserving'
          /\ Idle' = Idle /\ Signalling' = Signalling
          /\ UNCHANGED <<idlers, queue, spurious, threadsCreated>> /\ lpc = "lock"
          /\ lpc' = IF idlers < 0 THEN "idlewait" ELSE "ret"
      BY <1>13 DEF WaitForIdlerLock, Granting, Reserving, Idle, Signalling
    <2>2. IdlersAccount' /\ QueueBound'
      BY <1>0, <2>1 DEF Counting, IdlersAccount, QueueBound
    <2>3. SignalDebt'
      BY <1>0, <2>1, CountTypes DEF Counting, SignalDebt
    <2> QED
      BY <2>2, <2>3 DEF Counting
  <1>14. CASE ListenerSpuriousWakeup
    <2>1. /\ (Granting' <=> Granting) /\ Reserving /\ Reserving'
          /\ Idle' = Idle /\ Signalling' = Signalling
          /\ UNCHANGED <<idlers, queue, threadsCreated>>
          /\ lpc = "idlewait" /\ lpc' = "ret"
          /\ spurious' = spurious + 1
      BY <1>14 DEF ListenerSpuriousWakeup, Granting, Reserving, Idle, Signalling
    <2>2. IdlersAccount'
      BY <1>0, <2>1 DEF Counting, IdlersAccount
    <2>3. SignalDebt' /\ QueueBound'
      BY <1>0, <2>1, CountTypes, SMTT(30) DEF Counting, SignalDebt, QueueBound
    <2> QED
      BY <2>2, <2>3 DEF Counting
  <1>15. ASSUME NEW c \in Conns, Push2Worker(c) PROVE Counting'
    <2>1. /\ Granting /\ Reserving /\ ~Reserving'
          /\ UNCHANGED <<idlers, spurious, threadsCreated>>
          /\ Idle' = Idle /\ lpc' = "loop"
          /\ lpc = "dispatch"
      BY <1>0, <1>15
      DEF Push2Worker, Control, ListenerPhases, Granting, Reserving, Idle
    <2>2. Signalling' = Signalling
      BY <1>0, <1>15 DEF Push2Worker, SignalNotEmpty, Waiting, Signalling, TypeOK
    <2>3. Len(queue') = Len(queue) + 1
      BY <1>0, <1>15, AppendFacts DEF Push2Worker, TypeOK
    <2>4. IdlersAccount'
      BY <1>0, <2>1, <2>3, CountTypes DEF Counting, IdlersAccount
    <2>5. SignalDebt'
      BY <1>0, <2>1, <2>2 DEF Counting, SignalDebt
    <2>6. /\ idlers = Cardinality(Idle) - Len(queue) - 1
          /\ idlers - Cardinality(Signalling) >= 0 - threadsCreated - spurious
      BY <1>0, <2>1, CountTypes DEF Counting, IdlersAccount, SignalDebt
    <2>7. QueueBound'
      BY <1>0, <2>1, <2>3, <2>6, CountTypes, SMTT(30) DEF QueueBound
    <2> QED
      BY <2>4, <2>5, <2>7 DEF Counting
  <1> QED
    BY <1>1, <1>2, <1>3, <1>4, <1>5, <1>6, <1>7, <1>8, <1>9, <1>10, <1>11, <1>12, <1>13, <1>14, <1>15
    DEF ListenerStep, ListenerInput

(* Taking an element makes one worker busy and the queue shorter by one. *)
LEMMA TakeElementCounting ==
    ASSUME TypeOK, Control, Board, Counting, queue # <<>>,
           NEW w \in Workers, TakeElement(w), wpc[w] \in {"pop", "woken"},
           UNCHANGED <<vacant, infoVars, qTerminated, connVars, offWorker>>
    PROVE  Counting'
  <1>1. /\ Idle' = Idle \ {w} /\ w \in Idle /\ Signalling' = Signalling
    BY DEF TypeOK, Control, WorkerPhases, TakeElement, Idle, Signalling
  <1>2. /\ (Granting' <=> Granting) /\ (Reserving' <=> Reserving)
        /\ UNCHANGED <<idlers, lpc, spurious, threadsCreated>>
    BY DEF Granting, Reserving, infoVars, offWorker, listenerVars, startVars
  <1>3. Cardinality(Idle') = Cardinality(Idle) - 1
    BY <1>1, WorkerRemoved DEF Idle
  <1>4. IdlersAccount'
    BY <1>2, <1>3, TakeElementFacts, CountTypes DEF Counting, IdlersAccount
  <1>5. SignalDebt'
    BY <1>1, <1>2 DEF Counting, SignalDebt
  <1>6. QueueBound'
    BY <1>2, TakeElementFacts, CountTypes DEF Counting, QueueBound
  <1> QED
    BY <1>4, <1>5, <1>6 DEF Counting

(* The steps of a worker keep the account. *)
LEMMA WorkerCounting ==
    ASSUME IInv, NEW w \in Workers,
           WorkerStep(w) \/ WorkerInput(w)
    PROVE  Counting'
  <1> USE DEF dataVars, infoVars, queueVars, connVars, listenerVars,
      startVars, offWorker
  <1>0. TypeOK /\ Control /\ Board /\ Counting
    BY DEF IInv, Control, Board, Counting
  <1>1. CASE WorkerStart(w)
    <2>1. Signalling' = Signalling
      BY <1>0, <1>1 DEF WorkerStart, Signalling, TypeOK
    <2> QED
      BY <1>0, <1>1, <2>1, CountingFrame DEF WorkerStart, Granting, Reserving, Idle
  <1>2. CASE WorkerTop(w)
    <2>1. Signalling' = Signalling
      BY <1>0, <1>2 DEF WorkerTop, Signalling, TypeOK
    <2> QED
      BY <1>0, <1>2, <2>1, CountingFrame DEF WorkerTop, Granting, Reserving, Idle
  <1>3. CASE WorkerReady(w)
    <2>1. Signalling' = Signalling
      BY <1>0, <1>3 DEF WorkerReady, Signalling, TypeOK
    <2> QED
      BY <1>0, <1>3, <2>1, CountingFrame DEF WorkerReady, Granting, Reserving, Idle
  <1>4. CASE WorkerSpuriousWakeup(w)
    <2>1. Signalling' = Signalling
      BY <1>0, <1>4 DEF WorkerSpuriousWakeup, Signalling, TypeOK
    <2> QED
      BY <1>0, <1>4, <2>1, CountingFrame DEF WorkerSpuriousWakeup, Granting, Reserving, Idle
  <1>5. CASE ProcessKeep(w)
    <2>1. Signalling' = Signalling
      BY <1>0, <1>5 DEF ProcessKeep, Signalling, TypeOK
    <2> QED
      BY <1>0, <1>5, <2>1, CountingFrame DEF ProcessKeep, Granting, Reserving, Idle
  <1>6. CASE ProcessClose(w)
    <2>1. Signalling' = Signalling
      BY <1>0, <1>6 DEF ProcessClose, Signalling, TypeOK
    <2> QED
      BY <1>0, <1>6, <2>1, CountingFrame DEF ProcessClose, Granting, Reserving, Idle
  <1>7. CASE WorkerClear(w)
    <2>1. Signalling' = Signalling
      BY <1>0, <1>7 DEF WorkerClear, Signalling, TypeOK
    <2> QED
      BY <1>0, <1>7, <2>1, CountingFrame DEF WorkerClear, Granting, Reserving, Idle
  <1>8. CASE WorkerExit(w)
    <2>1. Signalling' = Signalling
      BY <1>0, <1>8 DEF WorkerExit, Signalling, TypeOK
    <2> QED
      BY <1>0, <1>8, <2>1, CountingFrame DEF WorkerExit, Granting, Reserving, Idle
  <1>10. CASE QueuePop(w)
    <2>1. CASE queue # <<>> /\ TakeElement(w)
      <3>1. /\ wpc[w] \in {"pop", "woken"}
            /\ UNCHANGED <<vacant, infoVars, qTerminated, connVars, offWorker>>
        BY <1>10 DEF QueuePop
      <3> QED
        BY <1>0, <2>1, <3>1, TakeElementCounting
    <2>2. CASE queue = <<>> /\ UNCHANGED <<queue, isIdle>>
      <3>1. Signalling' = Signalling
        BY <1>0, <1>10, <2>2 DEF QueuePop, TakeElement, Signalling, TypeOK
      <3> QED
        BY <1>0, <1>10, <2>2, <3>1, CountingFrame DEF QueuePop, Granting, Reserving, Idle
    <2> QED
      BY <1>10, <2>1, <2>2 DEF QueuePop
  <1>11. CASE QueuePopWoken(w)
    <2>1. CASE queue # <<>> /\ TakeElement(w)
      <3>1. /\ wpc[w] \in {"pop", "woken"}
            /\ UNCHANGED <<vacant, infoVars, qTerminated, connVars, offWorker>>
        BY <1>11 DEF QueuePopWoken
      <3> QED
        BY <1>0, <2>1, <3>1, TakeElementCounting
    <2>2. CASE queue = <<>> /\ UNCHANGED <<queue, isIdle>>
      <3>1. Signalling' = Signalling
        BY <1>0, <1>11, <2>2 DEF QueuePopWoken, TakeElement, Signalling, TypeOK
      <3> QED
        BY <1>0, <1>11, <2>2, <3>1, CountingFrame DEF QueuePopWoken, Granting, Reserving, Idle
    <2> QED
      BY <1>11, <2>1, <2>2 DEF QueuePopWoken
  <1>12. CASE SetIdle(w)
    <2>1. /\ Idle' = Idle \cup {w} /\ w \notin Idle /\ w \notin Signalling
          /\ Signalling' = IF idlers < 0 THEN Signalling \cup {w} ELSE Signalling
      BY <1>0, <1>12 DEF SetIdle, TypeOK, Control, WorkerPhases, Idle, Signalling
    <2>2. /\ (Granting' <=> Granting) /\ (Reserving' <=> Reserving)
          /\ idlers' = idlers + 1 /\ UNCHANGED <<lpc, spurious, queue, threadsCreated>>
      BY <1>12 DEF SetIdle, Granting, Reserving
    <2>3. /\ Cardinality(Idle') = Cardinality(Idle) + 1
          /\ Cardinality(Signalling') =
                IF idlers < 0 THEN Cardinality(Signalling) + 1 ELSE Cardinality(Signalling)
      BY <2>1, WorkerAdded DEF Idle, Signalling
    <2>4. IdlersAccount'
      BY <1>0, <2>2, <2>3, CountTypes DEF Counting, IdlersAccount
    <2>5. SignalDebt'
      BY <1>0, <2>2, <2>3, CountTypes DEF Counting, SignalDebt
    <2>6. QueueBound'
      BY <1>0, <2>2 DEF Counting, QueueBound
    <2> QED
      BY <2>4, <2>5, <2>6 DEF Counting
  <1>13. CASE SetIdleSignal(w)
    <2>1. /\ Idle' = Idle /\ w \in Signalling /\ Signalling' = Signalling \ {w}
      BY <1>0, <1>13 DEF SetIdleSignal, TypeOK, Idle, Signalling
    <2>2. /\ (Granting' <=> Granting) /\ (Reserving' <=> Reserving)
          /\ lpc' = IF lpc = "idlewait" THEN "ret" ELSE lpc
          /\ UNCHANGED <<idlers, spurious, queue, threadsCreated>>
      BY <1>13 DEF SetIdleSignal, Granting, Reserving
    <2>3. Cardinality(Signalling') = Cardinality(Signalling) - 1
      BY <2>1, WorkerRemoved DEF Signalling
    <2>4. IdlersAccount' /\ QueueBound'
      BY <1>0, <2>1, <2>2 DEF Counting, IdlersAccount, QueueBound
    <2>5. SignalDebt'
      BY <1>0, <2>2, <2>3, CountTypes DEF Counting, SignalDebt
    <2> QED
      BY <2>4, <2>5 DEF Counting
  <1>20. CASE QueuePopEmpty(w)
    <2>1. Signalling' = Signalling
      BY <1>0, <1>20 DEF QueuePopEmpty, Signalling, TypeOK
    <2> QED
      BY <1>0, <1>20, <2>1, CountingFrame DEF QueuePopEmpty, Granting, Reserving, Idle
  <1> QED
    BY <1>1, <1>2, <1>3, <1>4, <1>5, <1>6, <1>7, <1>8, <1>10, <1>11, <1>12, <1>13, <1>20
    DEF WorkerStep, WorkerInput

(* The steps of the start thread keep the account: a new worker is not yet *)
(* idle.                                                                   *)
LEMMA StartCounting ==
    ASSUME IInv, StartStep
    PROVE  Counting'
  <1> USE DEF dataVars, infoVars, queueVars, listenerVars, startVars
  <1>0. TypeOK /\ Control /\ Board /\ Counting
    BY DEF IInv, Control, Board, Counting
  <1>1. CASE StartScan
    <2>1. /\ (Granting' <=> Granting) /\ (Reserving' <=> Reserving)
          /\ UNCHANGED <<idlers, queue, spurious, lpc>> /\ Idle' = Idle
      BY <1>1 DEF StartScan, Granting, Reserving, Idle
    <2>2. CASE UNCHANGED <<wpc, threadsCreated>>
      BY <1>0, <2>1, <2>2, CountingFrame DEF Signalling
    <2>3. CASE /\ threadsCreated < MaxThreads
               /\ wpc' = [wpc EXCEPT ![threadsCreated] = "start"]
               /\ threadsCreated' = threadsCreated + 1
      <3>1. threadsCreated \in Workers
        BY <1>0, <2>3, BoundAssumption DEF TypeOK, Workers
      <3>2. Signalling' = Signalling
        BY <1>0, <2>3, <3>1 DEF Signalling, TypeOK, Board, Numbered, Workers
      <3>3. IdlersAccount'
        BY <1>0, <2>1 DEF Counting, IdlersAccount
      <3>4. SignalDebt' /\ QueueBound'
        BY <1>0, <2>1, <2>3, <3>2, CountTypes, SMTT(30) DEF Counting, SignalDebt, QueueBound
      <3> QED
        BY <3>3, <3>4 DEF Counting
    <2> QED
      BY <1>1, <2>2, <2>3 DEF StartScan
  <1>2. CASE StartLoop
    BY <1>0, <1>2, CountingFrame
    DEF StartLoop, workerVars, Granting, Reserving, Idle, Signalling
  <1>3. CASE StartFail
    BY <1>0, <1>3, CountingFrame
    DEF StartFail, workerVars, Granting, Reserving, Idle, Signalling
  <1> QED
    BY <1>1, <1>2, <1>3 DEF StartStep

(* The steps of the main thread, and SIGTERM, keep the account. *)
LEMMA MainCounting ==
    ASSUME IInv, MainStep \/ MainPodRead \/ ParentSigterm
    PROVE  Counting'
  <1> USE DEF dataVars, infoVars, queueVars, listenerVars, workerVars, startVars,
      offMain
  <1>0. TypeOK /\ Control /\ Board /\ Counting
    BY DEF IInv, Control, Board, Counting
  <1>1. CASE MainUnblock
    BY <1>0, <1>1, CountingFrame DEF MainUnblock, Granting, Reserving, Idle, Signalling
  <1>2. CASE MainInstallHandler
    BY <1>0, <1>2, CountingFrame DEF MainInstallHandler, Granting, Reserving, Idle, Signalling
  <1>3. CASE MainEnterRead
    BY <1>0, <1>3, CountingFrame DEF MainEnterRead, Granting, Reserving, Idle, Signalling
  <1>4. CASE MainPodRead
    BY <1>0, <1>4, CountingFrame DEF MainPodRead, Granting, Reserving, Idle, Signalling
  <1>5. CASE MainInterrupted
    BY <1>0, <1>5, CountingFrame DEF MainInterrupted, Granting, Reserving, Idle, Signalling
  <1>6. CASE MainJoinStart
    BY <1>0, <1>6, CountingFrame DEF MainJoinStart, Granting, Reserving, Idle, Signalling
  <1>7. CASE MainSignalThreads
    BY <1>0, <1>7, CountingFrame DEF MainSignalThreads, Granting, Reserving, Idle, Signalling
  <1>8. CASE MainInfoTerm
    BY <1>0, <1>8, CountingFrame DEF MainInfoTerm, Granting, Reserving, Idle, Signalling, Control, ListenerPhases
  <1>9. CASE MainCloseTest
    BY <1>0, <1>9, CountingFrame DEF MainCloseTest, Granting, Reserving, Idle, Signalling
  <1>10. CASE MainCloseSocket
    BY <1>0, <1>10, CountingFrame DEF MainCloseSocket, Granting, Reserving, Idle, Signalling
  <1>11. CASE MainCloseDone
    BY <1>0, <1>11, CountingFrame DEF MainCloseDone, Granting, Reserving, Idle, Signalling
  <1>12. CASE MainJoinListener
    BY <1>0, <1>12, CountingFrame DEF MainJoinListener, Granting, Reserving, Idle, Signalling
  <1>13. CASE MainJoinWorkers
    BY <1>0, <1>13, CountingFrame DEF MainJoinWorkers, Granting, Reserving, Idle, Signalling
  <1>14. CASE ParentSigterm
    BY <1>0, <1>14, CountingFrame DEF ParentSigterm, Granting, Reserving, Idle, Signalling
  <1>15. CASE MainInterruptAll
    <2>1. Signalling' = Signalling
      BY <1>0, <1>15 DEF MainInterruptAll, BroadcastNotEmpty, Signalling, TypeOK
    <2> QED
      BY <1>0, <1>15, <2>1, CountingFrame
      DEF MainInterruptAll, Granting, Reserving, Idle
  <1> QED
    BY <1>1, <1>2, <1>3, <1>4, <1>5, <1>6, <1>7, <1>8, <1>9, <1>10, <1>11, <1>12, <1>13, <1>14, <1>15
    DEF MainStep

(***************************************************************************)
(* The inductive invariant and what follows from it.                       *)
(***************************************************************************)

(* A child starts with no threads, nothing queued and nothing counted. *)
LEMMA InitIInv == Init => IInv
  <1> SUFFICES ASSUME Init PROVE IInv
    OBVIOUS
  <1>1. TypeOK
    <2>1. /\ idlers \in Int /\ queue \in Seq(Conns) /\ recycled \in Seq(Conns)
          /\ spurious \in 0 .. MaxSpurious /\ scan \in 0 .. ThreadsPerChild
          /\ threadsCreated \in 0 .. MaxThreads /\ closing \in 0 .. ThreadsPerChild
      BY ThreadsAssumption, BoundAssumption, SpuriousAssumption, EmptySeq DEF Init
    <2>2. /\ wpc \in [Workers -> WorkerPCs] /\ isIdle \in [Workers -> BOOLEAN]
          /\ csd \in [Workers -> Conns \cup {None}]
          /\ workerSockets \in [Entries -> Conns \cup {None}]
      BY DEF Init, WorkerPCs
    <2>3. entry \in [Workers -> Entries]
      <3>1. 0 \in Entries
        BY ThreadsAssumption DEF Entries
      <3> QED
        BY <3>1 DEF Init
    <2>4. vacant \subseteq Entries
      BY SlotsAssumption DEF Init
    <2> QED
      BY <2>1, <2>2, <2>3, <2>4 DEF Init, TypeOK, ListenerPCs, MainPCs, Modes
  <1>2. Control
    BY DEF Init, Control, ListenerPhases, WorkerPhases, MainPhases, Leaving
  <1>5. Board
    BY DEF Init, Board, Numbered, OneThreadPerEntry, EntryTaken, Sole
  <1>3. Idle = {} /\ Signalling = {} /\ Len(queue) = 0 /\ ~Reserving
    BY EmptySeq DEF Init, Idle, Signalling, Reserving
  <1>4. Counting
    BY <1>1, <1>2, <1>3, <1>5, CountTypes, FS_EmptySet
    DEF Init, Counting, IdlersAccount, SignalDebt, QueueBound
  <1> QED
    BY <1>1, <1>2, <1>4, <1>5 DEF IInv, Control, Board, Counting

(* Every step of every thread keeps IInv. *)
LEMMA NextIInv == IInv /\ [Next]_vars => IInv'
  <1> SUFFICES ASSUME IInv, [Next]_vars PROVE IInv'
    OBVIOUS
  <1>1. TypeOK' /\ Control' /\ Board' /\ Counting' => IInv'
    BY DEF IInv, Control, Board, Counting
  <1>2. CASE ListenerStep \/ ListenerInput
    BY <1>1, <1>2, ListenerTypes, ListenerControl, ListenerBoard, ListenerCounting
  <1>3. CASE \E w \in Workers : WorkerStep(w) \/ WorkerInput(w)
    BY <1>1, <1>3, WorkerTypes, WorkerControl, WorkerBoard, WorkerCounting
  <1>4. CASE StartStep
    BY <1>1, <1>4, StartTypes, StartControl, StartBoard, StartCounting
  <1>5. CASE MainStep \/ MainPodRead \/ ParentSigterm
    BY <1>1, <1>5, MainTypes, MainControl, MainBoard, MainCounting
  <1>6. CASE UNCHANGED vars
    BY <1>6 DEF vars, dataVars, infoVars, queueVars, connVars, listenerVars,
       workerVars, startVars, mainVars, mainRest, flagVars, IInv, TypeOK,
       ListenerPhases, WorkerPhases, MainPhases, Leaving, Numbered,
       OneThreadPerEntry, EntryTaken, Sole,
       IdlersAccount, SignalDebt, QueueBound, Granting, Reserving, Idle, Signalling
  <1>7. CASE BoardInput
    BY <1>7, OthersIInv
  <1> QED
    BY <1>2, <1>3, <1>4, <1>5, <1>6, <1>7 DEF Next, Exited

(* The inductive invariant of the child process. *)
THEOREM ChildInvariant == Spec => []IInv
  BY InitIInv, NextIInv, PTL DEF Spec

(* The variables of the child keep their types: no NULL socket is queued,  *)
(* polled or processed (zevent_queue_pop, push2worker, process_socket).    *)
THEOREM ChildTypes == Spec => []TypeOK
  <1>1. IInv => TypeOK
    BY DEF IInv
  <1> QED
    BY <1>1, ChildInvariant, PTL

(* zevent_queue_info_set_idle and wait_for_idler keep idlers equal to the  *)
(* idle workers less the connections queued and reserved.                  *)
THEOREM IdleWorkersAccounted == Spec => []IdlersAccount
  <1>1. IInv => IdlersAccount
    BY DEF IInv
  <1> QED
    BY <1>1, ChildInvariant, PTL

(* zevent_queue_push, which tests no bound, puts at most two connections   *)
(* per worker on the queue, one more for each spurious wakeup.             *)
THEOREM QueueIsBounded == Spec => []QueueBound
  <1>1. IInv => QueueBound
    BY DEF IInv
  <1> QED
    BY <1>1, ChildInvariant, PTL

(* start_threads of a process that is not quiescing starts no second       *)
(* thread over a running one, in entries no older thread still writes.     *)
THEOREM EntriesNotShared == Spec => []OneThreadPerEntry
  <1>1. IInv => OneThreadPerEntry
    BY DEF IInv
  <1> QED
    BY <1>1, ChildInvariant, PTL

(* After zevent_queue_term the listener pushes no more. *)
THEOREM TerminatedQueueShrinks == Spec => NoPushAfterTerm
  <1>1. IInv /\ [Next]_vars => [qTerminated => Len(queue') <= Len(queue)]_vars
    <2> SUFFICES ASSUME IInv, Next, qTerminated
                 PROVE  Len(queue') <= Len(queue)
      BY DEF vars
    <2>0. TypeOK /\ lpc # "dispatch" /\ Len(queue) \in Nat
      BY LenProperties DEF IInv, TypeOK, ListenerPhases
    <2>1. CASE UNCHANGED queue
      BY <2>0, <2>1
    <2>2. CASE \E w \in Workers : queue # <<>> /\ TakeElement(w)
      BY <2>0, <2>2, TakeElementFacts
    <2> USE DEF vars, dataVars, infoVars, queueVars
    <2>3. CASE ListenerStep \/ ListenerInput
      BY <2>0, <2>1, <2>3 DEF ListenerStep, ListenerInput, ListenerSetup,
         ListenerLeave, ListenerPoll, ListenerPollError, GetWorker,
         WaitForIdlerLock, WaitForIdlerReturn, ListenerSpuriousWakeup,
         Push2Worker, Accept, AcceptNoPool, ListenerQueueTerm,
         ListenerInterruptAll, ListenerDying, ListenerKillSelf
    <2>4. ASSUME NEW w \in Workers, WorkerStep(w) \/ WorkerInput(w)
          PROVE  Len(queue') <= Len(queue)
      BY <2>1, <2>2, <2>4 DEF WorkerStep, WorkerInput, WorkerStart, WorkerTop,
         SetIdle, SetIdleSignal, WorkerReady, QueuePop, QueuePopWoken, QueuePopEmpty,
         WorkerSpuriousWakeup, ProcessKeep, ProcessClose, WorkerClear,
         WorkerExit
    <2>5. CASE StartStep
      BY <2>1, <2>5 DEF StartStep, StartScan, StartLoop, StartFail
    <2>6. CASE MainStep \/ MainPodRead \/ ParentSigterm
      BY <2>1, <2>6 DEF MainStep, MainPodRead, ParentSigterm, MainUnblock,
         MainInstallHandler, MainEnterRead, MainInterrupted, MainJoinStart,
         MainSignalThreads, MainInterruptAll, MainInfoTerm, MainCloseTest,
         MainCloseSocket, MainCloseDone, MainJoinListener, MainJoinWorkers
    <2>7. CASE BoardInput
      BY <2>0, <2>1, <2>7, OthersFacts DEF offBoard
    <2> QED
      BY <2>1, <2>3, <2>4, <2>5, <2>6, <2>7 DEF Next, Exited
  <1> QED
    BY <1>1, ChildInvariant, PTL DEF Spec, NoPushAfterTerm

(***************************************************************************)
(* A pool is in one place.                                                 *)
(***************************************************************************)

(* One element more at the end. *)
LEMMA AppendedOnce ==
    ASSUME NEW S, NEW s \in Seq(S), NEW x \in S
    PROVE  /\ {Append(s, x)[i] : i \in DOMAIN Append(s, x)} = {s[i] : i \in DOMAIN s} \cup {x}
           /\ OnceEach(s) /\ x \notin {s[i] : i \in DOMAIN s} => OnceEach(Append(s, x))
  <1>0. PICK t : t = Append(s, x)
    OBVIOUS
  <1>1. PICK m \in Nat : m = Len(s) /\ t = Append(s, x)
    BY <1>0, LenProperties
  <1>2. DOMAIN s = 1 .. m /\ DOMAIN t = 1 .. m + 1
    BY <1>1, AppendProperties, LenProperties
  <1>3. (\A i \in 1 .. m : t[i] = s[i]) /\ t[m + 1] = x
    BY <1>1, AppendProperties
  <1>4. \A i \in 1 .. m + 1 : i \in 1 .. m \/ i = m + 1
    OBVIOUS
  <1>5. m + 1 \in 1 .. m + 1 /\ \A i \in 1 .. m : i \in 1 .. m + 1
    OBVIOUS
  <1>6. {t[i] : i \in DOMAIN t} = {s[i] : i \in DOMAIN s} \cup {x}
    BY <1>2, <1>3, <1>4, <1>5
  <1>7. ASSUME OnceEach(s), x \notin {s[i] : i \in DOMAIN s} PROVE OnceEach(t)
    BY <1>2, <1>3, <1>4, <1>7 DEF OnceEach
  <1> QED
    BY <1>1, <1>6, <1>7

(* One element less at the end. *)
LEMMA FrontOnce ==
    ASSUME NEW S, NEW s \in Seq(S), s # <<>>, OnceEach(s)
    PROVE  /\ {Front(s)[i] : i \in DOMAIN Front(s)} = {s[i] : i \in DOMAIN s} \ {Last(s)}
           /\ Last(s) \in {s[i] : i \in DOMAIN s} /\ OnceEach(Front(s)) /\ Front(s) \in Seq(S)
  <1>0. PICK t : t = Front(s)
    OBVIOUS
  <1>1. PICK m \in Nat : m = Len(s) /\ t = Front(s) /\ m # 0
    BY <1>0, FrontFacts
  <1>2. /\ t \in Seq(S) /\ Len(t) = m - 1
        /\ \A i \in 1 .. m - 1 : t[i] = s[i]
    BY <1>1, FrontFacts DEF Front
  <1>3. DOMAIN s = 1 .. m /\ DOMAIN t = 1 .. m - 1
    BY <1>1, <1>2, LenProperties
  <1>4. m \in 1 .. m /\ \A i \in 1 .. m - 1 : i \in 1 .. m /\ i # m
    BY <1>1
  <1>5. \A i \in 1 .. m : i \in 1 .. m - 1 \/ i = m
    OBVIOUS
  <1>6. Last(s) = s[m]
    BY <1>1 DEF Last
  <1>7. \A i, j \in 1 .. m : s[i] = s[j] => i = j
    BY <1>3 DEF OnceEach
  <1>8. {t[i] : i \in DOMAIN t} = {s[i] : i \in DOMAIN s} \ {s[m]}
    <2>1. \A i \in 1 .. m - 1 : s[i] # s[m]
      BY <1>4, <1>7
    <2>2. {t[i] : i \in 1 .. m - 1} = {s[i] : i \in 1 .. m} \ {s[m]}
      BY <1>2, <1>4, <1>5, <2>1
    <2> QED
      BY <1>3, <2>2
  <1>9. OnceEach(t)
    BY <1>2, <1>3, <1>4, <1>7 DEF OnceEach
  <1>10. s[m] \in {s[i] : i \in DOMAIN s}
    BY <1>3, <1>4
  <1>11. Last(s) \in {s[i] : i \in DOMAIN s} /\ OnceEach(Front(s)) /\ Front(s) \in Seq(S)
    <2>1. t = Front(s)
      BY <1>1
    <2>2. OnceEach(Front(s))
      BY <1>9, <2>1
    <2> QED
      BY <1>2, <1>6, <1>10, <2>1, <2>2
  <1>12. {Front(s)[i] : i \in DOMAIN Front(s)} = {s[i] : i \in DOMAIN s} \ {Last(s)}
    BY <1>1, <1>6, <1>8
  <1> QED
    BY <1>11, <1>12

(* A step that moves no pool. *)
LEMMA PlacesFrame ==
    ASSUME PlacesApart, UNCHANGED <<queue, recycled, created>>,
           Holding' = Holding, \A w \in Holding : csd'[w] = csd[w],
           Watched' \subseteq Watched, pollset' = pollset \/ workersMayExit',
           workersMayExit => workersMayExit',
           mpc' \in {"interrupt", "infoterm", "close", "closing"} => workersMayExit'
    PROVE  PlacesApart'
  <1>1. Queued' = Queued /\ Free' = Free
    BY DEF Queued, Free
  <1>2. Held' = Held
    BY DEF Held
  <1>3. \A v, w \in Holding' : csd'[v] = csd'[w] => v = w
    BY DEF PlacesApart
  <1>4. OnceEach(queue)' /\ OnceEach(recycled)'
    BY DEF PlacesApart, OnceEach
  <1> QED
    BY <1>1, <1>2, <1>3, <1>4 DEF PlacesApart

(* What the listener does with a pool. *)
LEMMA ListenerPlaces ==
    ASSUME IInv, PlacesApart, ListenerStep \/ ListenerInput
    PROVE  PlacesApart'
  <1> USE DEF dataVars, infoVars, queueVars, connVars, listenerVars,
      workerVars, startVars, mainVars, mainRest, flagVars, offListener
  <1>0. TypeOK /\ (mpc \in {"interrupt", "infoterm", "close", "closing"} => workersMayExit)
    BY DEF IInv, PlacesApart
  <1>1. ASSUME UNCHANGED <<pollset, queue, recycled, created, csd, workersMayExit>>,
               events' = events \/ events' \subseteq pollset \cup {Listen},
               \A w \in Workers : wpc'[w] = wpc[w] \/ (wpc[w] = "wait" /\ wpc'[w] = "woken"),
               mpc' = mpc \/ mpc' \in {"exited", "eintr"}
        PROVE  PlacesApart'
    <2>1. Holding' = Holding
      BY <1>1 DEF Holding
    <2>2. Watched' \subseteq Watched
      BY <1>1 DEF Watched
    <2> QED
      BY <1>0, <1>1, <2>1, <2>2, PlacesFrame
  <1>2. CASE \/ ListenerSetup \/ ListenerLeave \/ GetWorker \/ WaitForIdlerLock
            \/ WaitForIdlerReturn \/ AcceptNoPool \/ ListenerQueueTerm \/ ListenerDying
            \/ ListenerPoll \/ ListenerPollError \/ ListenerSpuriousWakeup
    <2>1. /\ UNCHANGED <<pollset, queue, recycled, created, csd, workersMayExit, wpc, mpc>>
          /\ events' = events \/ events' \subseteq pollset \cup {Listen}
      BY <1>2 DEF ListenerSetup, ListenerLeave, GetWorker, WaitForIdlerLock,
         WaitForIdlerReturn, AcceptNoPool, ListenerQueueTerm, ListenerDying, ListenerPoll,
         ListenerPollError, ListenerSpuriousWakeup, SignalThreadsGraceful
    <2> QED
      BY <1>1, <2>1
  <1>3. CASE ListenerInterruptAll
    <2>1. UNCHANGED <<pollset, queue, recycled, created, csd, workersMayExit, mpc, events>>
      BY <1>3 DEF ListenerInterruptAll
    <2>2. \A w \in Workers : wpc'[w] = wpc[w] \/ (wpc[w] = "wait" /\ wpc'[w] = "woken")
      BY <1>3 DEF ListenerInterruptAll, BroadcastNotEmpty
    <2> QED
      BY <1>1, <2>1, <2>2
  <1>4. CASE ListenerKillSelf
    <2>1. mpc' = mpc \/ mpc' \in {"exited", "eintr"}
      BY <1>0, <1>4, DeliverSigtermTypes DEF ListenerKillSelf
    <2>2. UNCHANGED <<pollset, queue, recycled, created, csd, workersMayExit, wpc, events>>
      BY <1>4 DEF ListenerKillSelf
    <2> QED
      BY <1>1, <2>1, <2>2
  <1>5. ASSUME NEW c \in Conns, Push2Worker(c) PROVE PlacesApart'
    <2>1. /\ c \in events /\ c # Listen /\ pollset' = pollset \ {c} /\ queue' = Append(queue, c)
          /\ events' = events \ {c}
          /\ UNCHANGED <<recycled, created, csd, workersMayExit, mpc>>
      BY <1>5, ConnsAssumption DEF Push2Worker
    <2>2. \A w \in Workers : wpc'[w] = wpc[w] \/ (wpc[w] = "wait" /\ wpc'[w] = "woken")
      BY <1>0, <1>5 DEF Push2Worker, SignalNotEmpty, Waiting, TypeOK
    <2>3. Holding' = Holding /\ Held' = Held
      BY <2>1, <2>2 DEF Holding, Held
    <2>4. c \in Watched /\ Watched' = Watched \ {c} /\ Free' = Free
      BY <2>1 DEF Watched, Free
    <2>5. Queued' = Queued \cup {c} /\ (c \notin Queued => OnceEach(queue'))
      <3>1. queue \in Seq(Conns) /\ OnceEach(queue)
        BY <1>0 DEF TypeOK, PlacesApart
      <3> QED
        BY <2>1, <3>1, AppendedOnce DEF Queued
    <2>6. OnceEach(queue)' /\ OnceEach(recycled)'
      <3>1. c \notin Queued
        BY <2>4 DEF PlacesApart
      <3> QED
        BY <2>1, <2>5, <3>1 DEF PlacesApart, OnceEach
    <2>7. \A v, w \in Holding' : csd'[v] = csd'[w] => v = w
      BY <2>1, <2>3 DEF PlacesApart
    <2>8. /\ (Watched \cap Queued = {})' /\ (Watched \cap Free = {})' /\ (Watched \cap Held = {})'
          /\ (Queued \cap Free = {})' /\ (Queued \cap Held = {})' /\ (Free \cap Held = {})'
      BY <2>3, <2>4, <2>5 DEF PlacesApart
    <2>9. /\ (Watched \cup Queued \cup Free \cup Held \subseteq created)'
          /\ (workersMayExit \/ created \subseteq pollset \cup Queued \cup Free \cup Held)'
      BY <2>1, <2>3, <2>4, <2>5 DEF PlacesApart
    <2> QED
      BY <1>0, <2>1, <2>6, <2>7, <2>8, <2>9 DEF PlacesApart
  <1>6. CASE Accept
    <2>1. PICK ptrans \in IF recycled # <<>> THEN {Last(recycled)} ELSE Conns \ created :
            LET rest == IF recycled # <<>> THEN Front(recycled) ELSE recycled
            IN  /\ created' = created \cup {ptrans}
                /\ \/ pollset' = pollset \cup {ptrans} /\ recycled' = rest
                   \/ pollset' = pollset /\ recycled' = Append(rest, ptrans)
      BY <1>6 DEF Accept
    <2>2. PICK rest : rest = IF recycled # <<>> THEN Front(recycled) ELSE recycled
      OBVIOUS
    <2>3. /\ UNCHANGED <<queue, csd, wpc, mpc, workersMayExit>> /\ events' = events \ {Listen}
          /\ created' = created \cup {ptrans}
          /\ \/ pollset' = pollset \cup {ptrans} /\ recycled' = rest
             \/ pollset' = pollset /\ recycled' = Append(rest, ptrans)
      BY <1>6, <2>1, <2>2 DEF Accept, SignalThreadsGraceful
    <2>4. PICK F : F = {rest[i] : i \in DOMAIN rest}
      OBVIOUS
    <2>5. /\ rest \in Seq(Conns) /\ OnceEach(rest) /\ F = Free \ {ptrans} /\ ptrans \in Conns
          /\ ptrans \in Free \/ ptrans \notin created
      <3>1. CASE recycled # <<>>
        <4>1. recycled \in Seq(Conns) /\ OnceEach(recycled)
          BY <1>0 DEF TypeOK, PlacesApart
        <4>2. rest = Front(recycled) /\ ptrans = Last(recycled)
          BY <2>1, <2>2, <3>1
        <4>3. /\ {Front(recycled)[i] : i \in DOMAIN Front(recycled)} = Free \ {Last(recycled)}
              /\ Last(recycled) \in Free /\ OnceEach(Front(recycled)) /\ Front(recycled) \in Seq(Conns)
          BY <3>1, <4>1, FrontOnce DEF Free
        <4>4. Free \subseteq Conns
          BY <1>0 DEF PlacesApart, TypeOK
        <4> QED
          BY <2>4, <4>2, <4>3, <4>4
      <3>2. CASE recycled = <<>>
        <4>1. rest = recycled /\ ptrans \in Conns \ created
          BY <2>1, <2>2, <3>2
        <4>2. ptrans \notin Free
          BY <4>1 DEF PlacesApart
        <4>3. F = Free
          BY <2>4, <4>1 DEF Free
        <4> QED
          BY <1>0, <4>1, <4>2, <4>3 DEF TypeOK, PlacesApart
      <3> QED
        BY <3>1, <3>2
    <2>6. Holding' = Holding /\ Held' = Held /\ Queued' = Queued
      BY <2>3 DEF Holding, Held, Queued
    <2>7. Listen \notin pollset
      BY <1>0, ConnsAssumption DEF TypeOK
    <2>8. ptrans \notin Watched /\ ptrans \notin Queued /\ ptrans \notin Held /\ ptrans # Listen
      BY <2>5, ConnsAssumption DEF PlacesApart
    <2>9. /\ OnceEach(recycled')
          /\ \/ Watched' = Watched \cup {ptrans} /\ Free' = F /\ ptrans \in pollset'
             \/ Watched' = Watched /\ Free' = F \cup {ptrans}
      <3>1. CASE pollset' = pollset \cup {ptrans} /\ recycled' = rest
        BY <2>3, <2>4, <2>5, <2>8, <3>1 DEF Watched, Free
      <3>2. CASE pollset' = pollset /\ recycled' = Append(rest, ptrans)
        <4>1. ptrans \notin F
          BY <2>5
        <4>2. /\ {Append(rest, ptrans)[i] : i \in DOMAIN Append(rest, ptrans)} = F \cup {ptrans}
              /\ OnceEach(Append(rest, ptrans))
          BY <2>4, <2>5, <4>1, AppendedOnce
        <4>3. Free' = F \cup {ptrans}
          BY <3>2, <4>2 DEF Free
        <4>4. Watched' = Watched
          BY <2>3, <3>2 DEF Watched
        <4> QED
          BY <3>2, <4>2, <4>3, <4>4
      <3> QED
        BY <2>3, <3>1, <3>2
    <2>10. OnceEach(queue)' /\ OnceEach(recycled)'
      BY <2>3, <2>9 DEF PlacesApart, OnceEach
    <2>11. \A v, w \in Holding' : csd'[v] = csd'[w] => v = w
      BY <2>3, <2>6 DEF PlacesApart
    <2>12. /\ (Watched \cap Queued = {})' /\ (Watched \cap Free = {})' /\ (Watched \cap Held = {})'
           /\ (Queued \cap Free = {})' /\ (Queued \cap Held = {})' /\ (Free \cap Held = {})'
      BY <2>5, <2>6, <2>8, <2>9 DEF PlacesApart
    <2>13. pollset \subseteq pollset'
      BY <2>3
    <2>14. /\ (Watched \cup Queued \cup Free \cup Held \subseteq created)'
           /\ (workersMayExit \/ created \subseteq pollset \cup Queued \cup Free \cup Held)'
      BY <2>3, <2>5, <2>6, <2>9, <2>13 DEF PlacesApart
    <2> QED
      BY <1>0, <2>3, <2>10, <2>11, <2>12, <2>14 DEF PlacesApart
  <1> QED
    BY <1>2, <1>3, <1>4, <1>5, <1>6 DEF ListenerStep, ListenerInput

(* A worker takes the last connection of the queue into its hands. *)
LEMMA TakeElementPlaces ==
    ASSUME IInv, PlacesApart, NEW w \in Workers, wpc[w] # "process", queue # <<>>, TakeElement(w),
           UNCHANGED <<pollset, created, recycled, events, workersMayExit, mpc>>
    PROVE  PlacesApart'
  <1>0. TypeOK /\ (mpc \in {"interrupt", "infoterm", "close", "closing"} => workersMayExit)
    BY DEF IInv, PlacesApart
  <1>1. PICK c : c = Last(queue)
    OBVIOUS
  <1>2. /\ queue' = Front(queue) /\ csd' = [csd EXCEPT ![w] = c]
        /\ wpc' = [wpc EXCEPT ![w] = "process"]
    BY <1>1 DEF TakeElement
  <1>3. Queued' = Queued \ {c} /\ c \in Queued /\ OnceEach(queue')
    <2>1. queue \in Seq(Conns) /\ OnceEach(queue)
      BY <1>0 DEF TypeOK, PlacesApart
    <2> QED
      BY <1>1, <1>2, <2>1, FrontOnce DEF Queued
  <1>4. Holding' = Holding \cup {w} /\ w \notin Holding
    BY <1>0, <1>2 DEF Holding, TypeOK
  <1>5. csd'[w] = c /\ \A v \in Holding : csd'[v] = csd[v]
    BY <1>0, <1>2, <1>4 DEF Holding, TypeOK
  <1>6. Held' = Held \cup {c}
    BY <1>4, <1>5 DEF Held
  <1>7. Watched' = Watched /\ Free' = Free
    BY DEF Watched, Free
  <1>8. \A v, u \in Holding' : csd'[v] = csd'[u] => v = u
    <2>1. c \notin Held
      BY <1>3 DEF PlacesApart
    <2>2. \A v \in Holding : csd[v] # c
      BY <2>1 DEF Held
    <2> QED
      BY <1>4, <1>5, <2>2 DEF PlacesApart
  <1>9. OnceEach(queue)' /\ OnceEach(recycled)'
    BY <1>3 DEF PlacesApart, OnceEach
  <1>10. /\ (Watched \cap Queued = {})' /\ (Watched \cap Free = {})' /\ (Watched \cap Held = {})'
         /\ (Queued \cap Free = {})' /\ (Queued \cap Held = {})' /\ (Free \cap Held = {})'
    BY <1>3, <1>6, <1>7 DEF PlacesApart
  <1>11. /\ (Watched \cup Queued \cup Free \cup Held \subseteq created)'
         /\ (workersMayExit \/ created \subseteq pollset \cup Queued \cup Free \cup Held)'
    BY <1>3, <1>6, <1>7 DEF PlacesApart
  <1> QED
    BY <1>0, <1>8, <1>9, <1>10, <1>11 DEF PlacesApart

(* A worker lets go of its connection: to the pollset or to the recycled   *)
(* list.                                                                   *)
LEMMA ProcessPlaces ==
    ASSUME IInv, PlacesApart, NEW w \in Workers, ProcessKeep(w) \/ ProcessClose(w)
    PROVE  PlacesApart'
  <1>0. /\ TypeOK /\ (mpc \in {"interrupt", "infoterm", "close", "closing"} => workersMayExit)
        /\ wpc[w] = "process" /\ csd[w] \in Conns
    BY DEF IInv, PlacesApart, ProcessKeep, ProcessClose, WorkerPhases
  <1>1. PICK c : c = csd[w]
    OBVIOUS
  <1>2. /\ UNCHANGED <<queue, csd, created, events, workersMayExit, mpc>>
        /\ wpc' = [wpc EXCEPT ![w] = "clear"]
        /\ \/ pollset' = pollset \cup {c} /\ recycled' = recycled
           \/ pollset' = pollset /\ recycled' = Append(recycled, c)
    BY <1>1 DEF ProcessKeep, ProcessClose, queueVars, offWorker, listenerVars, mainVars, flagVars
  <1>3. Holding' = Holding \ {w} /\ w \in Holding
    BY <1>0, <1>2 DEF Holding, TypeOK
  <1>4. Held' = Held \ {c} /\ c \in Held
    BY <1>1, <1>2, <1>3 DEF Held, PlacesApart
  <1>5. c \notin Watched /\ c \notin Queued /\ c \notin Free /\ c \in Conns /\ c # Listen
    BY <1>0, <1>1, <1>4, ConnsAssumption DEF PlacesApart
  <1>6. /\ OnceEach(recycled')
        /\ \/ Watched' = Watched \cup {c} /\ Free' = Free /\ pollset' = pollset \cup {c}
           \/ Watched' = Watched /\ Free' = Free \cup {c} /\ pollset' = pollset
    <2>1. CASE pollset' = pollset \cup {c} /\ recycled' = recycled
      BY <1>2, <2>1 DEF Watched, Free, PlacesApart
    <2>2. CASE pollset' = pollset /\ recycled' = Append(recycled, c)
      <3>1. recycled \in Seq(Conns) /\ OnceEach(recycled)
        BY <1>0 DEF TypeOK, PlacesApart
      <3>2. /\ {Append(recycled, c)[i] : i \in DOMAIN Append(recycled, c)} = Free \cup {c}
            /\ OnceEach(Append(recycled, c))
        BY <1>5, <3>1, AppendedOnce DEF Free
      <3>3. Free' = Free \cup {c}
        BY <2>2, <3>2 DEF Free
      <3>4. Watched' = Watched
        BY <1>2, <2>2 DEF Watched
      <3> QED
        BY <2>2, <3>2, <3>3, <3>4
    <2> QED
      BY <1>2, <2>1, <2>2
  <1>7. Queued' = Queued
    BY <1>2 DEF Queued
  <1>8. \A v, u \in Holding' : csd'[v] = csd'[u] => v = u
    BY <1>2, <1>3 DEF PlacesApart
  <1>9. OnceEach(queue)' /\ OnceEach(recycled)'
    BY <1>2, <1>6 DEF PlacesApart, OnceEach
  <1>10. /\ (Watched \cap Queued = {})' /\ (Watched \cap Free = {})' /\ (Watched \cap Held = {})'
         /\ (Queued \cap Free = {})' /\ (Queued \cap Held = {})' /\ (Free \cap Held = {})'
    BY <1>4, <1>5, <1>6, <1>7 DEF PlacesApart
  <1>11. /\ (Watched \cup Queued \cup Free \cup Held \subseteq created)'
         /\ (workersMayExit \/ created \subseteq pollset \cup Queued \cup Free \cup Held)'
    BY <1>2, <1>4, <1>6, <1>7 DEF PlacesApart
  <1> QED
    BY <1>0, <1>2, <1>8, <1>9, <1>10, <1>11 DEF PlacesApart

(* The steps of a worker. *)
LEMMA WorkerPlaces ==
    ASSUME IInv, PlacesApart, NEW w \in Workers,
           WorkerStep(w) \/ WorkerInput(w)
    PROVE  PlacesApart'
  <1> USE DEF dataVars, infoVars, queueVars, connVars, listenerVars, startVars, mainVars,
      mainRest, flagVars, offWorker
  <1>0. TypeOK /\ (mpc \in {"interrupt", "infoterm", "close", "closing"} => workersMayExit)
    BY DEF IInv, PlacesApart
  <1>1. ASSUME UNCHANGED <<pollset, created, recycled, queue, events, workersMayExit, mpc>>,
               wpc[w] # "process", wpc'[w] # "process",
               csd' = csd \/ csd' = [csd EXCEPT ![w] = None],
               wpc' = [wpc EXCEPT ![w] = wpc'[w]]
        PROVE  PlacesApart'
    <2>1. Holding' = Holding /\ w \notin Holding
      BY <1>0, <1>1 DEF Holding, TypeOK
    <2>2. \A v \in Holding : csd'[v] = csd[v]
      BY <1>0, <1>1, <2>1 DEF Holding, TypeOK
    <2>3. Watched' \subseteq Watched
      BY <1>1 DEF Watched
    <2> QED
      BY <1>0, <1>1, <2>1, <2>2, <2>3, PlacesFrame
  <1>2. CASE \/ WorkerStart(w) \/ WorkerTop(w) \/ SetIdle(w) \/ SetIdleSignal(w) \/ WorkerReady(w)
            \/ QueuePopEmpty(w) \/ WorkerClear(w) \/ WorkerExit(w)
            \/ WorkerSpuriousWakeup(w)
    <2>1. /\ UNCHANGED <<pollset, created, recycled, queue, events, workersMayExit, mpc>>
          /\ csd' = csd \/ csd' = [csd EXCEPT ![w] = None]
      BY <1>2 DEF WorkerStart, WorkerTop, SetIdle, SetIdleSignal, WorkerReady, QueuePopEmpty,
         WorkerClear, WorkerExit, WorkerSpuriousWakeup
    <2>2. /\ wpc[w] # "process" /\ wpc'[w] # "process"
          /\ wpc' = [wpc EXCEPT ![w] = wpc'[w]]
      BY <1>0, <1>2 DEF TypeOK, WorkerStart, WorkerTop, SetIdle, SetIdleSignal, WorkerReady,
         QueuePopEmpty, WorkerClear, WorkerExit, WorkerSpuriousWakeup
    <2> QED
      BY <1>1, <2>1, <2>2
  <1>3. CASE QueuePop(w) \/ QueuePopWoken(w)
    <2>1. /\ wpc[w] # "process"
          /\ UNCHANGED <<pollset, created, recycled, events, workersMayExit, mpc>>
          /\ \/ queue # <<>> /\ TakeElement(w)
             \/ /\ UNCHANGED <<queue, csd>>
                /\ \E p \in {"exit", "wait", "popped"} : wpc' = [wpc EXCEPT ![w] = p]
      BY <1>3 DEF QueuePop, QueuePopWoken
    <2>2. CASE queue # <<>> /\ TakeElement(w)
      BY <2>1, <2>2, TakeElementPlaces
    <2>3. CASE /\ UNCHANGED <<queue, csd>>
               /\ \E p \in {"exit", "wait", "popped"} : wpc' = [wpc EXCEPT ![w] = p]
      <3>1. wpc'[w] # "process" /\ wpc' = [wpc EXCEPT ![w] = wpc'[w]]
        BY <1>0, <2>3 DEF TypeOK
      <3> QED
        BY <1>1, <2>1, <2>3, <3>1
    <2> QED
      BY <2>1, <2>2, <2>3
  <1>4. CASE ProcessKeep(w) \/ ProcessClose(w)
    BY <1>4, ProcessPlaces
  <1> QED
    BY <1>2, <1>3, <1>4 DEF WorkerStep, WorkerInput

(* A worker just created holds nothing. *)
LEMMA StartPlaces ==
    ASSUME IInv, PlacesApart, StartStep
    PROVE  PlacesApart'
  <1> USE DEF dataVars, infoVars, queueVars, connVars, listenerVars, startVars, mainVars,
      mainRest, flagVars, workerVars
  <1>0. TypeOK /\ (mpc \in {"interrupt", "infoterm", "close", "closing"} => workersMayExit)
    BY DEF IInv, PlacesApart
  <1>1. /\ UNCHANGED <<pollset, created, recycled, queue, events, workersMayExit, csd>>
        /\ mpc' = mpc \/ mpc' = "exited"
    BY DEF StartStep, StartScan, StartLoop, StartFail, CleanChildExit
  <1>2. \/ wpc' = wpc
        \/ threadsCreated < MaxThreads /\ wpc' = [wpc EXCEPT ![threadsCreated] = "start"]
    BY <1>0 DEF StartStep, StartScan, StartLoop, StartFail
  <1>3. Holding' = Holding
    <2>1. CASE wpc' = wpc
      BY <2>1 DEF Holding
    <2>2. CASE threadsCreated < MaxThreads /\ wpc' = [wpc EXCEPT ![threadsCreated] = "start"]
      <3>1. threadsCreated \in Workers /\ wpc[threadsCreated] = "none"
        BY <1>0, <2>2, BoundAssumption DEF TypeOK, Workers, IInv, Numbered
      <3> QED
        BY <1>0, <2>2, <3>1 DEF Holding, TypeOK
    <2> QED
      BY <1>2, <2>1, <2>2
  <1>4. Watched' \subseteq Watched
    BY <1>1 DEF Watched
  <1> QED
    BY <1>0, <1>1, <1>3, <1>4, PlacesFrame

(* The main thread loses connections only when workers are forced out. *)
LEMMA MainPlaces ==
    ASSUME IInv, PlacesApart, MainStep \/ MainPodRead \/ ParentSigterm
    PROVE  PlacesApart'
  <1> USE DEF dataVars, infoVars, queueVars, connVars, listenerVars, startVars, mainVars,
      mainRest, flagVars, workerVars, offMain
  <1>0. TypeOK /\ (mpc \in {"interrupt", "infoterm", "close", "closing"} => workersMayExit)
    BY DEF IInv, PlacesApart
  <1>1. ASSUME UNCHANGED <<created, recycled, queue, events, csd>>, pollset' \subseteq pollset,
               pollset' = pollset \/ workersMayExit', workersMayExit => workersMayExit',
               mpc' \in {"interrupt", "infoterm", "close", "closing"} => workersMayExit',
               \A w \in Workers : wpc'[w] = wpc[w] \/ (wpc[w] = "wait" /\ wpc'[w] = "woken")
        PROVE  PlacesApart'
    <2>1. Holding' = Holding
      BY <1>1 DEF Holding
    <2>2. Watched' \subseteq Watched
      BY <1>1 DEF Watched
    <2> QED
      BY <1>1, <2>1, <2>2, PlacesFrame
  <1>2. CASE MainInterruptAll
    <2>1. \A w \in Workers : wpc'[w] = wpc[w] \/ (wpc[w] = "wait" /\ wpc'[w] = "woken")
      BY <1>2 DEF MainInterruptAll, BroadcastNotEmpty
    <2> QED
      BY <1>0, <1>1, <1>2, <2>1 DEF MainInterruptAll
  <1>3. CASE MainCloseSocket
    <2>1. /\ UNCHANGED <<created, recycled, queue, events, csd, wpc, workersMayExit>>
          /\ pollset' \subseteq pollset /\ mpc = "closing"
      BY <1>3 DEF MainCloseSocket
    <2> QED
      BY <1>0, <1>1, <2>1
  <1>4. CASE ParentSigterm
    <2>1. mpc' \in {mpc, "eintr", "exited"}
      BY <1>0, <1>4, DeliverSigtermTypes DEF ParentSigterm
    <2> QED
      BY <1>0, <1>1, <1>4, <2>1 DEF ParentSigterm
  <1>5. CASE MainSignalThreads
    BY <1>0, <1>1, <1>5 DEF MainSignalThreads
  <1>6. CASE \/ MainUnblock \/ MainInstallHandler \/ MainEnterRead \/ MainInterrupted
            \/ MainJoinStart \/ MainInfoTerm \/ MainCloseTest \/ MainCloseDone
            \/ MainJoinListener \/ MainJoinWorkers \/ MainPodRead
    <2>1. /\ UNCHANGED <<pollset, created, recycled, queue, events, csd, wpc, workersMayExit>>
          /\ \/ mpc' \notin {"interrupt", "infoterm", "close", "closing"}
             \/ mpc \in {"interrupt", "infoterm", "close", "closing"}
      BY <1>6 DEF MainUnblock, MainInstallHandler, MainEnterRead, MainInterrupted,
         MainJoinStart, MainInfoTerm, MainCloseTest, MainCloseDone, MainJoinListener,
         MainJoinWorkers, MainPodRead, CleanChildExit
    <2> QED
      BY <1>0, <1>1, <2>1
  <1> QED
    BY <1>2, <1>3, <1>4, <1>5, <1>6 DEF MainStep

LEMMA InitPlaces == Init => PlacesApart
  <1> SUFFICES ASSUME Init PROVE PlacesApart
    OBVIOUS
  <1>1. Holding = {} /\ Held = {}
    BY DEF Init, Holding, Held
  <1>2. Queued = {} /\ Free = {} /\ Watched = {}
    BY DEF Init, Queued, Free, Watched
  <1>3. OnceEach(queue) /\ OnceEach(recycled)
    BY DEF Init, OnceEach
  <1>4. created = {} /\ mpc = "unblock"
    BY DEF Init
  <1> QED
    BY <1>1, <1>2, <1>3, <1>4 DEF PlacesApart

LEMMA NextPlaces == IInv /\ PlacesApart /\ [Next]_vars => PlacesApart'
  <1> SUFFICES ASSUME IInv, PlacesApart, [Next]_vars PROVE PlacesApart'
    OBVIOUS
  <1>1. CASE ListenerStep \/ ListenerInput
    BY <1>1, ListenerPlaces
  <1>2. CASE \E w \in Workers : WorkerStep(w) \/ WorkerInput(w)
    BY <1>2, WorkerPlaces
  <1>3. CASE StartStep
    BY <1>3, StartPlaces
  <1>4. CASE MainStep \/ MainPodRead \/ ParentSigterm
    BY <1>4, MainPlaces
  <1>5. CASE UNCHANGED vars
    BY <1>5 DEF vars, dataVars, infoVars, queueVars, connVars, listenerVars, workerVars,
       mainVars, flagVars, PlacesApart, OnceEach, Holding, Held, Queued, Free, Watched
  <1>6. CASE BoardInput
    <2>1. TypeOK
      BY DEF IInv
    <2>2. UNCHANGED offBoard
      BY <1>6, <2>1, OthersFacts
    <2> QED
      BY <2>2 DEF offBoard, dataVars, infoVars, queueVars, connVars, listenerVars,
         mainVars, flagVars, PlacesApart, OnceEach, Holding, Held, Queued, Free, Watched
  <1> QED
    BY <1>1, <1>2, <1>3, <1>4, <1>5, <1>6 DEF Next, Exited

(* A set in which any two elements are the same. *)
LEMMA AtMostOne ==
    ASSUME NEW S, \A x, y \in S : x = y
    PROVE  Cardinality(S) <= 1
  <1>1. CASE S = {}
    BY <1>1, FS_EmptySet
  <1>2. CASE S # {}
    <2>1. PICK x : x \in S
      BY <1>2
    <2>2. S = {x}
      BY <2>1
    <2> QED
      BY <2>2, FS_Singleton
  <1> QED
    BY <1>1, <1>2

LEMMA ApartIsOnePlace == PlacesApart => OnePlace
  <1> SUFFICES ASSUME PlacesApart, NEW c \in Conns
               PROVE  /\ Cardinality(Places(c)) <= 1
                      /\ (c \in created /\ ~workersMayExit) => Places(c) # {}
    BY DEF OnePlace
  <1>1. \A x : x \in Places(c) <=>
           \/ c \in pollset /\ x = <<"pollset">>
           \/ \E i \in DOMAIN queue : queue[i] = c /\ x = <<"queue", i>>
           \/ \E i \in DOMAIN recycled : recycled[i] = c /\ x = <<"recycled", i>>
           \/ \E w \in Workers : wpc[w] = "process" /\ csd[w] = c /\ x = <<"worker", w>>
    BY DEF Places
  <1>2. ASSUME NEW x \in Places(c)
        PROVE  \/ c \in Watched /\ x = <<"pollset">>
               \/ c \in Queued /\ \E i \in DOMAIN queue : queue[i] = c /\ x = <<"queue", i>>
               \/ c \in Free /\ \E i \in DOMAIN recycled : recycled[i] = c /\ x = <<"recycled", i>>
               \/ c \in Held /\ \E w \in Holding : csd[w] = c /\ x = <<"worker", w>>
    BY <1>1, Zenon DEF Watched, Queued, Free, Held, Holding
  <1>3. ASSUME NEW x \in Places(c), NEW y \in Places(c) PROVE x = y
    <2>1. CASE c \in Watched
      <3>1. c \notin Queued /\ c \notin Free /\ c \notin Held
        BY <2>1 DEF PlacesApart
      <3> QED
        BY <1>2, <3>1, Zenon
    <2>2. CASE c \in Queued
      <3>1. c \notin Watched /\ c \notin Free /\ c \notin Held
        BY <2>2 DEF PlacesApart
      <3>2. PICK i \in DOMAIN queue : queue[i] = c /\ x = <<"queue", i>>
        BY <1>2, <3>1, Zenon
      <3>3. PICK j \in DOMAIN queue : queue[j] = c /\ y = <<"queue", j>>
        BY <1>2, <3>1, Zenon
      <3>4. i = j
        BY <3>2, <3>3 DEF PlacesApart, OnceEach
      <3> QED
        BY <3>2, <3>3, <3>4
    <2>3. CASE c \in Free
      <3>1. c \notin Watched /\ c \notin Queued /\ c \notin Held
        BY <2>3 DEF PlacesApart
      <3>2. PICK i \in DOMAIN recycled : recycled[i] = c /\ x = <<"recycled", i>>
        BY <1>2, <3>1, Zenon
      <3>3. PICK j \in DOMAIN recycled : recycled[j] = c /\ y = <<"recycled", j>>
        BY <1>2, <3>1, Zenon
      <3>4. i = j
        BY <3>2, <3>3 DEF PlacesApart, OnceEach
      <3> QED
        BY <3>2, <3>3, <3>4
    <2>4. CASE c \in Held
      <3>1. c \notin Watched /\ c \notin Queued /\ c \notin Free
        BY <2>4 DEF PlacesApart
      <3>2. PICK v \in Holding : csd[v] = c /\ x = <<"worker", v>>
        BY <1>2, <3>1, Zenon
      <3>3. PICK w \in Holding : csd[w] = c /\ y = <<"worker", w>>
        BY <1>2, <3>1, Zenon
      <3>4. v = w
        BY <3>2, <3>3 DEF PlacesApart
      <3> QED
        BY <3>2, <3>3, <3>4
    <2> QED
      BY <1>2, <2>1, <2>2, <2>3, <2>4
  <1>4. Cardinality(Places(c)) <= 1
    <2>1. PICK P : P = Places(c)
      OBVIOUS
    <2>2. \A x, y \in P : x = y
      BY <1>3, <2>1
    <2> QED
      BY <2>1, <2>2, AtMostOne
  <1>5. ASSUME c \in created, ~workersMayExit PROVE Places(c) # {}
    <2>1. c \in pollset \/ c \in Queued \/ c \in Free \/ c \in Held
      BY <1>5 DEF PlacesApart
    <2> QED
      BY <1>1, <2>1, Zenon DEF Queued, Free, Held, Holding
  <1> QED
    BY <1>4, <1>5

(* A pool and its connection are in one place at a time, for any number of *)
(* workers and connections: push2worker, zevent_queue_pop, process_socket  *)
(* and zevent_push_pool hand it on without leaving it behind, and an event *)
(* the listener still holds is of a connection nobody else has.            *)
THEOREM PoolsInOnePlace == Spec => []OnePlace
  <1>1. Spec => []PlacesApart
    BY InitPlaces, NextPlaces, ChildInvariant, PTL DEF Spec
  <1> QED
    BY <1>1, ApartIsOnePlace, PTL

(***************************************************************************)
(* The workers of a graceful exit leave nothing in the queue.              *)
(***************************************************************************)

(* The part of Staffed that is about the queue. *)
Attended ==
    MaxSpurious = 0 /\ ~workersMayExit =>
        /\ queue # <<>> => Coming # {}
        /\ ~qTerminated /\ queue = <<>> /\ Vain # {} => Workers # Vain \cup Absent

Hired == /\ threadsCreated > 0 \/ lpc # "none" => \E w \in Workers : wpc[w] # "none"
         /\ lpc = "interrupt" => qTerminated

LEMMA StaffedIs == /\ Staffed <=> Hired /\ Attended
                   /\ Staffed' <=> Hired' /\ Attended'
  BY DEF Staffed, Hired, Attended

(* No worker moves. *)
LEMMA AttendedFrame ==
    ASSUME Attended, UNCHANGED <<queue, wpc>>, qTerminated => qTerminated',
           workersMayExit => workersMayExit'
    PROVE  Attended'
  BY DEF Attended, Coming, Vain, Absent

(* How a worker may move to p. *)
MayMove(w, p) ==
    \/ p \in {"start", "top", "setidle", "signal", "ready", "pop", "process", "clear"}
    \/ p = "wait" /\ queue' = <<>>
    \/ p = "popped" /\ wpc[w] = "woken" /\ queue = <<>> /\ queue' = <<>>
    \/ p = "exit" /\ workersMayExit
    \/ p = "exit" /\ qTerminated /\ queue' = <<>>
    \/ p = "exit" /\ qTerminated /\ wpc[w] = "popped" /\ queue' = queue
    \/ p = "done" /\ wpc[w] = "exit" /\ queue' = queue
    \/ p = "woken" /\ MaxSpurious # 0

(* One worker moves. *)
LEMMA AttendedMove ==
    ASSUME TypeOK, Attended, NEW w \in Workers, NEW p, wpc' = [wpc EXCEPT ![w] = p],
           UNCHANGED <<qTerminated, workersMayExit>>, MayMove(w, p)
    PROVE  Attended'
  <1>1. wpc'[w] = p /\ \A v \in Workers : v # w => wpc'[v] = wpc[v]
    BY DEF TypeOK
  <1>2. CASE p \in {"start", "top", "setidle", "signal", "ready", "pop", "process", "clear"}
    <2>1. w \in Coming' /\ w \notin Vain' /\ w \notin Absent'
      BY <1>1, <1>2 DEF Coming, Vain, Absent
    <2> QED
      BY <2>1 DEF Attended
  <1>3. CASE p = "wait" /\ queue' = <<>>
    <2>1. w \notin Vain' /\ w \notin Absent'
      BY <1>1, <1>3 DEF Vain, Absent
    <2> QED
      BY <1>3, <2>1 DEF Attended
  <1>4. CASE p = "popped" /\ wpc[w] = "woken" /\ queue = <<>> /\ queue' = <<>>
    <2>1. Vain' = Vain /\ Absent' = Absent
      BY <1>1, <1>4 DEF Vain, Absent
    <2> QED
      BY <1>4, <2>1 DEF Attended
  <1>5. CASE p = "exit" /\ qTerminated /\ wpc[w] = "popped" /\ queue' = queue
    <2>1. Coming' = Coming
      BY <1>1, <1>5 DEF Coming
    <2> QED
      BY <1>5, <2>1 DEF Attended
  <1>6. CASE p = "done" /\ wpc[w] = "exit" /\ queue' = queue
    <2>1. Coming' = Coming /\ Vain' = Vain /\ Absent' = Absent
      BY <1>1, <1>6 DEF Coming, Vain, Absent
    <2> QED
      BY <1>6, <2>1 DEF Attended
  <1>7. CASE workersMayExit \/ (qTerminated /\ queue' = <<>>) \/ MaxSpurious # 0
    BY <1>7 DEF Attended
  <1> QED
    BY <1>2, <1>3, <1>4, <1>5, <1>6, <1>7 DEF MayMove

(* A push finds a worker to come for what it queued. *)
LEMMA PushAttended ==
    ASSUME IInv, Staffed, NEW c \in Conns, Push2Worker(c)
    PROVE  Attended'
  <1>1. /\ lpc = "dispatch" /\ queue' = Append(queue, c) /\ SignalNotEmpty
        /\ UNCHANGED <<qTerminated, workersMayExit>>
    BY DEF Push2Worker, flagVars
  <1>2. TypeOK /\ Leaving /\ ~qTerminated
    BY <1>1 DEF IInv, ListenerPhases
  <1>3. queue' # <<>>
    BY <1>1, <1>2, AppendFacts DEF TypeOK
  <1>4. ASSUME MaxSpurious = 0, ~workersMayExit PROVE Coming' # {}
    <2>1. CASE Waiting # {}
      <3>1. PICK w \in Waiting : wpc' = [wpc EXCEPT ![w] = "woken"]
        BY <1>1, <2>1 DEF SignalNotEmpty
      <3>2. w \in Workers /\ wpc'[w] = "woken"
        BY <1>2, <3>1 DEF Waiting, TypeOK
      <3> QED
        BY <3>2 DEF Coming
    <2>2. CASE Waiting = {}
      <3>1. wpc' = wpc
        BY <1>1, <2>2 DEF SignalNotEmpty
      <3>2. Coming' = Coming
        BY <3>1 DEF Coming
      <3>3. \A w \in Workers : wpc[w] \notin {"exit", "done", "wait"}
        BY <1>2, <1>4, <2>2 DEF Leaving, Waiting
      <3>4. Coming # {}
        <4>1. CASE queue # <<>>
          BY <1>4, <4>1 DEF Staffed
        <4>2. CASE queue = <<>> /\ Vain # {}
          <5>1. PICK w \in Workers : w \notin Vain /\ w \notin Absent
            BY <1>2, <1>4, <4>2 DEF Staffed, Vain, Absent
          <5>2. wpc[w] \in WorkerPCs
            BY <1>2 DEF TypeOK
          <5>3. w \in Coming
            BY <3>3, <5>1, <5>2 DEF Coming, Vain, Absent, WorkerPCs
          <5> QED
            BY <5>3
        <4>3. CASE Vain = {}
          <5>1. PICK w \in Workers : wpc[w] # "none"
            BY <1>1 DEF Staffed
          <5>2. wpc[w] \in WorkerPCs /\ w \notin Vain
            BY <1>2, <4>3 DEF TypeOK
          <5>3. w \in Coming
            BY <3>3, <5>1, <5>2 DEF Coming, Vain, WorkerPCs
          <5> QED
            BY <5>3
        <4> QED
          BY <4>1, <4>2, <4>3
      <3> QED
        BY <3>2, <3>4
    <2> QED
      BY <2>1, <2>2
  <1> QED
    BY <1>1, <1>3, <1>4 DEF Attended

LEMMA ListenerStaffed ==
    ASSUME IInv, Staffed, ListenerStep \/ ListenerInput
    PROVE  Staffed'
  <1> USE DEF dataVars, infoVars, queueVars, connVars, listenerVars,
      workerVars, startVars, flagVars, offListener
  <1>0. TypeOK /\ Attended /\ Hired
    BY StaffedIs DEF IInv
  <1>1. ASSUME UNCHANGED <<queue, wpc, workersMayExit, threadsCreated>>, lpc # "none",
               (qTerminated' = qTerminated /\ lpc' # "interrupt") \/ qTerminated'
        PROVE  Staffed'
    <2>1. qTerminated => qTerminated'
      BY <1>1
    <2>2. Attended'
      BY <1>0, <1>1, <2>1, AttendedFrame
    <2>3. Hired'
      BY <1>0, <1>1 DEF Hired
    <2> QED
      BY <2>2, <2>3, StaffedIs
  <1>2. CASE \/ ListenerSetup \/ ListenerLeave \/ GetWorker \/ WaitForIdlerLock
            \/ WaitForIdlerReturn \/ Accept \/ AcceptNoPool \/ ListenerDying
            \/ ListenerPoll \/ ListenerPollError \/ ListenerSpuriousWakeup \/ ListenerKillSelf
    <2>1. /\ UNCHANGED <<queue, wpc, workersMayExit, threadsCreated, qTerminated>>
          /\ lpc # "none" /\ lpc' # "interrupt"
      BY <1>2 DEF ListenerSetup, ListenerLeave, GetWorker, WaitForIdlerLock,
         WaitForIdlerReturn, Accept, AcceptNoPool, ListenerDying, ListenerPoll,
         ListenerPollError, ListenerSpuriousWakeup, ListenerKillSelf, SignalThreadsGraceful
    <2> QED
      BY <1>1, <2>1
  <1>3. CASE ListenerQueueTerm
    BY <1>1, <1>3 DEF ListenerQueueTerm
  <1>4. ASSUME UNCHANGED <<threadsCreated, qTerminated>>, lpc # "none", lpc' # "interrupt", Attended',
               \A w \in Workers : wpc'[w] = wpc[w] \/ wpc'[w] = "woken"
        PROVE  Staffed'
    <2>1. Hired'
      BY <1>0, <1>4 DEF Hired
    <2> QED
      BY <1>4, <2>1, StaffedIs
  <1>5. CASE ListenerInterruptAll
    <2>1. /\ UNCHANGED <<queue, workersMayExit, threadsCreated, qTerminated>>
          /\ lpc = "interrupt" /\ lpc' # "interrupt"
      BY <1>5 DEF ListenerInterruptAll
    <2>2. \A w \in Workers : wpc'[w] = wpc[w] \/ (wpc[w] = "wait" /\ wpc'[w] = "woken")
      BY <1>5 DEF ListenerInterruptAll, BroadcastNotEmpty
    <2>3. Coming \subseteq Coming' /\ qTerminated
      BY <1>0, <2>1, <2>2 DEF Coming, Hired
    <2>4. Attended'
      BY <1>0, <2>1, <2>3 DEF Attended
    <2> QED
      BY <1>4, <2>1, <2>2, <2>4
  <1>6. ASSUME NEW c \in Conns, Push2Worker(c) PROVE Staffed'
    <2>1. \A w \in Workers : wpc'[w] = wpc[w] \/ wpc'[w] = "woken"
      BY <1>0, <1>6 DEF Push2Worker, SignalNotEmpty, Waiting, TypeOK
    <2>2. UNCHANGED <<threadsCreated, qTerminated>> /\ lpc # "none" /\ lpc' # "interrupt"
      BY <1>6 DEF Push2Worker
    <2>3. Attended'
      BY <1>6, PushAttended
    <2> QED
      BY <1>4, <2>1, <2>2, <2>3
  <1> QED
    BY <1>2, <1>3, <1>5, <1>6 DEF ListenerStep, ListenerInput

LEMMA WorkerStaffed ==
    ASSUME IInv, Staffed, NEW w \in Workers,
           WorkerStep(w) \/ WorkerInput(w)
    PROVE  Staffed'
  <1> USE DEF dataVars, infoVars, queueVars, connVars, listenerVars, startVars, flagVars, offWorker
  <1>0. TypeOK /\ Attended /\ Hired
    BY StaffedIs DEF IInv
  <1>1. ASSUME NEW p, wpc' = [wpc EXCEPT ![w] = p], p # "none", Attended',
               UNCHANGED <<qTerminated, threadsCreated>>,
               lpc' = lpc \/ (lpc = "idlewait" /\ lpc' = "ret")
        PROVE  Staffed'
    <2>1. \A v \in Workers : wpc'[v] = wpc[v] \/ wpc'[v] # "none"
      BY <1>0, <1>1 DEF TypeOK
    <2>2. Hired'
      BY <1>0, <1>1, <2>1 DEF Hired
    <2> QED
      BY <1>1, <2>2, StaffedIs
  <1>2. UNCHANGED <<qTerminated, workersMayExit, threadsCreated>>
    BY DEF WorkerStep, WorkerInput, WorkerStart, WorkerTop, SetIdle, SetIdleSignal,
       WorkerReady, QueuePop, QueuePopWoken, QueuePopEmpty, WorkerSpuriousWakeup,
       ProcessKeep, ProcessClose, WorkerClear, WorkerExit
  <1>3. lpc' = lpc \/ (lpc = "idlewait" /\ lpc' = "ret")
    <2>1. CASE SetIdleSignal(w)
      BY <2>1 DEF SetIdleSignal
    <2>2. CASE ~SetIdleSignal(w)
      BY <2>2 DEF WorkerStep, WorkerInput, WorkerStart, WorkerTop, SetIdle,
         WorkerReady, QueuePop, QueuePopWoken, QueuePopEmpty, WorkerSpuriousWakeup,
         ProcessKeep, ProcessClose, WorkerClear, WorkerExit
    <2> QED
      BY <2>1, <2>2
  <1>4. \E p : wpc' = [wpc EXCEPT ![w] = p] /\ p # "none" /\ MayMove(w, p)
    <2> USE DEF MayMove
    <2>1. CASE WorkerStart(w) \/ SetIdleSignal(w)
      BY <2>1 DEF WorkerStart, SetIdleSignal
    <2>8. CASE WorkerTop(w)
      <3>1. \/ wpc' = [wpc EXCEPT ![w] = "exit"] /\ workersMayExit
            \/ wpc' = [wpc EXCEPT ![w] = "setidle"]
        BY <2>8 DEF WorkerTop
      <3> QED
        BY <3>1, Zenon
    <2>9. CASE SetIdle(w)
      BY <2>9 DEF SetIdle
    <2>10. CASE WorkerReady(w)
      <3>1. \/ wpc' = [wpc EXCEPT ![w] = "exit"] /\ workersMayExit
            \/ wpc' = [wpc EXCEPT ![w] = "pop"]
        BY <2>10 DEF WorkerReady
      <3> QED
        BY <3>1, Zenon
    <2>2. CASE QueuePop(w)
      BY <2>2 DEF QueuePop, TakeElement
    <2>3. CASE QueuePopWoken(w)
      BY <2>3 DEF QueuePopWoken, TakeElement
    <2>4. CASE QueuePopEmpty(w)
      <3>1. CASE qTerminated \/ workersMayExit
        <4>1. wpc' = [wpc EXCEPT ![w] = "exit"] /\ wpc[w] = "popped" /\ queue' = queue
          BY <2>4, <3>1 DEF QueuePopEmpty
        <4> QED
          BY <3>1, <4>1, Zenon
      <3>2. CASE ~(qTerminated \/ workersMayExit)
        <4>1. wpc' = [wpc EXCEPT ![w] = "pop"]
          BY <2>4, <3>2 DEF QueuePopEmpty
        <4> QED
          BY <4>1
      <3> QED
        BY <3>1, <3>2
    <2>5. CASE ProcessKeep(w) \/ ProcessClose(w) \/ WorkerClear(w)
      BY <2>5 DEF ProcessKeep, ProcessClose, WorkerClear
    <2>6. CASE WorkerExit(w)
      BY <2>6 DEF WorkerExit
    <2>7. CASE WorkerSpuriousWakeup(w)
      <3>1. MaxSpurious # 0 /\ wpc' = [wpc EXCEPT ![w] = "woken"]
        BY <2>7, SpuriousAssumption DEF WorkerSpuriousWakeup
      <3> QED
        BY <3>1
    <2> QED
      BY <2>1, <2>2, <2>3, <2>4, <2>5, <2>6, <2>7, <2>8, <2>9, <2>10
      DEF WorkerStep, WorkerInput
  <1>5. PICK p : wpc' = [wpc EXCEPT ![w] = p] /\ p # "none" /\ MayMove(w, p)
    BY <1>4
  <1>6. Attended'
    BY <1>0, <1>2, <1>5, AttendedMove
  <1> QED
    BY <1>1, <1>2, <1>3, <1>5, <1>6

LEMMA StartStaffed ==
    ASSUME IInv, Staffed, StartStep
    PROVE  Staffed'
  <1> USE DEF dataVars, infoVars, queueVars, connVars, listenerVars, startVars, flagVars, workerVars
  <1>0. TypeOK /\ Attended /\ Hired
    BY StaffedIs DEF IInv
  <1>1. UNCHANGED <<queue, qTerminated, workersMayExit>>
    BY DEF StartStep, StartScan, StartLoop, StartFail
  <1>2. \/ /\ wpc' = wpc /\ threadsCreated' = threadsCreated
           /\ lpc' = lpc \/ (lpc' = "setup" /\ threadsCreated > 0)
        \/ /\ threadsCreated \in Workers /\ lpc' = lpc
           /\ wpc' = [wpc EXCEPT ![threadsCreated] = "start"]
    <2>1. CASE StartScan
      BY <1>0, <2>1, BoundAssumption DEF StartScan, TypeOK, Workers
    <2>2. CASE StartLoop
      BY <2>2 DEF StartLoop
    <2>3. CASE StartFail
      BY <2>3 DEF StartFail
    <2> QED
      BY <2>1, <2>2, <2>3 DEF StartStep
  <1>3. CASE /\ wpc' = wpc /\ threadsCreated' = threadsCreated
             /\ lpc' = lpc \/ (lpc' = "setup" /\ threadsCreated > 0)
    <2>1. Attended'
      BY <1>0, <1>1, <1>3, AttendedFrame
    <2>2. Hired'
      BY <1>0, <1>1, <1>3 DEF Hired
    <2> QED
      BY <2>1, <2>2, StaffedIs
  <1>4. CASE /\ threadsCreated \in Workers /\ lpc' = lpc
             /\ wpc' = [wpc EXCEPT ![threadsCreated] = "start"]
    <2>1. PICK w \in Workers : w = threadsCreated
      BY <1>4
    <2>2. wpc' = [wpc EXCEPT ![w] = "start"] /\ MayMove(w, "start")
      BY <1>4, <2>1 DEF MayMove
    <2>2a. Attended'
      BY <1>0, <1>1, <2>2, AttendedMove
    <2>3. wpc'[w] = "start"
      BY <1>0, <1>4, <2>1 DEF TypeOK
    <2>4. Hired'
      BY <1>0, <1>1, <1>4, <2>3 DEF Hired
    <2> QED
      BY <2>2a, <2>4, StaffedIs
  <1> QED
    BY <1>2, <1>3, <1>4

LEMMA MainStaffed ==
    ASSUME IInv, PlacesApart, Staffed, MainStep \/ MainPodRead \/ ParentSigterm
    PROVE  Staffed'
  <1> USE DEF dataVars, infoVars, queueVars, connVars, listenerVars, startVars, mainVars,
      mainRest, flagVars, workerVars, offMain
  <1>0. TypeOK /\ Attended /\ Hired
    BY StaffedIs DEF IInv
  <1>1. UNCHANGED <<queue, qTerminated, threadsCreated>> /\ (workersMayExit => workersMayExit')
    BY DEF MainStep, MainPodRead, ParentSigterm, MainUnblock, MainInstallHandler,
       MainEnterRead, MainInterrupted, MainJoinStart, MainSignalThreads, MainInterruptAll,
       MainInfoTerm, MainCloseTest, MainCloseSocket, MainCloseDone, MainJoinListener,
       MainJoinWorkers
  <1>2. lpc' = lpc \/ (lpc = "idlewait" /\ lpc' = "ret")
    <2>1. CASE MainInfoTerm
      BY <2>1 DEF MainInfoTerm
    <2>2. CASE ~MainInfoTerm
      BY <2>2 DEF MainStep, MainPodRead, ParentSigterm, MainUnblock, MainInstallHandler,
         MainEnterRead, MainInterrupted, MainJoinStart, MainSignalThreads, MainInterruptAll,
         MainCloseTest, MainCloseSocket, MainCloseDone, MainJoinListener, MainJoinWorkers
    <2> QED
      BY <2>1, <2>2
  <1>3. CASE MainInterruptAll
    <2>1. \A w \in Workers : wpc'[w] = wpc[w] \/ wpc'[w] = "woken"
      BY <1>3 DEF MainInterruptAll, BroadcastNotEmpty
    <2>2. workersMayExit'
      BY <1>1, <1>3 DEF MainInterruptAll, PlacesApart
    <2>3. Attended'
      BY <2>2 DEF Attended
    <2>4. Hired'
      BY <1>0, <1>1, <1>2, <2>1 DEF Hired
    <2> QED
      BY <2>3, <2>4, StaffedIs
  <1>4. CASE ~MainInterruptAll
    <2>1. wpc' = wpc
      BY <1>4 DEF MainStep, MainPodRead, ParentSigterm, MainUnblock, MainInstallHandler,
         MainEnterRead, MainInterrupted, MainJoinStart, MainSignalThreads,
         MainInfoTerm, MainCloseTest, MainCloseSocket, MainCloseDone, MainJoinListener,
         MainJoinWorkers
    <2>2. Attended'
      BY <1>0, <1>1, <2>1, AttendedFrame
    <2>3. Hired'
      BY <1>0, <1>1, <1>2, <2>1 DEF Hired
    <2> QED
      BY <2>2, <2>3, StaffedIs
  <1> QED
    BY <1>3, <1>4

LEMMA InitStaffed == Init => Staffed
  <1> SUFFICES ASSUME Init PROVE Staffed
    OBVIOUS
  <1>1. Vain = {}
    BY DEF Init, Vain
  <1>2. threadsCreated = 0 /\ lpc = "none" /\ queue = <<>>
    BY DEF Init
  <1> QED
    BY <1>1, <1>2 DEF Staffed

LEMMA NextStaffed == IInv /\ PlacesApart /\ Staffed /\ [Next]_vars => Staffed'
  <1> SUFFICES ASSUME IInv, PlacesApart, Staffed, [Next]_vars PROVE Staffed'
    OBVIOUS
  <1>1. CASE ListenerStep \/ ListenerInput
    BY <1>1, ListenerStaffed
  <1>2. CASE \E w \in Workers : WorkerStep(w) \/ WorkerInput(w)
    BY <1>2, WorkerStaffed
  <1>3. CASE StartStep
    BY <1>3, StartStaffed
  <1>4. CASE MainStep \/ MainPodRead \/ ParentSigterm
    BY <1>4, MainStaffed
  <1>5. CASE UNCHANGED vars
    BY <1>5 DEF vars, dataVars, infoVars, queueVars, connVars, listenerVars, workerVars,
       startVars, flagVars, Staffed, Coming, Vain, Absent
  <1>6. CASE BoardInput
    <2>1. TypeOK
      BY DEF IInv
    <2>2. UNCHANGED offBoard
      BY <1>6, <2>1, OthersFacts
    <2> QED
      BY <2>2 DEF offBoard, dataVars, infoVars, queueVars, connVars, listenerVars,
         startVars, flagVars, Staffed, Coming, Vain, Absent
  <1> QED
    BY <1>1, <1>2, <1>3, <1>4, <1>5, <1>6 DEF Next, Exited

(* zevent_queue_pop reads terminated after it has released the mutex, so a *)
(* worker may leave with APR_EOF although something is queued; yet for any *)
(* number of workers one is always on its way, and none is left behind     *)
(* with connections in the queue.                                          *)
THEOREM WorkersDrainQueue == Spec => []WorkersDrain
  <1>1. Spec => []Staffed
    <2>1. Spec => []PlacesApart
      BY InitPlaces, NextPlaces, ChildInvariant, PTL DEF Spec
    <2> QED
      BY <2>1, InitStaffed, NextStaffed, ChildInvariant, PTL DEF Spec
  <1>2. Staffed => WorkersDrain
    <2> SUFFICES ASSUME Staffed, MaxSpurious = 0, ~workersMayExit, queue # <<>>,
                        \A w \in Workers : wpc[w] \in {"none", "done"}
                 PROVE  FALSE
      BY DEF WorkersDrain
    <2>1. Coming = {}
      BY DEF Coming
    <2> QED
      BY <2>1 DEF Staffed
  <1> QED
    BY <1>1, <1>2, PTL
=============================================================================
