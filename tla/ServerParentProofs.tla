------------------------- MODULE ServerParentProofs -------------------------
(***************************************************************************)
(* Proofs about ServerParent for any number of slots, threads, processes   *)
(* and any limits: its types, that no child is lost and no slot is given   *)
(* to two accepting children, that the free list stays sound while the     *)
(* children run, and that a forced stop leaves no child alive.             *)
(***************************************************************************)
EXTENDS ServerParent, SequenceFacts, FiniteSetTheorems, TLAPS

(***************************************************************************)
(* Sequences of slots.                                                     *)
(***************************************************************************)

(* A list of different slots, by positions. *)
LEMMA InjectiveIs ==
    ASSUME NEW s \in Seq(Slots)
    PROVE  IsInjective(s) <=> \A a, b \in 1 .. Len(s) : s[a] = s[b] => a = b
  BY LenProperties DEF IsInjective

(* The empty list. *)
LEMMA EmptyList == <<>> \in Seq(Slots) /\ Len(<<>>) = 0 /\ IsInjective(<<>>)
  <1>1. PICK e \in Seq(Slots) : e = <<>> /\ Len(e) = 0
    BY EmptySeq
  <1>2. \A a, b \in 1 .. Len(e) : e[a] = e[b] => a = b
    BY <1>1
  <1>3. IsInjective(e)
    BY <1>2, InjectiveIs
  <1> QED
    BY <1>1, <1>3

(* The first slot is used up. *)
LEMMA TailKeeps ==
    ASSUME NEW s \in Seq(Slots), s # <<>>
    PROVE  /\ Tail(s) \in Seq(Slots) /\ Head(s) \in Slots
           /\ Len(s) \in Nat \ {0} /\ Len(Tail(s)) = Len(s) - 1 /\ Head(s) = s[1]
           /\ \A k \in 1 .. Len(Tail(s)) : Tail(s)[k] = s[k + 1] /\ k + 1 \in 1 .. Len(s)
           /\ IsInjective(s) => /\ IsInjective(Tail(s))
                                /\ \A k \in 1 .. Len(Tail(s)) : Tail(s)[k] # Head(s)
  <1>1. /\ Tail(s) \in Seq(Slots) /\ Head(s) \in Slots /\ Len(Tail(s)) = Len(s) - 1
        /\ \A k \in 1 .. Len(Tail(s)) : Tail(s)[k] = s[k + 1]
    BY HeadTailProperties
  <1>2. Len(s) \in Nat \ {0} /\ Head(s) = s[1]
    BY EmptySeq, LenProperties
  <1>3. \A k \in 1 .. Len(Tail(s)) : k + 1 \in 1 .. Len(s)
    BY <1>1, <1>2
  <1>4. ASSUME IsInjective(s) PROVE IsInjective(Tail(s))
    <2>1. \A a, b \in 1 .. Len(s) : s[a] = s[b] => a = b
      BY <1>4, InjectiveIs
    <2>2. ASSUME NEW a \in 1 .. Len(Tail(s)), NEW b \in 1 .. Len(Tail(s)), Tail(s)[a] = Tail(s)[b]
          PROVE  a = b
      <3>1. a + 1 = b + 1
        BY <1>1, <1>3, <2>1, <2>2
      <3> QED
        BY <3>1
    <2> QED
      BY <1>1, <2>2, InjectiveIs
  <1>5. ASSUME IsInjective(s), NEW k \in 1 .. Len(Tail(s)) PROVE Tail(s)[k] # Head(s)
    <2>1. \A a, b \in 1 .. Len(s) : s[a] = s[b] => a = b
      BY <1>5, InjectiveIs
    <2>2. k + 1 # 1 /\ 1 \in 1 .. Len(s)
      BY <1>1, <1>2
    <2> QED
      BY <1>1, <1>2, <1>3, <2>1, <2>2
  <1> QED
    BY <1>1, <1>2, <1>3, <1>4, <1>5

(* A piece from the front of the list. *)
LEMMA FrontKeeps ==
    ASSUME NEW s \in Seq(Slots), NEW n \in Nat, n <= Len(s)
    PROVE  /\ SubSeq(s, 1, n) \in Seq(Slots) /\ Len(SubSeq(s, 1, n)) = n
           /\ \A k \in 1 .. n : SubSeq(s, 1, n)[k] = s[k] /\ k \in 1 .. Len(s)
           /\ IsInjective(s) => IsInjective(SubSeq(s, 1, n))
  <1>1. Len(s) \in Nat
    BY LenProperties
  <1>2. /\ SubSeq(s, 1, n) \in Seq(Slots) /\ Len(SubSeq(s, 1, n)) = n - 1 + 1
        /\ \A k \in 1 .. n - 1 + 1 : SubSeq(s, 1, n)[k] = s[1 + k - 1]
    BY SegmentFacts
  <1>3. n - 1 + 1 = n /\ \A k \in 1 .. n : 1 + k - 1 = k /\ k \in 1 .. Len(s)
    BY <1>1
  <1>4. \A k \in 1 .. n : SubSeq(s, 1, n)[k] = s[k]
    BY <1>2, <1>3
  <1>5. ASSUME IsInjective(s) PROVE IsInjective(SubSeq(s, 1, n))
    <2>1. \A a, b \in 1 .. Len(s) : s[a] = s[b] => a = b
      BY <1>5, InjectiveIs
    <2>2. \A a, b \in 1 .. n : SubSeq(s, 1, n)[a] = SubSeq(s, 1, n)[b] => a = b
      BY <1>3, <1>4, <2>1
    <2>3. PICK f \in Seq(Slots) : f = SubSeq(s, 1, n) /\ Len(f) = n
      BY <1>2, <1>3
    <2> QED
      BY <2>2, <2>3, InjectiveIs
  <1> QED
    BY <1>2, <1>3, <1>4, <1>5

(* What InsertFree makes of a list that does not hold the slot. *)
LEMMA InsertKeeps ==
    ASSUME free \in Seq(Slots), totallyFree \in Nat, totallyFree <= Len(free),
           IsInjective(free), NEW i \in Slots, NEW allDead \in BOOLEAN,
           \A k \in 1 .. Len(free) : free[k] # i
    PROVE  /\ InsertFree(i, allDead) \in Seq(Slots)
           /\ Len(InsertFree(i, allDead)) = Len(free) + 1
           /\ IsInjective(InsertFree(i, allDead))
           /\ \A k \in 1 .. Len(free) + 1 :
                \/ InsertFree(i, allDead)[k] = i
                \/ \E m \in 1 .. Len(free) : InsertFree(i, allDead)[k] = free[m]
  <1>1. Len(free) \in Nat /\ \A k \in 1 .. Len(free) : free[k] \in Slots
    BY LenProperties
  <1>2. \A a, b \in 1 .. Len(free) : free[a] = free[b] => a = b
    BY InjectiveIs
  <1>3. CASE InsertFree(i, allDead) = Append(free, i)
    <2>1. /\ Append(free, i) \in Seq(Slots) /\ Len(Append(free, i)) = Len(free) + 1
          /\ \A k \in 1 .. Len(free) : Append(free, i)[k] = free[k]
          /\ Append(free, i)[Len(free) + 1] = i
      BY AppendProperties
    <2>2. \A k \in 1 .. Len(free) + 1 : k \in 1 .. Len(free) \/ k = Len(free) + 1
      BY <1>1
    <2>3. IsInjective(Append(free, i))
      <3>1. ASSUME NEW a \in 1 .. Len(free) + 1, NEW b \in 1 .. Len(free) + 1,
                   Append(free, i)[a] = Append(free, i)[b]
            PROVE  a = b
        BY <1>2, <2>1, <2>2, <3>1
      <3> QED
        BY <2>1, <3>1, InjectiveIs
    <2> QED
      BY <1>3, <2>1, <2>2, <2>3
  <1>4. CASE InsertFree(i, allDead) # Append(free, i)
    <2>1. PICK m : m = totallyFree + 1
      OBVIOUS
    <2>2. m \in 1 .. Len(free) /\ InsertFree(i, allDead) = Append([free EXCEPT ![m] = i], free[m])
      <3>1. /\ totallyFree # Len(free)
            /\ InsertFree(i, allDead) = Append([free EXCEPT ![totallyFree + 1] = i],
                                               free[totallyFree + 1])
        BY <1>4 DEF InsertFree
      <3> QED
        BY <1>1, <2>1, <3>1
    <2>3. PICK g : g = [free EXCEPT ![m] = i]
      OBVIOUS
    <2>4. /\ g \in Seq(Slots) /\ Len(g) = Len(free)
          /\ \A j \in 1 .. Len(free) : g[j] = IF j = m THEN i ELSE free[j]
      BY <2>2, <2>3, ExceptSeq
    <2>5. PICK s : s = Append(g, free[m])
      OBVIOUS
    <2>6. /\ s \in Seq(Slots) /\ Len(s) = Len(free) + 1
          /\ \A k \in 1 .. Len(free) : s[k] = g[k]
          /\ s[Len(free) + 1] = free[m]
      BY <1>1, <2>2, <2>4, <2>5, AppendProperties, SMTT(30)
    <2>7. \A k \in 1 .. Len(free) + 1 : k \in 1 .. Len(free) \/ k = Len(free) + 1
      BY <1>1
    <2>8. IsInjective(s)
      <3>1. ASSUME NEW a \in 1 .. Len(free) + 1, NEW b \in 1 .. Len(free) + 1, s[a] = s[b]
            PROVE  a = b
        BY <1>2, <2>2, <2>4, <2>6, <2>7, <3>1, SMTT(30)
      <3> QED
        BY <2>6, <3>1, InjectiveIs
    <2>9. ASSUME NEW k \in 1 .. Len(free) + 1
          PROVE  s[k] = i \/ \E j \in 1 .. Len(free) : s[k] = free[j]
      BY <2>2, <2>4, <2>6, <2>7
    <2> QED
      BY <2>2, <2>3, <2>5, <2>6, <2>8, <2>9
  <1> QED
    BY <1>3, <1>4

(***************************************************************************)
(* The children.                                                           *)
(***************************************************************************)

(* The end of a child. *)
LEMMA ExitTypes ==
    ASSUME TypeOK, NEW p \in Pids, NEW c \in {"ok", "CHILDSICK", "CHILDFATAL", "signaled"},
           Exit(p, c)
    PROVE  TypeOK'
  <1> USE LimitAssumption DEF TypeOK
  <1>1. BoardTypes' /\ ScanTypes' /\ ParentTypes'
    BY DEF Exit, BoardTypes, ScanTypes, ParentTypes, boardVars, parentVars, forkVars, scanVars,
           rateVars, signalVars
  <1>2. ProcTypes'
    BY DEF Exit, ProcTypes
  <1>3. ChildTypes'
    BY DEF Exit, ChildTypes, CreatedBound
  <1> QED
    BY <1>1, <1>2, <1>3

(* A child's steps keep the types. *)
LEMMA ChildStepTypes ==
    ASSUME TypeOK, NEW p \in Pids, ChildStep(p) \/ ChildDies(p) \/ DieOfSignal(p)
    PROVE  TypeOK'
  <1> USE LimitAssumption
  <1> USE DEF TypeOK
  <1>1. ASSUME parentVars' = parentVars PROVE ScanTypes' /\ ParentTypes'
    BY <1>1 DEF ScanTypes, ParentTypes, parentVars, forkVars, scanVars, rateVars, signalVars
  <1>2. ASSUME procVars' = procVars PROVE ProcTypes'
    BY <1>2 DEF ProcTypes, procVars
  <1>3. ASSUME boardVars' = boardVars PROVE BoardTypes'
    BY <1>3 DEF BoardTypes, boardVars
  <1>4. ASSUME NEW i \in Slots, NEW j \in Threads, NEW st \in Statuses,
               UpdateChildStatus(i, j, st), parentPid' = parentPid, quiescing' = quiescing
        PROVE  BoardTypes'
    BY <1>4 DEF BoardTypes, UpdateChildStatus
  <1>5. slot[p] \in Slots
    BY DEF ProcTypes
  <1>6. {SERVER_DEAD, SERVER_STARTING, SERVER_READY, SERVER_GRACEFUL} \subseteq Statuses
    BY DEF Statuses
  <1>7. CASE ScanThread(p)
    <2>1. ChildTypes'
      <3>1. /\ scan' = [scan EXCEPT ![p] = @ + 1] /\ scan[p] \in 0 .. ThreadsPerChild - 1
            /\ listener' = listener /\ mode' = mode /\ pod' = pod
            /\ created[p] < CreatedBound
        BY <1>7 DEF ScanThread, Threads
      <3>2. \/ UNCHANGED <<workers, created>>
            \/ /\ workers' = [workers EXCEPT ![p] = @ \cup {scan[p]}]
               /\ created' = [created EXCEPT ![p] = @ + 1]
        BY <1>7 DEF ScanThread
      <3>3. workers' \in [Pids -> SUBSET Threads]
        <4>1. workers \in [Pids -> SUBSET Threads] /\ scan[p] \in Threads
          BY <1>7 DEF ChildTypes, ScanThread
        <4>2. workers[p] \cup {scan[p]} \in SUBSET Threads
          BY <4>1
        <4> QED
          BY <3>2, <4>1, <4>2
      <3>4. created' \in [Pids -> 0 .. CreatedBound]
        <4>1. created \in [Pids -> 0 .. CreatedBound] /\ CreatedBound \in Nat
          BY DEF ChildTypes, CreatedBound
        <4>2. created[p] + 1 \in 0 .. CreatedBound
          BY <3>1, <4>1
        <4> QED
          BY <3>2, <4>1, <4>2
      <3>5. scan' \in [Pids -> 0 .. ThreadsPerChild + 1]
        <4>1. scan \in [Pids -> 0 .. ThreadsPerChild + 1]
          BY DEF ChildTypes
        <4>2. scan[p] + 1 \in 0 .. ThreadsPerChild + 1
          BY <3>1
        <4> QED
          BY <3>1, <4>1, <4>2
      <3> QED
        BY <3>1, <3>3, <3>4, <3>5 DEF ChildTypes
    <2>2. BoardTypes'
      <3>1. CASE UNCHANGED status
        BY <1>7, <3>1 DEF ScanThread, BoardTypes
      <3>2. CASE UpdateChildStatus(slot[p], scan[p], SERVER_STARTING)
        <4>1. parentPid' = parentPid /\ quiescing' = quiescing /\ scan[p] \in Threads
          BY <1>7 DEF ScanThread
        <4>2. PICK i \in Slots, j \in Threads : i = slot[p] /\ j = scan[p]
          BY <1>5, <4>1
        <4> QED
          BY <1>4, <1>6, <3>2, <4>1, <4>2
      <3> QED
        BY <1>7, <3>1, <3>2 DEF ScanThread
    <2> QED
      BY <1>1, <1>2, <1>7, <2>1, <2>2 DEF ScanThread
  <1>8. CASE ScanEnd(p)
    <2>1. ChildTypes'
      BY <1>8 DEF ScanEnd, ChildTypes
    <2> QED
      BY <1>1, <1>2, <1>3, <1>8, <2>1 DEF ScanEnd
  <1>9. ASSUME NEW j \in Threads, WorkerReady(p, j) \/ WorkerExit(p, j) PROVE TypeOK'
    <2>1. ChildTypes'
      BY <1>9 DEF WorkerReady, WorkerExit, ChildTypes, childVars
    <2>2. PICK st \in Statuses : UpdateChildStatus(slot[p], j, st)
      BY <1>6, <1>9 DEF WorkerReady, WorkerExit
    <2>3. parentPid' = parentPid /\ quiescing' = quiescing
      BY <1>9 DEF WorkerReady, WorkerExit
    <2>4. BoardTypes'
      <3>1. PICK i \in Slots : i = slot[p]
        BY <1>5
      <3> QED
        BY <1>4, <2>2, <2>3, <3>1
    <2> QED
      BY <1>1, <1>2, <1>9, <2>1, <2>4 DEF WorkerReady, WorkerExit
  <1>10. CASE PodRead(p)
    <2>1. pod' \in Seq({"graceful", "forced"}) /\ Head(pod) \in {"graceful", "forced"}
      BY <1>10, HeadTailProperties DEF PodRead, ChildTypes
    <2>2. ChildTypes'
      BY <1>10, <2>1 DEF PodRead, ChildTypes
    <2> QED
      BY <1>1, <1>2, <1>3, <1>10, <2>2 DEF PodRead
  <1>11. CASE ListenerTerm(p) \/ ListenerDying(p) \/ MainInterrupted(p)
    <2>1. ChildTypes'
      BY <1>11 DEF ListenerTerm, ListenerDying, MainInterrupted, ChildTypes
    <2> QED
      BY <1>1, <1>2, <1>3, <1>11, <2>1 DEF ListenerTerm, ListenerDying, MainInterrupted
  <1>12. CASE ListenerQuiesce(p)
    <2>1. ChildTypes'
      BY <1>12 DEF ListenerQuiesce, ChildTypes
    <2>2. BoardTypes'
      BY <1>12 DEF ListenerQuiesce, BoardTypes
    <2> QED
      BY <1>1, <1>2, <1>12, <2>1, <2>2 DEF ListenerQuiesce
  <1>13. CASE ChildExit(p) \/ ChildDies(p) \/ DieOfSignal(p)
    BY <1>13, ExitTypes DEF ChildExit, ChildDies, DieOfSignal
  <1> QED
    BY <1>7, <1>8, <1>9, <1>10, <1>11, <1>12, <1>13 DEF ChildStep

(* A child's step that neither the parent's lists nor the slots' pids and  *)
(* quiescing flags depend on.                                              *)
LEMMA ChildFrame ==
    ASSUME IInv, TypeOK', UNCHANGED <<parentPid, quiescing, slot, parentVars>>,
           \A q \in Pids : pstate'[q] = pstate[q] \/ (pstate[q] # "unborn" /\ pstate'[q] = "zombie"),
           \A q \in Pids : pstate'[q] = "alive" =>
              /\ listener'[q] = "quiesced" <=> listener[q] = "quiesced"
              /\ sent'[q] = sent[q]
    PROVE  IInv'
  <1>1. TypeOK
    BY DEF IInv
  <1>2. /\ ppc' = ppc /\ todo' = todo /\ born' = born /\ idx' = idx /\ free' = free
        /\ totallyFree' = totallyFree /\ nextAction' = nextAction
        /\ maxDaemonsLimit' = maxDaemonsLimit /\ parentPid' = parentPid
        /\ quiescing' = quiescing /\ slot' = slot
    BY DEF parentVars, forkVars, scanVars, rateVars
  <1>3. \A q \in Pids : pstate[q] # "unborn" => pstate'[q] # "unborn"
    OBVIOUS
  <1>4. \A q \in Pids : Alive(q)' => /\ Alive(q) /\ sent'[q] = sent[q]
                                     /\ listener'[q] = "quiesced" <=> listener[q] = "quiesced"
    BY DEF Alive
  <1>5. ParentPhases'
    BY <1>1, <1>2, <1>3 DEF IInv, ParentPhases, TypeOK, ParentTypes
  <1>6. ScanSound' /\ TodoSound'
    BY <1>2 DEF IInv, ScanSound, TodoSound, Vacant
  <1>7. Quiescent'
    BY <1>1, <1>2, <1>3, <1>4 DEF IInv, Quiescent, TypeOK, BoardTypes
  <1>8. Killed'
    BY <1>1, <1>2, <1>4 DEF IInv, Killed, Used, TypeOK, BoardTypes
  <1>9. NoLostChild'
    BY <1>2, <1>4 DEF IInv, NoLostChild, Accepting
  <1> QED
    BY <1>5, <1>6, <1>7, <1>8, <1>9 DEF IInv

(* A child that quiesces is the one its slot names, or the one that is     *)
(* about to be recorded there: the flag is never raised over a child that  *)
(* still accepts.                                                          *)
LEMMA QuiesceKeeps ==
    ASSUME IInv, NEW p \in Pids, ListenerQuiesce(p)
    PROVE  IInv'
  <1>1. TypeOK /\ TypeOK'
    BY ChildStepTypes DEF IInv, ChildStep
  <1>2. /\ Alive(p) /\ listener[p] = "dying"
        /\ listener' = [listener EXCEPT ![p] = "quiesced"]
        /\ quiescing' = [quiescing EXCEPT ![slot[p]] = TRUE]
        /\ ppc' = ppc /\ todo' = todo /\ born' = born /\ idx' = idx /\ free' = free
        /\ totallyFree' = totallyFree /\ nextAction' = nextAction
        /\ maxDaemonsLimit' = maxDaemonsLimit /\ parentPid' = parentPid
        /\ slot' = slot /\ pstate' = pstate /\ sent' = sent
    BY DEF ListenerQuiesce, parentVars, forkVars, scanVars, rateVars, procVars
  <1>3. /\ parentPid \in [Slots -> Pids \cup {None}] /\ quiescing \in [Slots -> BOOLEAN]
        /\ listener \in [Pids -> {"none", "accepting", "term", "dying", "quiesced"}]
        /\ slot[p] \in Slots /\ todo \in Seq(Slots) /\ free \in Seq(Slots)
    BY <1>1 DEF TypeOK, BoardTypes, ChildTypes, ProcTypes, ScanTypes, ParentTypes
  <1>4. \A i \in Slots : Vacant(i) => Vacant(i)'
    BY <1>2, <1>3 DEF Vacant
  <1>5. ParentPhases'
    BY <1>2 DEF IInv, ParentPhases
  <1>6. ScanSound' /\ TodoSound'
    <2>1. \A k \in 1 .. Len(free) : free[k] \in Slots
      BY <1>3, LenProperties
    <2>2. \A k \in 1 .. Len(todo) : todo[k] \in Slots
      BY <1>3, LenProperties
    <2> QED
      BY <1>2, <1>4, <2>1, <2>2 DEF IInv, ScanSound, TodoSound
  <1>7. Quiescent'
    <2>1. ASSUME NEW i \in Slots, parentPid[i] # None, Alive(parentPid[i]),
                 quiescing'[i], parentPid[i] # p
          PROVE  listener[parentPid[i]] = "quiesced"
      <3>1. CASE i # slot[p]
        BY <1>2, <1>3, <2>1, <3>1 DEF IInv, Quiescent
      <3>2. CASE i = slot[p]
        <4>1. p = born
          BY <1>2, <2>1, <3>2 DEF IInv, NoLostChild, Accepting
        <4>2. todo # <<>> /\ slot[p] = Head(todo)
          BY <4>1, PidAssumption DEF IInv, ParentPhases
        <4>3. Vacant(i)
          <5>1. Head(todo) = todo[1] /\ 1 \in 1 .. Len(todo)
            BY <1>3, <4>2, TailKeeps
          <5> QED
            BY <3>2, <4>2, <5>1 DEF IInv, TodoSound
        <4> QED
          BY <2>1, <4>3 DEF IInv, Quiescent, Vacant
      <3> QED
        BY <3>1, <3>2
    <2>2. ASSUME NEW i \in Slots, parentPid[i] # None
          PROVE  /\ pstate[parentPid[i]] # "unborn"
                 /\ quiescing'[i] /\ Alive(parentPid[i]) => listener'[parentPid[i]] = "quiesced"
      <3>1. parentPid[i] \in Pids
        BY <1>3, <2>2
      <3> QED
        BY <1>2, <1>3, <2>1, <2>2, <3>1 DEF IInv, Quiescent
    <2> QED
      BY <1>2, <2>2 DEF Quiescent, Alive
  <1>8. Killed'
    BY <1>2 DEF IInv, Killed, Used, Alive
  <1>9. NoLostChild'
    BY <1>2, <1>3 DEF IInv, NoLostChild, Accepting, Alive
  <1> QED
    BY <1>1, <1>5, <1>6, <1>7, <1>8, <1>9 DEF IInv

(* Every step of a child. *)
LEMMA ChildKeeps ==
    ASSUME IInv, NEW p \in Pids, ChildStep(p) \/ ChildDies(p) \/ DieOfSignal(p)
    PROVE  IInv'
  <1>1. TypeOK /\ TypeOK'
    BY ChildStepTypes DEF IInv
  <1>2. CASE ListenerQuiesce(p)
    BY <1>2, QuiesceKeeps
  <1>3. CASE \E c : Exit(p, c) /\ Alive(p)
    <2>1. UNCHANGED <<parentPid, quiescing, slot, parentVars>>
      BY <1>3 DEF Exit, boardVars
    <2>2. /\ pstate' = [pstate EXCEPT ![p] = "zombie"] /\ pstate[p] = "alive"
          /\ listener' = [listener EXCEPT ![p] = "none"]
          /\ sent' = [sent EXCEPT ![p] = None]
      BY <1>3 DEF Exit, Alive
    <2>3. pstate \in [Pids -> {"unborn", "alive", "zombie", "gone"}]
          /\ listener \in [Pids -> {"none", "accepting", "term", "dying", "quiesced"}]
          /\ sent \in [Pids -> {None, "SIGTERM", "SIGKILL"}]
      BY <1>1 DEF TypeOK, ProcTypes, ChildTypes
    <2>4. \A q \in Pids : pstate'[q] = pstate[q] \/ (pstate[q] # "unborn" /\ pstate'[q] = "zombie")
      BY <2>2, <2>3
    <2>5. \A q \in Pids : pstate'[q] = "alive" =>
             /\ listener'[q] = "quiesced" <=> listener[q] = "quiesced"
             /\ sent'[q] = sent[q]
      BY <2>2, <2>3
    <2> QED
      BY <1>1, <2>1, <2>4, <2>5, ChildFrame
  <1>4. CASE \/ \E j \in Threads : WorkerReady(p, j) \/ WorkerExit(p, j)
             \/ ScanThread(p) \/ ScanEnd(p) \/ PodRead(p) \/ ListenerTerm(p)
             \/ ListenerDying(p) \/ MainInterrupted(p)
    <2>1. /\ UNCHANGED <<parentPid, quiescing, slot, sent, parentVars>> /\ pstate' = pstate
          /\ \/ listener' = listener
             \/ \E l \in {"none", "accepting", "term", "dying"} :
                   listener' = [listener EXCEPT ![p] = l] /\ listener[p] # "quiesced"
             \/ listener[p] = "quiesced" /\ listener' = [listener EXCEPT ![p] = "quiesced"]
      <3>1. listener[p] \in {"none", "accepting", "term", "dying", "quiesced"}
        BY <1>1 DEF TypeOK, ChildTypes
      <3> QED
        BY <1>4, <3>1 DEF WorkerReady, WorkerExit, ScanThread, ScanEnd, PodRead, ListenerTerm,
             ListenerDying, MainInterrupted, childVars, boardVars, procVars
    <2>2. listener \in [Pids -> {"none", "accepting", "term", "dying", "quiesced"}]
      BY <1>1 DEF TypeOK, ChildTypes
    <2>3. \A q \in Pids : listener'[q] = "quiesced" <=> listener[q] = "quiesced"
      BY <2>1, <2>2
    <2> QED
      BY <1>1, <2>1, <2>3, ChildFrame
  <1> QED
    BY <1>2, <1>3, <1>4 DEF ChildStep, ChildExit, ChildDies, DieOfSignal

(***************************************************************************)
(* The parent's steps that leave the scoreboard and the processes alone.   *)
(***************************************************************************)

LEMMA ParentFrame ==
    ASSUME IInv, TypeOK', UNCHANGED <<boardVars, procVars, childVars, forkVars, idx, free,
                                      totallyFree, maxDaemonsLimit, nextAction>>,
           \/ ppc' = ppc
           \/ todo = <<>> /\ ppc \in {"startup", "loop", "spawn"} /\ ppc' \in {"loop", "scan"}
    PROVE  IInv'
  <1>1. /\ todo' = todo /\ born' = born /\ idx' = idx /\ free' = free
        /\ totallyFree' = totallyFree /\ nextAction' = nextAction
        /\ maxDaemonsLimit' = maxDaemonsLimit /\ parentPid' = parentPid
        /\ quiescing' = quiescing /\ slot' = slot /\ pstate' = pstate /\ sent' = sent
        /\ listener' = listener
    BY DEF forkVars, boardVars, procVars, childVars
  <1>2. ParentPhases'
    BY <1>1 DEF IInv, ParentPhases
  <1>3. ScanSound' /\ TodoSound'
    BY <1>1 DEF IInv, ScanSound, TodoSound, Vacant
  <1>4. Quiescent' /\ NoLostChild'
    BY <1>1 DEF IInv, Quiescent, NoLostChild, Accepting, Alive
  <1>5. Killed'
    BY <1>1 DEF IInv, Killed, Used, Alive
  <1> QED
    BY <1>2, <1>3, <1>4, <1>5 DEF IInv

LEMMA QuietStepKeeps ==
    ASSUME IInv, \/ StartupDone \/ Timeout \/ SpawnDone
                 \/ \E sig \in Signals : Signal(sig)
    PROVE  IInv'
  <1>1. TypeOK
    BY DEF IInv
  <1>2. /\ UNCHANGED <<boardVars, procVars, childVars, pod, forkVars, scanVars,
                       maxDaemonsLimit, sick, childFatal, nextAction>>
        /\ \/ ppc' = ppc
           \/ todo = <<>> /\ ppc \in {"startup", "loop", "spawn"} /\ ppc' \in {"loop", "scan"}
    <2>1. ASSUME ppc = "loop" PROVE todo = <<>>
      BY <2>1 DEF IInv, ParentPhases
    <2> QED
      BY <2>1 DEF StartupDone, Timeout, SpawnDone, Signal, rateVars, signalVars
  <1>3. BoardTypes' /\ ProcTypes' /\ ChildTypes' /\ ScanTypes'
    BY <1>1, <1>2 DEF TypeOK, BoardTypes, ProcTypes, ChildTypes, ScanTypes, boardVars, procVars,
                      childVars, scanVars
  <1>4. ppc' \in {"startup", "loop", "scan", "spawn", "drain", "reclaim", "returned"}
    BY <1>1, <1>2 DEF TypeOK, ParentTypes
  <1>5. spawnRate' \in 1 .. 2 * MaxSpawnRate
    <2>1. spawnRate \in 1 .. 2 * MaxSpawnRate
      BY <1>1 DEF TypeOK, ParentTypes
    <2>2. spawnRate' = spawnRate \/ (spawnRate < MaxSpawnRate /\ spawnRate' = 2 * spawnRate)
      BY DEF StartupDone, Timeout, SpawnDone, Signal, rateVars
    <2> QED
      BY <2>1, <2>2, RateAssumption
  <1>6. shutdownPending' \in BOOLEAN /\ restartPending' \in BOOLEAN /\ isGraceful' \in BOOLEAN
    <2>1. shutdownPending \in BOOLEAN /\ restartPending \in BOOLEAN /\ isGraceful \in BOOLEAN
      BY <1>1 DEF TypeOK, ParentTypes
    <2>2. CASE StartupDone
      BY <2>1, <2>2, Zenon DEF StartupDone
    <2>3. CASE Timeout \/ SpawnDone
      BY <2>1, <2>3, Zenon DEF Timeout, SpawnDone, signalVars
    <2>4. ASSUME NEW sig \in Signals, Signal(sig)
          PROVE  shutdownPending' \in BOOLEAN /\ restartPending' \in BOOLEAN /\ isGraceful' \in BOOLEAN
      BY <2>1, <2>4 DEF Signal
    <2> QED
      BY <2>2, <2>3, <2>4
  <1>7. ParentTypes'
    BY <1>1, <1>2, <1>4, <1>5, <1>6 DEF TypeOK, ParentTypes, forkVars
  <1> QED
    BY <1>2, <1>3, <1>7, ParentFrame DEF TypeOK, scanVars

(***************************************************************************)
(* make_child.                                                             *)
(***************************************************************************)

(* The limit stays within the scoreboard. *)
LEMMA LimitTypes ==
    ASSUME TypeOK, NEW i \in Slots, RaiseLimit(i)
    PROVE  maxDaemonsLimit' \in -1 .. ServerLimit
  BY LimitAssumption DEF TypeOK, ParentTypes, RaiseLimit, Slots

LEMMA ForkKeeps ==
    ASSUME IInv, NEW p \in Pids, Fork(p)
    PROVE  IInv'
  <1>1. TypeOK /\ born = None /\ todo # <<>> /\ pstate[p] = "unborn"
    BY DEF IInv, Fork
  <1>2. todo \in Seq(Slots) /\ Head(todo) \in Slots
    BY <1>1, TailKeeps DEF TypeOK, ParentTypes
  <1>3. /\ pstate' = [pstate EXCEPT ![p] = "alive"] /\ slot' = [slot EXCEPT ![p] = Head(todo)]
        /\ born' = p /\ todo' = todo /\ parentPid' = parentPid /\ quiescing' = quiescing
        /\ listener' = listener /\ ppc' = ppc /\ free' = free /\ idx' = idx
        /\ totallyFree' = totallyFree /\ nextAction' = nextAction /\ ppc \in {"startup", "spawn"}
    BY DEF Fork, boardVars, childVars, scanVars
  <1>4. /\ pstate \in [Pids -> {"unborn", "alive", "zombie", "gone"}] /\ slot \in [Pids -> Slots]
        /\ parentPid \in [Slots -> Pids \cup {None}]
    BY <1>1 DEF TypeOK, ProcTypes, BoardTypes
  <1>5. TypeOK'
    <2>1. PICK h \in Slots : h = Head(todo)
      BY <1>2
    <2>2. maxDaemonsLimit' \in -1 .. ServerLimit
      BY <1>1, <2>1, LimitTypes DEF Fork
    <2>3. BoardTypes' /\ ChildTypes' /\ ScanTypes'
      BY <1>1 DEF TypeOK, Fork, BoardTypes, ChildTypes, ScanTypes, boardVars, childVars, scanVars
    <2>4. ProcTypes'
      BY <1>1, <1>2 DEF TypeOK, Fork, ProcTypes
    <2>5. ParentTypes'
      BY <1>1, <2>2 DEF TypeOK, Fork, ParentTypes, signalVars
    <2> QED
      BY <2>3, <2>4, <2>5 DEF TypeOK
  <1>6. ParentPhases'
    BY <1>1, <1>3, <1>4 DEF IInv, ParentPhases
  <1>7. ScanSound' /\ TodoSound'
    BY <1>3 DEF IInv, ScanSound, TodoSound, Vacant
  <1>8. \A i \in Slots : parentPid[i] # None =>
           parentPid[i] \in Pids /\ parentPid[i] # p /\ pstate'[parentPid[i]] = pstate[parentPid[i]]
    BY <1>1, <1>3, <1>4 DEF IInv, Quiescent
  <1>9. Quiescent'
    BY <1>3, <1>8 DEF IInv, Quiescent, Alive
  <1>10. Killed'
    BY <1>3 DEF Killed
  <1>11. NoLostChild'
    BY <1>1, <1>3, <1>4, PidAssumption DEF IInv, NoLostChild, Accepting, Alive
  <1> QED
    BY <1>5, <1>6, <1>7, <1>9, <1>10, <1>11 DEF IInv

LEMMA ForkFailKeeps ==
    ASSUME IInv, ForkFail
    PROVE  IInv'
  <1>1. TypeOK /\ born = None /\ todo # <<>> /\ todo \in Seq(Slots)
    BY DEF IInv, ForkFail, TypeOK, ParentTypes
  <1>2. /\ Head(todo) \in Slots /\ Tail(todo) \in Seq(Slots)
        /\ \A k \in 1 .. Len(Tail(todo)) : Tail(todo)[k] = todo[k + 1] /\ k + 1 \in 1 .. Len(todo)
        /\ IsInjective(todo) => IsInjective(Tail(todo))
    BY <1>1, TailKeeps
  <1>3. /\ parentPid' = parentPid /\ quiescing' = quiescing /\ pstate' = pstate /\ slot' = slot
        /\ listener' = listener /\ ppc' = ppc /\ born' = born /\ free' = free /\ idx' = idx
        /\ totallyFree' = totallyFree /\ nextAction' = nextAction /\ ppc \in {"startup", "spawn"}
        /\ todo' = <<>> \/ todo' = Tail(todo)
    BY DEF ForkFail, procVars, childVars, scanVars
  <1>4. IsInjective(<<>>) /\ <<>> \in Seq(Slots) /\ Len(<<>>) = 0
    BY EmptyList
  <1>5. TypeOK'
    <2>1. PICK h \in Slots : h = Head(todo)
      BY <1>2
    <2>2. maxDaemonsLimit' \in -1 .. ServerLimit
      BY <1>1, <2>1, LimitTypes DEF ForkFail
    <2>3. ProcTypes' /\ ChildTypes' /\ ScanTypes'
      BY <1>1 DEF TypeOK, ForkFail, ProcTypes, ChildTypes, ScanTypes, procVars, childVars, scanVars
    <2>4. BoardTypes'
      <3>1. 0 \in Threads /\ SERVER_DEAD \in Statuses
        BY LimitAssumption DEF Threads, Statuses
      <3> QED
        BY <1>1, <1>2, <3>1 DEF TypeOK, ForkFail, BoardTypes, UpdateChildStatus
    <2>5. ParentTypes'
      BY <1>1, <1>2, <1>3, <1>4, <2>2 DEF TypeOK, ForkFail, ParentTypes, signalVars
    <2> QED
      BY <2>3, <2>4, <2>5 DEF TypeOK
  <1>6. ParentPhases'
    BY <1>1, <1>3 DEF IInv, ParentPhases
  <1>7. ScanSound' /\ TodoSound'
    <2>1. ScanSound'
      BY <1>3 DEF IInv, ScanSound, Vacant
    <2>2. \A k \in 1 .. Len(todo) : Vacant(todo[k])
      BY DEF IInv, TodoSound
    <2>3. IsInjective(todo)
      BY DEF IInv, TodoSound
    <2>4. ASSUME todo' = <<>> PROVE TodoSound'
      BY <1>4, <2>4 DEF TodoSound
    <2>5. ASSUME todo' = Tail(todo) PROVE TodoSound'
      <3>1. \A k \in 1 .. Len(Tail(todo)) : Vacant(Tail(todo)[k])
        BY <1>2, <2>2
      <3> QED
        BY <1>2, <1>3, <2>3, <2>5, <3>1 DEF TodoSound, Vacant
    <2> QED
      BY <1>3, <2>1, <2>4, <2>5
  <1>8. Quiescent' /\ NoLostChild'
    BY <1>3 DEF IInv, Quiescent, NoLostChild, Accepting, Alive
  <1>9. Killed'
    BY <1>3 DEF Killed
  <1> QED
    BY <1>5, <1>6, <1>7, <1>8, <1>9 DEF IInv

(* The new child takes the slot over: whoever was recorded there has       *)
(* quiesced or is no longer alive.                                         *)
LEMMA RecordChildKeeps ==
    ASSUME IInv, RecordChild
    PROVE  IInv'
  <1>1. TypeOK /\ born \in Pids /\ todo \in Seq(Slots)
    BY DEF IInv, RecordChild, TypeOK, ParentTypes
  <1>2. todo # <<>> /\ slot[born] = Head(todo) /\ pstate[born] # "unborn" /\ born # None
    BY DEF IInv, RecordChild, ParentPhases
  <1>3. /\ Head(todo) \in Slots /\ Tail(todo) \in Seq(Slots) /\ Head(todo) = todo[1]
        /\ 1 \in 1 .. Len(todo)
        /\ \A k \in 1 .. Len(Tail(todo)) : Tail(todo)[k] = todo[k + 1] /\ k + 1 \in 1 .. Len(todo)
        /\ IsInjective(Tail(todo)) /\ \A k \in 1 .. Len(Tail(todo)) : Tail(todo)[k] # Head(todo)
    BY <1>1, <1>2, TailKeeps DEF IInv, TodoSound
  <1>4. PICK h \in Slots, b \in Pids : h = Head(todo) /\ b = born
    BY <1>1, <1>3
  <1>5. /\ parentPid' = [parentPid EXCEPT ![h] = b] /\ quiescing' = [quiescing EXCEPT ![h] = FALSE]
        /\ born' = None /\ todo' = Tail(todo) /\ pstate' = pstate /\ slot' = slot
        /\ listener' = listener /\ ppc' = ppc /\ free' = free /\ idx' = idx
        /\ totallyFree' = totallyFree /\ nextAction' = nextAction
        /\ maxDaemonsLimit' = maxDaemonsLimit
    BY <1>2, <1>4 DEF RecordChild, procVars, childVars, scanVars, rateVars
  <1>6. parentPid \in [Slots -> Pids \cup {None}] /\ quiescing \in [Slots -> BOOLEAN]
        /\ slot \in [Pids -> Slots]
    BY <1>1 DEF TypeOK, BoardTypes, ProcTypes
  <1>7. Vacant(h)
    BY <1>3, <1>4 DEF IInv, TodoSound
  <1>8. TypeOK'
    <2>1. ProcTypes' /\ ChildTypes' /\ ScanTypes'
      BY <1>1 DEF TypeOK, RecordChild, ProcTypes, ChildTypes, ScanTypes, procVars, childVars, scanVars
    <2>2. BoardTypes'
      BY <1>1, <1>5, <1>6 DEF TypeOK, RecordChild, BoardTypes
    <2>3. ParentTypes'
      BY <1>1, <1>3, <1>5 DEF TypeOK, RecordChild, ParentTypes, signalVars, rateVars
    <2> QED
      BY <2>1, <2>2, <2>3 DEF TypeOK
  <1>9. ppc \in {"startup", "spawn"}
    BY <1>2 DEF IInv, ParentPhases
  <1>10. ParentPhases'
    BY <1>5, <1>9 DEF IInv, ParentPhases
  <1>11. TodoSound'
    <2>1. ASSUME NEW k \in 1 .. Len(Tail(todo)) PROVE Vacant(todo[k])'
      <3>1. PICK i : i = Tail(todo)[k]
        OBVIOUS
      <3>2. i # h /\ Vacant(i) /\ i \in Slots
        BY <1>3, <1>4, <3>1, LenProperties DEF IInv, TodoSound
      <3>3. parentPid'[i] = parentPid[i] /\ quiescing'[i] = quiescing[i]
        BY <1>5, <1>6, <3>2
      <3> QED
        BY <1>5, <3>1, <3>2, <3>3 DEF Vacant
    <2> QED
      BY <1>3, <1>5, <2>1 DEF TodoSound, Vacant
  <1>12. ScanSound'
    <2>1. free = <<>> /\ totallyFree = 0 /\ idx = 0
      BY <1>9 DEF IInv, ParentPhases
    <2>2. IsInjective(<<>>) /\ Len(<<>>) = 0
      BY EmptyList
    <2> QED
      BY <1>5, <2>1, <2>2 DEF ScanSound
  <1>13. Quiescent'
    <2>1. ASSUME NEW i \in Slots, parentPid'[i] # None
          PROVE  /\ pstate[parentPid'[i]] # "unborn"
                 /\ quiescing'[i] /\ pstate[parentPid'[i]] = "alive" => listener[parentPid'[i]] = "quiesced"
      <3>1. CASE i = h
        BY <1>2, <1>4, <1>5, <1>6, <3>1
      <3>2. CASE i # h
        BY <1>5, <1>6, <2>1, <3>2 DEF IInv, Quiescent, Alive
      <3> QED
        BY <3>1, <3>2
    <2> QED
      BY <1>5, <2>1 DEF Quiescent, Alive
  <1>14. Killed'
    BY <1>5, <1>9 DEF Killed
  <1>15. NoLostChild'
    <2>1. ASSUME NEW q \in Pids, Accepting(q), q # b PROVE parentPid'[slot[q]] = q
      <3>1. parentPid[slot[q]] = q /\ slot[q] \in Slots
        BY <1>4, <1>6, <2>1 DEF IInv, NoLostChild
      <3>2. CASE slot[q] = h
        <4>1. quiescing[h]
          BY <1>7, <3>1, <3>2, PidAssumption DEF Vacant
        <4>2. listener[q] = "quiesced"
          BY <2>1, <3>1, <3>2, <4>1, PidAssumption DEF IInv, Quiescent, Accepting
        <4> QED
          BY <2>1, <4>2 DEF Accepting
      <3> QED
        BY <1>5, <1>6, <3>1, <3>2
    <2>2. parentPid'[slot[b]] = b
      BY <1>2, <1>4, <1>5, <1>6
    <2>3. \A q \in Pids : Accepting(q)' => Accepting(q)
      BY <1>5 DEF Accepting, Alive
    <2> QED
      BY <1>5, <2>1, <2>2, <2>3 DEF NoLostChild
  <1> QED
    BY <1>8, <1>10, <1>11, <1>12, <1>13, <1>14, <1>15 DEF IInv


(***************************************************************************)
(* The steps that clear slots: the reaping of a child and the rounds of    *)
(* the shutdown.  None of them is taken while there are slots to fork into.*)
(***************************************************************************)

(* A slot is cleared only after the child it names has ended. *)
LEMMA ClearFrame ==
    ASSUME IInv, TypeOK', ParentPhases', Killed', ppc \in {"loop", "drain", "reclaim"},
           UNCHANGED <<forkVars, scanVars, listener>>,
           \A i \in Slots : parentPid'[i] # None => /\ parentPid'[i] = parentPid[i]
                                                    /\ quiescing'[i] => quiescing[i],
           \A q \in Pids : pstate[q] # "unborn" => pstate'[q] # "unborn",
           \A q \in Pids : pstate'[q] = "alive" =>
              /\ pstate[q] = "alive" /\ slot'[q] = slot[q]
              /\ parentPid[slot[q]] = q => parentPid'[slot[q]] = q
    PROVE  IInv'
  <1>1. TypeOK /\ todo = <<>> /\ born = None /\ free = <<>> /\ totallyFree = 0 /\ idx = 0
    BY DEF IInv, ParentPhases
  <1>2. /\ todo' = <<>> /\ born' = None /\ free' = <<>> /\ totallyFree' = 0 /\ idx' = 0
        /\ listener' = listener
    BY <1>1 DEF forkVars, scanVars
  <1>3. ScanSound' /\ TodoSound'
    BY <1>2, EmptyList DEF ScanSound, TodoSound
  <1>4. Quiescent'
    <2>1. ASSUME NEW i \in Slots, parentPid'[i] # None
          PROVE  /\ pstate'[parentPid'[i]] # "unborn"
                 /\ quiescing'[i] /\ pstate'[parentPid'[i]] = "alive" => listener[parentPid'[i]] = "quiesced"
      <3>0. quiescing'[i] => quiescing[i]
        BY <2>1, Zenon
      <3>1. parentPid'[i] = parentPid[i] /\ parentPid[i] \in Pids
        BY <1>1, <2>1 DEF TypeOK, BoardTypes
      <3> QED
        BY <2>1, <3>0, <3>1 DEF IInv, Quiescent, Alive
    <2> QED
      BY <1>2, <2>1 DEF Quiescent, Alive
  <1>5. NoLostChild'
    BY <1>1, <1>2, PidAssumption DEF IInv, NoLostChild, Accepting, Alive
  <1> QED
    BY <1>3, <1>4, <1>5 DEF IInv

LEMMA ReapKeeps ==
    ASSUME IInv, NEW p \in Pids, Reap(p)
    PROVE  IInv'
  <1>1. TypeOK /\ ppc = "loop" /\ pstate[p] = "zombie"
    BY DEF IInv, Reap
  <1>2. /\ pstate' = [pstate EXCEPT ![p] = "gone"] /\ slot' = [slot EXCEPT ![p] = 0]
        /\ code' = [code EXCEPT ![p] = "ok"]
        /\ UNCHANGED <<sent, childVars, pod, ppc, forkVars, scanVars, maxDaemonsLimit, restartPending,
                       isGraceful, nextAction>>
    BY DEF Reap
  <1>3. /\ pstate \in [Pids -> {"unborn", "alive", "zombie", "gone"}] /\ slot \in [Pids -> Slots]
        /\ parentPid \in [Slots -> Pids \cup {None}] /\ quiescing \in [Slots -> BOOLEAN]
        /\ status \in [Slots -> [Threads -> Statuses]] /\ 0 \in Slots
    BY <1>1, LimitAssumption DEF TypeOK, ProcTypes, BoardTypes, Slots
  <1>4. \/ UNCHANGED boardVars
        \/ /\ status' = [i \in Slots |-> IF i \in FindChildByPid(p)
                                 THEN [j \in Threads |-> SERVER_DEAD] ELSE status[i]]
           /\ parentPid' = [i \in Slots |-> IF i \in FindChildByPid(p) THEN None ELSE parentPid[i]]
           /\ quiescing' = [i \in Slots |-> i \notin FindChildByPid(p) /\ quiescing[i]]
    BY DEF Reap
  <1>5. BoardTypes'
    <2>1. CASE UNCHANGED boardVars
      BY <1>3, <2>1 DEF BoardTypes, boardVars
    <2>2. CASE ~UNCHANGED boardVars
      <3>1. [j \in Threads |-> SERVER_DEAD] \in [Threads -> Statuses]
        BY DEF Statuses
      <3>2. /\ status' \in [Slots -> [Threads -> Statuses]]
            /\ parentPid' \in [Slots -> Pids \cup {None}]
        BY <1>3, <1>4, <2>2, <3>1
      <3>3. quiescing' \in [Slots -> BOOLEAN]
        BY <1>4, <2>2
      <3> QED
        BY <3>2, <3>3 DEF BoardTypes
    <2> QED
      BY <2>1, <2>2
  <1>6. ProcTypes'
    BY <1>1, <1>2, <1>3 DEF TypeOK, ProcTypes
  <1>7. ChildTypes' /\ ScanTypes'
    BY <1>1, <1>2 DEF TypeOK, ChildTypes, ScanTypes, childVars, scanVars
  <1>8. ParentTypes'
    <2>1. shutdownPending \in BOOLEAN /\ childFatal \in BOOLEAN /\ sick \in BOOLEAN
      BY <1>1 DEF TypeOK, ParentTypes
    <2>2. \/ shutdownPending' = TRUE /\ childFatal' = TRUE /\ sick' = sick
          \/ /\ UNCHANGED <<shutdownPending, childFatal>>
             /\ sick' = (sick \/ ProcessChildStatus(code[p]) = "CHILDSICK")
      BY DEF Reap
    <2>3. shutdownPending' \in BOOLEAN /\ childFatal' \in BOOLEAN /\ sick' \in BOOLEAN
      BY <2>1, <2>2, Zenon
    <2>4. spawnRate' \in 1 .. 2 * MaxSpawnRate
      <3>1. spawnRate' = spawnRate \/ spawnRate' = 1
        BY DEF Reap
      <3> QED
        BY <1>1, <3>1, RateAssumption DEF TypeOK, ParentTypes
    <2> QED
      BY <1>1, <1>2, <2>3, <2>4 DEF TypeOK, ParentTypes, forkVars
  <1>9. TypeOK'
    BY <1>5, <1>6, <1>7, <1>8 DEF TypeOK
  <1>10. \A i \in Slots : parentPid'[i] # None => /\ parentPid'[i] = parentPid[i]
                                                  /\ quiescing'[i] => quiescing[i]
    BY <1>3, <1>4 DEF boardVars
  <1>11. \A q \in Pids : pstate'[q] = "alive" =>
            /\ pstate[q] = "alive" /\ slot'[q] = slot[q]
            /\ parentPid[slot[q]] = q => parentPid'[slot[q]] = q
    <2>1. ASSUME NEW q \in Pids, pstate'[q] = "alive"
          PROVE  q # p /\ pstate[q] = "alive" /\ slot'[q] = slot[q] /\ slot[q] \in Slots
      BY <1>2, <1>3, <2>1
    <2>2. ASSUME NEW q \in Pids, q # p, slot[q] \in Slots, parentPid[slot[q]] = q
          PROVE  parentPid'[slot[q]] = q
      BY <1>4, <2>2 DEF FindChildByPid, boardVars
    <2> QED
      BY <2>1, <2>2
  <1>12. \A q \in Pids : pstate[q] # "unborn" => pstate'[q] # "unborn"
    BY <1>2, <1>3
  <1>13. todo = <<>> /\ born = None
    BY <1>1 DEF IInv, ParentPhases
  <1>14. ParentPhases' /\ Killed'
    <2>1. ppc' = "loop" /\ todo' = <<>> /\ born' = None
      BY <1>1, <1>2, <1>13 DEF forkVars
    <2> QED
      BY <1>1, <1>2, <2>1 DEF IInv, ParentPhases, Killed, scanVars
  <1> QED
    BY <1>1, <1>2, <1>9, <1>10, <1>11, <1>12, <1>14, ClearFrame DEF childVars

(* One round over the used slots. *)
LEMMA RoundFacts ==
    ASSUME TypeOK, Relieve
    PROVE  /\ pstate' \in [Pids -> {"unborn", "alive", "zombie", "gone"}]
           /\ parentPid' \in [Slots -> Pids \cup {None}]
           /\ \A i \in Slots : parentPid'[i] # None => parentPid'[i] = parentPid[i] /\ i \notin Done
           /\ \A i \in Done : parentPid'[i] = None /\ pstate'[parentPid[i]] = "gone"
           /\ \A i \in Slots \ Done : parentPid'[i] = parentPid[i]
           /\ \A q \in Pids : pstate[q] # "unborn" => pstate'[q] # "unborn"
           /\ \A q \in Pids : pstate'[q] = "alive" => pstate[q] = "alive"
           /\ \A q \in Pids, i \in Slots :
                 pstate'[q] = "alive" /\ parentPid[i] = q => parentPid'[i] = q
  <1>1. /\ pstate \in [Pids -> {"unborn", "alive", "zombie", "gone"}]
        /\ parentPid \in [Slots -> Pids \cup {None}]
    BY DEF TypeOK, ProcTypes, BoardTypes
  <1>2. /\ pstate' = [p \in Pids |-> IF \E i \in Done : parentPid[i] = p THEN "gone"
                                     ELSE pstate[p]]
        /\ parentPid' = [i \in Slots |-> IF i \in Done THEN None ELSE parentPid[i]]
    BY DEF Relieve
  <1>3. pstate' \in [Pids -> {"unborn", "alive", "zombie", "gone"}]
    BY <1>1, <1>2
  <1>4. parentPid' \in [Slots -> Pids \cup {None}]
    BY <1>1, <1>2
  <1>5. \A i \in Slots : parentPid'[i] # None => parentPid'[i] = parentPid[i] /\ i \notin Done
    BY <1>2
  <1>6. \A q \in Pids : pstate[q] # "unborn" => pstate'[q] # "unborn"
    BY <1>2
  <1>7. \A q \in Pids : pstate'[q] = "alive" => /\ pstate[q] = "alive"
                                                /\ \A i \in Done : parentPid[i] # q
    BY <1>2
  <1>8. \A q \in Pids, i \in Slots :
           pstate'[q] = "alive" /\ parentPid[i] = q => parentPid'[i] = q
    BY <1>2, <1>7
  <1>9. /\ \A i \in Done : parentPid'[i] = None /\ pstate'[parentPid[i]] = "gone"
        /\ \A i \in Slots \ Done : parentPid'[i] = parentPid[i]
    <2>1. \A i \in Done : i \in Slots /\ parentPid[i] \in Pids
      BY <1>1 DEF Done, Used
    <2> QED
      BY <1>2, <2>1
  <1> QED
    BY <1>3, <1>4, <1>5, <1>6, <1>7, <1>8, <1>9

LEMMA RoundKeeps ==
    ASSUME IInv, Relieve, sent' \in [Pids -> {None, "SIGTERM", "SIGKILL"}],
           ppc \in {"loop", "drain", "reclaim"},
           UNCHANGED <<forkVars, scanVars, childVars, quiescing, status, slot, code>>,
           pod' \in Seq({"graceful", "forced"}), ParentTypes', ParentPhases', Killed'
    PROVE  IInv'
  <1>1. TypeOK
    BY DEF IInv
  <1>2. /\ pstate' \in [Pids -> {"unborn", "alive", "zombie", "gone"}]
        /\ parentPid' \in [Slots -> Pids \cup {None}]
        /\ \A i \in Slots : parentPid'[i] # None => parentPid'[i] = parentPid[i] /\ i \notin Done
        /\ \A q \in Pids : pstate[q] # "unborn" => pstate'[q] # "unborn"
        /\ \A q \in Pids : pstate'[q] = "alive" => pstate[q] = "alive"
        /\ \A q \in Pids, i \in Slots :
              pstate'[q] = "alive" /\ parentPid[i] = q => parentPid'[i] = q
    BY <1>1, RoundFacts
  <1>3. TypeOK'
    <2>1. BoardTypes' /\ ProcTypes'
      BY <1>1, <1>2 DEF TypeOK, BoardTypes, ProcTypes
    <2>2. ChildTypes' /\ ScanTypes'
      BY <1>1 DEF TypeOK, ChildTypes, ScanTypes, childVars, scanVars
    <2> QED
      BY <2>1, <2>2 DEF TypeOK
  <1>4. \A q \in Pids : slot[q] \in Slots /\ slot'[q] = slot[q]
    BY <1>1 DEF TypeOK, ProcTypes
  <1>5. \A q \in Pids : pstate'[q] = "alive" =>
            /\ pstate[q] = "alive" /\ slot'[q] = slot[q]
            /\ parentPid[slot[q]] = q => parentPid'[slot[q]] = q
    BY <1>2, <1>4
  <1>6. \A i \in Slots : parentPid'[i] # None => /\ parentPid'[i] = parentPid[i]
                                                 /\ quiescing'[i] => quiescing[i]
    BY <1>2
  <1> QED
    BY <1>2, <1>3, <1>5, <1>6, ClearFrame DEF childVars


(* zevent_pod_killpg *)
LEMMA KillpgTypes ==
    ASSUME pod \in Seq({"graceful", "forced"}), NEW c \in {"graceful", "forced"}, PodKillpg(c)
    PROVE  pod' \in Seq({"graceful", "forced"})
  <1>1. PICK t : t = [k \in 1 .. ServerLimit |-> c]
    OBVIOUS
  <1>2. t \in Seq({"graceful", "forced"})
    BY <1>1, LimitAssumption, IsASeq
  <1> QED
    BY <1>1, <1>2, ConcatProperties DEF PodKillpg

LEMMA StopKeeps ==
    ASSUME IInv, Stop
    PROVE  IInv'
  <1>1. TypeOK /\ ppc = "loop"
    BY DEF IInv, Stop
  <1>2. /\ ppc' \in {"reclaim", "drain", "returned"}
        /\ UNCHANGED <<quiescing, status, slot, code, sent, childVars, forkVars, scanVars,
                       rateVars, restartPending, isGraceful, childFatal, nextAction>>
    BY DEF Stop
  <1>3. pod' \in Seq({"graceful", "forced"})
    BY <1>1, KillpgTypes DEF Stop, TypeOK, ChildTypes
  <1>4. todo = <<>> /\ born = None /\ free = <<>> /\ totallyFree = 0 /\ idx = 0 /\ nextAction = 1
    BY <1>1 DEF IInv, ParentPhases
  <1>5. ParentPhases' /\ Killed'
    BY <1>2, <1>4 DEF ParentPhases, Killed, forkVars, scanVars
  <1>6. ParentTypes'
    <2>1. shutdownPending \in BOOLEAN
      BY <1>1 DEF TypeOK, ParentTypes
    <2>2. shutdownPending' = shutdownPending \/ shutdownPending' = FALSE
      BY DEF Stop
    <2>3. shutdownPending' \in BOOLEAN
      BY <2>1, <2>2, Zenon
    <2> QED
      BY <1>1, <1>2, <2>3 DEF TypeOK, ParentTypes, forkVars, rateVars
  <1>9. sent' = sent /\ sent \in [Pids -> {None, "SIGTERM", "SIGKILL"}]
    BY <1>1, <1>2 DEF TypeOK, ProcTypes
  <1>7. CASE Relieve
    BY <1>1, <1>2, <1>3, <1>5, <1>6, <1>7, <1>9, RoundKeeps
  <1>8. CASE UNCHANGED <<pstate, parentPid>>
    <2>1. TypeOK'
      <3>1. BoardTypes' /\ ProcTypes'
        BY <1>1, <1>2, <1>8 DEF TypeOK, BoardTypes, ProcTypes
      <3>2. ChildTypes' /\ ScanTypes'
        BY <1>1, <1>2, <1>3 DEF TypeOK, ChildTypes, ScanTypes, childVars, scanVars
      <3> QED
        BY <1>6, <3>1, <3>2 DEF TypeOK
    <2> QED
      BY <1>1, <1>2, <1>5, <1>8, <2>1, ClearFrame DEF childVars
  <1> QED
    BY <1>7, <1>8 DEF Stop

LEMMA DrainKeeps ==
    ASSUME IInv, Drain
    PROVE  IInv'
  <1>1. TypeOK /\ ppc = "drain"
    BY DEF IInv, Drain
  <1>2. /\ ppc' \in {"reclaim", "drain"} /\ Relieve
        /\ UNCHANGED <<quiescing, status, slot, code, sent, childVars, forkVars, scanVars,
                       rateVars, signalVars, nextAction>>
    BY <1>1 DEF Drain
  <1>3. pod' \in Seq({"graceful", "forced"})
    BY <1>1, KillpgTypes DEF Drain, TypeOK, ChildTypes
  <1>4. todo = <<>> /\ born = None /\ free = <<>> /\ totallyFree = 0 /\ idx = 0 /\ nextAction = 1
    BY <1>1 DEF IInv, ParentPhases
  <1>5. ParentPhases' /\ Killed'
    BY <1>2, <1>4 DEF ParentPhases, Killed, forkVars, scanVars
  <1>6. ParentTypes'
    BY <1>1, <1>2 DEF TypeOK, ParentTypes, forkVars, rateVars, signalVars
  <1>7. sent' \in [Pids -> {None, "SIGTERM", "SIGKILL"}]
    BY <1>1, <1>2 DEF TypeOK, ProcTypes
  <1> QED
    BY <1>1, <1>2, <1>3, <1>5, <1>6, <1>7, RoundKeeps

(* The action of a round and what it sends to the stragglers. *)
LEMMA RoundAction ==
    ASSUME TypeOK, ppc = "reclaim" => nextAction <= 5, NEW due \in BOOLEAN, ReclaimRound(due)
    PROVE  /\ Relieve
           /\ sent' \in [Pids -> {None, "SIGTERM", "SIGKILL"}]
           /\ ~due => sent' = sent
           /\ due /\ nextAction = 4 => \A i \in Used \ Done : sent'[parentPid[i]] = "SIGKILL"
           /\ due /\ nextAction = 5 => ppc' = "returned"
           /\ ppc' = "returned" => Used \subseteq Done \/ (due /\ nextAction = 5)
           /\ ppc' \in {"reclaim", "returned"} /\ nextAction \in 1 .. 5
           /\ nextAction' = IF due THEN nextAction + 1 ELSE nextAction
  <1>1. ppc = "reclaim" /\ nextAction \in 1 .. 5 /\ Relieve
    BY DEF TypeOK, ParentTypes, ReclaimRound
  <1>2. PICK action : action = IF due THEN ActionTable[nextAction + 1] ELSE "DO_NOTHING"
    OBVIOUS
  <1>3. /\ due /\ nextAction = 4 => action = "SEND_SIGKILL"
        /\ due /\ nextAction = 5 => action = "GIVEUP"
        /\ action = "GIVEUP" => due /\ nextAction = 5
        /\ ~due => action = "DO_NOTHING"
    BY <1>1, <1>2 DEF ActionTable
  <1>4. PICK signal \in {None, "SIGTERM", "SIGKILL"} :
           /\ action = "SEND_SIGKILL" => signal = "SIGKILL"
           /\ action = "DO_NOTHING" => signal = None
           /\ sent' = [p \in Pids |-> IF p \in {parentPid[i] : i \in Used \ Done} /\ signal # None
                                      THEN signal ELSE sent[p]]
    <2>1. PICK signal : signal = CASE action = "SEND_SIGTERM" -> "SIGTERM"
                                   [] action = "SEND_SIGKILL" -> "SIGKILL"
                                   [] OTHER                   -> None
      OBVIOUS
    <2>2. /\ signal \in {None, "SIGTERM", "SIGKILL"}
          /\ action = "SEND_SIGKILL" => signal = "SIGKILL"
          /\ action = "DO_NOTHING" => signal = None
      BY <2>1
    <2>3. sent' = [p \in Pids |-> IF p \in {parentPid[i] : i \in Used \ Done} /\ signal # None
                                  THEN signal ELSE sent[p]]
      BY <1>2, <2>1 DEF ReclaimRound
    <2> QED
      BY <2>2, <2>3
  <1>5. /\ ppc' = IF {parentPid[i] : i \in Used \ Done} = {} \/ action = "GIVEUP"
                  THEN "returned" ELSE ppc
        /\ nextAction' = IF due THEN nextAction + 1 ELSE nextAction
    BY <1>2 DEF ReclaimRound
  <1>6. {parentPid[i] : i \in Used \ Done} = {} => Used \subseteq Done
    OBVIOUS
  <1>7. sent \in [Pids -> {None, "SIGTERM", "SIGKILL"}]
    BY DEF TypeOK, ProcTypes
  <1>8. /\ sent' \in [Pids -> {None, "SIGTERM", "SIGKILL"}]
        /\ ~due => sent' = sent
    BY <1>3, <1>4, <1>7
  <1>9. due /\ nextAction = 4 => \A i \in Used \ Done : sent'[parentPid[i]] = "SIGKILL"
    <2>1. \A i \in Used \ Done : parentPid[i] \in Pids
      BY DEF Used, TypeOK, BoardTypes
    <2>2. None # "SIGKILL"
      BY DEF None
    <2> QED
      BY <1>3, <1>4, <2>1, <2>2
  <1>10. /\ due /\ nextAction = 5 => ppc' = "returned"
         /\ ppc' = "returned" => Used \subseteq Done \/ (due /\ nextAction = 5)
         /\ ppc' \in {"reclaim", "returned"}
    BY <1>1, <1>3, <1>5, <1>6
  <1> QED
    BY <1>1, <1>5, <1>8, <1>9, <1>10

(* One round of the reclaim: after the round with SEND_SIGKILL every child *)
(* that was looked at and has not ended was sent it.                       *)
LEMMA ReclaimKeeps ==
    ASSUME IInv, NEW due \in BOOLEAN, ReclaimRound(due)
    PROVE  IInv'
  <1>1. TypeOK /\ ppc = "reclaim"
    BY DEF IInv, ReclaimRound
  <1>2. /\ Relieve /\ sent' \in [Pids -> {None, "SIGTERM", "SIGKILL"}]
        /\ ~due => sent' = sent
        /\ due /\ nextAction = 4 => \A i \in Used \ Done : sent'[parentPid[i]] = "SIGKILL"
    BY <1>1, RoundAction DEF IInv, ParentPhases
  <1>3. /\ due /\ nextAction = 5 => ppc' = "returned"
        /\ ppc' \in {"reclaim", "returned"} /\ nextAction \in 1 .. 5
        /\ nextAction' = IF due THEN nextAction + 1 ELSE nextAction
    BY <1>1, RoundAction DEF IInv, ParentPhases
  <1>4. UNCHANGED <<quiescing, status, slot, code, childVars, pod, forkVars, scanVars,
                    rateVars, signalVars>>
    BY DEF ReclaimRound
  <1>5. todo = <<>> /\ born = None /\ free = <<>> /\ totallyFree = 0 /\ idx = 0
    BY <1>1 DEF IInv, ParentPhases
  <1>6. ParentPhases'
    <2>1. nextAction' \in 1 .. 6 /\ (ppc' = "reclaim" => nextAction' <= 5)
      BY <1>3
    <2> QED
      BY <1>3, <1>4, <1>5, <2>1 DEF ParentPhases, forkVars, scanVars
  <1>7. ParentTypes'
    <2>1. nextAction' \in 1 .. 6
      BY <1>3
    <2> QED
      BY <1>1, <1>3, <1>4, <2>1 DEF TypeOK, ParentTypes, forkVars, rateVars, signalVars
  <1>8. /\ \A i \in Slots : parentPid'[i] # None => parentPid'[i] = parentPid[i] /\ i \notin Done
        /\ \A q \in Pids : pstate'[q] = "alive" => pstate[q] = "alive"
    BY <1>1, <1>2, RoundFacts
  <1>9. Killed'
    <2>1. SUFFICES ASSUME ppc' = "reclaim", nextAction' = 5, NEW i \in Slots,
                          i < maxDaemonsLimit, parentPid'[i] # None,
                          pstate'[parentPid'[i]] = "alive"
                   PROVE  sent'[parentPid'[i]] = "SIGKILL"
      BY <1>4 DEF Killed, Used, Alive, rateVars
    <2>2. parentPid'[i] = parentPid[i] /\ i \in Used \ Done /\ parentPid[i] \in Pids
      BY <1>1, <1>8, <2>1 DEF Used, TypeOK, BoardTypes
    <2>3. CASE due
      <3>1. nextAction = 4
        BY <1>3, <2>1, <2>3
      <3> QED
        BY <1>2, <2>2, <2>3, <3>1
    <2>4. CASE ~due
      <3>1. nextAction = 5
        BY <1>3, <2>1, <2>4
      <3>2. pstate[parentPid[i]] = "alive"
        BY <1>8, <2>1, <2>2
      <3> QED
        BY <1>1, <1>2, <2>2, <2>4, <3>1, <3>2 DEF IInv, Killed, Alive
    <2> QED
      BY <2>3, <2>4
  <1>10. pod' \in Seq({"graceful", "forced"})
    BY <1>1, <1>4 DEF TypeOK, ChildTypes
  <1> QED
    BY <1>1, <1>2, <1>4, <1>6, <1>7, <1>9, <1>10, RoundKeeps


(***************************************************************************)
(* perform_idle_server_maintenance.                                        *)
(***************************************************************************)

LEMMA CountTypes ==
    ASSUME NEW i \in Slots, NEW low, NEW high
    PROVE  Count(i, low, high) \in Nat
  <1>1. IsFiniteSet(Threads)
    BY LimitAssumption, FS_Interval DEF Threads
  <1>2. IsFiniteSet({j \in Threads : status[i][j] \in low .. high})
    BY <1>1, FS_Subset
  <1> QED
    BY <1>2, FS_CardinalityType DEF Count

(* A slot is added to the free list only behind the scan: it is not in the *)
(* list yet, and it is vacant.                                             *)
LEMMA ScanSlotKeeps ==
    ASSUME IInv, ScanSlot
    PROVE  IInv'
  <1>1. TypeOK /\ ppc = "scan" /\ ScanSound
    BY DEF IInv, ScanSlot
  <1>2. PICK x \in Slots : x = idx
    BY DEF ScanSlot
  <1>3. /\ x \in Nat /\ x < ServerLimit /\ ServerLimit \in Nat
        /\ free \in Seq(Slots) /\ totallyFree \in Nat /\ Len(free) \in Nat
        /\ totallyFree <= Len(free) /\ totallyFree <= x /\ IsInjective(free)
        /\ idle \in Nat /\ active \in Nat /\ lastNonDead \in -1 .. ServerLimit - 1
    BY <1>1, <1>2, LimitAssumption, LenProperties DEF TypeOK, ScanTypes, ScanSound, Slots
  <1>4. PICK allDead \in BOOLEAN :
           /\ free' = IF Spawnable(x) THEN InsertFree(x, allDead) ELSE free
           /\ totallyFree' = totallyFree + (IF Spawnable(x) /\ allDead THEN 1 ELSE 0)
    <2>1. PICK b \in BOOLEAN : b = \A j \in Threads : status[idx][j] \in {SERVER_DEAD, SERVER_GRACEFUL}
      OBVIOUS
    <2> QED
      BY <1>2, <2>1 DEF ScanSlot
  <1>5. /\ idx' = x + 1 /\ (lastNonDead' = lastNonDead \/ lastNonDead' = x)
        /\ UNCHANGED <<boardVars, procVars, childVars, pod, ppc, forkVars, rateVars,
                       signalVars, nextAction>>
    BY <1>2 DEF ScanSlot
  <1>6. idle' \in Nat /\ active' \in Nat
    <2>1. /\ Count(x, SERVER_DEAD, SERVER_READY) \in Nat
          /\ Count(x, SERVER_READY, SERVER_GRACEFUL - 1) \in Nat
      BY CountTypes
    <2>2. /\ idle' = idle \/ idle' = idle + 0 \/ idle' = idle + Count(x, SERVER_DEAD, SERVER_READY)
          /\ \/ active' = active \/ active' = active + 0
             \/ active' = active + Count(x, SERVER_READY, SERVER_GRACEFUL - 1)
      BY <1>2 DEF ScanSlot
    <2> QED
      BY <1>3, <2>1, <2>2
  <1>7. \A k \in 1 .. Len(free) : free[k] \in Slots /\ free[k] \in Nat /\ free[k] < x /\ Vacant(free[k])
    <2>1. \A k \in 1 .. Len(free) : free[k] \in Slots
      BY <1>3, LenProperties
    <2>2. \A i \in Slots : i \in Nat
      BY LimitAssumption DEF Slots
    <2> QED
      BY <1>1, <1>2, <2>1, <2>2 DEF ScanSound
  <1>8. /\ free' \in Seq(Slots) /\ IsInjective(free')
        /\ \A k \in 1 .. Len(free') : free'[k] \in Nat /\ free'[k] <= x /\ Vacant(free'[k])
        /\ Len(free') = Len(free) + (IF Spawnable(x) THEN 1 ELSE 0)
    <2>1. CASE ~Spawnable(x)
      <3>1. free' = free
        BY <1>4, <2>1
      <3>2. Len(free') = Len(free) + 0
        BY <1>3, <3>1
      <3>3. \A k \in 1 .. Len(free) : free[k] <= x
        BY <1>3, <1>7
      <3> QED
        BY <1>3, <1>7, <2>1, <3>1, <3>2, <3>3
    <2>2. CASE Spawnable(x)
      <3>1. Vacant(x)
        BY <2>2 DEF Spawnable, Vacant
      <3>2. \A k \in 1 .. Len(free) : free[k] # x
        BY <1>3, <1>7
      <3>3. /\ InsertFree(x, allDead) \in Seq(Slots)
            /\ Len(InsertFree(x, allDead)) = Len(free) + 1
            /\ IsInjective(InsertFree(x, allDead))
            /\ \A k \in 1 .. Len(free) + 1 :
                 \/ InsertFree(x, allDead)[k] = x
                 \/ \E m \in 1 .. Len(free) : InsertFree(x, allDead)[k] = free[m]
        BY <1>3, <3>2, InsertKeeps
      <3>4. free' = InsertFree(x, allDead)
        BY <1>4, <2>2
      <3>5. PICK g : g = InsertFree(x, allDead)
        OBVIOUS
      <3>6. \A k \in 1 .. Len(free) + 1 : g[k] = x \/ \E m \in 1 .. Len(free) : g[k] = free[m]
        BY <3>3, <3>5
      <3>7. \A m \in 1 .. Len(free) : free[m] <= x
        BY <1>3, <1>7
      <3>8. ASSUME NEW k \in 1 .. Len(free) + 1
            PROVE  g[k] \in Nat /\ g[k] <= x /\ Vacant(g[k])
        <4>1. CASE g[k] = x
          <5>1. x \in Nat /\ x <= x
            BY <1>3
          <5> QED
            BY <3>1, <4>1, <5>1
        <4>2. CASE g[k] # x
          <5>1. PICK m \in 1 .. Len(free) : g[k] = free[m]
            BY <3>6, <4>2
          <5>2. free[m] \in Nat /\ free[m] <= x /\ Vacant(free[m])
            BY <1>7, <3>7
          <5> QED
            BY <5>1, <5>2
        <4> QED
          BY <4>1, <4>2
      <3> QED
        BY <2>2, <3>3, <3>4, <3>5, <3>8
    <2> QED
      BY <2>1, <2>2
  <1>9. /\ totallyFree' \in Nat /\ totallyFree' <= x + 1
        /\ totallyFree' <= Len(free) + (IF Spawnable(x) THEN 1 ELSE 0)
    <2>1. \/ totallyFree' = totallyFree + 0
          \/ totallyFree' = totallyFree + 1 /\ Spawnable(x)
      BY <1>4
    <2> QED
      BY <1>3, <2>1
  <1>10. TypeOK'
    <2>1. BoardTypes' /\ ProcTypes' /\ ChildTypes'
      BY <1>1, <1>5 DEF TypeOK, BoardTypes, ProcTypes, ChildTypes, boardVars, procVars, childVars
    <2>2. ParentTypes'
      BY <1>1, <1>5 DEF TypeOK, ParentTypes, forkVars, rateVars, signalVars
    <2>3. /\ idx' \in 0 .. ServerLimit /\ totallyFree' \in 0 .. ServerLimit
          /\ lastNonDead' \in -1 .. ServerLimit - 1
      BY <1>3, <1>5, <1>9
    <2> QED
      BY <1>6, <1>8, <2>1, <2>2, <2>3 DEF TypeOK, ScanTypes
  <1>11. /\ todo' = todo /\ born' = born /\ ppc' = "scan" /\ slot' = slot /\ pstate' = pstate
         /\ parentPid' = parentPid /\ quiescing' = quiescing /\ listener' = listener
         /\ nextAction' = nextAction
    BY <1>1, <1>5 DEF boardVars, procVars, childVars, forkVars
  <1>12. ParentPhases'
    BY <1>1, <1>11 DEF IInv, ParentPhases
  <1>13. ScanSound'
    <2>1. totallyFree' <= Len(free') /\ totallyFree' <= idx'
      BY <1>5, <1>8, <1>9
    <2>2. \A k \in 1 .. Len(free') : free'[k] < idx'
      BY <1>3, <1>5, <1>8
    <2>3. \A k \in 1 .. Len(free') : parentPid'[free'[k]] = None \/ quiescing'[free'[k]]
      BY <1>8, <1>11 DEF Vacant
    <2> QED
      BY <1>8, <2>1, <2>2, <2>3 DEF ScanSound, Vacant
  <1>14. TodoSound' /\ Quiescent' /\ NoLostChild'
    BY <1>11 DEF IInv, TodoSound, Vacant, Quiescent, NoLostChild, Accepting, Alive
  <1>15. Killed'
    BY <1>11 DEF Killed
  <1> QED
    BY <1>10, <1>12, <1>13, <1>14, <1>15 DEF IInv

LEMMA MaintainKeeps ==
    ASSUME IInv, Maintain
    PROVE  IInv'
  <1>1. TypeOK /\ ppc = "scan" /\ ScanSound /\ todo = <<>> /\ born = None /\ nextAction = 1
    BY DEF IInv, Maintain, ParentPhases
  <1>2. /\ idx' = 0 /\ idle' = 0 /\ active' = 0 /\ lastNonDead' = -1 /\ free' = <<>>
        /\ totallyFree' = 0
        /\ UNCHANGED <<boardVars, procVars, childVars, born, restartPending, isGraceful,
                       nextAction>>
    BY DEF Maintain
  <1>3. /\ free \in Seq(Slots) /\ Len(free) \in Nat /\ IsInjective(free)
        /\ \A k \in 1 .. Len(free) : Vacant(free[k])
        /\ spawnRate \in 1 .. 2 * MaxSpawnRate /\ lastNonDead \in -1 .. ServerLimit - 1
        /\ maxDaemonsLimit \in -1 .. ServerLimit /\ pod \in Seq({"graceful", "forced"})
    BY <1>1, LenProperties DEF TypeOK, ScanTypes, ScanSound, ParentTypes, ChildTypes
  <1>4. \/ todo' = todo /\ ppc' = "loop"
        \/ \E n \in Nat : n <= Len(free) /\ todo' = SubSeq(free, 1, n) /\ ppc' = "spawn"
    <2>1. PICK n : n = IF Len(free) > spawnRate THEN spawnRate ELSE Len(free)
      OBVIOUS
    <2>2. n \in Nat /\ n <= Len(free)
      BY <1>3, <2>1, RateAssumption
    <2>3. \/ todo' = todo /\ ppc' = "loop"
          \/ todo' = SubSeq(free, 1, n) /\ ppc' = "spawn"
      BY <2>1 DEF Maintain
    <2> QED
      BY <2>2, <2>3
  <1>5. /\ todo' \in Seq(Slots) /\ IsInjective(todo') /\ ppc' \in {"loop", "spawn"}
        /\ \A k \in 1 .. Len(todo') : Vacant(todo'[k])
        /\ todo' # <<>> => ppc' = "spawn"
    <2>1. CASE todo' = todo /\ ppc' = "loop"
      BY <1>1, <2>1, EmptyList
    <2>2. ASSUME NEW n \in Nat, n <= Len(free), todo' = SubSeq(free, 1, n), ppc' = "spawn"
          PROVE  /\ todo' \in Seq(Slots) /\ IsInjective(todo') /\ ppc' \in {"loop", "spawn"}
                 /\ \A k \in 1 .. Len(todo') : Vacant(todo'[k])
                 /\ todo' # <<>> => ppc' = "spawn"
      <3>1. PICK f : f = free
        OBVIOUS
      <3>2. /\ SubSeq(f, 1, n) \in Seq(Slots) /\ Len(SubSeq(f, 1, n)) = n
            /\ \A k \in 1 .. n : SubSeq(f, 1, n)[k] = f[k] /\ k \in 1 .. Len(f)
            /\ IsInjective(SubSeq(f, 1, n))
        BY <1>3, <2>2, <3>1, FrontKeeps
      <3> QED
        BY <1>3, <2>2, <3>1, <3>2
    <2> QED
      BY <1>4, <2>1, <2>2
  <1>6. TypeOK'
    <2>1. BoardTypes' /\ ProcTypes'
      BY <1>1, <1>2 DEF TypeOK, BoardTypes, ProcTypes, boardVars, procVars
    <2>2. ScanTypes'
      BY <1>2, EmptyList, LimitAssumption DEF ScanTypes
    <2>3. pod' \in Seq({"graceful", "forced"})
      <3>1. pod' = pod \/ pod' = Append(pod, "graceful")
        BY DEF Maintain, PodSignal
      <3> QED
        BY <1>3, <3>1, AppendProperties
    <2>4. ChildTypes'
      BY <1>1, <1>2, <2>3 DEF TypeOK, ChildTypes, childVars
    <2>5. maxDaemonsLimit' \in -1 .. ServerLimit /\ spawnRate' \in 1 .. 2 * MaxSpawnRate
      <3>1. /\ maxDaemonsLimit' = maxDaemonsLimit \/ maxDaemonsLimit' = lastNonDead + 1
            /\ spawnRate' = spawnRate \/ spawnRate' = 1
        BY DEF Maintain
      <3> QED
        BY <1>3, <3>1, LimitAssumption, RateAssumption
    <2>6. sick' \in BOOLEAN /\ shutdownPending' \in BOOLEAN /\ childFatal' \in BOOLEAN
      <3>1. sick \in BOOLEAN /\ shutdownPending \in BOOLEAN /\ childFatal \in BOOLEAN
        BY <1>1 DEF TypeOK, ParentTypes
      <3>2. \/ shutdownPending' = TRUE /\ childFatal' = TRUE /\ sick' = sick
            \/ sick' = FALSE /\ UNCHANGED <<shutdownPending, childFatal>>
        BY DEF Maintain
      <3> QED
        BY <3>1, <3>2, Zenon
    <2>7. ParentTypes'
      BY <1>1, <1>2, <1>5, <2>5, <2>6 DEF TypeOK, ParentTypes
    <2> QED
      BY <2>1, <2>2, <2>4, <2>7 DEF TypeOK
  <1>7. ParentPhases'
    BY <1>1, <1>2, <1>5 DEF ParentPhases
  <1>8. ScanSound'
    BY <1>2, EmptyList DEF ScanSound
  <1>9. /\ parentPid' = parentPid /\ quiescing' = quiescing /\ slot' = slot /\ pstate' = pstate
        /\ listener' = listener /\ born' = born
    BY <1>2 DEF boardVars, procVars, childVars
  <1>10. TodoSound'
    BY <1>5, <1>9 DEF TodoSound, Vacant
  <1>11. Quiescent' /\ NoLostChild'
    BY <1>9 DEF IInv, Quiescent, NoLostChild, Accepting, Alive
  <1>12. Killed'
    BY <1>5 DEF Killed
  <1> QED
    BY <1>6, <1>7, <1>8, <1>10, <1>11, <1>12 DEF IInv

(***************************************************************************)
(* The inductive invariant.                                                *)
(***************************************************************************)

LEMMA InitIInv == Init => IInv
  <1> SUFFICES ASSUME Init PROVE IInv
    OBVIOUS
  <1>1. PICK n \in Nat : /\ n <= ServerLimit
                         /\ n = IF StartServers > ServerLimit THEN ServerLimit ELSE StartServers
    BY LimitAssumption, SpareAssumption
  <1>2. FirstSlots = [i \in 1 .. n |-> i - 1]
    BY <1>1 DEF FirstSlots
  <1>3. \A i \in 1 .. n : i - 1 \in Slots
    BY <1>1, LimitAssumption DEF Slots
  <1>4. /\ todo \in Seq(Slots) /\ Len(todo) = n
        /\ \A k \in 1 .. n : todo[k] = k - 1 /\ todo[k] \in Slots
    <2>1. todo = [i \in 1 .. n |-> i - 1]
      BY <1>2 DEF Init
    <2>2. todo \in [1 .. n -> Slots]
      BY <1>3, <2>1
    <2>3. todo \in Seq(Slots) /\ Len(todo) = n
      BY <1>1, <2>2, IsASeq, LenProperties
    <2> QED
      BY <1>3, <2>1, <2>3
  <1>5. IsInjective(todo)
    <2>1. \A a, b \in 1 .. n : a - 1 = b - 1 => a = b
      OBVIOUS
    <2>2. \A a, b \in 1 .. n : todo[a] = todo[b] => a = b
      BY <1>4, <2>1
    <2>3. PICK t \in Seq(Slots) : t = todo
      BY <1>4
    <2> QED
      BY <1>4, <2>2, <2>3, InjectiveIs
  <1>6. BoardTypes /\ ProcTypes
    BY LimitAssumption DEF Init, BoardTypes, ProcTypes, Statuses, Slots
  <1>7. ChildTypes
    <2>1. CreatedBound \in Nat /\ pod \in Seq({"graceful", "forced"})
      BY LimitAssumption, EmptySeq DEF CreatedBound, Init
    <2> QED
      BY <2>1, LimitAssumption DEF Init, ChildTypes
  <1>8. ScanTypes
    BY LimitAssumption, EmptyList DEF Init, ScanTypes
  <1>9. ParentTypes
    <2>1. sick \in BOOLEAN /\ shutdownPending \in BOOLEAN /\ restartPending \in BOOLEAN
          /\ isGraceful \in BOOLEAN /\ childFatal \in BOOLEAN
      BY Zenon DEF Init
    <2>2. maxDaemonsLimit \in -1 .. ServerLimit /\ spawnRate \in 1 .. 2 * MaxSpawnRate
          /\ nextAction \in 1 .. 6
      BY LimitAssumption, RateAssumption DEF Init
    <2> QED
      BY <1>4, <2>1, <2>2 DEF Init, ParentTypes
  <1>10. ParentPhases /\ Killed
    BY DEF Init, ParentPhases, Killed
  <1>11. ScanSound
    BY EmptyList DEF Init, ScanSound
  <1>12. TodoSound
    BY <1>4, <1>5 DEF Init, TodoSound, Vacant
  <1>13. Quiescent /\ NoLostChild
    BY DEF Init, Quiescent, NoLostChild, Accepting, Alive
  <1> QED
    BY <1>6, <1>7, <1>8, <1>9, <1>10, <1>11, <1>12, <1>13 DEF IInv, TypeOK

LEMMA NextIInv == IInv /\ [Next]_vars => IInv'
  <1> SUFFICES ASSUME IInv, [Next]_vars PROVE IInv'
    OBVIOUS
  <1>1. CASE UNCHANGED vars
    <2>1. UNCHANGED <<boardVars, procVars, childVars, pod, parentVars>>
      BY <1>1 DEF vars
    <2>2. TypeOK'
      BY <2>1 DEF IInv, TypeOK, BoardTypes, ProcTypes, ChildTypes, ScanTypes, ParentTypes, boardVars,
                  procVars, childVars, parentVars, forkVars, scanVars, rateVars, signalVars
    <2> QED
      BY <2>1, <2>2, ParentFrame DEF parentVars, scanVars, rateVars
  <1>2. CASE ParentStep
    BY <1>2, ForkKeeps, ReapKeeps, ForkFailKeeps, RecordChildKeeps, QuietStepKeeps, ScanSlotKeeps,
       MaintainKeeps, StopKeeps, DrainKeeps, ReclaimKeeps DEF ParentStep
  <1>3. CASE ReclaimRound(FALSE)
    BY <1>3, ReclaimKeeps
  <1>4. CASE Returned
    BY <1>1, <1>4 DEF Returned
  <1>5. ASSUME NEW p \in Pids, ChildStep(p) \/ ChildDies(p) \/ DieOfSignal(p) PROVE IInv'
    BY <1>5, ChildKeeps
  <1>6. ASSUME NEW sig \in Signals, Signal(sig) PROVE IInv'
    BY <1>6, QuietStepKeeps
  <1> QED
    BY <1>1, <1>2, <1>3, <1>4, <1>5, <1>6 DEF Next

(* The inductive invariant holds in every reachable state of the server,   *)
(* whatever its children, signals and failures do.                         *)
THEOREM ParentInvariant == Spec => []IInv
  BY InitIInv, NextIInv, PTL DEF Spec

(* Every variable keeps its type: the loops of perform_idle_server_        *)
(* maintenance and zevent_reclaim_child_processes stay within their        *)
(* tables and the spawn rate within twice its maximum.                     *)
THEOREM ParentTypesKept == Spec => []TypeOK
  <1>1. IInv => TypeOK
    BY DEF IInv
  <1> QED
    BY <1>1, ParentInvariant, PTL

(* A child that has not announced its end in the scoreboard is recorded    *)
(* there or is the one make_child is recording.                            *)
THEOREM ParentNoLostChild == Spec => []NoLostChild
  <1>1. IInv => NoLostChild
    BY DEF IInv
  <1> QED
    BY <1>1, ParentInvariant, PTL

(* No two children of one slot accept connections at the same time: a slot *)
(* is handed on only after its child has quiesced or ended.                *)
THEOREM ParentOneListener == Spec => []OneListenerPerSlot
  <1>1. ASSUME IInv PROVE OneListenerPerSlot
    <2>1. ASSUME NEW q \in Pids, Accepting(q), q # born, born # None, slot[q] = slot[born]
          PROVE  FALSE
      <3>1. todo # <<>> /\ slot[q] = Head(todo) /\ todo \in Seq(Slots)
        BY <1>1, <2>1 DEF IInv, ParentPhases, TypeOK, ParentTypes
      <3>2. Head(todo) = todo[1] /\ 1 \in 1 .. Len(todo) /\ Head(todo) \in Slots
        BY <3>1, TailKeeps
      <3>3. Vacant(slot[q]) /\ slot[q] \in Slots
        BY <1>1, <3>1, <3>2 DEF IInv, TodoSound
      <3>4. parentPid[slot[q]] = q
        BY <1>1, <2>1 DEF IInv, NoLostChild
      <3>5. quiescing[slot[q]] /\ q # None
        BY <3>3, <3>4, PidAssumption DEF Vacant
      <3>6. listener[q] = "quiesced"
        BY <1>1, <2>1, <3>3, <3>4, <3>5 DEF IInv, Quiescent, Accepting
      <3> QED
        BY <2>1, <3>6 DEF Accepting
    <2>2. ASSUME NEW p \in Pids, NEW q \in Pids, Accepting(p), Accepting(q), slot[p] = slot[q]
          PROVE  p = q
      BY <1>1, <2>1, <2>2, PidAssumption DEF IInv, NoLostChild
    <2> QED
      BY <2>2 DEF OneListenerPerSlot
  <1> QED
    BY <1>1, ParentInvariant, PTL

(* What the maintenance found free is different slots that are still free  *)
(* when it forks, whatever the children did since the scan.                *)
THEOREM ParentFreeList == Spec => []FreeListSound
  <1>1. ASSUME IInv PROVE FreeListSound
    <2>1. free \in Seq(Slots) /\ DOMAIN free = 1 .. Len(free)
      BY <1>1, LenProperties DEF IInv, TypeOK, ScanTypes
    <2>2. PICK first \in {1, 2} : first = IF born = None THEN 1 ELSE 2
      OBVIOUS
    <2>3. PICK slots : slots = IF ppc = "scan" THEN free ELSE todo
      OBVIOUS
    <2>4. /\ IsInjective(slots)
          /\ \A k \in 1 .. Len(slots) : Vacant(slots[k])
      BY <1>1, <2>3 DEF IInv, ScanSound, TodoSound
    <2>5. \A k \in first .. Len(slots) : parentPid[slots[k]] = None \/ quiescing[slots[k]]
      <3>1. \A k \in first .. Len(slots) : k \in 1 .. Len(slots)
        <4>1. slots \in Seq(Slots)
          BY <1>1, <2>3 DEF IInv, TypeOK, ScanTypes, ParentTypes
        <4>2. Len(slots) \in Nat
          BY <4>1, LenProperties
        <4> QED
          BY <2>2, <4>2
      <3> QED
        BY <2>4, <3>1 DEF Vacant
    <2> QED
      BY <1>1, <2>1, <2>2, <2>3, <2>4, <2>5 DEF IInv, ScanSound, FreeListSound
  <1> QED
    BY <1>1, ParentInvariant, PTL

(* zevent_reclaim_child_processes returns only when each recorded child    *)
(* below zevent_max_daemons_limit has ended and was waited for, or was     *)
(* sent SIGKILL in an earlier round.                                       *)
THEOREM ParentNoStraggler == Spec => NoStragglerSpared
  <1>1. ASSUME IInv, [Next]_vars, ppc = "reclaim", ppc' = "returned", NEW i \in Used
        PROVE  \/ parentPid'[i] = None /\ pstate'[parentPid[i]] = "gone"
               \/ parentPid'[i] = parentPid[i] /\ sent[parentPid[i]] = "SIGKILL"
    <2>1. TypeOK /\ i \in Slots /\ parentPid[i] # None /\ parentPid[i] \in Pids
      BY <1>1 DEF IInv, Used, TypeOK, BoardTypes
    <2>2. PICK due \in BOOLEAN : ReclaimRound(due)
      <3>1. ppc' # ppc
        BY <1>1
      <3> QED
        BY <1>1, <3>1 DEF Next, ParentStep, Fork, Reap, ForkFail, RecordChild, StartupDone, Timeout,
             ScanSlot, Maintain, SpawnDone, Stop, Drain, Returned, Signal, ChildStep, ChildDies,
             DieOfSignal, ChildExit, Exit, ScanThread, ScanEnd, WorkerReady, WorkerExit, PodRead,
             ListenerTerm, ListenerDying, ListenerQuiesce, MainInterrupted, vars, parentVars
    <2>3. /\ \A j \in Done : parentPid'[j] = None /\ pstate'[parentPid[j]] = "gone"
          /\ \A j \in Slots \ Done : parentPid'[j] = parentPid[j]
      BY <1>1, <2>1, <2>2, RoundAction, RoundFacts DEF IInv, ParentPhases
    <2>4. CASE i \in Done
      BY <2>3, <2>4
    <2>5. CASE i \notin Done
      <3>1. nextAction = 5
        BY <1>1, <2>1, <2>2, <2>5, RoundAction DEF IInv, ParentPhases
      <3>2. Alive(parentPid[i])
        BY <1>1, <2>1, <2>5 DEF IInv, Quiescent, Done, Alive, TypeOK, ProcTypes
      <3> QED
        BY <1>1, <2>1, <2>3, <2>5, <3>1, <3>2 DEF IInv, Killed
    <2> QED
      BY <2>4, <2>5
  <1>2. IInv /\ [Next]_vars => [ppc = "reclaim" /\ ppc' = "returned" =>
          \A i \in Used : \/ parentPid'[i] = None /\ pstate'[parentPid[i]] = "gone"
                          \/ parentPid'[i] = parentPid[i] /\ sent[parentPid[i]] = "SIGKILL"]_vars
    BY <1>1
  <1> QED
    BY <1>2, ParentInvariant, PTL DEF Spec, NoStragglerSpared

=============================================================================
