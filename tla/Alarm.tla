------------------------------- MODULE Alarm -------------------------------
(***************************************************************************)
(* The alarms of src/src/zevent_alarm.c: a list of callbacks with the time *)
(* of their next call, served from the handler of SIGALRM by the one       *)
(* interval timer of the process.  The list has no lock.  The handler may  *)
(* interrupt the program anywhere in a call of the library (contexts       *)
(* "main" and "handler" below), and a callback, which runs in the handler, *)
(* may itself register and unregister alarms.                              *)
(*                                                                         *)
(* Time is counted in the clock's units; the carry between tv_usec and     *)
(* tv_sec is that of integers.  A read or write of freed or NULL memory    *)
(* ends the behaviour with broken = TRUE.                                  *)
(***************************************************************************)
EXTENDS Integers, Sequences, SequencesExt

CONSTANTS
    Delays,        \* the intervals a client asks for
    MaxReg,        \* bound: registrations in a behaviour
    MaxTime        \* bound: the last reading of the clock

ASSUME DelaysAssumption == Delays \subseteq Nat
ASSUME BoundsAssumption == MaxReg \in Nat /\ MaxTime \in Nat \ {0}

VARIABLES
    now,           \* the clock, gettimeofday
    thealarms,     \* the list: records of Entries
    regnum,        \* the next registration number
    start_alarms,
    timer,         \* ITIMER_REAL: when it expires, Off or Disarmed
    pending,       \* SIGALRM is pending
    call,          \* call[c]: the library call context c is in
    hpc,           \* where alarm_handler is, "none" when it does not run
    cur,           \* clientreg in run_alarms
    t_now,         \* t_now in run_alarms
    broken

vars == <<now, thealarms, regnum, start_alarms, timer, pending, call, hpc, cur,
          t_now, broken>>

Off == 0                   \* never started, or expired
Disarmed == -1             \* setitimer was called with a zero it_value
Contexts == {"main", "handler"}
Entries == [id : 0..MaxReg, t : Nat, repeat : BOOLEAN, last : Nat, next : Nat]
Blank == [id |-> 0, t |-> 0, repeat |-> FALSE, last |-> 0, next |-> 0]
Idle == [pc |-> "idle", prev |-> 0, id |-> 0, new |-> Blank]

Init ==
    /\ now = 1 /\ thealarms = <<>> /\ regnum = 1 /\ start_alarms = FALSE
    /\ timer = Off /\ pending = FALSE /\ call = [c \in Contexts |-> Idle]
    /\ hpc = "none" /\ cur = 0 /\ t_now = 0 /\ broken = FALSE

-----------------------------------------------------------------------------
(* The list. *)

Ids == {thealarms[i].id : i \in DOMAIN thealarms}
Where(id) == CHOOSE i \in DOMAIN thealarms :
                /\ thealarms[i].id = id
                /\ \A j \in 1..(i - 1) : thealarms[j].id # id

sa_find_next == CHOOSE i \in DOMAIN thealarms :
    \A j \in DOMAIN thealarms :
        \/ thealarms[i].next < thealarms[j].next
        \/ thealarms[i].next = thealarms[j].next /\ i <= j

\* The list without the entry a call of zevent_alarm_unregister finds.
Unregistered(id) == IF id \in Ids THEN RemoveAt(thealarms, Where(id)) ELSE thealarms

\* Mutant: a repeated alarm is due again as soon as it was called.
sa_update_entryAtOnce(i, a) ==
    CASE a.last = 0 ->
             [thealarms EXCEPT ![i] = [a EXCEPT !.last = now, !.next = now + a.t]]
      [] a.last # 0 /\ a.next = 0 /\ a.repeat /\ a.t # 0 ->
             [thealarms EXCEPT ![i] = [a EXCEPT !.next = a.last]]
      [] a.last # 0 /\ a.next = 0 /\ ~(a.repeat /\ a.t # 0) -> Unregistered(a.id)
      [] OTHER -> thealarms

\* sa_update_entry: the new list, entry i brought up to date.  An entry that was
\* never called is due t from now; one just called is due t after that call, or
\* removed when it is not to be repeated or has no interval.
sa_update_entry(i, a) ==
    CASE a.last = 0 ->
             [thealarms EXCEPT ![i] = [a EXCEPT !.last = now, !.next = now + a.t]]
      [] a.last # 0 /\ a.next = 0 /\ a.repeat /\ a.t # 0 ->
             [thealarms EXCEPT ![i] = [a EXCEPT !.next = a.last + a.t]]
      [] a.last # 0 /\ a.next = 0 /\ ~(a.repeat /\ a.t # 0) -> Unregistered(a.id)
      [] OTHER -> thealarms

\* Mutant: no test for a time that has already passed.
deltaSigned == thealarms[sa_find_next].next - now

\* get_next_alarm_delay_time for a list that is not empty.
delta ==
    LET next == thealarms[sa_find_next].next
    IN  IF now > next THEN 1 ELSE next - now

\* set_an_alarm: a zero it_value does not start the timer, it stops it.
set_an_alarm ==
    timer' = IF thealarms = <<>> THEN timer
             ELSE IF delta = 0 THEN Disarmed ELSE now + delta

-----------------------------------------------------------------------------
(* The calls of the library, from the program or from a callback. *)

Running(c) == ~broken /\ hpc = (IF c = "main" THEN "none" ELSE "callback")
At(c, p) == Running(c) /\ call[c].pc = p
Goto(c, p) == call' = [call EXCEPT ![c].pc = p]
Break == broken' = TRUE /\ UNCHANGED <<now, thealarms, regnum, start_alarms,
                                       timer, pending, call, hpc, cur, t_now>>

\* The pointer prev->next (or &thealarms, for prev = 0) may still be read, and
\* it is the entry at Slot(prev).
Slot(prev) == IF prev = 0 THEN 1 ELSE Where(prev) + 1
SlotHeld(prev) == (prev = 0 \/ prev \in Ids) /\ Slot(prev) \in DOMAIN thealarms

\* zevent_alarm_register and zevent_alarm_register_hr: the zeroed entry becomes
\* part of the list before its members are stored.
RegisterLink(c, when, repeat, hr) ==
    /\ At(c, "idle") /\ regnum <= MaxReg
    /\ thealarms' = Append(thealarms, Blank)
    /\ call' = [call EXCEPT ![c] =
           [pc |-> "fill", id |-> 0,
            prev |-> IF thealarms = <<>> THEN 0 ELSE Last(thealarms).id,
            new |-> [Blank EXCEPT !.t = IF when = 0 /\ ~hr THEN 1 ELSE when,
                                  !.repeat = repeat]]]
    /\ UNCHANGED <<now, regnum, start_alarms, timer, pending, hpc, cur, t_now, broken>>

RegisterFill(c) ==
    /\ At(c, "fill") /\ SlotHeld(call[c].prev)
    /\ LET i == Slot(call[c].prev)
       IN  thealarms' = [thealarms EXCEPT ![i].t = call[c].new.t,
                             ![i].repeat = call[c].new.repeat, ![i].id = regnum]
    /\ regnum' = regnum + 1 /\ Goto(c, "update")
    /\ UNCHANGED <<now, start_alarms, timer, pending, hpc, cur, t_now, broken>>

RegisterUpdate(c) ==
    /\ At(c, "update") /\ SlotHeld(call[c].prev)
    /\ LET i == Slot(call[c].prev) IN thealarms' = sa_update_entry(i, thealarms[i])
    /\ Goto(c, "set")
    /\ UNCHANGED <<now, regnum, start_alarms, timer, pending, hpc, cur, t_now, broken>>

\* Mutant: a running timer is left alone, also by an earlier alarm.
RegisterSetIdle(c) ==
    /\ At(c, "set")
    /\ IF start_alarms /\ timer = Off THEN set_an_alarm ELSE UNCHANGED timer
    /\ Goto(c, "return")
    /\ UNCHANGED <<now, thealarms, regnum, start_alarms, pending, hpc, cur, t_now, broken>>

\* start_alarms is set: set_an_alarm.
RegisterSet(c) ==
    /\ At(c, "set")
    /\ IF start_alarms THEN set_an_alarm ELSE UNCHANGED timer
    /\ Goto(c, "return")
    /\ UNCHANGED <<now, thealarms, regnum, start_alarms, pending, hpc, cur, t_now, broken>>

\* The clientreg is read through the list once more, to be returned.
RegisterReturn(c) ==
    /\ At(c, "return") /\ SlotHeld(call[c].prev)
    /\ call' = [call EXCEPT ![c] = Idle]
    /\ UNCHANGED <<now, thealarms, regnum, start_alarms, timer, pending, hpc, cur,
                   t_now, broken>>

\* An alarm served meanwhile took the entry, or the one before it, away.
RegisterLost(c) ==
    /\ \E p \in {"fill", "update", "return"} : At(c, p)
    /\ ~SlotHeld(call[c].prev) /\ Break

\* zevent_alarm_unregister: the walk, then the removal.
UnregisterFind(c, id) ==
    /\ At(c, "idle") /\ id \in Ids
    /\ call' = [call EXCEPT ![c] =
           [pc |-> "unlink", id |-> id, new |-> Blank,
            prev |-> IF Where(id) = 1 THEN 0 ELSE thealarms[Where(id) - 1].id]]
    /\ UNCHANGED <<now, thealarms, regnum, start_alarms, timer, pending, hpc, cur,
                   t_now, broken>>

UnregisterUnlink(c) ==
    /\ At(c, "unlink")
    /\ IF /\ SlotHeld(call[c].prev)
          /\ thealarms[Slot(call[c].prev)].id = call[c].id
       THEN /\ thealarms' = Unregistered(call[c].id)
            /\ call' = [call EXCEPT ![c] = Idle]
            /\ UNCHANGED <<now, regnum, start_alarms, timer, pending, hpc, cur,
                           t_now, broken>>
       ELSE Break

\* zevent_alarm_unregister_all: the entries are freed, then the list is emptied.
UnregisterAll(c) ==
    /\ At(c, "idle") /\ thealarms # <<>>
    /\ Goto(c, "freed")
    /\ UNCHANGED <<now, thealarms, regnum, start_alarms, timer, pending, hpc, cur,
                   t_now, broken>>

UnregisterAllDone(c) ==
    /\ At(c, "freed")
    /\ thealarms' = <<>> /\ Goto(c, "idle")
    /\ UNCHANGED <<now, regnum, start_alarms, timer, pending, hpc, cur, t_now, broken>>

\* init_alarm_post_config, called by the program.
InitAlarm ==
    /\ At("main", "idle") /\ ~start_alarms
    /\ start_alarms' = TRUE /\ set_an_alarm
    /\ UNCHANGED <<now, thealarms, regnum, pending, call, hpc, cur, t_now, broken>>

-----------------------------------------------------------------------------
(* The signal and its handler. *)

Expire ==
    /\ ~broken /\ timer = now
    /\ timer' = Off /\ pending' = TRUE
    /\ UNCHANGED <<now, thealarms, regnum, start_alarms, call, hpc, cur, t_now, broken>>

Tick ==
    /\ ~broken /\ timer # now /\ now < MaxTime
    /\ now' = now + 1
    /\ UNCHANGED <<thealarms, regnum, start_alarms, timer, pending, call, hpc, cur,
                   t_now, broken>>

\* SIGALRM is blocked while its handler runs.
Deliver ==
    /\ ~broken /\ pending /\ hpc = "none"
    /\ pending' = FALSE /\ hpc' = "run"
    /\ UNCHANGED <<now, thealarms, regnum, start_alarms, timer, call, cur, t_now, broken>>

\* One round of the loop of run_alarms, up to the callback.  The list it reads may
\* be one the interrupted program has freed; the entry may have no callback yet.
RunAlarm ==
    /\ ~broken /\ hpc = "run"
    /\ IF call["main"].pc = "freed" THEN Break
       ELSE IF thealarms = <<>> \/ thealarms[sa_find_next].next >= now
       THEN /\ hpc' = "set"
            /\ UNCHANGED <<now, thealarms, regnum, start_alarms, timer, pending, call,
                           cur, t_now, broken>>
       ELSE IF thealarms[sa_find_next].id = 0 THEN Break
       ELSE /\ cur' = thealarms[sa_find_next].id /\ t_now' = now /\ hpc' = "callback"
            /\ UNCHANGED <<now, thealarms, regnum, start_alarms, timer, pending, call, broken>>

\* Mutant: the pointer from before the callback is used again.
CallbackReturnStale ==
    /\ At("handler", "idle")
    /\ IF cur \in Ids
       THEN /\ LET i == Where(cur)
               IN  thealarms' = sa_update_entry(i, [thealarms[i] EXCEPT !.last = t_now,
                                                                        !.next = 0])
            /\ hpc' = "run"
            /\ UNCHANGED <<now, regnum, start_alarms, timer, pending, call, cur, t_now,
                           broken>>
       ELSE Break

\* The callback has returned; the entry is looked up again and brought up to date.
CallbackReturn ==
    /\ At("handler", "idle")
    /\ thealarms' =
           IF cur \in Ids
           THEN LET i == Where(cur)
                IN  sa_update_entry(i, [thealarms[i] EXCEPT !.last = t_now, !.next = 0])
           ELSE thealarms
    /\ hpc' = "run"
    /\ UNCHANGED <<now, regnum, start_alarms, timer, pending, call, cur, t_now, broken>>

HandlerReturn ==
    /\ ~broken /\ hpc = "set"
    /\ set_an_alarm /\ hpc' = "none"
    /\ UNCHANGED <<now, thealarms, regnum, start_alarms, pending, call, cur, t_now, broken>>

-----------------------------------------------------------------------------
LibraryCall(c) ==
    \/ \E when \in Delays, repeat, hr \in BOOLEAN : RegisterLink(c, when, repeat, hr)
    \/ RegisterFill(c)
    \/ RegisterUpdate(c)
    \/ RegisterSet(c)
    \/ RegisterReturn(c)
    \/ RegisterLost(c)
    \/ \E id \in 1..MaxReg : UnregisterFind(c, id)
    \/ UnregisterUnlink(c)
    \/ UnregisterAll(c)
    \/ UnregisterAllDone(c)

Next ==
    \/ \E c \in Contexts : LibraryCall(c)
    \/ InitAlarm \/ Expire \/ Tick \/ Deliver
    \/ RunAlarm \/ CallbackReturn \/ HandlerReturn

Spec == Init /\ [][Next]_vars

-----------------------------------------------------------------------------
CallPcs == {"idle", "fill", "update", "set", "return", "unlink", "freed"}

\* Every variable has its type; the interval timer never has a time to expire at
\* that is already past (get_next_alarm_delay_time, zevent_alarm.c:219-262).
TypeOK ==
    /\ now \in 1..MaxTime /\ thealarms \in Seq(Entries) /\ regnum \in 1..(MaxReg + 1)
    /\ start_alarms \in BOOLEAN /\ pending \in BOOLEAN
    /\ timer \in {Off, Disarmed} \/ (timer \in Nat /\ timer >= now)
    /\ call \in [Contexts -> [pc : CallPcs, prev : 0..MaxReg, id : 0..MaxReg, new : Entries]]
    /\ hpc \in {"none", "run", "callback", "set"} /\ cur \in 0..MaxReg
    /\ t_now \in 0..MaxTime /\ broken \in BOOLEAN

Quiet == ~broken /\ start_alarms /\ hpc = "none" /\ call["main"].pc = "idle"

\* When neither the handler nor a call of the library is running, a started
\* program with alarms has its signal pending or its timer set, for no later
\* than the first alarm is due (or the next clock reading, when that is past):
\* set_an_alarm, zevent_alarm.c:265-289.  The one exception is the zero delay
\* of an alarm due at the very time set_an_alarm reads.
TimerCovers ==
    Quiet /\ thealarms # <<>> =>
        \/ pending
        \/ timer = Disarmed
        \/ /\ timer # Off
           /\ \/ timer <= thealarms[sa_find_next].next
              \/ timer <= now + 1

\* The comments of run_alarms and get_next_alarm_delay_time take an alarm that is
\* not past for one in the future (zevent_alarm.c:172-175, :240-242): then a
\* started program with alarms always has a timer running or its signal pending.
\* TLC refutes it on the instance of Alarm.cfg (README).
AlarmsScheduled ==
    Quiet /\ thealarms # <<>> => pending \/ timer \notin {Off, Disarmed}

\* A callback is called after its interval has passed since it was registered or
\* last called, unless the alarm interrupted the program in the middle of its
\* registration (run_alarms and sa_update_entry, zevent_alarm.c:27-75, :165-207).
CalledOnTime ==
    hpc = "callback" /\ cur \in Ids /\ call["main"].pc = "idle" =>
        t_now > thealarms[Where(cur)].last + thealarms[Where(cur)].t

\* Whatever callbacks register and unregister, their own alarm included, the
\* library uses no freed or unfinished entry, as long as the signal does not
\* interrupt the program inside a call (run_alarms looks the entry up again
\* after the callback, zevent_alarm.c:190-203).
CallbacksSafe == broken => call["main"].pc # "idle"

-----------------------------------------------------------------------------
(* The inductive invariant of the proofs. *)

\* An entry that was brought up to date; one whose members are stored and that
\* was not.
Settled(e) == e.id # 0 /\ e.last \in 1..now /\ e.next = e.last + e.t
Raw(e) == e.id # 0 /\ e.last = 0 /\ e.next = 0

\* The entry context c registers is the last of the list, after the one of prev.
AtEnd(c) ==
    LET n == Len(thealarms)
    IN  \/ call[c].prev = 0 /\ n = 1
        \/ call[c].prev # 0 /\ n > 1 /\ thealarms[n - 1].id = call[c].prev

\* The context that works on the list, as long as it gets anywhere.
Active == IF hpc = "callback" THEN "handler" ELSE "main"

\* Registration numbers are given once.
Numbered ==
    /\ \A i, j \in DOMAIN thealarms : thealarms[i].id = thealarms[j].id => i = j
    /\ \A i \in DOMAIN thealarms : thealarms[i].id < regnum
    /\ cur < regnum

\* Every entry is up to date but for the last, while it is being registered, and
\* the one whose registration the running alarm interrupted.
UpToDate ==
    \A i \in DOMAIN thealarms :
        \/ Settled(thealarms[i])
        \/ /\ i = Len(thealarms) /\ thealarms[i] = Blank
           /\ call[Active].pc = "fill" /\ AtEnd(Active)
        \/ /\ i = Len(thealarms) /\ Raw(thealarms[i])
           /\ call[Active].pc = "update" /\ AtEnd(Active)
        \/ /\ Raw(thealarms[i]) /\ thealarms[i].id = cur
           /\ hpc = "callback" /\ call["main"].pc = "update"

\* Where the calls stand: the handler does not get past an entry that is not
\* finished, and nothing interferes with a call a callback makes.
CallPhases ==
    /\ \A c \in Contexts : call[c].pc = "fill" => regnum <= MaxReg
    /\ call["main"].pc = "fill" =>
          /\ hpc # "callback" /\ AtEnd("main") /\ thealarms[Len(thealarms)] = Blank
    /\ hpc # "callback" => call["handler"].pc = "idle"
    /\ call["handler"].pc \in {"fill", "update", "set", "return"} => AtEnd("handler")
    /\ call["handler"].pc = "fill" => thealarms[Len(thealarms)] = Blank
    /\ call["handler"].pc = "unlink" =>
          \E i \in DOMAIN thealarms :
             /\ call["handler"].id # 0 /\ thealarms[i].id = call["handler"].id
             /\ \/ call["handler"].prev = 0 /\ i = 1
                \/ /\ call["handler"].prev # 0 /\ i > 1
                   /\ thealarms[i - 1].id = call["handler"].prev

\* What run_alarms knows of the entry it calls.
OnTime ==
    hpc = "callback" =>
        /\ t_now \in 1..now /\ cur # 0
        /\ call["main"].pc = "idle" =>
              \A i \in DOMAIN thealarms : thealarms[i].id = cur =>
                  thealarms[i].last # 0 /\ t_now > thealarms[i].last + thealarms[i].t

\* TimerCovers wherever the program may be interrupted after its last set_an_alarm.
Covered ==
    /\ ~broken /\ start_alarms /\ hpc = "none" /\ thealarms # <<>>
    /\ call["main"].pc \in {"idle", "return", "unlink", "freed"}
    => \/ pending
       \/ timer = Disarmed
       \/ /\ timer # Off
          /\ \/ \A i \in DOMAIN thealarms : timer <= thealarms[i].next
             \/ timer <= now + 1

IInv ==
    TypeOK /\ Numbered /\ UpToDate /\ CallPhases /\ OnTime /\ Covered /\ CallbacksSafe
=============================================================================
