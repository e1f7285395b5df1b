----------------------------- MODULE SessionLog -----------------------------
(***************************************************************************)
(* What one division of the shared cache promises: the entries stored, in  *)
(* that order, less a prefix that was forgotten; the bytes of an entry are *)
(* what was stored for as long as it is remembered; a retrieve returns the *)
(* bytes of the first entry under its key that is neither removed nor      *)
(* expired, unless there is no memory for a copy; it misses only when      *)
(* there is no such entry.                                                 *)
(***************************************************************************)
EXTENDS Naturals, Sequences

CONSTANTS Keys, Payloads, Expiries, Miss, NoMemory

VARIABLES log, reply, now

vars == <<log, reply, now>>

Live(e, k) == e.key = k /\ ~e.removed /\ e.expires > now

(* The first n entries are forgotten. *)
Rest(n) == SubSeq(log, n + 1, Len(log))

Init == log = <<>> /\ reply = Miss /\ now = 0

Entries == [key : Keys, data : Payloads, expires : Expiries, removed : {FALSE}]

Store(e) ==
    /\ e \in Entries
    /\ \E n \in 0 .. Len(log) : log' = Append(Rest(n), e)
    /\ reply' = Miss
    /\ UNCHANGED now

(* A store that fails may have forgotten entries to make room. *)
Forget ==
    /\ \E n \in 0 .. Len(log) : log' = Rest(n)
    /\ reply' = Miss
    /\ UNCHANGED now

Retrieve(k) ==
    /\ \E n \in 0 .. Len(log) :
         /\ \A i \in 1 .. n : log[i].expires <= now
         /\ log' = Rest(n)
    /\ \/ \E i \in 1 .. Len(log) :
            /\ Live(log[i], k) /\ \A j \in 1 .. i - 1 : ~Live(log[j], k)
            /\ reply' \in {log[i].data, NoMemory}
       \/ /\ \A i \in 1 .. Len(log) : ~Live(log[i], k)
          /\ reply' = Miss
    /\ UNCHANGED now

(* The first entry under the key is flagged, if there is one. *)
Remove(k) ==
    /\ \E i \in 1 .. Len(log) :
         /\ log[i].key = k /\ \A j \in 1 .. i - 1 : log[j].key # k
         /\ log' = [log EXCEPT ![i].removed = TRUE]
    /\ reply' = Miss
    /\ UNCHANGED now

Tick == now' \in Nat /\ now' > now /\ reply' = Miss /\ UNCHANGED log

Next ==
    \/ Forget \/ Tick
    \/ log' # <<>> /\ Store(log'[Len(log')])
    \/ \E k \in Keys : Retrieve(k) \/ Remove(k)

Spec == Init /\ [][Next]_vars
=============================================================================
