---------------------------- MODULE EventJournal ----------------------------
(***************************************************************************)
(* What EventSink promises the executor (event_sink.hpp): an event is in   *)
(* the durable journal before its sequence number is committed; numbers    *)
(* are handed out one after the other, without gap and without reuse; the  *)
(* journal holds at most Limit events; an event once accepted by the cloud *)
(* stays accepted.  The journal is never shortened.                        *)
(***************************************************************************)
EXTENDS Naturals

CONSTANT Limit

VARIABLES
    log,    \* the event behind each committed sequence number 1, 2, ...
    taken   \* the sequence numbers the cloud accepted

JournalVars == <<log, taken>>

JournalInit == log = [s \in {} |-> 0] /\ taken = {}

(* emit() returns true: a new event gets the next sequence number, and    *)
(* nothing before it changes.                                              *)
Commit(n) ==
    /\ n <= Limit
    /\ DOMAIN log = 1..(n - 1)
    /\ log' \in [1..n -> Nat]
    /\ \A s \in DOMAIN log : log'[s] = log[s] /\ log'[n] # log[s]
    /\ UNCHANGED taken

(* The cloud accepts the event of number s.                                *)
Take(s) ==
    /\ s \in DOMAIN log
    /\ taken' = taken \cup {s}
    /\ UNCHANGED log

JournalNext ==
    \/ \E n \in 1..Limit : Commit(n)
    \/ \E s \in DOMAIN log : Take(s)

JournalSpec == JournalInit /\ [][JournalNext]_JournalVars
=============================================================================
