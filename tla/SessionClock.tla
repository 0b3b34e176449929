------------------------------- MODULE SessionClock -----------------------------
(***************************************************************************)
(* The clock of a booth: sessions and calls are stamped with               *)
(* us_ticker_read() / 1000 and compared with it now and then               *)
(* (L3_FSMmain.cpp, L3_timer.cpp).  The ticker is a 32-bit counter of      *)
(* microseconds, so the reading starts again at 0 after 2^32 / 1000 =      *)
(* 4294967 ms (71 minutes), while differences are taken modulo 2^32.       *)
(*                                                                         *)
(* Who enters, leaves and is called is module Booth's; here they happen at *)
(* any moment.  The 500 ms in which the code blocks after it has ended a   *)
(* session are part of the time between two checks.                        *)
(***************************************************************************)
EXTENDS Integers, Sequences, SequencesExt

CONSTANTS
    SESSION_DURATION_MS,
    QUEUE_READY_TIMEOUT_MS,
    MAX_BOOTH_CAPACITY,
    WORD,           \* 2^32
    LAP,            \* readings before they start again at 0: 2^32 / 1000
    CHECK_GAP,      \* bound on the time between two checks of the main loop
    HORIZON,        \* bound on the time
    NoCall

ASSUME ClockAssumption ==
    /\ {SESSION_DURATION_MS, QUEUE_READY_TIMEOUT_MS, LAP, CHECK_GAP} \subseteq Nat \ {0}
    /\ {WORD, HORIZON, MAX_BOOTH_CAPACITY} \subseteq Nat
    /\ LAP + SESSION_DURATION_MS + QUEUE_READY_TIMEOUT_MS <= WORD
    /\ CHECK_GAP < LAP

(* Whatever waits for the checks is found before the reading has gone      *)
(* round: 120 s and 10 s against 71 minutes.                               *)
ASSUME WaitAssumption ==
    /\ SESSION_DURATION_MS + CHECK_GAP * MAX_BOOTH_CAPACITY <= LAP
    /\ QUEUE_READY_TIMEOUT_MS + CHECK_GAP <= LAP

VARIABLES
    now,        \* the true time, in ms
    unchecked,  \* the time since the last check
    active,     \* activeList: the stamp of each session, and its true begin
    call,       \* the stamp of the call of a queue user, and its true begin
    ended       \* the sessions and the call the latest check has ended

vars == <<now, unchecked, active, call, ended>>

-----------------------------------------------------------------------------

Reading(t) == t % LAP

Elapsed(stamp) == (Reading(now) - stamp) % WORD

Stamp == [stamp |-> Reading(now), begin |-> now]

(* Wrong: a period is over only when it has been passed.                   *)
OverLate(timed, limit) == Elapsed(timed.stamp) > limit

Over(timed, limit) == Elapsed(timed.stamp) >= limit

(* Wrong: the users move up, their stamps do not.                          *)
WithoutUserOnly(i) ==
    [j \in 1 .. Len(active) - 1 |->
        [stamp |-> active[j].stamp, begin |-> active[IF j < i THEN j ELSE j + 1].begin]]

(* L3_removeUserFromList *)
Without(i) == RemoveAt(active, i)

(* The first session in the list that is over: a check ends no second one. *)
Overdue == {i \in DOMAIN active : Over(active[i], SESSION_DURATION_MS)}

Init ==
    /\ now = 0
    /\ unchecked = 0
    /\ active = <<>>
    /\ call = NoCall
    /\ ended = {}

Tick ==
    /\ now < HORIZON
    /\ unchecked < CHECK_GAP
    /\ now' = now + 1
    /\ unchecked' = unchecked + 1
    /\ UNCHANGED <<active, call, ended>>

(* startSessionTimer *)
Enter ==
    /\ Len(active) < MAX_BOOTH_CAPACITY
    /\ active' = Append(active, Stamp)
    /\ UNCHANGED <<now, unchecked, call, ended>>

Leave(i) ==
    /\ active' = Without(i)
    /\ UNCHANGED <<now, unchecked, call, ended>>

(* L3_timer_queueReadyStart *)
Call ==
    /\ call = NoCall
    /\ call' = Stamp
    /\ UNCHANGED <<now, unchecked, active, ended>>

(* L3_timer_queueReadyStop *)
Answer ==
    /\ call # NoCall
    /\ call' = NoCall
    /\ UNCHANGED <<now, unchecked, active, ended>>

EndOf(timed, limit) == [begin |-> timed.begin, early |-> now - timed.begin < limit]

(* checkSessionTimer, then checkQueueReadyTimeout                          *)
Check ==
    /\ unchecked' = 0
    /\ LET first == Min(Overdue)
           missed == call # NoCall /\ Over(call, QUEUE_READY_TIMEOUT_MS)
       IN  /\ active' = IF Overdue = {} THEN active ELSE Without(first)
           /\ call' = IF missed THEN NoCall ELSE call
           /\ ended' =
                (IF Overdue = {} THEN {} ELSE {EndOf(active[first], SESSION_DURATION_MS)})
                \cup (IF missed THEN {EndOf(call, QUEUE_READY_TIMEOUT_MS)} ELSE {})
    /\ UNCHANGED now

Next == Tick \/ Enter \/ Call \/ Answer \/ Check \/ \E i \in DOMAIN active : Leave(i)

Spec == Init /\ [][Next]_vars

-----------------------------------------------------------------------------

(* A session outlasts its duration by at most one check for each place of  *)
(* the booth, since a check ends only the first that is over; a call by    *)
(* at most one.                                                            *)
NotLate ==
    /\ \A i \in DOMAIN active :
         now - active[i].begin < SESSION_DURATION_MS + CHECK_GAP * MAX_BOOTH_CAPACITY
    /\ call # NoCall => now - call.begin < QUEUE_READY_TIMEOUT_MS + CHECK_GAP

(* Nothing is ended early in whose time the reading has not started again. *)
NotEarlyInLap ==
    \A e \in ended : e.early => \E t \in e.begin .. now - 1 : Reading(t + 1) = 0

(* "A session of 120 seconds" (README.md): nothing is ended early.         *)
NotEarly == \A e \in ended : ~e.early
=============================================================================
