---------------------------- MODULE TimerService ----------------------------
(***************************************************************************)
(* What CTimerQueue promises who calls RunAt, RunAfter and RunEvery, and   *)
(* nothing about how: no callback starts before its timer has expired by   *)
(* the wall clock, those that are found expired together run in the order  *)
(* of their expirations, a timer without an interval runs once, and one    *)
(* with an interval waits again from the time at which it was found        *)
(* expired.  The sorted set, the timerfd, the functors and the threads are *)
(* absent.                                                                 *)
(*                                                                         *)
(* Times are relative to now, as in TimerQueue, and those more than        *)
(* MaxLate in the past count as equal.                                     *)
(***************************************************************************)
EXTENDS Timestamp

CONSTANTS Timers, Delays, Seconds, MaxLate, Jumps

VARIABLES stage,      (* stage[t]: unused, waiting, expired, run or over *)
          due,        (* due[t]: the expiration of t minus now *)
          interval,   (* interval[t]: 0 or less for a timer that runs once *)
          since,      (* when the expired timers were found, minus now *)
          open        (* timers may be added *)

vars == <<stage, due, interval, since, open>>

Init ==
    /\ stage = [t \in Timers |-> "unused"]
    /\ due = [t \in Timers |-> 0]
    /\ interval = [t \in Timers |-> 0]
    /\ since = 0
    /\ open = TRUE

Late(d) == AtLeast(-MaxLate, d)

Add(t, d, i) ==
    /\ open
    /\ stage[t] = "unused"
    /\ stage' = [stage EXCEPT ![t] = "waiting"]
    /\ due' = [due EXCEPT ![t] = d]
    /\ interval' = [interval EXCEPT ![t] = i]
    /\ UNCHANGED <<since, open>>

Found == {t \in Timers : stage[t] \in {"expired", "run"}}

(* Some of the timers that have expired are found, all at one time. *)
Find(set) ==
    /\ Found = {}
    /\ \A t \in set : stage[t] = "waiting" /\ due[t] <= 0
    /\ stage' = [t \in Timers |-> IF t \in set THEN "expired" ELSE stage[t]]
    /\ UNCHANGED <<due, interval, since, open>>

Run(t) ==
    /\ stage[t] = "expired"
    /\ \A u \in Timers : stage[u] = "expired" => due[t] <= due[u]
    /\ stage' = [stage EXCEPT ![t] = "run"]
    /\ UNCHANGED <<due, interval, since, open>>

(* All have run: those with an interval wait again. *)
Settle ==
    /\ \A t \in Found : stage[t] = "run"
    /\ LET again == {t \in Found : interval[t] > 0} IN
       /\ stage' = [t \in Timers |-> IF t \in again THEN "waiting"
                                     ELSE IF t \in Found THEN "over" ELSE stage[t]]
       /\ due' = [t \in Timers |-> IF t \in again THEN Late(AddTime(since, interval[t]))
                                   ELSE due[t]]
    /\ since' = 0
    /\ UNCHANGED <<interval, open>>

(* The wall clock goes on or is set. *)
Clock(by) ==
    /\ due' = [t \in Timers |-> IF stage[t] = "waiting" THEN Late(due[t] - by) ELSE due[t]]
    /\ since' = IF Found = {} THEN 0 ELSE AtLeast(-2 * MaxLate, since - by)
    /\ UNCHANGED <<stage, interval, open>>

(* No timer that waits will run. *)
Close ==
    /\ Found = {}
    /\ stage' = [t \in Timers |-> IF stage[t] = "waiting" THEN "over" ELSE stage[t]]
    /\ open' = FALSE
    /\ UNCHANGED <<due, interval, since>>

Next ==
    \/ \E t \in Timers, d \in Delays : Add(t, d, 0)
    \/ \E t \in Timers, s \in Seconds :
          Add(t, AddTime(0, s), 0) \/ Add(t, AddTime(0, s), s)
    \/ \E set \in SUBSET Timers : Find(set)
    \/ \E t \in Timers : Run(t)
    \/ Settle
    \/ \E by \in Jumps \cup {1} : Clock(by)
    \/ Close

Spec == Init /\ [][Next]_vars
=============================================================================
