---------------------------- MODULE TimerQueue ------------------------------
(***************************************************************************)
(* CTimerQueue (net/CTimerQueue.cpp) with CTimer: the set of timers sorted *)
(* by expiration, the one timerfd that is armed for the earliest of them,  *)
(* and the callbacks, which run in the loop thread and may add timers.     *)
(*                                                                         *)
(* Expirations are points of the wall clock (gettimeofday), the timerfd    *)
(* counts down on the monotonic one, and the wall clock may be set.  All   *)
(* times are kept relative to now, in whole units: Tick lets one pass,     *)
(* SetClock moves the wall clock alone.  Expirations more than MaxLate in  *)
(* the past count as equal, which only hides the order of their callbacks. *)
(* Expirations are after the epoch (IsValid).                              *)
(*                                                                         *)
(* The loop is EventLoop as its users see it: a poll, the callbacks of the *)
(* active channels, of which the timerfd's is one, and one batch of        *)
(* functors, among them the __AddTimerInLoop of other threads.             *)
(***************************************************************************)
EXTENDS Timestamp, Sequences, FiniteSets, SequencesExt

CONSTANTS Timers,      (* CTimer objects *)
          Delays,      (* what users pass to RunAt: expiration minus now *)
          Seconds,     (* what users pass as dfDelay and dfInterval *)
          MaxLate,     (* bound: older expirations count as equal *)
          Jumps,       (* by what the wall clock may be set *)
          MaxJumps     (* bound: how often it is set *)

ASSUME TimesAssumption ==
    /\ IsFiniteSet(Timers)
    /\ Delays \subseteq Int
    /\ Seconds \subseteq Int
    /\ MaxLate \in Nat
    /\ Jumps \subseteq Int
    /\ MaxJumps \in Nat
    /\ \A s \in Seconds : Trunc(s) <= MaxLate
    /\ \A by \in Jumps : -by * MaxJumps <= MaxLate

VARIABLES
    timers,     (* m_ssTimers: the timers in the set *)
    due,        (* due[t]: m_iExpiration minus now *)
    interval,   (* interval[t]: m_dfInterval *)
    fd,         (* microseconds until the timerfd expires; 0: not armed *)
    readable,   (* the timerfd has expired and not been read or set since *)
    pc,         (* where the loop thread is *)
    reported,   (* poll(2) reported the timerfd, not yet handled *)
    expired,    (* vExpired of __HandleRead *)
    todo,       (* the part of it whose callbacks have not run *)
    now,        (* iNow of __HandleRead minus now *)
    queued,     (* __AddTimerInLoop functors waiting for the loop *)
    batch,      (* those of them that the loop has swapped out *)
    made,       (* timers constructed so far *)
    runs,       (* runs[t]: callbacks of t, 2 for more than one (history) *)
    jumps       (* how often the wall clock was set *)

timerVars == <<timers, due, interval>>
fdVars == <<fd, readable>>
handling == <<expired, todo, now>>
vars == <<timerVars, fdVars, pc, reported, handling, queued, batch, made, runs, jumps>>

(* m_bRepeat. *)
Repeats(t) == interval[t] > 0

Saturated(d) == AtLeast(-MaxLate, d)

(* Times are relative to now. *)
GetNowTimestamp == 0

(* t may be begin() of a set of timers. *)
IsFirst(t, set, expires) ==
    t \in set /\ \A u \in set : expires[t] <= expires[u]

(* A new timerfd is not armed. *)
CreateTimerFd == fd = 0 /\ readable = FALSE

Init ==
    /\ timers = {}
    /\ due = [t \in Timers |-> 0]
    /\ interval = [t \in Timers |-> 0]
    /\ CreateTimerFd
    /\ pc = "stopped"
    /\ reported = FALSE
    /\ expired = <<>>
    /\ todo = <<>>
    /\ now = 0
    /\ queued = <<>>
    /\ batch = <<>>
    /\ made = {}
    /\ runs = [t \in Timers |-> 0]
    /\ jumps = 0
-----------------------------------------------------------------------------
(* ResetTimerFd: timerfd_settime forgets an expiration that was not read.  A
   time of zero would disarm it, which HowMuchTimeFromNow rules out. *)
ResetTimerFd(d) ==
    /\ fd' = Countdown(HowMuchTimeFromNow(d, GetNowTimestamp))
    /\ readable' = FALSE

(* Mutant: the timerfd is set when it is idle only. *)
AddTimerInLoopKeepsFd(t, d) ==
    /\ timers' = timers \cup {t}
    /\ IF timers = {} THEN ResetTimerFd(d) ELSE UNCHANGED fdVars

(* __AddTimerInLoop, with expiration d from now: t is put into the set, and
   the timerfd is set when it is the earliest. *)
AddTimerInLoop(t, d) ==
    /\ timers' = timers \cup {t}
    /\ IF \A u \in timers : d < due[u]
       THEN ResetTimerFd(d)
       ELSE UNCHANGED fdVars

(* The construction of a CTimer by RunAt, RunAfter or RunEvery. *)
NewTimer(t, d, i) ==
    /\ t \notin made
    /\ made' = made \cup {t}
    /\ due' = [due EXCEPT ![t] = d]
    /\ interval' = [interval EXCEPT ![t] = i]

(* AddTimer in the loop thread: before StartLoop, in the callback of another
   channel before or after the timerfd's, in that of a timer or a functor. *)
UserCode == {"stopped", "dispatch", "callback", "functors"}

AddTimerOwner(t, d, i) ==
    /\ pc \in UserCode
    /\ NewTimer(t, d, i)
    /\ AddTimerInLoop(t, d)
    /\ UNCHANGED <<pc, reported, handling, queued, batch, runs, jumps>>

(* AddTimer in another thread, which may use the loop while there is one. *)
AddTimerThread(t, d, i) ==
    /\ pc # "destroyed"
    /\ NewTimer(t, d, i)
    /\ queued' = Append(queued, t)
    /\ UNCHANGED <<timers, fdVars, pc, reported, handling, batch, runs, jumps>>

AddTimer(t, d, i) == AddTimerOwner(t, d, i) \/ AddTimerThread(t, d, i)

RunAt(t, d) == AddTimer(t, d, 0)

RunAfter(t, seconds) == RunAt(t, AddTime(GetNowTimestamp, seconds))

RunEvery(t, seconds) == AddTimer(t, AddTime(GetNowTimestamp, seconds), seconds)
-----------------------------------------------------------------------------
(* The loop. *)

StartLoop ==
    /\ pc = "stopped"
    /\ pc' = "poll"
    /\ UNCHANGED <<timerVars, fdVars, reported, handling, queued, batch, made, runs, jumps>>

(* poll(2) returns with or without the timerfd. *)
Poll ==
    /\ pc = "poll"
    /\ reported' = readable
    /\ pc' = "dispatch"
    /\ UNCHANGED <<timerVars, fdVars, handling, queued, batch, made, runs, jumps>>

(* A QuitLoop has been seen before the next poll; StartLoop may follow. *)
LeaveLoop ==
    /\ pc = "poll"
    /\ pc' = "stopped"
    /\ UNCHANGED <<timerVars, fdVars, reported, handling, queued, batch, made, runs, jumps>>

(* ~CTimerQueue, with the loop: the timers of the set are deleted, those of
   functors that have not run are not. *)
Destroy ==
    /\ pc = "stopped"
    /\ pc' = "destroyed"
    /\ timers' = {}
    /\ fd' = 0
    /\ readable' = FALSE
    /\ UNCHANGED <<due, interval, reported, handling, queued, batch, made, runs, jumps>>

(* Sorted as the set is: by expiration, those of equal expiration by their
   addresses, which can be in any order. *)
Sorted(set) ==
    {s \in SetToSeqs(set) : \A i, j \in DOMAIN s : i < j => due[s[i]] <= due[s[j]]}

(* The read fails when another callback of this poll has set the timerfd
   meanwhile, and there is nothing to read then either. *)
ReadTimerfd == readable' = FALSE

(* Mutant: the expired timers stay in the set. *)
GetExpiredKeeps ==
    /\ pc = "dispatch"
    /\ reported
    /\ reported' = FALSE
    /\ ReadTimerfd
    /\ now' = GetNowTimestamp
    /\ expired' \in Sorted({t \in timers : due[t] <= 0})
    /\ todo' = expired'
    /\ pc' = "expired"
    /\ UNCHANGED <<timers, due, interval, fd, queued, batch, made, runs, jumps>>

(* __HandleRead up to the callbacks; __GetExpired takes the timers that have
   expired now. *)
GetExpired ==
    /\ pc = "dispatch"
    /\ reported
    /\ reported' = FALSE
    /\ ReadTimerfd
    /\ now' = GetNowTimestamp
    /\ expired' \in Sorted({t \in timers : due[t] <= 0})
    /\ todo' = expired'
    /\ timers' = timers \ {t \in timers : due[t] <= 0}
    /\ pc' = "expired"
    /\ UNCHANGED <<due, interval, fd, queued, batch, made, runs, jumps>>

RunTimer ==
    /\ pc = "expired"
    /\ todo # <<>>
    /\ todo' = Tail(todo)
    /\ runs' = [runs EXCEPT ![Head(todo)] = IF @ < 2 THEN @ + 1 ELSE @]
    /\ pc' = "callback"
    /\ UNCHANGED <<timerVars, fdVars, reported, expired, now, queued, batch, made, jumps>>

CallbackReturns ==
    /\ pc = "callback"
    /\ pc' = "expired"
    /\ UNCHANGED <<timerVars, fdVars, reported, handling, queued, batch, made, runs, jumps>>

(* Mutant: an interval after the last expiration. *)
RestartedFromExpiration(t) == Saturated(AddTime(due[t], interval[t]))

(* Restart(iNow) of a repeating timer. *)
Restarted(t) == Saturated(AddTime(now, interval[t]))

(* Mutant: every expired timer is deleted. *)
ResetTimersDeletesAll ==
    /\ pc = "expired"
    /\ todo = <<>>
    /\ IF timers = {}
       THEN UNCHANGED fdVars
       ELSE \E t \in timers : IsFirst(t, timers, due) /\ ResetTimerFd(due[t])
    /\ expired' = <<>>
    /\ now' = 0
    /\ pc' = "dispatch"
    /\ UNCHANGED <<timerVars, reported, todo, queued, batch, made, runs, jumps>>

(* __ResetTimers: repeating timers go back into the set, one interval after
   iNow, the others are deleted, and the timerfd is set for the earliest. *)
ResetTimers ==
    /\ pc = "expired"
    /\ todo = <<>>
    /\ LET again == {t \in ToSet(expired) : Repeats(t)} IN
       /\ timers' = timers \cup again
       /\ due' = [t \in Timers |-> IF t \in again THEN Restarted(t) ELSE due[t]]
    /\ IF timers' = {}
       THEN UNCHANGED fdVars
       ELSE \E t \in timers' : IsFirst(t, timers', due') /\ ResetTimerFd(due'[t])
    /\ expired' = <<>>
    /\ now' = 0
    /\ pc' = "dispatch"
    /\ UNCHANGED <<interval, reported, todo, queued, batch, made, runs, jumps>>

BeginPendingFunctors ==
    /\ pc = "dispatch"
    /\ ~reported
    /\ batch' = queued
    /\ queued' = <<>>
    /\ pc' = "functors"
    /\ UNCHANGED <<timerVars, fdVars, reported, handling, made, runs, jumps>>

RunAddTimer ==
    /\ pc = "functors"
    /\ batch # <<>>
    /\ batch' = Tail(batch)
    /\ AddTimerInLoop(Head(batch), due[Head(batch)])
    /\ UNCHANGED <<due, interval, pc, reported, handling, queued, made, runs, jumps>>

EndPendingFunctors ==
    /\ pc = "functors"
    /\ batch = <<>>
    /\ pc' = "poll"
    /\ UNCHANGED <<timerVars, fdVars, reported, handling, queued, batch, made, runs, jumps>>
-----------------------------------------------------------------------------
(* The clocks. *)

(* Expirations that nobody looks at any more keep still. *)
Pending ==
    IF pc = "destroyed" THEN {} ELSE timers \cup ToSet(queued) \cup ToSet(batch)

WallClock(by) ==
    /\ due' = [t \in Timers |-> IF t \in Pending THEN Saturated(due[t] - by) ELSE due[t]]
    /\ now' = IF pc \in {"expired", "callback"} THEN AtLeast(-2 * MaxLate, now - by) ELSE now

Tick ==
    /\ WallClock(1)
    /\ fd' = IF fd > 0 THEN fd - 1 ELSE 0
    /\ readable' = (readable \/ fd = 1)
    /\ UNCHANGED <<timers, interval, pc, reported, expired, todo, queued, batch, made, runs, jumps>>

SetClock(by) ==
    /\ jumps < MaxJumps
    /\ jumps' = jumps + 1
    /\ WallClock(by)
    /\ UNCHANGED <<timers, interval, fdVars, pc, reported, expired, todo, queued, batch, made, runs>>
-----------------------------------------------------------------------------
LoopStep ==
    \/ Poll \/ GetExpired \/ RunTimer \/ CallbackReturns \/ ResetTimers
    \/ BeginPendingFunctors \/ RunAddTimer \/ EndPendingFunctors

UserStep ==
    \/ StartLoop \/ LeaveLoop \/ Destroy
    \/ \E t \in Timers, d \in Delays : RunAt(t, d)
    \/ \E t \in Timers, s \in Seconds : RunAfter(t, s) \/ RunEvery(t, s)

Next == LoopStep \/ UserStep \/ Tick \/ \E by \in Jumps : SetClock(by)

Spec == Init /\ [][Next]_vars

(* The loop goes on unless it is made to stop, callbacks return, and time
   passes. *)
Fairness == WF_vars(LoopStep) /\ WF_vars(Tick)

FairSpec == Spec /\ Fairness
=============================================================================
