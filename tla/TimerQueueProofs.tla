--------------------------- MODULE TimerQueueProofs -------------------------
(***************************************************************************)
(* Proofs, for any timers, times and settings of the wall clock, that the  *)
(* timespec of a timer is exact and never the zero that disarms a timerfd, *)
(* that the one timerfd always stands for the earliest timer, that no      *)
(* timer is lost, doubled or deleted too early, and that the timer queue   *)
(* is a timer service.                                                     *)
(***************************************************************************)
EXTENDS TimerQueueProps, FiniteSetTheorems, TLAPS

USE TimestampAssumption, TimesAssumption DEF TimestampAssumption, TimesAssumption

-----------------------------------------------------------------------------
LEMMA SplitExact ==
    ASSUME NEW us \in Nat
    PROVE  /\ Split(us).tv_sec \in Nat
           /\ Split(us).tv_nsec \in Nat
           /\ Split(us).tv_nsec < MicroSecondsPerSecond * 1000
           /\ Countdown(Split(us)) = us
<1> DEFINE U == MicroSecondsPerSecond
           q == us \div U
           r == us % U
<1>1. U \in Nat /\ U > 0
  OBVIOUS
<1>2. q \in Nat /\ r \in Nat /\ r < U /\ us = U * q + r
  BY <1>1, SMT
<1>3. (r * 1000) \div 1000 = r
  BY <1>2, SMT
<1>4. Split(us) = [tv_sec |-> q, tv_nsec |-> r * 1000]
  BY DEF Split
<1> HIDE DEF q, r
<1>5. Countdown(Split(us)) = q * U + r
  BY <1>3, <1>4 DEF Countdown
<1>6. q * U = U * q
  BY <1>1, <1>2, SMT
<1>7. r * 1000 < U * 1000 /\ r * 1000 \in Nat
  BY <1>1, <1>2, SMT
<1> QED
  BY <1>1, <1>2, <1>4, <1>5, <1>6, <1>7

(* The timespec that HowMuchTimeFromNow gives timerfd_settime is in range,
   stands for exactly the microseconds from now, 100 at the least, and is
   never zero, which would disarm the timerfd (CTimerQueue.cpp:39-50). *)
THEOREM TimespecExact ==
    ASSUME NEW when \in Int, NEW current \in Int
    PROVE  LET ts == HowMuchTimeFromNow(when, current)
           IN /\ ts.tv_sec \in Nat
              /\ ts.tv_nsec \in Nat /\ ts.tv_nsec < MicroSecondsPerSecond * 1000
              /\ Countdown(ts) = AtLeast(MinDelay, when - current)
              /\ Countdown(ts) > 0
<1> DEFINE us == AtLeast(MinDelay, when - current)
<1>1. us \in Nat /\ us > 0
  BY DEF AtLeast
<1> HIDE DEF us
<1>2. HowMuchTimeFromNow(when, current) = Split(us)
  BY DEF HowMuchTimeFromNow, us
<1>3. Countdown(Split(us)) = us
  BY <1>1, SplitExact
<1> QED
  BY <1>1, <1>2, <1>3, SplitExact DEF us

(* A repeating timer is restarted no earlier than now and less than a
   microsecond before its interval is over: what AddTime drops never makes it
   late (CTimestamp.h:69-79, CTimer.cpp:29-39). *)
THEOREM AddTimeDropsFraction ==
    ASSUME NEW timestamp \in Int, NEW seconds \in Nat
    PROVE  LET t == AddTime(timestamp, seconds)
           IN /\ t \in Int /\ t >= timestamp
              /\ TimeDifference(t, timestamp) <= seconds
              /\ seconds < TimeDifference(t, timestamp) + Fraction
<1> DEFINE q == seconds \div Fraction
           r == seconds % Fraction
<1>1. q \in Nat /\ r \in Nat /\ r < Fraction /\ seconds = Fraction * q + r
  BY SMT
<1>2. AddTime(timestamp, seconds) = timestamp + q
  BY DEF AddTime, Trunc
<1> HIDE DEF q, r
<1>3. (timestamp + q) - timestamp = q
  BY <1>1
<1>4. TimeDifference(timestamp + q, timestamp) = q * Fraction
  BY <1>3, Zenon DEF TimeDifference
<1>5. q * Fraction = Fraction * q /\ Fraction * q \in Int
  BY <1>1, SMT
<1> QED
  BY <1>1, <1>2, <1>4, <1>5
-----------------------------------------------------------------------------
LEMMA ResetsTimerFd ==
    ASSUME NEW d \in Int, ResetTimerFd(d)
    PROVE  fd' = AtLeast(MinDelay, d) /\ fd' \in Nat /\ fd' > 0 /\ readable' = FALSE
<1>1. d - 0 = d
  OBVIOUS
<1>2. Countdown(HowMuchTimeFromNow(d, 0)) = AtLeast(MinDelay, d)
  BY <1>1, TimespecExact, 0 \in Int
<1>3. AtLeast(MinDelay, d) \in Nat /\ AtLeast(MinDelay, d) > 0
  BY DEF AtLeast
<1> QED
  BY <1>2, <1>3 DEF ResetTimerFd, GetNowTimestamp

LEMMA ClockTypes ==
    ASSUME NEW d \in Int
    PROVE  Saturated(d) \in Int /\ d <= Saturated(d)
BY DEF Saturated, AtLeast

LEMMA TruncType ==
    ASSUME NEW x \in Int
    PROVE  Trunc(x) \in Int
<1>1. CASE x >= 0
  <2>1. x \div Fraction \in Int
    BY <1>1, SMT
  <2> QED
    BY <1>1, <2>1 DEF Trunc
<1>2. CASE ~(x >= 0)
  <2>1. (-x) \div Fraction \in Int
    BY <1>2, SMT
  <2> QED
    BY <1>2, <2>1 DEF Trunc
<1> QED
  BY <1>1, <1>2

LEMMA RestartedType ==
    ASSUME NEW t \in Timers, now \in Int, interval[t] \in Int
    PROVE  Restarted(t) \in Int
<1>1. AddTime(now, interval[t]) \in Int
  BY TruncType DEF AddTime
<1> QED
  BY <1>1, ClockTypes DEF Restarted

LEMMA SeqGrows ==
    ASSUME NEW S, NEW T, S \subseteq T, NEW s \in Seq(S)
    PROVE  s \in Seq(T)
OBVIOUS

LEMMA TailElements ==
    ASSUME NEW S, NEW s \in Seq(S), s # <<>>
    PROVE  Tail(s) \in Seq(S) /\ ToSet(Tail(s)) \subseteq ToSet(s)
<1>1. Tail(s) \in Seq(S) /\ Len(Tail(s)) = Len(s) - 1 /\ Len(s) \in Nat
  OBVIOUS
<1>2. ASSUME NEW i \in DOMAIN Tail(s)
      PROVE  i + 1 \in DOMAIN s /\ Tail(s)[i] = s[i + 1]
  BY <1>1
<1> QED
  BY <1>1, <1>2 DEF ToSet

LEMMA SortedType ==
    ASSUME NEW S \in SUBSET Timers, NEW s \in Sorted(S)
    PROVE  s \in Seq(S)
<1>1. IsFiniteSet(S) /\ Cardinality(S) \in Nat
  BY FS_Subset, FS_CardinalityType
<1>2. s \in [1..Cardinality(S) -> S]
  BY DEF Sorted, SetToSeqs
<1> QED
  BY <1>1, <1>2
-----------------------------------------------------------------------------
(* Timers in use have been made: no user is given one that is. *)
InUse ==
    /\ timers \subseteq made
    /\ expired \in Seq(made)
    /\ queued \in Seq(made)
    /\ batch \in Seq(made)

(* What poll(2) reported is handled before the next poll, and ~CTimerQueue
   leaves no timer in the set. *)
WhereInv ==
    /\ reported => pc = "dispatch"
    /\ pc = "destroyed" => timers = {}

IInv == TypeOK /\ InUse /\ WhereInv /\ ArmedForEarliest

LEMMA Clocks ==
    ASSUME NEW by \in Int, WallClock(by), TypeOK
    PROVE  due' \in [Timers -> Int] /\ now' \in Int
<1>1. \A t \in Timers : Saturated(due[t] - by) \in Int
  BY ClockTypes DEF TypeOK
<1>2. AtLeast(-2 * MaxLate, now - by) \in Int
  BY DEF AtLeast, TypeOK
<1> QED
  BY <1>1, <1>2 DEF WallClock, TypeOK

(* Type correctness: times are whole numbers of microseconds, and the
   sequences hold timers. *)
THEOREM TypeCorrect == Spec => []TypeOK
<1>1. Init => TypeOK
  <2> SUFFICES ASSUME Init
               PROVE  TypeOK
    OBVIOUS
  <2>1. <<>> \in Seq(Timers) /\ 0 \in 0..MaxJumps
    OBVIOUS
  <2>2. ToSet(todo) \subseteq ToSet(expired)
    BY DEF Init, CreateTimerFd
  <2>3. due \in [Timers -> Int] /\ interval \in [Timers -> Int] /\ runs \in [Timers -> 0..2]
    BY DEF Init, CreateTimerFd
  <2>4. readable \in BOOLEAN /\ reported \in BOOLEAN /\ pc \in Places
    BY DEF Init, CreateTimerFd, Places
  <2>5. timers = {} /\ fd = 0 /\ now = 0 /\ made = {} /\ jumps = 0
    BY DEF Init, CreateTimerFd
  <2>6. expired = <<>> /\ todo = <<>> /\ queued = <<>> /\ batch = <<>>
    BY DEF Init, CreateTimerFd
  <2> QED
    BY <2>1, <2>2, <2>3, <2>4, <2>5, <2>6 DEF TypeOK
<1>2. TypeOK /\ [Next]_vars => TypeOK'
  <2> SUFFICES ASSUME TypeOK, [Next]_vars
               PROVE  TypeOK'
    OBVIOUS
  <2> USE DEF vars, timerVars, fdVars, handling
  <2>1. ASSUME NEW t \in Timers, NEW d \in Int, AddTimerInLoop(t, d)
        PROVE  timers' \subseteq Timers /\ fd' \in Nat /\ readable' \in BOOLEAN
    <3>1. CASE ResetTimerFd(d)
      BY <2>1, <3>1, ResetsTimerFd DEF AddTimerInLoop, TypeOK
    <3>2. CASE UNCHANGED fdVars
      BY <2>1, <3>2 DEF AddTimerInLoop, TypeOK
    <3> QED
      BY <2>1, <3>1, <3>2 DEF AddTimerInLoop
  <2>2. ASSUME NEW t \in Timers, NEW d \in Int, NEW i \in Int, AddTimer(t, d, i)
        PROVE  TypeOK'
    <3>1. made' \subseteq Timers /\ due' \in [Timers -> Int] /\ interval' \in [Timers -> Int]
      BY <2>2 DEF AddTimer, AddTimerOwner, AddTimerThread, NewTimer, TypeOK
    <3>2. CASE AddTimerOwner(t, d, i)
      BY <3>1, <3>2, <2>1 DEF AddTimerOwner, TypeOK
    <3>3. CASE AddTimerThread(t, d, i)
      BY <3>1, <3>3 DEF AddTimerThread, TypeOK
    <3> QED
      BY <2>2, <3>2, <3>3 DEF AddTimer
  <2>3. CASE StartLoop \/ LeaveLoop \/ Destroy
    <3>1. CASE StartLoop
      BY <3>1 DEF StartLoop, TypeOK, Places
    <3>2. CASE LeaveLoop
      BY <3>2 DEF LeaveLoop, TypeOK, Places
    <3>3. CASE Destroy
      <4>1. timers' \subseteq Timers /\ fd' \in Nat /\ readable' \in BOOLEAN /\ pc' \in Places
        BY <3>3 DEF Destroy, Places
      <4> QED
        BY <3>3, <4>1 DEF Destroy, TypeOK
    <3> QED
      BY <2>3, <3>1, <3>2, <3>3
  <2>4. CASE Poll
    BY <2>4 DEF Poll, TypeOK, Places
  <2>5. CASE GetExpired
    <3>1. PICK S \in SUBSET Timers : expired' \in Sorted(S)
      BY <2>5 DEF GetExpired, ReadTimerfd, GetNowTimestamp, TypeOK
    <3>2. expired' \in Seq(Timers)
      BY <3>1, SortedType
    <3>3. timers' \subseteq Timers
      BY <2>5 DEF GetExpired, ReadTimerfd, GetNowTimestamp, TypeOK
    <3>5. readable' = FALSE /\ reported' = FALSE /\ now' = 0 /\ todo' = expired'
      BY <2>5 DEF GetExpired, ReadTimerfd, GetNowTimestamp
    <3>6. pc' \in Places
      BY <2>5 DEF GetExpired, ReadTimerfd, GetNowTimestamp, Places
    <3>4. UNCHANGED <<due, interval, fd, queued, batch, made, runs, jumps>>
      BY <2>5 DEF GetExpired, ReadTimerfd, GetNowTimestamp
    <3>7. todo' \in Seq(Timers) /\ ToSet(todo') \subseteq ToSet(expired')
      BY <3>2, <3>5
    <3>8. /\ due' \in [Timers -> Int]
          /\ interval' \in [Timers -> Int]
          /\ runs' \in [Timers -> 0..2]
          /\ fd' \in Nat
      BY <3>4 DEF TypeOK
    <3>9. queued' \in Seq(Timers) /\ batch' \in Seq(Timers)
      BY <3>4 DEF TypeOK
    <3>10. made' \subseteq Timers /\ jumps' \in 0..MaxJumps
      BY <3>4 DEF TypeOK
    <3>11. readable' \in BOOLEAN /\ reported' \in BOOLEAN
      BY <3>5, Zenon
    <3>12. now' \in Int
      BY <3>5
    <3> QED
      BY <3>2, <3>3, <3>6, <3>7, <3>8, <3>9, <3>10, <3>11, <3>12, Zenon DEF TypeOK
  <2>6. CASE RunTimer
    <3>1. todo' \in Seq(Timers) /\ ToSet(todo') \subseteq ToSet(todo)
      <4>1. todo \in Seq(Timers) /\ todo # <<>> /\ todo' = Tail(todo)
        BY <2>6 DEF RunTimer, TypeOK
      <4> QED
        BY <4>1, TailElements
    <3>2. runs' \in [Timers -> 0..2]
      <4>1. \A n \in 0..2 : (IF n < 2 THEN n + 1 ELSE n) \in 0..2
        OBVIOUS
      <4> QED
        BY <2>6, <4>1 DEF RunTimer, TypeOK
    <3>3. ToSet(todo') \subseteq ToSet(expired')
      BY <2>6, <3>1 DEF RunTimer, TypeOK
    <3> QED
      BY <2>6, <3>1, <3>2, <3>3 DEF RunTimer, TypeOK, Places
  <2>7. CASE CallbackReturns
    BY <2>7 DEF CallbackReturns, TypeOK, Places
  <2>8. CASE ResetTimers
    <3>1. due' \in [Timers -> Int]
      BY <2>8, RestartedType DEF ResetTimers, TypeOK
    <3>2. timers' \subseteq Timers
      BY <2>8 DEF ResetTimers, TypeOK, ToSet
    <3>3. fd' \in Nat /\ readable' \in BOOLEAN
      <4>1. CASE timers' = {}
        BY <2>8, <4>1 DEF ResetTimers, TypeOK
      <4>2. CASE timers' # {}
        <5>1. PICK t \in timers' : ResetTimerFd(due'[t])
          BY <2>8, <4>2 DEF ResetTimers
        <5>2. due'[t] \in Int
          BY <3>1, <3>2
        <5> QED
          BY <5>1, <5>2, ResetsTimerFd
      <4> QED
        BY <4>1, <4>2
    <3>4. todo' \in Seq(Timers) /\ expired' \in Seq(Timers) /\ ToSet(todo') \subseteq ToSet(expired')
      BY <2>8 DEF ResetTimers, TypeOK
    <3> QED
      BY <2>8, <3>1, <3>2, <3>3, <3>4 DEF ResetTimers, TypeOK, Places
  <2>9. CASE BeginPendingFunctors \/ EndPendingFunctors
    <3>1. batch' \in Seq(Timers) /\ queued' \in Seq(Timers) /\ pc' \in Places
      <4>1. CASE BeginPendingFunctors
        <5>1. batch' = queued /\ queued' = <<>> /\ pc' = "functors"
          BY <4>1 DEF BeginPendingFunctors
        <5> QED
          BY <5>1 DEF TypeOK, Places
      <4>2. CASE EndPendingFunctors
        <5>1. batch' = batch /\ queued' = queued /\ pc' = "poll"
          BY <4>2 DEF EndPendingFunctors
        <5> QED
          BY <5>1 DEF TypeOK, Places
      <4> QED
        BY <2>9, <4>1, <4>2
    <3>2. UNCHANGED <<timerVars, fdVars, reported, handling, made, runs, jumps>>
      BY <2>9 DEF BeginPendingFunctors, EndPendingFunctors
    <3> QED
      BY <3>1, <3>2 DEF TypeOK
  <2>10. CASE RunAddTimer
    <3>1. Head(batch) \in Timers /\ Tail(batch) \in Seq(Timers)
      BY <2>10 DEF RunAddTimer, TypeOK
    <3>2. due[Head(batch)] \in Int
      BY <3>1 DEF TypeOK
    <3>3. timers' \subseteq Timers /\ fd' \in Nat /\ readable' \in BOOLEAN
      BY <2>10, <2>1, <3>1, <3>2 DEF RunAddTimer
    <3> QED
      BY <2>10, <3>1, <3>3 DEF RunAddTimer, TypeOK
  <2>11. CASE Tick
    <3>1. due' \in [Timers -> Int] /\ now' \in Int
      BY <2>11, Clocks, 1 \in Int DEF Tick
    <3>2. fd' \in Nat /\ readable' \in BOOLEAN
      BY <2>11 DEF Tick, TypeOK
    <3> QED
      BY <2>11, <3>1, <3>2 DEF Tick, TypeOK
  <2>12. ASSUME NEW by \in Jumps, SetClock(by)
         PROVE  TypeOK'
    <3>1. due' \in [Timers -> Int] /\ now' \in Int
      BY <2>12, Clocks DEF SetClock
    <3>2. jumps' \in 0..MaxJumps
      BY <2>12 DEF SetClock, TypeOK
    <3> QED
      BY <2>12, <3>1, <3>2 DEF SetClock, TypeOK
  <2>13. CASE UNCHANGED vars
    BY <2>13 DEF TypeOK
  <2>14. CASE UserStep
    <3>1. 0 \in Int /\ \A s \in Seconds : AddTime(0, s) \in Int
      BY TruncType DEF AddTime
    <3> QED
      BY <2>14, <2>2, <2>3, <3>1 DEF UserStep, RunAt, RunAfter, RunEvery, GetNowTimestamp
  <2> QED
    BY <2>4, <2>5, <2>6, <2>7, <2>8, <2>9, <2>10, <2>11, <2>12, <2>13, <2>14
       DEF Next, LoopStep
<1> QED
  BY <1>1, <1>2, PTL DEF Spec
-----------------------------------------------------------------------------
(* The callbacks still to run are of timers that have been made as well, and
   what is made stays made. *)
LEMMA InUseStep ==
    ASSUME TypeOK, InUse, WhereInv, [Next]_vars
    PROVE  InUse' /\ WhereInv'
<1> USE DEF vars, timerVars, fdVars, handling
<1>1. ASSUME NEW t \in Timers, NEW d \in Int, NEW i \in Int, AddTimer(t, d, i)
      PROVE  InUse' /\ WhereInv'
  <2>1. made' = made \cup {t}
    BY <1>1 DEF AddTimer, AddTimerOwner, AddTimerThread, NewTimer
  <2>2. expired \in Seq(made') /\ queued \in Seq(made') /\ batch \in Seq(made')
    BY <2>1, SeqGrows DEF InUse
  <2>3. CASE AddTimerOwner(t, d, i)
    BY <2>1, <2>2, <2>3 DEF AddTimerOwner, AddTimerInLoop, UserCode, InUse, WhereInv
  <2>4. CASE AddTimerThread(t, d, i)
    <3>1. queued' \in Seq(made')
      BY <2>1, <2>2, <2>4 DEF AddTimerThread
    <3> QED
      BY <2>1, <2>2, <2>4, <3>1 DEF AddTimerThread, InUse, WhereInv
  <2> QED
    BY <1>1, <2>3, <2>4 DEF AddTimer
<1>2. CASE StartLoop
  BY <1>2 DEF StartLoop, InUse, WhereInv
<1>3. CASE LeaveLoop
  BY <1>3 DEF LeaveLoop, InUse, WhereInv
<1>4. CASE Destroy
  BY <1>4 DEF Destroy, InUse, WhereInv
<1>5. CASE Poll
  BY <1>5 DEF Poll, InUse, WhereInv
<1>6. CASE GetExpired
  <2>1. PICK S \in SUBSET timers : expired' \in Sorted(S)
    BY <1>6 DEF GetExpired, ReadTimerfd, GetNowTimestamp
  <2>2. expired' \in Seq(S)
    BY <2>1, SortedType DEF TypeOK
  <2>3. expired' \in Seq(made)
    BY <2>1, <2>2, SeqGrows DEF InUse
  <2> QED
    BY <1>6, <2>3 DEF GetExpired, ReadTimerfd, GetNowTimestamp, InUse, WhereInv
<1>7. CASE RunTimer
  BY <1>7 DEF RunTimer, InUse, WhereInv
<1>8. CASE CallbackReturns
  BY <1>8 DEF CallbackReturns, InUse, WhereInv
<1>9. CASE ResetTimers
  <2>1. ToSet(expired) \subseteq made
    BY DEF ToSet, InUse
  <2>2. timers' \subseteq made
    BY <1>9, <2>1 DEF ResetTimers, InUse
  <2>3. expired' \in Seq(made') /\ made' = made
    BY <1>9 DEF ResetTimers
  <2>4. InUse'
    BY <1>9, <2>2, <2>3 DEF ResetTimers, InUse
  <2> QED
    BY <1>9, <2>4 DEF ResetTimers, WhereInv
<1>10. CASE BeginPendingFunctors \/ EndPendingFunctors
  <2>1. queued' \in Seq(made) /\ batch' \in Seq(made)
    <3>1. CASE BeginPendingFunctors
      <4>1. batch' = queued /\ queued' = <<>>
        BY <3>1 DEF BeginPendingFunctors
      <4> QED
        BY <4>1 DEF InUse
    <3>2. CASE EndPendingFunctors
      BY <3>2 DEF EndPendingFunctors, InUse
    <3> QED
      BY <1>10, <3>1, <3>2
  <2> QED
    BY <1>10, <2>1 DEF BeginPendingFunctors, EndPendingFunctors, InUse, WhereInv
<1>11. CASE RunAddTimer
  <2>1. Head(batch) \in made /\ Tail(batch) \in Seq(made)
    BY <1>11 DEF RunAddTimer, InUse
  <2>2. timers' = timers \cup {Head(batch)} /\ batch' = Tail(batch)
    BY <1>11 DEF RunAddTimer, AddTimerInLoop
  <2> QED
    BY <1>11, <2>1, <2>2 DEF RunAddTimer, InUse, WhereInv
<1>12. CASE Tick
  BY <1>12 DEF Tick, InUse, WhereInv
<1>13. ASSUME NEW by \in Jumps, SetClock(by)
       PROVE  InUse' /\ WhereInv'
  BY <1>13 DEF SetClock, InUse, WhereInv
<1>14. CASE UNCHANGED vars
  BY <1>14 DEF InUse, WhereInv
<1>15. CASE UserStep
  <2>1. 0 \in Int /\ \A s \in Seconds : AddTime(0, s) \in Int
    BY TruncType DEF AddTime
  <2> QED
    BY <1>15, <1>1, <1>2, <1>3, <1>4, <2>1 DEF UserStep, RunAt, RunAfter, RunEvery, GetNowTimestamp
<1> QED
  BY <1>5, <1>6, <1>7, <1>8, <1>9, <1>10, <1>11, <1>12, <1>13, <1>14, <1>15
     DEF Next, LoopStep
-----------------------------------------------------------------------------
(* A setting of the timerfd for the earliest of a set of timers. *)
LEMMA ArmedForFirst ==
    ASSUME NEW d \in Int, ResetTimerFd(d),
           NEW expires \in [Timers -> Int],
           NEW set \in SUBSET Timers, \A t \in set : d <= expires[t]
    PROVE  fd' > 0 /\ \A t \in set : fd' <= AtLeast(MinDelay, expires[t])
<1>1. fd' = AtLeast(MinDelay, d) /\ fd' > 0
  BY ResetsTimerFd
<1>2. ASSUME NEW t \in set
      PROVE  AtLeast(MinDelay, d) <= AtLeast(MinDelay, expires[t])
  <2>1. d <= expires[t] /\ expires[t] \in Int
    OBVIOUS
  <2> QED
    BY <2>1 DEF AtLeast
<1> QED
  BY <1>1, <1>2

(* One microsecond takes the same from the timerfd and from the timers. *)
LEMMA TickKeepsArmed ==
    ASSUME TypeOK, InUse, WhereInv, ArmedForEarliest, Tick
    PROVE  ArmedForEarliest'
<1> SUFFICES ASSUME ~Handling', timers' # {}
             PROVE  \/ readable' \/ reported'
                    \/ fd' > 0 /\ (jumps' = 0 => \A t \in timers' : fd' <= AtLeast(MinDelay, due'[t]))
  BY DEF ArmedForEarliest
<1>1. timers' = timers /\ reported' = reported /\ jumps' = jumps /\ ~Handling
  BY DEF Tick, Handling
<1>2. CASE readable \/ reported \/ fd = 1
  <2>1. readable' <=> (readable \/ fd = 1)
    BY DEF Tick
  <2> QED
    BY <1>1, <1>2, <2>1
<1>3. CASE ~readable /\ ~reported /\ fd # 1
  <2>1. fd > 1 /\ (jumps = 0 => \A t \in timers : fd <= AtLeast(MinDelay, due[t]))
    BY <1>1, <1>3 DEF ArmedForEarliest, TypeOK
  <2>2. fd' = fd - 1
    <3>1. fd' = IF fd > 0 THEN fd - 1 ELSE 0
      BY Zenon DEF Tick
    <3> QED
      BY <2>1, <3>1 DEF TypeOK
  <2>3. ASSUME NEW t \in timers
        PROVE  due'[t] = Saturated(due[t] - 1)
    BY <1>1 DEF Tick, WallClock, Pending, WhereInv, TypeOK
  <2>4. ASSUME NEW t \in timers, fd <= AtLeast(MinDelay, due[t])
        PROVE  fd' <= AtLeast(MinDelay, due'[t])
    <3>1. due[t] \in Int /\ fd \in Nat
      BY DEF TypeOK
    <3> QED
      BY <2>2, <2>3, <2>4, <3>1 DEF Saturated, AtLeast
  <2> QED
    BY <1>1, <2>1, <2>2, <2>4 DEF TypeOK
<1> QED
  BY <1>2, <1>3

(* Adding a timer sets the timerfd for it, or leaves one before it. *)
LEMMA AddKeepsArmed ==
    ASSUME TypeOK, ArmedForEarliest, ~Handling,
           NEW t \in Timers, NEW d \in Int, AddTimerInLoop(t, d),
           due' \in [Timers -> Int], due'[t] = d,
           \A u \in timers \ {t} : due'[u] = due[u]
    PROVE  \/ readable'
           \/ UNCHANGED fdVars /\ reported
           \/ fd' > 0 /\ (jumps = 0 => \A u \in timers' : fd' <= AtLeast(MinDelay, due'[u]))
<1>1. timers' = timers \cup {t} /\ timers' \in SUBSET Timers
  BY DEF AddTimerInLoop, TypeOK
<1>2. CASE \A u \in timers : d < due[u]
  <2>1. ResetTimerFd(d)
    BY <1>2 DEF AddTimerInLoop
  <2>2. \A u \in timers' : d <= due'[u]
    BY <1>1, <1>2 DEF TypeOK
  <2> QED
    BY <1>1, <2>1, <2>2, ArmedForFirst
<1>3. CASE ~ \A u \in timers : d < due[u]
  <2>1. fd' = fd /\ readable' = readable
    BY <1>3 DEF AddTimerInLoop, fdVars
  <2>2. PICK u \in timers : due[u] <= d
    BY <1>3 DEF TypeOK
  <2>3. CASE readable \/ reported
    BY <2>1, <2>3 DEF fdVars
  <2>4. CASE ~readable /\ ~reported
    <3>1. fd > 0 /\ (jumps = 0 => \A v \in timers : fd <= AtLeast(MinDelay, due[v]))
      BY <2>2, <2>4 DEF ArmedForEarliest
    <3>2. ASSUME \A v \in timers : fd <= AtLeast(MinDelay, due[v]), NEW w \in timers'
          PROVE  fd <= AtLeast(MinDelay, due'[w])
      <4>1. CASE w = t
        <5>1. fd <= AtLeast(MinDelay, due[u]) /\ due[u] <= d /\ due[u] \in Int /\ fd \in Nat
          BY <2>2, <3>2 DEF TypeOK
        <5>2. fd <= AtLeast(MinDelay, d)
          BY <5>1 DEF AtLeast
        <5> QED
          BY <4>1, <5>2
      <4>2. CASE w # t
        BY <1>1, <3>2, <4>2
      <4> QED
        BY <4>1, <4>2
    <3> QED
      BY <2>1, <3>1, <3>2
  <2> QED
    BY <2>3, <2>4
<1> QED
  BY <1>2, <1>3

LEMMA ArmedStep ==
    ASSUME TypeOK, TypeOK', InUse, WhereInv, ArmedForEarliest, [Next]_vars
    PROVE  ArmedForEarliest'
<1> USE DEF vars, timerVars, fdVars, handling
<1>1. ASSUME NEW t \in Timers, NEW d \in Int, NEW i \in Int, AddTimer(t, d, i)
      PROVE  ArmedForEarliest'
  <2>1. t \notin timers /\ due' \in [Timers -> Int] /\ due'[t] = d
        /\ \A u \in timers \ {t} : due'[u] = due[u]
    BY <1>1 DEF AddTimer, AddTimerOwner, AddTimerThread, NewTimer, InUse, TypeOK
  <2>2. pc' = pc /\ reported' = reported /\ jumps' = jumps
    BY <1>1 DEF AddTimer, AddTimerOwner, AddTimerThread
  <2>3. CASE AddTimerThread(t, d, i)
    <3>1. timers' = timers /\ fd' = fd /\ readable' = readable
      BY <2>3 DEF AddTimerThread
    <3>2. \A u \in timers : due'[u] = due[u]
      BY <2>1
    <3> QED
      BY <2>2, <3>1, <3>2 DEF ArmedForEarliest, Handling
  <2>4. CASE AddTimerOwner(t, d, i) /\ ~Handling
    <3>1. AddTimerInLoop(t, d)
      BY <2>4 DEF AddTimerOwner
    <3> QED
      BY <2>1, <2>2, <2>4, <3>1, AddKeepsArmed DEF ArmedForEarliest
  <2>5. CASE Handling
    BY <2>2, <2>5 DEF ArmedForEarliest, Handling
  <2> QED
    BY <1>1, <2>3, <2>4, <2>5 DEF AddTimer
<1>2. CASE StartLoop \/ LeaveLoop \/ BeginPendingFunctors \/ EndPendingFunctors
  <2>1. UNCHANGED <<timers, due, fd, readable, reported, jumps>> /\ ~Handling
    BY <1>2 DEF StartLoop, LeaveLoop, BeginPendingFunctors, EndPendingFunctors, Handling
  <2> QED
    BY <2>1 DEF ArmedForEarliest
<1>3. CASE Destroy
  BY <1>3 DEF Destroy, ArmedForEarliest
<1>4. CASE Poll
  <2>1. UNCHANGED <<timers, due, fd, readable, jumps>> /\ ~Handling /\ ~reported
    BY <1>4 DEF Poll, Handling, WhereInv
  <2> QED
    BY <2>1 DEF ArmedForEarliest
<1>5. CASE GetExpired \/ RunTimer \/ CallbackReturns
  <2>1. Handling'
    BY <1>5 DEF GetExpired, ReadTimerfd, GetNowTimestamp, RunTimer, CallbackReturns, Handling
  <2> QED
    BY <2>1 DEF ArmedForEarliest
<1>6. CASE ResetTimers
  <2>1. CASE timers' = {}
    BY <2>1 DEF ArmedForEarliest
  <2>2. CASE timers' # {}
    <3>1. PICK t \in timers' : IsFirst(t, timers', due') /\ ResetTimerFd(due'[t])
      BY <1>6, <2>2 DEF ResetTimers
    <3>2. due' \in [Timers -> Int] /\ timers' \in SUBSET Timers /\ due'[t] \in Int
      BY <3>1 DEF TypeOK
    <3>3. \A u \in timers' : due'[t] <= due'[u]
      BY <3>1 DEF IsFirst
    <3>4. fd' > 0 /\ \A u \in timers' : fd' <= AtLeast(MinDelay, due'[u])
      BY <3>1, <3>2, <3>3, ArmedForFirst
    <3> QED
      BY <3>4 DEF ArmedForEarliest
  <2> QED
    BY <2>1, <2>2
<1>7. CASE RunAddTimer
  <2> DEFINE t == Head(batch)
  <2>1. t \in Timers /\ due[t] \in Int /\ AddTimerInLoop(t, due[t]) /\ ~Handling
    BY <1>7 DEF RunAddTimer, TypeOK, Handling
  <2>2. due' = due /\ pc' = pc /\ reported' = reported /\ jumps' = jumps
    BY <1>7 DEF RunAddTimer
  <2>3. due' \in [Timers -> Int] /\ due'[t] = due[t] /\ \A u \in timers \ {t} : due'[u] = due[u]
    BY <2>2 DEF TypeOK
  <2> HIDE DEF t
  <2> QED
    BY <2>1, <2>2, <2>3, AddKeepsArmed DEF ArmedForEarliest
<1>8. CASE Tick
  BY <1>8, TickKeepsArmed
<1>9. ASSUME NEW by \in Jumps, SetClock(by)
      PROVE  ArmedForEarliest'
  <2>1. UNCHANGED <<timers, fd, readable, pc, reported>> /\ jumps' # 0
    BY <1>9 DEF SetClock, TypeOK
  <2> QED
    BY <2>1 DEF ArmedForEarliest, Handling
<1>10. CASE UNCHANGED vars
  BY <1>10 DEF ArmedForEarliest, Handling
<1>11. CASE UserStep
  <2>1. 0 \in Int /\ \A s \in Seconds : AddTime(0, s) \in Int
    BY TruncType DEF AddTime
  <2> QED
    BY <1>11, <1>1, <1>2, <1>3, <2>1 DEF UserStep, RunAt, RunAfter, RunEvery, GetNowTimestamp
<1> QED
  BY <1>2, <1>4, <1>5, <1>6, <1>7, <1>8, <1>9, <1>10, <1>11 DEF Next, LoopStep

(* The inductive invariant: types, only timers that were constructed are in
   use, and the timerfd stands for the earliest of those in the set. *)
THEOREM Invariance == Spec => []IInv
<1>1. Init => InUse /\ WhereInv /\ ArmedForEarliest
  BY DEF Init, CreateTimerFd, InUse, WhereInv, ArmedForEarliest
<1>2. TypeOK /\ TypeOK' /\ InUse /\ WhereInv /\ ArmedForEarliest /\ [Next]_vars
        => (InUse /\ WhereInv /\ ArmedForEarliest)'
  BY InUseStep, ArmedStep
<1> QED
  BY <1>1, <1>2, TypeCorrect, PTL DEF Spec, IInv

(* Outside __HandleRead the one timerfd stands for the earliest timer: with
   any number of timers added by callbacks, functors and other threads, none
   is left behind an expiration that comes later or was forgotten
   (CTimerQueue.cpp:100-122, 151-172). *)
THEOREM TimerfdArmed == Spec => []ArmedForEarliest
BY Invariance, PTL DEF IInv
-----------------------------------------------------------------------------
(* No element twice. *)
Distinct(s) == \A i, j \in DOMAIN s : i # j => s[i] # s[j]

(* t is in the set, in vExpired, or in a functor on its way to the set. *)
Somewhere(t) ==
    t \in timers \/ t \in ToSet(expired) \/ t \in ToSet(queued) \/ t \in ToSet(batch)

(* The callback of t has run in this __HandleRead. *)
Past(t) == t \in ToSet(expired) /\ t \notin ToSet(todo)

(* t is in one place at most. *)
Apart(t) ==
    /\ t \in timers => t \notin ToSet(expired) /\ t \notin ToSet(queued) /\ t \notin ToSet(batch)
    /\ t \in ToSet(expired) => t \notin ToSet(queued) /\ t \notin ToSet(batch)
    /\ t \in ToSet(queued) => t \notin ToSet(batch)

(* What place and history of t say of each other. *)
Fate(t) ==
    /\ t \notin made => runs[t] = 0
    /\ t \in made /\ Repeats(t) => Somewhere(t) /\ (Past(t) => runs[t] > 0)
    /\ t \in made /\ ~Repeats(t) =>
          /\ Past(t) => runs[t] = 1
          /\ Somewhere(t) /\ ~Past(t) => runs[t] = 0
          /\ ~Somewhere(t) => runs[t] = 1

(* The invariant of the timers' lives, while there is a CTimerQueue. *)
LifeInv ==
    /\ expired # <<>> => Handling
    /\ batch # <<>> => pc = "functors"
    /\ Distinct(expired) /\ Distinct(todo) /\ Distinct(queued) /\ Distinct(batch)
    /\ \A t \in Timers : Apart(t) /\ Fate(t)

LivingInv == pc # "destroyed" => LifeInv

(* The elements of sequences. *)
LEMMA ElementsEmpty == ToSet(<<>>) = {} /\ Distinct(<<>>)
BY DEF ToSet, Distinct

(* Of a sequence that grows at its end. *)
LEMMA ElementsAppend ==
    ASSUME NEW S, NEW s \in Seq(S), NEW t \in S
    PROVE  /\ ToSet(Append(s, t)) = ToSet(s) \cup {t}
           /\ Distinct(s) /\ t \notin ToSet(s) => Distinct(Append(s, t))
<1> DEFINE n == Len(s)
           a == Append(s, t)
<1>1. /\ n \in Nat /\ DOMAIN s = 1..n /\ DOMAIN a = 1..n + 1
      /\ \A i \in 1..n : a[i] = s[i]
      /\ a[n + 1] = t
  OBVIOUS
<1> HIDE DEF n, a
<1>2. ToSet(a) = ToSet(s) \cup {t}
  <2>1. \A i \in DOMAIN a : a[i] \in ToSet(s) \cup {t}
    BY <1>1 DEF ToSet
  <2>2. \A i \in DOMAIN s : s[i] \in ToSet(a)
    BY <1>1 DEF ToSet
  <2>3. t \in ToSet(a)
    BY <1>1 DEF ToSet
  <2> QED
    BY <2>1, <2>2, <2>3 DEF ToSet
<1>3. Distinct(s) /\ t \notin ToSet(s) => Distinct(a)
  BY <1>1 DEF Distinct, ToSet
<1> QED
  BY <1>2, <1>3 DEF a

(* Of a sequence that loses its first element. *)
LEMMA ElementsTail ==
    ASSUME NEW S, NEW s \in Seq(S), s # <<>>, Distinct(s)
    PROVE  /\ Head(s) \in S /\ Head(s) \in ToSet(s)
           /\ ToSet(Tail(s)) = ToSet(s) \ {Head(s)}
           /\ Distinct(Tail(s))
<1> DEFINE n == Len(s)
           u == Tail(s)
<1>1. /\ n \in Nat /\ n > 0 /\ DOMAIN s = 1..n /\ DOMAIN u = 1..n - 1
      /\ \A i \in 1..n - 1 : u[i] = s[i + 1]
      /\ Head(s) = s[1] /\ s[1] \in S
  OBVIOUS
<1> HIDE DEF n, u
<1>2. \A i \in 1..n - 1 : i + 1 \in 1..n /\ i + 1 # 1
  BY <1>1
<1>3. \A i \in 1..n : i = 1 \/ (i - 1 \in 1..n - 1 /\ s[i] = u[i - 1])
  BY <1>1
<1>4. Distinct(u)
  <2> SUFFICES ASSUME NEW i \in 1..n - 1, NEW j \in 1..n - 1, i # j
               PROVE  u[i] # u[j]
    BY <1>1 DEF Distinct
  <2>1. i + 1 \in DOMAIN s /\ j + 1 \in DOMAIN s /\ i + 1 # j + 1
    BY <1>1
  <2>2. s[i + 1] # s[j + 1]
    BY <2>1, Zenon DEF Distinct
  <2> QED
    BY <1>1, <2>2
<1>5. ToSet(u) = ToSet(s) \ {Head(s)}
  <2>1. \A i \in DOMAIN u : u[i] \in ToSet(s) \ {Head(s)}
    BY <1>1, <1>2 DEF ToSet, Distinct
  <2>2. \A i \in DOMAIN s : s[i] = Head(s) \/ s[i] \in ToSet(u)
    BY <1>1, <1>3 DEF ToSet
  <2> QED
    BY <2>1, <2>2 DEF ToSet
<1>6. Head(s) \in ToSet(s)
  BY <1>1 DEF ToSet
<1> QED
  BY <1>1, <1>4, <1>5, <1>6 DEF u

(* __GetExpired lists every expired timer, and none twice. *)
LEMMA SortedElements ==
    ASSUME NEW S \in SUBSET Timers, NEW s \in Sorted(S)
    PROVE  ToSet(s) = S /\ Distinct(s)
<1> DEFINE n == Cardinality(S)
<1>1. IsFiniteSet(S) /\ n \in Nat
  BY TimesAssumption, FS_Subset, FS_CardinalityType DEF TimesAssumption
<1>2. s \in [1..n -> S] /\ \A i, j \in 1..n : i # j => s[i] # s[j]
  BY DEF Sorted, SetToSeqs
<1>3. Cardinality(1..n) = n
  BY <1>1, FS_Interval
<1> HIDE DEF n
<1>4. s \in Injection(1..n, S)
  BY <1>2 DEF Injection, IsInjective
<1>5. s \in Surjection(1..n, S)
  BY <1>1, <1>3, <1>4, FS_Injection DEF n
<1>6. \A t \in S : \E i \in 1..n : s[i] = t
  BY <1>5 DEF Surjection
<1> QED
  BY <1>2, <1>6 DEF ToSet, Distinct

(* How often a sequence without duplicates holds t. *)
LEMMA OccursOnce ==
    ASSUME NEW s, NEW t, Distinct(s)
    PROVE  Occurs(t, s) = IF t \in ToSet(s) THEN 1 ELSE 0
<1> DEFINE P == {i \in DOMAIN s : s[i] = t}
<1>1. CASE t \in ToSet(s)
  <2>1. PICK i \in DOMAIN s : s[i] = t
    BY <1>1 DEF ToSet
  <2>2. P = {i}
    BY <2>1 DEF Distinct
  <2> QED
    BY <1>1, <2>2, FS_Singleton DEF Occurs
<1>2. CASE t \notin ToSet(s)
  <2>1. P = {}
    BY <1>2 DEF ToSet
  <2> QED
    BY <1>2, <2>1, FS_EmptySet DEF Occurs
<1> QED
  BY <1>1, <1>2

(* What the types say of histories and sequences. *)
LEMMA LifeTypes ==
    ASSUME IInv
    PROVE  /\ runs \in [Timers -> 0..2] /\ \A t \in Timers : runs[t] \in Nat
           /\ todo \in Seq(Timers) /\ queued \in Seq(Timers) /\ batch \in Seq(Timers)
           /\ ToSet(todo) \subseteq ToSet(expired) /\ ToSet(expired) \subseteq made
<1>1. /\ runs \in [Timers -> 0..2]
      /\ todo \in Seq(Timers) /\ queued \in Seq(Timers) /\ batch \in Seq(Timers)
      /\ ToSet(todo) \subseteq ToSet(expired) /\ expired \in Seq(made)
  <2>1. TypeOK /\ expired \in Seq(made)
    BY DEF IInv, InUse
  <2> QED
    BY <2>1, Zenon DEF TypeOK
<1>2. \A t \in Timers : runs[t] \in Nat
  <2>1. runs \in [Timers -> 0..2]
    BY <1>1, Zenon
  <2>2. \A t \in Timers : runs[t] \in 0..2
    BY <2>1, Zenon
  <2> QED
    BY <2>2
<1>3. ToSet(expired) \subseteq made
  BY <1>1 DEF ToSet
<1> QED
  BY <1>1, <1>2, <1>3

(* In how many places t is, and OwnedOnce of t alone. *)
PlacesOf(t) ==
    Cardinality(timers \cap {t}) + Occurs(t, expired) + Occurs(t, queued) + Occurs(t, batch)

Owned(t) ==
    IF t \notin made THEN PlacesOf(t) = 0 /\ runs[t] = 0
    ELSE IF Repeats(t) THEN PlacesOf(t) = 1 /\ (Past(t) => runs[t] > 0)
    ELSE /\ PlacesOf(t) = IF runs[t] = 0 \/ Past(t) THEN 1 ELSE 0
         /\ runs[t] = IF PlacesOf(t) = 0 \/ Past(t) THEN 1 ELSE 0

(* The invariant says what OwnedOnce says in numbers. *)
LEMMA LivesOnce ==
    ASSUME IInv, LivingInv
    PROVE  OwnedOnce
<1>1. ASSUME pc # "destroyed", NEW t \in Timers
      PROVE  Owned(t)
  <2>1. LifeInv /\ Apart(t) /\ Fate(t)
    BY <1>1 DEF LivingInv, LifeInv
  <2>2. /\ Occurs(t, expired) = IF t \in ToSet(expired) THEN 1 ELSE 0
        /\ Occurs(t, queued) = IF t \in ToSet(queued) THEN 1 ELSE 0
        /\ Occurs(t, batch) = IF t \in ToSet(batch) THEN 1 ELSE 0
    BY <2>1, OccursOnce DEF LifeInv
  <2>3. Cardinality(timers \cap {t}) = IF t \in timers THEN 1 ELSE 0
    <3>1. timers \cap {t} = IF t \in timers THEN {t} ELSE {}
      OBVIOUS
    <3> QED
      BY <3>1, FS_Singleton, FS_EmptySet
  <2>4. PlacesOf(t) = IF Somewhere(t) THEN 1 ELSE 0
    BY <2>1, <2>2, <2>3 DEF PlacesOf, Somewhere, Apart
  <2>5. t \notin made => ~Somewhere(t)
    BY DEF IInv, InUse, Somewhere, ToSet
  <2>6. Past(t) => Somewhere(t)
    BY DEF Past, Somewhere
  <2>7. runs[t] \in Nat
    BY LifeTypes
  <2> QED
    BY <2>1, <2>4, <2>5, <2>6, <2>7 DEF Owned, Fate
<1> QED
  BY <1>1, Zenon DEF OwnedOnce, Owned, PlacesOf, Past

(* A step in which no timer changes place. *)
LEMMA NobodyMoves ==
    ASSUME LifeInv, UNCHANGED <<timers, expired, todo, queued, batch, made, runs, interval>>,
           expired # <<>> => Handling', batch # <<>> => pc' = "functors"
    PROVE  LifeInv'
BY DEF LifeInv, Apart, Fate, Past, Somewhere, Repeats

(* A new timer is put into the set or into the queue. *)
LEMMA NewTimerLives ==
    ASSUME IInv, LivingInv, pc # "destroyed",
           NEW t \in Timers, NEW d \in Int, NEW i \in Int, AddTimer(t, d, i)
    PROVE  LifeInv'
<1>1. /\ t \notin made /\ made' = made \cup {t}
      /\ interval' = [interval EXCEPT ![t] = i]
      /\ UNCHANGED <<pc, expired, todo, batch, runs>>
  BY DEF AddTimer, AddTimerOwner, AddTimerThread, NewTimer, handling
<1>2. LifeInv /\ runs[t] = 0
  BY <1>1 DEF LivingInv, LifeInv, Fate
<1>3. /\ t \notin timers /\ t \notin ToSet(expired)
      /\ t \notin ToSet(queued) /\ t \notin ToSet(batch)
  BY <1>1 DEF IInv, InUse, ToSet
<1>4. \/ timers' = timers \cup {t} /\ queued' = queued
      \/ timers' = timers /\ queued' = Append(queued, t)
  BY DEF AddTimer, AddTimerOwner, AddTimerThread, AddTimerInLoop
<1>5. /\ ToSet(Append(queued, t)) = ToSet(queued) \cup {t}
      /\ Distinct(queued) /\ Distinct(Append(queued, t))
  BY <1>2, <1>3, LifeTypes, ElementsAppend DEF LifeInv
<1>6. /\ \A u \in Timers : u # t => (u \in timers' <=> u \in timers)
      /\ \A u \in Timers : u # t => (u \in ToSet(queued') <=> u \in ToSet(queued))
      /\ t \in timers' <=> t \notin ToSet(queued')
      /\ Distinct(queued')
  BY <1>3, <1>4, <1>5
<1>7. \A u \in Timers : u # t => (Repeats(u)' <=> Repeats(u))
  BY <1>1 DEF Repeats, IInv, TypeOK
<1>8. ASSUME NEW u \in Timers
      PROVE  Apart(u)' /\ Fate(u)'
  <2>1. CASE u = t
    BY <1>1, <1>2, <1>3, <1>6, <2>1 DEF Apart, Fate, Somewhere, Past
  <2>2. CASE u # t
    <3>1. Apart(u) /\ Fate(u)
      BY <1>2 DEF LifeInv
    <3> QED
      BY <1>1, <1>6, <1>7, <2>2, <3>1 DEF Apart, Fate, Somewhere, Past
  <2> QED
    BY <2>1, <2>2
<1>9. (expired' # <<>> => Handling') /\ (batch' # <<>> => pc' = "functors")
  BY <1>1, <1>2 DEF LifeInv, Handling
<1> QED
  BY <1>1, <1>2, <1>6, <1>8, <1>9 DEF LifeInv

(* __GetExpired moves timers to vExpired. *)
LEMMA GetExpiredLives ==
    ASSUME IInv, LifeInv, GetExpired
    PROVE  LifeInv'
<1> DEFINE S == {t \in timers : due[t] <= 0}
<1>1. /\ pc = "dispatch" /\ pc' = "expired"
      /\ timers' = timers \ S
      /\ expired' \in Sorted(S) /\ todo' = expired'
      /\ UNCHANGED <<queued, batch, made, runs, interval>>
  BY DEF GetExpired
<1>2. S \in SUBSET timers /\ S \in SUBSET Timers
  BY DEF IInv, TypeOK
<1> HIDE DEF S
<1>3. ToSet(expired') = S /\ Distinct(expired')
  BY <1>1, <1>2, SortedElements
<1>4. expired = <<>> /\ batch = <<>>
  BY <1>1 DEF LifeInv, Handling
<1>5. ToSet(expired) = {}
  BY <1>4, ElementsEmpty
<1>6. \A t \in Timers : Repeats(t)' <=> Repeats(t)
  BY <1>1 DEF Repeats
<1>7. ASSUME NEW t \in Timers
      PROVE  Apart(t)' /\ Fate(t)'
  <2>1. Apart(t) /\ Fate(t)
    BY DEF LifeInv
  <2> QED
    BY <1>1, <1>2, <1>3, <1>5, <1>6, <2>1 DEF Apart, Fate, Somewhere, Past
<1> QED
  BY <1>1, <1>3, <1>4, <1>7 DEF LifeInv, Handling

(* A callback has run: its timer is past. *)
LEMMA RunTimerLives ==
    ASSUME IInv, LifeInv, RunTimer
    PROVE  LifeInv'
<1> DEFINE h == Head(todo)
<1>1. /\ pc' = "callback" /\ pc = "expired"
      /\ todo # <<>> /\ todo' = Tail(todo)
      /\ runs' = [runs EXCEPT ![h] = IF @ < 2 THEN @ + 1 ELSE @]
      /\ UNCHANGED <<timers, expired, queued, batch, made, interval>>
  BY DEF RunTimer, timerVars
<1>2. /\ h \in Timers /\ h \in ToSet(todo)
      /\ ToSet(todo') = ToSet(todo) \ {h} /\ Distinct(todo')
  BY <1>1, LifeTypes, ElementsTail DEF LifeInv
<1>3. h \in ToSet(expired) /\ h \in made
  BY <1>2, LifeTypes
<1> HIDE DEF h
<1>4. \A t \in Timers :
         /\ runs[t] \in Nat
         /\ runs'[t] = IF t # h THEN runs[t] ELSE IF runs[t] < 2 THEN runs[t] + 1 ELSE runs[t]
  BY <1>1, <1>2, LifeTypes
<1>5. \A t \in Timers : (Repeats(t)' <=> Repeats(t)) /\ (Somewhere(t)' <=> Somewhere(t))
  BY <1>1 DEF Repeats, Somewhere
<1>6. ASSUME NEW t \in Timers
      PROVE  Apart(t)' /\ Fate(t)'
  <2>1. Apart(t) /\ Fate(t)
    BY DEF LifeInv
  <2>2. Apart(t)'
    BY <1>1, <2>1 DEF Apart
  <2>3. CASE t = h
    <3>1. ~Past(t) /\ Past(t)' /\ Somewhere(t)
      BY <1>1, <1>2, <1>3, <2>3 DEF Past, Somewhere
    <3>2. runs'[t] > 0 /\ (runs[t] = 0 => runs'[t] = 1)
      BY <1>4, <2>3
    <3> QED
      BY <1>1, <1>3, <1>5, <2>1, <2>2, <2>3, <3>1, <3>2 DEF Fate
  <2>4. CASE t # h
    <3>1. Past(t)' <=> Past(t)
      BY <1>1, <1>2, <2>4 DEF Past
    <3>2. runs'[t] = runs[t]
      BY <1>4, <2>4
    <3> QED
      BY <1>1, <1>5, <2>1, <2>2, <3>1, <3>2 DEF Fate
  <2> QED
    BY <2>3, <2>4
<1>7. (expired' # <<>> => Handling') /\ (batch' # <<>> => pc' = "functors")
  BY <1>1 DEF LifeInv, Handling
<1>8. Distinct(expired') /\ Distinct(queued') /\ Distinct(batch')
  BY <1>1 DEF LifeInv
<1> QED
  BY <1>2, <1>6, <1>7, <1>8 DEF LifeInv

(* __ResetTimers takes the repeating timers back and deletes the others. *)
LEMMA ResetTimersLives ==
    ASSUME IInv, LifeInv, ResetTimers
    PROVE  LifeInv'
<1>1. /\ pc = "expired" /\ todo = <<>> /\ todo' = <<>> /\ expired' = <<>>
      /\ timers' = timers \cup {t \in ToSet(expired) : Repeats(t)}
      /\ UNCHANGED <<queued, batch, made, runs, interval>>
  BY DEF ResetTimers
<1>2. batch = <<>>
  BY <1>1 DEF LifeInv
<1>3. ToSet(todo) = {} /\ ToSet(expired') = {} /\ Distinct(<<>>)
  BY <1>1, ElementsEmpty
<1>4. \A t \in Timers : Repeats(t)' <=> Repeats(t)
  BY <1>1 DEF Repeats
<1>5. ASSUME NEW t \in Timers
      PROVE  Apart(t)' /\ Fate(t)'
  <2>1. Apart(t) /\ Fate(t)
    BY DEF LifeInv
  <2>2. Past(t) <=> t \in ToSet(expired)
    BY <1>3 DEF Past
  <2>3. ~Past(t)'
    BY <1>3 DEF Past
  <2>4. Apart(t)'
    BY <1>1, <1>3, <2>1 DEF Apart
  <2>5. t \in made => (Somewhere(t)' <=> Somewhere(t) /\ (t \in ToSet(expired) => Repeats(t)))
    BY <1>1, <1>3, <2>1 DEF Somewhere, Apart
  <2>6. t \notin made => Fate(t)'
    BY <1>1, <2>1 DEF Fate
  <2> QED
    BY <1>1, <1>4, <2>1, <2>2, <2>3, <2>4, <2>5, <2>6 DEF Fate
<1> QED
  BY <1>1, <1>2, <1>3, <1>5 DEF LifeInv

(* __AddTimerInLoop of another thread's timer moves it to the set. *)
LEMMA RunAddTimerLives ==
    ASSUME IInv, LifeInv, RunAddTimer
    PROVE  LifeInv'
<1> DEFINE h == Head(batch)
<1>1. /\ pc' = pc /\ pc = "functors"
      /\ batch # <<>> /\ batch' = Tail(batch)
      /\ timers' = timers \cup {h}
      /\ UNCHANGED <<expired, todo, queued, made, runs, interval>>
  BY DEF RunAddTimer, AddTimerInLoop, handling
<1>2. /\ h \in ToSet(batch)
      /\ ToSet(batch') = ToSet(batch) \ {h} /\ Distinct(batch')
  BY <1>1, LifeTypes, ElementsTail DEF LifeInv
<1> HIDE DEF h
<1>3. \A t \in Timers : Repeats(t)' <=> Repeats(t)
  BY <1>1 DEF Repeats
<1>4. ASSUME NEW t \in Timers
      PROVE  Apart(t)' /\ Fate(t)'
  <2>1. Apart(t) /\ Fate(t)
    BY DEF LifeInv
  <2>2. Apart(t)'
    BY <1>1, <1>2, <2>1 DEF Apart
  <2>3. (Somewhere(t)' <=> Somewhere(t)) /\ (Past(t)' <=> Past(t))
    BY <1>1, <1>2 DEF Somewhere, Past
  <2> QED
    BY <1>1, <1>3, <2>1, <2>2, <2>3 DEF Fate
<1>5. expired' # <<>> => Handling'
  BY <1>1 DEF LifeInv, Handling
<1> QED
  BY <1>1, <1>2, <1>4, <1>5 DEF LifeInv

(* The queue becomes the batch. *)
LEMMA BatchLives ==
    ASSUME IInv, LifeInv, BeginPendingFunctors
    PROVE  LifeInv'
<1>1. /\ pc = "dispatch" /\ pc' = "functors"
      /\ batch' = queued /\ queued' = <<>>
      /\ UNCHANGED <<timers, expired, todo, made, runs, interval>>
  BY DEF BeginPendingFunctors, timerVars, handling
<1>2. expired = <<>> /\ batch = <<>>
  BY <1>1 DEF LifeInv, Handling
<1>3. ToSet(batch) = {} /\ ToSet(queued') = {} /\ Distinct(queued')
  BY <1>1, <1>2, ElementsEmpty
<1>4. \A t \in Timers : Repeats(t)' <=> Repeats(t)
  BY <1>1 DEF Repeats
<1>5. ASSUME NEW t \in Timers
      PROVE  Apart(t)' /\ Fate(t)'
  <2>1. Apart(t) /\ Fate(t)
    BY DEF LifeInv
  <2>2. Apart(t)'
    BY <1>1, <1>3, <2>1 DEF Apart
  <2>3. (Somewhere(t)' <=> Somewhere(t)) /\ (Past(t)' <=> Past(t))
    BY <1>1, <1>3 DEF Somewhere, Past
  <2> QED
    BY <1>1, <1>4, <2>1, <2>2, <2>3 DEF Fate
<1> QED
  BY <1>1, <1>2, <1>3, <1>5 DEF LifeInv

(* Every step keeps every timer's fate. *)
LEMMA LivingStep ==
    ASSUME IInv, LivingInv, [Next]_vars
    PROVE  LivingInv'
<1> SUFFICES ASSUME pc' # "destroyed" PROVE LifeInv'
  BY DEF LivingInv
<1> USE DEF vars, timerVars, fdVars, handling
<1>1. pc # "destroyed"
  <2>1. CASE UserStep
    <3>1. pc' = pc \/ pc = "stopped" \/ pc = "poll"
      BY <2>1 DEF UserStep, RunAt, RunAfter, RunEvery, AddTimer, AddTimerOwner, AddTimerThread,
           StartLoop, LeaveLoop, Destroy
    <3> QED
      BY <3>1
  <2> QED
    BY <2>1 DEF Next, LoopStep, Poll, GetExpired, RunTimer, CallbackReturns, ResetTimers,
         BeginPendingFunctors, RunAddTimer, EndPendingFunctors, Tick, SetClock
<1>2. LifeInv
  BY <1>1 DEF LivingInv
<1>3. CASE \/ StartLoop \/ LeaveLoop \/ Poll \/ CallbackReturns \/ EndPendingFunctors \/ Tick
           \/ (\E by \in Jumps : SetClock(by)) \/ UNCHANGED vars
  <2>1. UNCHANGED <<timers, expired, todo, queued, batch, made, runs, interval>>
    BY <1>3 DEF StartLoop, LeaveLoop, Poll, CallbackReturns, EndPendingFunctors, Tick, SetClock
  <2>2. expired # <<>> => Handling'
    BY <1>2, <1>3 DEF StartLoop, LeaveLoop, Poll, CallbackReturns, EndPendingFunctors, Tick,
         SetClock, LifeInv, Handling
  <2>3. batch # <<>> => pc' = "functors"
    BY <1>2, <1>3 DEF StartLoop, LeaveLoop, Poll, CallbackReturns, EndPendingFunctors, Tick,
         SetClock, LifeInv
  <2> QED
    BY <1>2, <2>1, <2>2, <2>3, NobodyMoves
<1>4. CASE UserStep
  <2>1. 0 \in Int /\ \A s \in Seconds : s \in Int /\ AddTime(0, s) \in Int
    BY TruncType, TimesAssumption DEF AddTime, TimesAssumption
  <2>2. Delays \subseteq Int
    BY TimesAssumption DEF TimesAssumption
  <2>3. ~Destroy
    BY DEF Destroy
  <2> QED
    BY <1>1, <1>3, <1>4, <2>1, <2>2, <2>3, NewTimerLives
       DEF UserStep, RunAt, RunAfter, RunEvery, GetNowTimestamp
<1> QED
  BY <1>2, <1>3, <1>4, GetExpiredLives, RunTimerLives, ResetTimersLives, RunAddTimerLives,
     BatchLives DEF Next, LoopStep

LEMMA LifeInvariance == Spec => []LivingInv
<1>1. Init => LivingInv
  <2> SUFFICES ASSUME Init PROVE LifeInv
    BY DEF LivingInv
  <2>1. /\ expired = <<>> /\ todo = <<>> /\ queued = <<>> /\ batch = <<>>
        /\ timers = {} /\ made = {} /\ \A t \in Timers : runs[t] = 0
    BY DEF Init
  <2>2. ToSet(expired) = {} /\ ToSet(queued) = {} /\ ToSet(batch) = {} /\ Distinct(<<>>)
    BY <2>1, ElementsEmpty
  <2> QED
    BY <2>1, <2>2 DEF LifeInv, Apart, Fate
<1>2. IInv /\ LivingInv /\ [Next]_vars => LivingInv'
  BY LivingStep
<1> QED
  BY <1>1, <1>2, Invariance, PTL DEF Spec

(* Every timer is in exactly one place from its construction to its deletion: a
   one-shot timer runs once and is deleted after its callback, a repeating one
   is never lost, with any number of timers added from anywhere
   (CTimerQueue.cpp:93-172). *)
THEOREM TimersOwnedOnce == Spec => []OwnedOnce
<1>1. IInv /\ LivingInv => OwnedOnce
  BY LivesOnce
<1> QED
  BY <1>1, Invariance, LifeInvariance, PTL
-----------------------------------------------------------------------------
(* The timer service: the callbacks of one __HandleRead are in order of the
   expirations, which nobody changes while they run, and ~CTimerQueue comes
   between two of them. *)
InOrder == \A i, j \in DOMAIN todo : i < j => due[todo[i]] <= due[todo[j]]

TurnInv ==
    /\ pc = "destroyed" => expired = <<>>
    /\ InOrder

ServiceInv == IInv /\ LivingInv /\ TurnInv

(* What is to run is not moved by the clocks or by new timers. *)
LEMMA TodoIsApart ==
    ASSUME ServiceInv, NEW i \in DOMAIN todo
    PROVE  /\ todo[i] \in Timers /\ todo[i] \in made
           /\ todo[i] \in ToSet(todo) /\ todo[i] \in ToSet(expired)
           /\ todo[i] \notin Pending
<1>1. todo[i] \in ToSet(todo)
  BY DEF ToSet
<1>2. todo[i] \in ToSet(expired) /\ todo[i] \in made /\ todo[i] \in Timers
  BY <1>1, LifeTypes DEF ServiceInv, IInv, TypeOK
<1>3. pc # "destroyed" => todo[i] \notin Pending
  BY <1>2 DEF ServiceInv, LivingInv, LifeInv, Apart, Pending
<1>4. pc = "destroyed" => Pending = {}
  BY DEF Pending
<1> QED
  BY <1>1, <1>2, <1>3, <1>4

LEMMA SameOrder ==
    ASSUME InOrder, todo' = todo, \A i \in DOMAIN todo : due'[todo[i]] = due[todo[i]]
    PROVE  InOrder'
BY DEF InOrder

LEMMA TailInOrder ==
    ASSUME InOrder, todo \in Seq(Timers), todo # <<>>, todo' = Tail(todo), due' = due
    PROVE  InOrder'
<1> DEFINE n == Len(todo)
           u == Tail(todo)
<1>1. /\ n \in Nat /\ n > 0 /\ DOMAIN todo = 1..n /\ DOMAIN u = 1..n - 1
      /\ \A i \in 1..n - 1 : u[i] = todo[i + 1]
  OBVIOUS
<1> HIDE DEF n, u
<1>2. ASSUME NEW i \in 1..n - 1, NEW j \in 1..n - 1, i < j
      PROVE  due[u[i]] <= due[u[j]]
  <2>1. i + 1 \in 1..n /\ j + 1 \in 1..n /\ i + 1 < j + 1
    BY <1>1, <1>2
  <2> QED
    BY <1>1, <2>1 DEF InOrder
<1> QED
  BY <1>1, <1>2 DEF InOrder, u

LEMMA ClockKeepsOrder ==
    ASSUME ServiceInv, NEW by, WallClock(by), todo' = todo
    PROVE  InOrder'
<1>1. \A i \in DOMAIN todo : due'[todo[i]] = due[todo[i]]
  BY TodoIsApart DEF WallClock
<1> QED
  BY <1>1, SameOrder DEF ServiceInv, TurnInv

LEMMA NewTimerKeepsOrder ==
    ASSUME ServiceInv, NEW t \in Timers, NEW d \in Int, NEW i \in Int, AddTimer(t, d, i)
    PROVE  InOrder'
<1>1. t \notin made /\ due' = [due EXCEPT ![t] = d] /\ todo' = todo
  BY DEF AddTimer, AddTimerOwner, AddTimerThread, NewTimer, handling
<1>2. \A j \in DOMAIN todo : due'[todo[j]] = due[todo[j]]
  BY <1>1, TodoIsApart DEF ServiceInv, IInv, TypeOK
<1> QED
  BY <1>1, <1>2, SameOrder DEF ServiceInv, TurnInv

LEMMA TurnStep ==
    ASSUME ServiceInv, [Next]_vars
    PROVE  TurnInv'
<1> USE DEF vars, timerVars, fdVars, handling
<1>1. pc' = "destroyed" => expired' = <<>>
  <2>1. CASE pc = "destroyed"
    <3>1. expired = <<>>
      BY <2>1 DEF ServiceInv, TurnInv
    <3> QED
      BY <2>1, <3>1 DEF Next, LoopStep, UserStep, StartLoop, LeaveLoop, Destroy, RunAt, RunAfter,
           RunEvery, AddTimer, AddTimerOwner, AddTimerThread, UserCode, Poll, GetExpired, RunTimer,
           CallbackReturns, ResetTimers, BeginPendingFunctors, RunAddTimer, EndPendingFunctors,
           Tick, SetClock
  <2>2. CASE pc # "destroyed" /\ pc' = "destroyed"
    <3>1. Destroy
      BY <2>2 DEF Next, LoopStep, UserStep, StartLoop, LeaveLoop, RunAt, RunAfter,
           RunEvery, AddTimer, AddTimerOwner, AddTimerThread, Poll, GetExpired, RunTimer,
           CallbackReturns, ResetTimers, BeginPendingFunctors, RunAddTimer, EndPendingFunctors,
           Tick, SetClock
    <3>2. ~Handling /\ LifeInv
      BY <2>2, <3>1 DEF Destroy, Handling, ServiceInv, LivingInv
    <3> QED
      BY <3>1, <3>2 DEF Destroy, LifeInv
  <2> QED
    BY <2>1, <2>2
<1>2. InOrder'
  <2>1. CASE \/ StartLoop \/ LeaveLoop \/ Destroy \/ Poll \/ CallbackReturns
             \/ BeginPendingFunctors \/ EndPendingFunctors \/ RunAddTimer \/ UNCHANGED vars
    <3>1. todo' = todo /\ due' = due
      BY <2>1 DEF StartLoop, LeaveLoop, Destroy, Poll, CallbackReturns,
           BeginPendingFunctors, EndPendingFunctors, RunAddTimer
    <3> QED
      BY <3>1, SameOrder DEF ServiceInv, TurnInv
  <2>2. CASE UserStep
    <3>1. 0 \in Int /\ \A s \in Seconds : s \in Int /\ AddTime(0, s) \in Int
      BY TruncType DEF AddTime
    <3> QED
      BY <2>1, <2>2, <3>1, NewTimerKeepsOrder
         DEF UserStep, RunAt, RunAfter, RunEvery, GetNowTimestamp
  <2>3. CASE GetExpired
    <3>1. PICK S : todo' \in Sorted(S) /\ due' = due
      BY <2>3 DEF GetExpired
    <3> QED
      BY <3>1 DEF Sorted, InOrder
  <2>4. CASE RunTimer
    BY <2>4, TailInOrder, LifeTypes DEF RunTimer, ServiceInv, TurnInv
  <2>5. CASE ResetTimers
    BY <2>5 DEF ResetTimers, InOrder
  <2>6. CASE Tick \/ \E by \in Jumps : SetClock(by)
    BY <2>6, ClockKeepsOrder DEF Tick, SetClock
  <2> QED
    BY <2>1, <2>2, <2>3, <2>4, <2>5, <2>6 DEF Next, LoopStep
<1> QED
  BY <1>1, <1>2 DEF TurnInv

(* What the stages of the timers say of their places. *)
LEMMA StageOf ==
    ASSUME ServiceInv, NEW t \in Timers
    PROVE  /\ Stage[t] = "unused" <=> t \notin made
           /\ Stage[t] = "waiting" <=> t \in Pending
           /\ Stage[t] = "expired" <=> t \in ToSet(todo)
           /\ Stage[t] \in {"expired", "run"} <=> t \in ToSet(expired)
<1>1. t \in Pending \/ t \in ToSet(expired) => t \in made
  BY LifeTypes DEF ServiceInv, IInv, InUse, Pending, ToSet
<1>2. t \in ToSet(todo) => t \in ToSet(expired)
  BY LifeTypes DEF ServiceInv
<1>3. ~(t \in Pending /\ t \in ToSet(expired))
  BY DEF ServiceInv, LivingInv, LifeInv, Apart, Pending
<1> QED
  BY <1>1, <1>2, <1>3 DEF Stage

(* The timers found are those of vExpired. *)
LEMMA FoundAre ==
    ASSUME ServiceInv
    PROVE  /\ Service!Found = ToSet(expired)
           /\ expired = <<>> <=> ToSet(expired) = {}
           /\ ToSet(expired) \subseteq Timers
<1>1. ToSet(expired) \subseteq Timers
  BY LifeTypes DEF ServiceInv, IInv, TypeOK
<1>2. Service!Found = ToSet(expired)
  BY <1>1, StageOf DEF Service!Found
<1>3. expired # <<>> => ToSet(expired) # {}
  <2>1. expired \in Seq(made)
    BY DEF ServiceInv, IInv, InUse
  <2>2. expired # <<>> => Head(expired) \in ToSet(expired)
    <3> SUFFICES ASSUME expired # <<>> PROVE Head(expired) \in ToSet(expired)
      OBVIOUS
    <3>1. 1 \in DOMAIN expired /\ Head(expired) = expired[1]
      BY <2>1
    <3> QED
      BY <3>1 DEF ToSet
  <2> QED
    BY <2>2
<1> QED
  BY <1>1, <1>2, <1>3, ElementsEmpty

(* A step in which no timer changes place, as its users see it. *)
LEMMA StageStays ==
    ASSUME UNCHANGED <<expired, todo, made>>, Pending' = Pending
    PROVE  Stage' = Stage
BY DEF Stage

(* RunAt, RunAfter and RunEvery, from whichever thread, are Add. *)
LEMMA AddServes ==
    ASSUME ServiceInv, NEW t \in Timers, NEW d \in Int, NEW i \in Int, AddTimer(t, d, i)
    PROVE  Service!Add(t, d, i)
<1>1. /\ t \notin made /\ made' = made \cup {t}
      /\ due' = [due EXCEPT ![t] = d]
      /\ interval' = [interval EXCEPT ![t] = i]
      /\ pc # "destroyed"
      /\ UNCHANGED <<pc, expired, todo, now>>
  BY DEF AddTimer, AddTimerOwner, AddTimerThread, NewTimer, handling, UserCode
<1>2. \/ timers' = timers \cup {t} /\ queued' = queued /\ batch' = batch
      \/ timers' = timers /\ queued' = Append(queued, t) /\ batch' = batch
  BY DEF AddTimer, AddTimerOwner, AddTimerThread, AddTimerInLoop
<1>3. ToSet(Append(queued, t)) = ToSet(queued) \cup {t}
  BY LifeTypes, ElementsAppend DEF ServiceInv
<1>4. Pending' = Pending \cup {t}
  BY <1>1, <1>2, <1>3 DEF Pending
<1>5. Stage[t] = "unused" /\ t \notin ToSet(todo) /\ t \notin ToSet(expired)
  BY <1>1, StageOf, LifeTypes DEF ServiceInv
<1>6. Stage' = [Stage EXCEPT ![t] = "waiting"]
  <2>1. \A u \in Timers : Stage'[u] = IF u = t THEN "waiting" ELSE Stage[u]
    BY <1>1, <1>4, <1>5 DEF Stage
  <2>2. /\ DOMAIN Stage = Timers /\ DOMAIN Stage' = Timers
        /\ Stage' = [u \in Timers |-> Stage'[u]]
    BY DEF Stage
  <2> HIDE DEF Stage
  <2> QED
    BY <2>1, <2>2
<1> QED
  BY <1>1, <1>5, <1>6 DEF Service!Add, Since, Open

(* __GetExpired finds the timers that it takes out of the set. *)
LEMMA GetExpiredServes ==
    ASSUME ServiceInv, GetExpired
    PROVE  \E set \in SUBSET Timers : Service!Find(set)
<1> DEFINE S == {t \in timers : due[t] <= 0}
<1>1. /\ pc = "dispatch" /\ pc' = "expired"
      /\ timers' = timers \ S
      /\ expired' \in Sorted(S) /\ todo' = expired'
      /\ now' = 0
      /\ UNCHANGED <<due, interval, queued, batch, made>>
  BY DEF GetExpired, GetNowTimestamp
<1>2. S \in SUBSET timers /\ S \in SUBSET Timers /\ \A t \in S : due[t] <= 0
  BY DEF ServiceInv, IInv, TypeOK
<1> HIDE DEF S
<1>3. ToSet(expired') = S /\ ToSet(todo') = S
  BY <1>1, <1>2, SortedElements
<1>4. LifeInv
  BY <1>1 DEF ServiceInv, LivingInv
<1>5. expired = <<>> /\ batch = <<>>
  BY <1>1, <1>4 DEF LifeInv, Handling
<1>6. ToSet(expired) = {} /\ ToSet(todo) = {}
  BY <1>5, ElementsEmpty, LifeTypes DEF ServiceInv
<1>7. S \subseteq Pending
  BY <1>1, <1>2 DEF Pending
<1>8. \A t \in Timers : t \in Pending' \/ t \in S <=> t \in Pending
  BY <1>1, <1>2 DEF Pending
<1>9. Stage' = [t \in Timers |-> IF t \in S THEN "expired" ELSE Stage[t]]
  BY <1>1, <1>3, <1>6, <1>8 DEF Stage
<1>10. Service!Found = {} /\ \A t \in S : Stage[t] = "waiting"
  BY <1>2, <1>6, <1>7, FoundAre, StageOf
<1>11. Since = 0 /\ Since' = 0 /\ Open' = Open
  BY <1>1, <1>5 DEF Since, Open
<1>12. Service!Find(S)
  BY <1>1, <1>2, <1>9, <1>10, <1>11 DEF Service!Find
<1> QED
  BY <1>2, <1>12

(* The next callback is that of the earliest timer which is still to run. *)
LEMMA RunTimerServes ==
    ASSUME ServiceInv, RunTimer
    PROVE  \E t \in Timers : Service!Run(t)
<1> DEFINE h == Head(todo)
<1>1. /\ pc = "expired" /\ pc' = "callback"
      /\ todo # <<>> /\ todo' = Tail(todo)
      /\ UNCHANGED <<timers, due, interval, expired, now, queued, batch, made>>
  BY DEF RunTimer, timerVars
<1>2. LifeInv /\ todo \in Seq(Timers)
  BY <1>1, LifeTypes DEF ServiceInv, LivingInv
<1>3. /\ h \in Timers /\ h \in ToSet(todo)
      /\ ToSet(todo') = ToSet(todo) \ {h}
  BY <1>1, <1>2, ElementsTail DEF LifeInv
<1>4. h = todo[1] /\ 1 \in DOMAIN todo /\ \A i \in DOMAIN todo : i = 1 \/ 1 < i
  BY <1>1, <1>2
<1>5. \A u \in ToSet(todo) : due[h] <= due[u]
  <2> SUFFICES ASSUME NEW i \in DOMAIN todo PROVE due[h] <= due[todo[i]]
    BY DEF ToSet
  <2>1. CASE i = 1
    <3>1. due[h] \in Int
      BY <1>3 DEF ServiceInv, IInv, TypeOK
    <3> QED
      BY <1>4, <2>1, <3>1
  <2>2. CASE 1 < i
    BY <1>4, <2>2 DEF ServiceInv, TurnInv, InOrder
  <2> QED
    BY <1>4, <2>1, <2>2
<1> HIDE DEF h
<1>6. Stage[h] = "expired" /\ h \in ToSet(expired)
  BY <1>3, StageOf
<1>7. Pending' = Pending
  BY <1>1 DEF Pending
<1>8. Stage' = [Stage EXCEPT ![h] = "run"]
  <2>1. \A u \in Timers : Stage'[u] = IF u = h THEN "run" ELSE Stage[u]
    BY <1>1, <1>3, <1>6, <1>7 DEF Stage
  <2>2. /\ DOMAIN Stage = Timers /\ DOMAIN Stage' = Timers
        /\ Stage' = [u \in Timers |-> Stage'[u]]
    BY DEF Stage
  <2> HIDE DEF Stage
  <2> QED
    BY <2>1, <2>2
<1>9. \A u \in Timers : Stage[u] = "expired" => due[h] <= due[u]
  BY <1>5, StageOf
<1>10. Since' = Since /\ Open' = Open
  BY <1>1 DEF Since, Open
<1>11. Service!Run(h)
  BY <1>1, <1>6, <1>8, <1>9, <1>10 DEF Service!Run
<1> QED
  BY <1>3, <1>11

(* __ResetTimers settles them all. *)
LEMMA ResetTimersServes ==
    ASSUME ServiceInv, ResetTimers
    PROVE  Service!Settle
<1> DEFINE again == {t \in ToSet(expired) : Repeats(t)}
<1>1. /\ pc = "expired" /\ pc' = "dispatch" /\ todo = <<>> /\ todo' = <<>> /\ expired' = <<>>
      /\ timers' = timers \cup again
      /\ due' = [t \in Timers |-> IF t \in again THEN Restarted(t) ELSE due[t]]
      /\ UNCHANGED <<queued, batch, made, interval>>
  BY DEF ResetTimers
<1>2. ToSet(todo) = {} /\ ToSet(todo') = {} /\ ToSet(expired') = {}
  BY <1>1, ElementsEmpty
<1>3. again = {t \in Service!Found : interval[t] > 0} /\ Service!Found = ToSet(expired)
  BY FoundAre DEF Repeats
<1>4. ToSet(expired) \subseteq made /\ ToSet(expired) \subseteq Timers
  BY LifeTypes, FoundAre DEF ServiceInv
<1>5. \A t \in again : Restarted(t) = Service!Late(Service!AddTime(Since, interval[t]))
  <2> SUFFICES ASSUME NEW t \in again
               PROVE  Restarted(t) = Service!Late(Service!AddTime(Since, interval[t]))
    OBVIOUS
  <2>1. expired # <<>>
    BY FoundAre
  <2> QED
    BY <2>1 DEF Since, Restarted, Saturated, AtLeast, AddTime, Trunc,
         Service!Late, Service!AtLeast, Service!AddTime, Service!Trunc
<1>6. \A t \in Timers : Stage[t] # "expired"
  BY <1>2, StageOf
<1>7. Pending' = Pending \cup again
  BY <1>1 DEF Pending
<1>8. \A t \in ToSet(expired) : t \notin Pending
  BY <1>4, StageOf
<1> HIDE DEF again
<1>9. Stage' = [t \in Timers |-> IF t \in again THEN "waiting"
                                 ELSE IF t \in ToSet(expired) THEN "over" ELSE Stage[t]]
  <2>1. again \subseteq ToSet(expired)
    BY <1>3
  <2>2. \A t \in Timers : Stage'[t] = IF t \in again THEN "waiting"
                                     ELSE IF t \in ToSet(expired) THEN "over" ELSE Stage[t]
    BY <1>1, <1>2, <1>4, <1>7, <1>8, <2>1 DEF Stage
  <2>3. Stage' = [t \in Timers |-> Stage'[t]]
    BY DEF Stage
  <2> HIDE DEF Stage
  <2> QED
    BY <2>2, <2>3
<1>10. due' = [t \in Timers |-> IF t \in again
                                THEN Service!Late(Service!AddTime(Since, interval[t]))
                                ELSE due[t]]
  BY <1>1, <1>5
<1>11. Since' = 0 /\ Open' = Open
  BY <1>1 DEF Since, Open
<1>12. /\ \A t \in Service!Found : Stage[t] = "run"
       /\ UNCHANGED <<interval, Open>> /\ Since' = 0
  <2>1. \A t \in ToSet(expired) : Stage[t] \in {"expired", "run"}
    BY <1>4, StageOf
  <2> QED
    BY <1>1, <1>3, <1>4, <1>6, <1>11, <2>1
<1> QED
  BY <1>3, <1>9, <1>10, <1>12, Zenon DEF Service!Settle

(* The clocks move what waits, and how long ago the expired were found. *)
LEMMA ClockServes ==
    ASSUME ServiceInv, NEW by \in Jumps \cup {1}, WallClock(by),
           UNCHANGED <<timers, interval, pc, expired, todo, queued, batch, made>>
    PROVE  Service!Clock(by)
<1>1. Pending' = Pending /\ Stage' = Stage
  BY StageStays DEF Pending
<1>2. \A t \in Timers : t \in Pending <=> Stage[t] = "waiting"
  BY StageOf
<1>3. \A d : Saturated(d) = Service!Late(d)
  BY DEF Saturated, AtLeast, Service!Late, Service!AtLeast
<1>4. due' = [t \in Timers |-> IF Stage[t] = "waiting" THEN Service!Late(due[t] - by) ELSE due[t]]
  BY <1>2, <1>3 DEF WallClock
<1>5. Since' = IF Service!Found = {} THEN 0 ELSE Service!AtLeast(-2 * MaxLate, Since - by)
  <2>1. CASE expired = <<>>
    BY <2>1, FoundAre DEF Since
  <2>2. CASE expired # <<>>
    <3>1. pc # "destroyed" /\ Handling
      BY <2>2 DEF ServiceInv, TurnInv, LivingInv, LifeInv
    <3>2. now' = AtLeast(-2 * MaxLate, now - by) /\ Since = now /\ Since' = now'
      BY <2>2, <3>1 DEF WallClock, Handling, Since
    <3> QED
      BY <2>2, <3>2, FoundAre DEF AtLeast, Service!AtLeast
  <2> QED
    BY <2>1, <2>2
<1> QED
  BY <1>1, <1>4, <1>5 DEF Service!Clock, Open

(* ~CTimerQueue ends what waits, in the set or on its way to it. *)
LEMMA DestroyServes ==
    ASSUME ServiceInv, Destroy
    PROVE  Service!Close
<1>1. /\ pc = "stopped" /\ pc' = "destroyed"
      /\ UNCHANGED <<due, interval, expired, todo, now, made>>
  BY DEF Destroy, handling
<1>2. expired = <<>>
  BY <1>1 DEF ServiceInv, LivingInv, LifeInv, Handling
<1>3. ToSet(expired) = {} /\ ToSet(todo) = {}
  BY <1>2, ElementsEmpty, LifeTypes DEF ServiceInv
<1>4. Pending' = {}
  BY <1>1 DEF Pending
<1>5. \A t \in Timers : t \in Pending => t \in made
  BY StageOf
<1>6. Stage' = [t \in Timers |-> IF Stage[t] = "waiting" THEN "over" ELSE Stage[t]]
  <2>1. \A t \in Timers : Stage'[t] = IF Stage[t] = "waiting" THEN "over" ELSE Stage[t]
    BY <1>1, <1>3, <1>4, <1>5 DEF Stage
  <2>2. Stage' = [t \in Timers |-> Stage'[t]]
    BY DEF Stage
  <2> HIDE DEF Stage
  <2> QED
    BY <2>1, <2>2
<1>7. Since' = Since /\ Open' = FALSE
  BY <1>1 DEF Since, Open
<1> QED
  BY <1>1, <1>3, <1>6, <1>7, FoundAre DEF Service!Close

(* All other steps move timers between places that users do not tell apart,
   or set the timerfd. *)
LEMMA OthersAreHidden ==
    ASSUME ServiceInv,
           \/ StartLoop \/ LeaveLoop \/ Poll \/ CallbackReturns
           \/ BeginPendingFunctors \/ RunAddTimer \/ EndPendingFunctors \/ UNCHANGED vars
    PROVE  UNCHANGED <<Stage, due, interval, Since, Open>>
<1> USE DEF vars, timerVars, fdVars, handling
<1>1. /\ UNCHANGED <<expired, todo, now, made, due, interval>>
      /\ \/ pc # "destroyed" /\ pc' # "destroyed"
         \/ pc' = pc
  BY DEF StartLoop, LeaveLoop, Poll, CallbackReturns, BeginPendingFunctors, RunAddTimer,
       EndPendingFunctors
<1>2. Pending' = Pending
  <2>1. CASE BeginPendingFunctors
    <3>1. batch = <<>> /\ queued' = <<>> /\ batch' = queued /\ timers' = timers
      BY <2>1 DEF BeginPendingFunctors, ServiceInv, LivingInv, LifeInv
    <3> QED
      BY <1>1, <2>1, <3>1 DEF BeginPendingFunctors, Pending
  <2>2. CASE RunAddTimer
    <3>1. pc = "functors" /\ pc' = "functors" /\ queued' = queued
          /\ batch # <<>> /\ batch' = Tail(batch) /\ timers' = timers \cup {Head(batch)}
      BY <2>2 DEF RunAddTimer, AddTimerInLoop
    <3>2. Head(batch) \in ToSet(batch) /\ ToSet(batch') = ToSet(batch) \ {Head(batch)}
      BY <3>1, LifeTypes, ElementsTail DEF ServiceInv, LivingInv, LifeInv
    <3> QED
      BY <3>1, <3>2 DEF Pending
  <2> QED
    BY <1>1, <2>1, <2>2
       DEF StartLoop, LeaveLoop, Poll, CallbackReturns, EndPendingFunctors, Pending
<1> QED
  BY <1>1, <1>2, StageStays DEF Since, Open

(* The timer queue is a timer service: none of its callbacks is early, run
   twice or out of turn, and a repeating timer counts its interval from the
   time at which it was found expired, for any timers, delays, intervals and
   settings of the clock (CTimerQueue.cpp:93-172). *)
THEOREM TimerServiceImplemented == Spec => ImplementsTimerService
<1>1. ASSUME Init
      PROVE  Service!Init
  <2>1. /\ expired = <<>> /\ todo = <<>> /\ queued = <<>> /\ batch = <<>>
        /\ timers = {} /\ made = {} /\ pc = "stopped"
        /\ due = [t \in Timers |-> 0] /\ interval = [t \in Timers |-> 0]
    BY <1>1 DEF Init
  <2>2. Pending = {} /\ ToSet(todo) = {} /\ ToSet(expired) = {}
    BY <2>1, ElementsEmpty DEF Pending
  <2>3. Stage = [t \in Timers |-> "unused"]
    BY <2>1, <2>2 DEF Stage
  <2> QED
    BY <2>1, <2>3 DEF Service!Init, Since, Open
<1>2. ASSUME ServiceInv, [Next]_vars
      PROVE  [Service!Next]_Service!vars
  <2>1. CASE \E t \in Timers, d \in Delays : RunAt(t, d)
    BY <1>2, <2>1, AddServes DEF RunAt, Service!Next
  <2>2. CASE \E t \in Timers, s \in Seconds : RunAfter(t, s) \/ RunEvery(t, s)
    <3>1. PICK t \in Timers, s \in Seconds : RunAfter(t, s) \/ RunEvery(t, s)
      BY <2>2
    <3>2. s \in Int /\ AddTime(0, s) \in Int /\ 0 \in Int /\ AddTime(0, s) = Service!AddTime(0, s)
      BY TruncType DEF AddTime, Trunc, Service!AddTime, Service!Trunc
    <3>3. Service!Add(t, AddTime(0, s), 0) \/ Service!Add(t, AddTime(0, s), s)
      BY <1>2, <3>1, <3>2, AddServes DEF RunAfter, RunEvery, RunAt, GetNowTimestamp
    <3> QED
      BY <3>2, <3>3 DEF Service!Next
  <2>3. CASE GetExpired
    BY <1>2, <2>3, GetExpiredServes DEF Service!Next
  <2>4. CASE RunTimer
    BY <1>2, <2>4, RunTimerServes DEF Service!Next
  <2>5. CASE ResetTimers
    BY <1>2, <2>5, ResetTimersServes DEF Service!Next
  <2>6. CASE Tick \/ \E by \in Jumps : SetClock(by)
    <3>1. \E by \in Jumps \cup {1} : Service!Clock(by)
      BY <1>2, <2>6, ClockServes DEF Tick, SetClock
    <3> QED
      BY <3>1 DEF Service!Next
  <2>7. CASE Destroy
    BY <1>2, <2>7, DestroyServes DEF Service!Next
  <2>8. CASE \/ StartLoop \/ LeaveLoop \/ Poll \/ CallbackReturns
             \/ BeginPendingFunctors \/ RunAddTimer \/ EndPendingFunctors \/ UNCHANGED vars
    BY <1>2, <2>8, OthersAreHidden DEF Service!vars
  <2> QED
    BY <1>2, <2>1, <2>2, <2>3, <2>4, <2>5, <2>6, <2>7, <2>8 DEF Next, LoopStep, UserStep
<1>3. Init => TurnInv
  BY DEF Init, TurnInv, InOrder
<1>4. IInv /\ LivingInv /\ TurnInv /\ [Next]_vars => TurnInv'
  BY TurnStep DEF ServiceInv
<1>5. IInv /\ LivingInv /\ TurnInv => ServiceInv
  BY DEF ServiceInv
<1> QED
  BY <1>1, <1>2, <1>3, <1>4, <1>5, Invariance, LifeInvariance, PTL
     DEF Spec, ImplementsTimerService, Service!Spec
=============================================================================
