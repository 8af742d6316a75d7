-------------------------- MODULE TimerQueueProps ---------------------------
(* The properties of TimerQueue. *)
EXTENDS TimerQueue

Places == {"stopped", "poll", "dispatch", "expired", "callback", "functors", "destroyed"}

(* Every variable has its type; only the timers of vExpired have callbacks
   to run. *)
TypeOK ==
    /\ timers \subseteq Timers
    /\ due \in [Timers -> Int]
    /\ interval \in [Timers -> Int]
    /\ fd \in Nat
    /\ readable \in BOOLEAN
    /\ pc \in Places
    /\ reported \in BOOLEAN
    /\ expired \in Seq(Timers)
    /\ todo \in Seq(Timers) /\ ToSet(todo) \subseteq ToSet(expired)
    /\ now \in Int
    /\ queued \in Seq(Timers)
    /\ batch \in Seq(Timers)
    /\ made \subseteq Timers
    /\ runs \in [Timers -> 0..2]
    /\ jumps \in 0..MaxJumps

Handling == pc \in {"expired", "callback"}

(* Outside __HandleRead the timerfd always stands for the earliest timer: it
   is about to be handled, or it is armed and, unless the wall clock was set
   meanwhile, goes off when that timer expires or MinDelay from now.  The one
   timerfd is set by whichever timer happens to be first, from callbacks of
   the same poll, of timers and from functors, and each setting forgets an
   expiration not yet read (CTimerQueue.cpp:100-122, 151-172). *)
ArmedForEarliest ==
    (~Handling /\ timers # {}) =>
        \/ readable \/ reported
        \/ fd > 0 /\ (jumps = 0 => \A t \in timers : fd <= AtLeast(MinDelay, due[t]))

Occurs(t, s) == Cardinality({i \in DOMAIN s : s[i] = t})

(* Every timer is in exactly one place from its construction to its deletion:
   in the functor that adds it, in the set or in vExpired.  A one-shot timer
   has run exactly when it is past its callback, and it is deleted then and
   never before; a repeating one is never lost (CTimerQueue.cpp:93-172). *)
OwnedOnce ==
    pc # "destroyed" => \A t \in Timers :
        LET places == Cardinality(timers \cap {t}) + Occurs(t, expired)
                          + Occurs(t, queued) + Occurs(t, batch)
            past == t \in ToSet(expired) /\ t \notin ToSet(todo)
        IN IF t \notin made THEN places = 0 /\ runs[t] = 0
           ELSE IF Repeats(t) THEN places = 1 /\ (past => runs[t] > 0)
           ELSE /\ places = IF runs[t] = 0 \/ past THEN 1 ELSE 0
                /\ runs[t] = IF places = 0 \/ past THEN 1 ELSE 0

Looping == pc \notin {"stopped", "destroyed"}

(* Every timer runs unless the loop is stopped first, whoever adds it, to a
   loop that runs or runs again, and however the wall clock is set meanwhile
   (CEventLoop.cpp:140-156). *)
EveryTimerRuns ==
    \A t \in Timers : (t \in made /\ Looping) ~> (runs[t] > 0 \/ ~Looping)

(* A repeating timer runs again and again: the lateness of one run, new
   timers, a clock that is set and an interval too short for a CTimestamp to
   tell apart do not end it (CTimer.cpp:29-39). *)
RepeatsForever ==
    \A t \in Timers :
        (Repeats(t) /\ Looping) ~> (t \in ToSet(expired) \/ ~Looping)
-----------------------------------------------------------------------------
(* What users see of a timer: where it is matters only while it is handled. *)
Stage ==
    [t \in Timers |->
        IF t \in ToSet(todo) THEN "expired"
        ELSE IF t \in ToSet(expired) THEN "run"
        ELSE IF t \in Pending THEN "waiting"
        ELSE IF t \in made THEN "over" ELSE "unused"]

Since == IF expired = <<>> THEN 0 ELSE now

Open == pc # "destroyed"

Service == INSTANCE TimerService WITH stage <- Stage, since <- Since, open <- Open

(* The set, the timerfd and the functors together are a timer service: a
   callback never starts early by the wall clock, timers found expired at one
   time run once each and in the order of their expirations, and a repeating
   one waits again from that time, however long the callbacks take, what they
   add and how the clock is set meanwhile (CTimerQueue.cpp:93-172). *)
ImplementsTimerService == Service!Spec
=============================================================================
