----------------------------- MODULE Timestamp ------------------------------
(***************************************************************************)
(* CTimestamp (base/CTimestamp.h, CTimestamp.cpp), a number of             *)
(* microseconds since the epoch, and HowMuchTimeFromNow of CTimerQueue.cpp, *)
(* which turns one into what timerfd_settime(2) wants.  A double of seconds *)
(* is a whole number of fractions of a microsecond here, so that the ones  *)
(* below a microsecond occur; the 63 bits of a time never run out.         *)
(***************************************************************************)
EXTENDS Integers

CONSTANTS MicroSecondsPerSecond,  (* sm_nMicroSecondsPerSecond *)
          Fraction,               (* fractions of a double in a microsecond *)
          MinDelay                (* the 100 of HowMuchTimeFromNow *)

ASSUME TimestampAssumption ==
    /\ MicroSecondsPerSecond \in Nat \ {0}
    /\ Fraction \in Nat \ {0}
    /\ MinDelay \in Nat \ {0}

AtLeast(low, d) == IF d < low THEN low ELSE d

(* The conversion of a double to an integer drops what follows the point,
   whatever the sign. *)
Trunc(x) == IF x >= 0 THEN x \div Fraction ELSE -((-x) \div Fraction)

(* AddTime of a timestamp and a double of seconds. *)
AddTime(timestamp, seconds) == timestamp + Trunc(seconds)

(* TimeDifference, a double. *)
TimeDifference(high, low) == (high - low) * Fraction

(* Mutant: the seconds are forgotten. *)
SplitMicrosecondsOnly(us) ==
    [tv_sec |-> 0, tv_nsec |-> (us % MicroSecondsPerSecond) * 1000]

Split(us) == [tv_sec  |-> us \div MicroSecondsPerSecond,
              tv_nsec |-> (us % MicroSecondsPerSecond) * 1000]

(* Mutant: the time from now is not held above zero. *)
HowMuchTimeFromNowUnclamped(when, now) == Split(when - now)

(* HowMuchTimeFromNow: a struct timespec. *)
HowMuchTimeFromNow(when, now) == Split(AtLeast(MinDelay, when - now))

(* How long a timerfd set to a timespec counts down, in microseconds. *)
Countdown(ts) == ts.tv_sec * MicroSecondsPerSecond + ts.tv_nsec \div 1000
=============================================================================
