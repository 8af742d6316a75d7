--------------------------- MODULE EventLoopProps ---------------------------
(***************************************************************************)
(* The properties of EventLoop.  A functor queued by the loop thread while *)
(* it is outside StartLoop gets no wakeup from the code (idle functors):   *)
(* only the poll timeout brings it to run, so the properties about prompt  *)
(* wakeups exclude those functors and EveryFunctorRuns includes them.      *)
(***************************************************************************)
EXTENDS EventLoop

(* Every variable has its type, and the eventfd stays within its range. *)
TypeOK ==
    /\ pc \in {"stopped", "while", "poll", "dispatch", "handler", "swap", "drain", "functor"}
    /\ inLooping \in BOOLEAN
    /\ quit \in BOOLEAN
    /\ callingPendingFunctors \in BOOLEAN
    /\ activeChannels \subseteq Channels \cup {WakeupChannel}
    /\ wakeupFd \in 0..EventFdMax
    /\ pendingFunctors \in Seq(Functor)
    /\ functors \in Seq(Functor)
    /\ wpc \in [Threads -> BOOLEAN]
    /\ ready \subseteq Channels
    /\ posted \in 0..MaxFunctors
    /\ ran \in Seq(Functor)

(* The poll is about to be interrupted: the eventfd is readable or some
   thread has its write still to do. *)
WakeupComing == wakeupFd > 0 \/ \E t \in Threads : wpc[t]

(* The loop thread never sleeps in poll(2) on a functor that another thread,
   a channel's callback or another functor queued, unless its wakeup is on
   the way.  QueueInLoop pushes under the mutex but decides about the wakeup
   outside it, __HandleRead consumes wakeups of functors already swapped out,
   and the loop thread itself wakes the loop only while the flag
   callingPendingFunctors is set (CEventLoop.cpp:170-180). *)
NoLostWakeup ==
    (pc = "poll" /\ \E i \in DOMAIN pendingFunctors : ~pendingFunctors[i].idle)
        => WakeupComing

(* A QuitLoop that takes effect after the loop tested m_bQuit still ends the
   poll the loop went into: no thread can stop the loop by writing the flag
   alone (CEventLoop.cpp:112-119). *)
QuitInterruptsPoll == (pc = "poll" /\ quit) => WakeupComing

(* The two vectors and their swap implement one first-in first-out queue:
   no functor is lost, run twice or overtaken, whichever threads queue and
   whenever the swap happens (CEventLoop.cpp:170-175, 202-216). *)
Queue == INSTANCE FunctorQueue
            WITH queue <- functors \o pendingFunctors, ran <- ran
ImplementsFunctorQueue == Queue!Spec

Queued(n) == \E i \in DOMAIN pendingFunctors :
                pendingFunctors[i].id = n /\ ~pendingFunctors[i].idle
Ran(n) == \E i \in DOMAIN ran : ran[i].id = n

(* A functor that another thread, a callback or a functor queued is run
   unless the loop is stopped, without any help from the poll timeout. *)
QueuedFunctorRuns ==
    \A n \in 1..MaxFunctors : Queued(n) ~> (Ran(n) \/ ~inLooping)

(* A QuitLoop made while the loop runs stops it, without the timeout. *)
QuitStopsLoop == (quit /\ inLooping) ~> ~inLooping

(* With the finite poll timeout, every functor still queued while the loop
   runs is run or the loop stops: also the ones queued before StartLoop,
   which nobody announces (CEventLoop.cpp:71-87). *)
EveryFunctorRuns ==
    PollIsFinite =>
        \A n \in 1..MaxFunctors :
            (inLooping /\ \E i \in DOMAIN pendingFunctors : pendingFunctors[i].id = n)
                ~> (Ran(n) \/ ~inLooping)
=============================================================================
