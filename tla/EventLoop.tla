----------------------------- MODULE EventLoop ------------------------------
(***************************************************************************)
(* CEventLoop (net/CEventLoop.cpp): the loop thread that alternates        *)
(* between poll(2), the callbacks of the active channels and the functors  *)
(* other threads queued for it, and the eventfd that interrupts its poll.  *)
(*                                                                         *)
(* The loop thread is the state machine of pc.  Each other thread t is in  *)
(* the middle of at most one QueueInLoop or QuitLoop, between what it has  *)
(* done to the loop's state and its write to the eventfd.  The critical    *)
(* sections of m_iMutex hold nothing but one push_back or one swap, so     *)
(* each is one step.  What a user callback does is free: while one runs    *)
(* (pc = "handler" or "functor") the loop thread may call QueueInLoop and  *)
(* QuitLoop any number of times before it returns.  RunInLoop is           *)
(* QueueInLoop for another thread; for the loop thread it is a plain call, *)
(* so more of the running callback.                                        *)
(***************************************************************************)
EXTENDS Naturals, Sequences

CONSTANTS Threads,       (* the threads other than the loop's own *)
          Channels,      (* the polled channels other than the wakeup channel *)
          WakeupChannel, (* m_unpWakeupChannel *)
          MaxFunctors,   (* bound: functors queued in a behaviour *)
          EventFdMax     (* largest value an eventfd counter holds *)

ASSUME ConstantsAssumption ==
    /\ WakeupChannel \notin Channels
    /\ MaxFunctors \in Nat
    /\ EventFdMax \in Nat \ {0}

VARIABLES
    pc,                      (* where the loop thread is *)
    inLooping,               (* m_bInLooping *)
    quit,                    (* m_bQuit *)
    callingPendingFunctors,  (* m_bCallingPendingFunctors *)
    activeChannels,          (* m_vActiveChannels not yet handled *)
    wakeupFd,                (* counter of the eventfd m_nWakeupFd *)
    pendingFunctors,         (* m_vPendingFunctors *)
    functors,                (* vFunctors of __DoPendingFunctors not yet run *)
    wpc,                     (* wpc[t]: thread t is about to write the eventfd *)
    ready,                   (* channels the kernel would report (environment) *)
    posted,                  (* number of QueueInLoop calls so far (history) *)
    ran                      (* functors started, oldest first (history) *)

loopVars == <<pc, inLooping, quit, callingPendingFunctors, activeChannels>>
queueVars == <<pendingFunctors, functors, posted, ran>>
vars == <<loopVars, wakeupFd, queueVars, wpc, ready>>

(* A queued functor: its rank among the QueueInLoop calls, and whether the
   loop thread queued it while it was not inside StartLoop. *)
Functor == [id : 1..MaxFunctors, idle : BOOLEAN]

(* The places where the loop thread runs user code. *)
UserCode == {"stopped", "handler", "functor"}

(* A new eventfd has nothing to read. *)
CreateEventFd == wakeupFd = 0

Init ==
    /\ pc = "stopped"
    /\ inLooping = FALSE
    /\ quit = FALSE
    /\ callingPendingFunctors = FALSE
    /\ activeChannels = {}
    /\ CreateEventFd
    /\ pendingFunctors = <<>>
    /\ functors = <<>>
    /\ wpc = [t \in Threads |-> FALSE]
    /\ ready = {}
    /\ posted = 0
    /\ ran = <<>>
-----------------------------------------------------------------------------
(* CEventLoop::Wakeup: write(2) of 1 to the nonblocking eventfd, which adds
   to the counter or, at its maximum, fails and leaves it as it is. *)
Wakeup == wakeupFd' = IF wakeupFd < EventFdMax THEN wakeupFd + 1 ELSE wakeupFd

(* The critical section of QueueInLoop. *)
PushBack(idle) ==
    /\ posted < MaxFunctors
    /\ posted' = posted + 1
    /\ pendingFunctors' = Append(pendingFunctors, [id |-> posted + 1, idle |-> idle])
    /\ UNCHANGED <<functors, ran>>
-----------------------------------------------------------------------------
(* StartLoop. *)

(* Mutant: it forgets the wakeups that came before it. *)
StartLoopDrains ==
    /\ pc = "stopped"
    /\ inLooping' = TRUE
    /\ quit' = FALSE
    /\ wakeupFd' = 0
    /\ pc' = "while"
    /\ UNCHANGED <<callingPendingFunctors, activeChannels, queueVars, wpc, ready>>

StartLoop ==
    /\ pc = "stopped"
    /\ inLooping' = TRUE
    /\ quit' = FALSE
    /\ pc' = "while"
    /\ UNCHANGED <<callingPendingFunctors, activeChannels, wakeupFd, queueVars, wpc, ready>>

LeaveLoop ==
    /\ pc = "while"
    /\ quit
    /\ inLooping' = FALSE
    /\ pc' = "stopped"
    /\ UNCHANGED <<quit, callingPendingFunctors, activeChannels, wakeupFd, queueVars, wpc, ready>>

EnterPoll ==
    /\ pc = "while"
    /\ ~quit
    /\ activeChannels' = {}
    /\ pc' = "poll"
    /\ UNCHANGED <<inLooping, quit, callingPendingFunctors, wakeupFd, queueVars, wpc, ready>>

(* The channels poll(2) finds readable: the wakeup channel has been polled
   for reading since the constructor. *)
Pollable == ready \cup (IF wakeupFd > 0 THEN {WakeupChannel} ELSE {})

PollReturns ==
    /\ pc = "poll"
    /\ Pollable # {}
    /\ activeChannels' = Pollable
    /\ pc' = "dispatch"
    /\ UNCHANGED <<inLooping, quit, callingPendingFunctors, wakeupFd, queueVars, wpc, ready>>

(* Mutant: a poll that found nothing goes straight to the next one. *)
PollTimesOutContinues ==
    /\ pc = "poll"
    /\ Pollable = {}
    /\ pc' = "while"
    /\ UNCHANGED <<inLooping, quit, callingPendingFunctors, activeChannels, wakeupFd, queueVars, wpc, ready>>

(* poll(2) returns 0 after g_nKPollTimeMs, or -1 when a signal interrupts it:
   no channel is active, and the functors are still looked at. *)
PollTimesOut ==
    /\ pc = "poll"
    /\ Pollable = {}
    /\ pc' = "dispatch"
    /\ UNCHANGED <<inLooping, quit, callingPendingFunctors, activeChannels, wakeupFd, queueVars, wpc, ready>>

(* CEventLoop::__HandleRead, the read callback of the wakeup channel: read(2)
   returns the counter and resets it. *)
HandleRead ==
    /\ pc = "dispatch"
    /\ WakeupChannel \in activeChannels
    /\ wakeupFd' = 0
    /\ activeChannels' = activeChannels \ {WakeupChannel}
    /\ UNCHANGED <<pc, inLooping, quit, callingPendingFunctors, queueVars, wpc, ready>>

(* HandleEvent of another channel enters its user's callback, which consumes
   what made the channel ready. *)
HandleEvent(c) ==
    /\ pc = "dispatch"
    /\ c \in activeChannels
    /\ activeChannels' = activeChannels \ {c}
    /\ ready' = ready \ {c}
    /\ pc' = "handler"
    /\ UNCHANGED <<inLooping, quit, callingPendingFunctors, wakeupFd, queueVars, wpc>>

HandlerReturns ==
    /\ pc = "handler"
    /\ pc' = "dispatch"
    /\ UNCHANGED <<inLooping, quit, callingPendingFunctors, activeChannels, wakeupFd, queueVars, wpc, ready>>
-----------------------------------------------------------------------------
(* __DoPendingFunctors. *)

BeginPendingFunctors ==
    /\ pc = "dispatch"
    /\ activeChannels = {}
    /\ callingPendingFunctors' = TRUE
    /\ pc' = "swap"
    /\ UNCHANGED <<inLooping, quit, activeChannels, wakeupFd, queueVars, wpc, ready>>

(* Mutant: the vector is copied instead of swapped. *)
SwapFunctorsCopies ==
    /\ pc = "swap"
    /\ functors' = pendingFunctors
    /\ pc' = "drain"
    /\ UNCHANGED <<inLooping, quit, callingPendingFunctors, activeChannels, wakeupFd, pendingFunctors, posted, ran, wpc, ready>>

SwapFunctors ==
    /\ pc = "swap"
    /\ functors' = pendingFunctors
    /\ pendingFunctors' = <<>>
    /\ pc' = "drain"
    /\ UNCHANGED <<inLooping, quit, callingPendingFunctors, activeChannels, wakeupFd, posted, ran, wpc, ready>>

RunFunctor ==
    /\ pc = "drain"
    /\ functors # <<>>
    /\ functors' = Tail(functors)
    /\ ran' = Append(ran, Head(functors))
    /\ pc' = "functor"
    /\ UNCHANGED <<inLooping, quit, callingPendingFunctors, activeChannels, wakeupFd, pendingFunctors, posted, wpc, ready>>

FunctorReturns ==
    /\ pc = "functor"
    /\ pc' = "drain"
    /\ UNCHANGED <<inLooping, quit, callingPendingFunctors, activeChannels, wakeupFd, queueVars, wpc, ready>>

EndPendingFunctors ==
    /\ pc = "drain"
    /\ functors = <<>>
    /\ callingPendingFunctors' = FALSE
    /\ pc' = "while"
    /\ UNCHANGED <<inLooping, quit, activeChannels, wakeupFd, queueVars, wpc, ready>>
-----------------------------------------------------------------------------
(* QueueInLoop and QuitLoop. *)

(* Mutants: a push of the loop thread that never writes the eventfd, one of
   another thread that writes it only while functors run, and a stop from
   another thread that only sets the flag. *)
QueueInLoopOwnerSilent ==
    /\ pc \in UserCode
    /\ PushBack(pc = "stopped")
    /\ UNCHANGED <<loopVars, wakeupFd, wpc, ready>>

QueueInLoopSilent(t) ==
    /\ ~wpc[t]
    /\ PushBack(FALSE)
    /\ wpc' = [wpc EXCEPT ![t] = callingPendingFunctors]
    /\ UNCHANGED <<loopVars, wakeupFd, ready>>

QuitLoopSilent(t) ==
    /\ ~wpc[t]
    /\ quit' = TRUE
    /\ UNCHANGED <<pc, inLooping, callingPendingFunctors, activeChannels, wakeupFd, queueVars, wpc, ready>>

(* QueueInLoop in the loop thread.  Nobody but the loop thread looks at the
   eventfd, so its push and its write are one step. *)
QueueInLoopOwner ==
    /\ pc \in UserCode
    /\ PushBack(pc = "stopped")
    /\ IF callingPendingFunctors THEN Wakeup ELSE UNCHANGED wakeupFd
    /\ UNCHANGED <<loopVars, wpc, ready>>

QuitLoopOwner ==
    /\ pc \in UserCode
    /\ quit' = TRUE
    /\ UNCHANGED <<pc, inLooping, callingPendingFunctors, activeChannels, wakeupFd, queueVars, wpc, ready>>

(* The same two calls in another thread: IsInLoopThread is false, so each is
   followed by a Wakeup, with the loop running in between. *)
QueueInLoop(t) ==
    /\ ~wpc[t]
    /\ PushBack(FALSE)
    /\ wpc' = [wpc EXCEPT ![t] = TRUE]
    /\ UNCHANGED <<loopVars, wakeupFd, ready>>

QuitLoop(t) ==
    /\ ~wpc[t]
    /\ quit' = TRUE
    /\ wpc' = [wpc EXCEPT ![t] = TRUE]
    /\ UNCHANGED <<pc, inLooping, callingPendingFunctors, activeChannels, wakeupFd, queueVars, ready>>

WriteWakeup(t) ==
    /\ wpc[t]
    /\ Wakeup
    /\ wpc' = [wpc EXCEPT ![t] = FALSE]
    /\ UNCHANGED <<loopVars, queueVars, ready>>

(* A file descriptor becomes ready. *)
Arrive(c) ==
    /\ ready' = ready \cup {c}
    /\ UNCHANGED <<loopVars, wakeupFd, queueVars, wpc>>
-----------------------------------------------------------------------------
(* What the loop thread does once it is inside StartLoop, whatever its users
   choose to do; PollTimesOut, which needs ten idle seconds, is apart. *)
LoopStep ==
    \/ LeaveLoop \/ EnterPoll \/ PollReturns
    \/ HandleRead \/ (\E c \in Channels : HandleEvent(c)) \/ HandlerReturns
    \/ BeginPendingFunctors \/ SwapFunctors
    \/ RunFunctor \/ FunctorReturns \/ EndPendingFunctors

OwnerCall == StartLoop \/ QueueInLoopOwner \/ QuitLoopOwner

ThreadStep(t) == QueueInLoop(t) \/ QuitLoop(t) \/ WriteWakeup(t)

Next ==
    \/ LoopStep
    \/ PollTimesOut
    \/ OwnerCall
    \/ \E t \in Threads : ThreadStep(t)
    \/ \E c \in Channels : Arrive(c)

Spec == Init /\ [][Next]_vars

(* Callbacks return, poll(2) reports what is ready, and a thread that has to
   write the eventfd does so.  Nothing makes users call, events arrive or the
   poll time out. *)
Fairness == WF_vars(LoopStep) /\ \A t \in Threads : WF_vars(WriteWakeup(t))

FairSpec == Spec /\ Fairness

(* g_nKPollTimeMs is finite: a poll with nothing to report ends. *)
PollIsFinite == WF_vars(PollTimesOut)
=============================================================================
