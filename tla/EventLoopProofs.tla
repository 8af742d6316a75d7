--------------------------- MODULE EventLoopProofs --------------------------
(***************************************************************************)
(* Proofs, for any number of threads, channels and functors, that the loop *)
(* never sleeps on a functor or on a stop whose wakeup is not on its way,  *)
(* and that its two vectors are one first-in first-out queue.              *)
(***************************************************************************)
EXTENDS EventLoopProps, TLAPS

InPendingFunctors == {"swap", "drain", "functor"}

(* The flag tells where the loop thread is, and vFunctors is the local of
   __DoPendingFunctors: empty before the swap and after the last functor. *)
PendingInv ==
    /\ callingPendingFunctors <=> pc \in InPendingFunctors
    /\ pc \notin {"drain", "functor"} => functors = <<>>

(* NoLostWakeup holds at the poll because it holds from the swap on: what is
   pushed after the swap is announced, and the wakeups that HandleRead takes
   away are taken where the next thing to come is the swap. *)
WakeInv ==
    (/\ pc \notin {"dispatch", "handler", "swap"}
     /\ \E i \in DOMAIN pendingFunctors : ~pendingFunctors[i].idle)
        => WakeupComing

IInv == PendingInv /\ WakeInv /\ QuitInterruptsPoll

USE ConstantsAssumption DEF ConstantsAssumption

-----------------------------------------------------------------------------
(* Type correctness: CEventLoop's members keep their types, and the counter
   of the eventfd stays within its range. *)
THEOREM TypeCorrect == Spec => []TypeOK
<1> USE DEF TypeOK
<1>1. Init => TypeOK
  <2> SUFFICES ASSUME Init
               PROVE  TypeOK
    OBVIOUS
  <2>1. 0 \in 0..EventFdMax /\ 0 \in 0..MaxFunctors
    OBVIOUS
  <2>2. wpc \in [Threads -> BOOLEAN]
    BY DEF Init, CreateEventFd
  <2>3. <<>> \in Seq(Functor)
    OBVIOUS
  <2> QED
    BY <2>1, <2>2, <2>3 DEF Init, CreateEventFd
<1>2. TypeOK /\ [Next]_vars => TypeOK'
  <2> SUFFICES ASSUME TypeOK, [Next]_vars
               PROVE  TypeOK'
    OBVIOUS
  <2> USE DEF vars, loopVars, queueVars, Wakeup
  <2>1. ASSUME NEW idle \in BOOLEAN, PushBack(idle)
        PROVE  /\ pendingFunctors' \in Seq(Functor)
               /\ functors' \in Seq(Functor)
               /\ posted' \in 0..MaxFunctors
               /\ ran' \in Seq(Functor)
    <3>1. [id |-> posted + 1, idle |-> idle] \in Functor
      BY <2>1 DEF PushBack, Functor
    <3> QED
      BY <2>1, <3>1 DEF PushBack
  <2>2. CASE LoopStep
    <3>1. CASE LeaveLoop BY <3>1 DEF LeaveLoop
    <3>2. CASE EnterPoll BY <3>2 DEF EnterPoll
    <3>3. CASE PollReturns BY <3>3 DEF PollReturns, Pollable
    <3>4. CASE HandleRead BY <3>4 DEF HandleRead
    <3>5. ASSUME NEW c \in Channels, HandleEvent(c) PROVE TypeOK'
      BY <3>5 DEF HandleEvent
    <3>6. CASE HandlerReturns BY <3>6 DEF HandlerReturns
    <3>7. CASE BeginPendingFunctors BY <3>7 DEF BeginPendingFunctors
    <3>8. CASE SwapFunctors BY <3>8 DEF SwapFunctors
    <3>9. CASE RunFunctor BY <3>9 DEF RunFunctor
    <3>10. CASE FunctorReturns BY <3>10 DEF FunctorReturns
    <3>11. CASE EndPendingFunctors BY <3>11 DEF EndPendingFunctors
    <3> QED
      BY <2>2, <3>1, <3>2, <3>3, <3>4, <3>5, <3>6, <3>7, <3>8, <3>9, <3>10, <3>11
         DEF LoopStep
  <2>3. CASE PollTimesOut BY <2>3 DEF PollTimesOut
  <2>4. CASE OwnerCall
    <3>1. CASE StartLoop BY <3>1 DEF StartLoop
    <3>2. CASE QueueInLoopOwner
      <4>1. (pc = "stopped") \in BOOLEAN
        OBVIOUS
      <4>2. wakeupFd' \in 0..EventFdMax
        BY <3>2 DEF QueueInLoopOwner
      <4> QED
        BY <2>1, <3>2, <4>1, <4>2 DEF QueueInLoopOwner
    <3>3. CASE QuitLoopOwner BY <3>3 DEF QuitLoopOwner
    <3> QED
      BY <2>4, <3>1, <3>2, <3>3 DEF OwnerCall
  <2>5. ASSUME NEW t \in Threads, ThreadStep(t)
        PROVE  TypeOK'
    <3>1. CASE QueueInLoop(t) BY <2>1, <3>1 DEF QueueInLoop
    <3>2. CASE QuitLoop(t) BY <3>2 DEF QuitLoop
    <3>3. CASE WriteWakeup(t) BY <3>3 DEF WriteWakeup
    <3> QED
      BY <2>5, <3>1, <3>2, <3>3 DEF ThreadStep
  <2>6. ASSUME NEW c \in Channels, Arrive(c)
        PROVE  TypeOK'
    BY <2>6 DEF Arrive
  <2>7. CASE UNCHANGED vars BY <2>7
  <2> QED
    BY <2>2, <2>3, <2>4, <2>5, <2>6, <2>7 DEF Next
<1> QED
  BY <1>1, <1>2, PTL DEF Spec

-----------------------------------------------------------------------------
(* A write to the eventfd leaves it readable, also when it fails because the
   counter is at its maximum. *)
LEMMA WakeupReadable ==
    ASSUME TypeOK, Wakeup
    PROVE  wakeupFd' > 0
  BY DEF TypeOK, Wakeup

(* What QueueInLoop appends leaves the functors already queued where they
   are, so an unannounced one among them stays one. *)
LEMMA PushBackKeeps ==
    ASSUME TypeOK, NEW idle \in BOOLEAN, PushBack(idle)
    PROVE  /\ functors' = functors
           /\ \A i \in DOMAIN pendingFunctors' :
                 ~pendingFunctors'[i].idle
                    => \/ i \in DOMAIN pendingFunctors /\ ~pendingFunctors[i].idle
                       \/ ~idle
  BY DEF TypeOK, PushBack

(* IInv is inductive: one case per action. *)
LEMMA IInvStep == TypeOK /\ IInv /\ [Next]_vars => IInv'
<1> SUFFICES ASSUME TypeOK, IInv, [Next]_vars
             PROVE  IInv'
  OBVIOUS
<1> USE DEF IInv, PendingInv, InPendingFunctors, WakeInv, WakeupComing, QuitInterruptsPoll
<1> USE DEF vars, loopVars, queueVars
<1>1. CASE LoopStep
  <2>1. CASE LeaveLoop BY <2>1 DEF LeaveLoop
  <2>2. CASE EnterPoll BY <2>2 DEF EnterPoll
  <2>3. CASE PollReturns BY <2>3 DEF PollReturns
  <2>4. CASE HandleRead BY <2>4 DEF HandleRead
  <2>5. ASSUME NEW c \in Channels, HandleEvent(c) PROVE IInv'
    BY <2>5 DEF HandleEvent
  <2>6. CASE HandlerReturns BY <2>6 DEF HandlerReturns
  <2>7. CASE BeginPendingFunctors BY <2>7 DEF BeginPendingFunctors
  <2>8. CASE SwapFunctors BY <2>8 DEF SwapFunctors
  <2>9. CASE RunFunctor BY <2>9 DEF RunFunctor
  <2>10. CASE FunctorReturns BY <2>10 DEF FunctorReturns
  <2>11. CASE EndPendingFunctors BY <2>11 DEF EndPendingFunctors
  <2> QED
    BY <1>1, <2>1, <2>2, <2>3, <2>4, <2>5, <2>6, <2>7, <2>8, <2>9, <2>10, <2>11
       DEF LoopStep
<1>2. CASE PollTimesOut BY <1>2 DEF PollTimesOut
<1>3. CASE OwnerCall
  <2>1. CASE StartLoop BY <2>1 DEF StartLoop
  <2>2. CASE QueueInLoopOwner
    <3>1. (pc = "stopped") \in BOOLEAN /\ PushBack(pc = "stopped")
      BY <2>2 DEF QueueInLoopOwner
    <3>2. CASE pc = "functor"
      BY <2>2, <3>1, <3>2, PushBackKeeps, WakeupReadable DEF QueueInLoopOwner
    <3>3. CASE pc # "functor"
      BY <2>2, <3>1, <3>3, PushBackKeeps DEF QueueInLoopOwner, UserCode
    <3> QED
      BY <3>2, <3>3
  <2>3. CASE QuitLoopOwner BY <2>3 DEF QuitLoopOwner, UserCode
  <2> QED
    BY <1>3, <2>1, <2>2, <2>3 DEF OwnerCall
<1>4. ASSUME NEW t \in Threads, ThreadStep(t)
      PROVE  IInv'
  <2> USE DEF TypeOK
  <2>1. CASE QueueInLoop(t)
    <3>1. wpc'[t] /\ PushBack(FALSE)
      BY <2>1 DEF QueueInLoop
    <3> QED
      BY <2>1, <3>1, PushBackKeeps DEF QueueInLoop
  <2>2. CASE QuitLoop(t)
    <3>1. wpc'[t]
      BY <2>2 DEF QuitLoop
    <3> QED
      BY <2>2, <3>1 DEF QuitLoop
  <2>3. CASE WriteWakeup(t)
    BY <2>3, WakeupReadable DEF WriteWakeup
  <2> QED
    BY <1>4, <2>1, <2>2, <2>3 DEF ThreadStep
<1>5. ASSUME NEW c \in Channels, Arrive(c)
      PROVE  IInv'
  BY <1>5 DEF Arrive
<1>6. CASE UNCHANGED vars BY <1>6
<1> QED
  BY <1>1, <1>2, <1>3, <1>4, <1>5, <1>6 DEF Next

LEMMA IInvInit == Init => IInv
  BY DEF Init, CreateEventFd, IInv, PendingInv, InPendingFunctors, WakeInv, QuitInterruptsPoll

LEMMA Invariance == Spec => [](TypeOK /\ IInv)
  BY TypeCorrect, IInvInit, IInvStep, PTL DEF Spec

(* QueueInLoop from any thread, callback or functor interrupts the poll. *)
THEOREM WakeupsNotLost == Spec => []NoLostWakeup
<1>1. IInv => NoLostWakeup
  BY DEF IInv, WakeInv, NoLostWakeup
<1> QED
  BY <1>1, Invariance, PTL

(* QuitLoop from any thread interrupts the poll. *)
THEOREM QuitNotLost == Spec => []QuitInterruptsPoll
<1>1. IInv => QuitInterruptsPoll
  BY DEF IInv
<1> QED
  BY <1>1, Invariance, PTL

-----------------------------------------------------------------------------
(* The abstract queue is the two vectors in a row: a push at the end of the
   second is a push at the end of the row, and what is taken from the front
   of a nonempty first is taken from the front of the row. *)
LEMMA AppendToSecond ==
    ASSUME NEW S, NEW s \in Seq(S), NEW t \in Seq(S), NEW e \in S
    PROVE  s \o Append(t, e) = Append(s \o t, e)
  OBVIOUS

LEMMA TakeFromFirst ==
    ASSUME NEW S, NEW s \in Seq(S), NEW t \in Seq(S), s # <<>>
    PROVE  /\ s \o t # <<>>
           /\ Head(s \o t) = Head(s)
           /\ Tail(s \o t) = Tail(s) \o t
  OBVIOUS

LEMMA EmptyFirst ==
    ASSUME NEW S, NEW t \in Seq(S)
    PROVE  <<>> \o t = t /\ t \o <<>> = t
  OBVIOUS

(* The two vectors, the swap and the threads implement the one queue of
   FunctorQueue: each functor is run once, in the order of the calls. *)
THEOREM QueueImplemented == Spec => ImplementsFunctorQueue
<1> USE DEF vars, loopVars, queueVars
<1>1. Init => Queue!Init
  BY DEF Init, CreateEventFd, Queue!Init
<1>2. TypeOK /\ IInv /\ [Next]_vars => [Queue!Next]_Queue!vars
  <2> SUFFICES ASSUME TypeOK, IInv, [Next]_vars
               PROVE  [Queue!Next]_Queue!vars
    OBVIOUS
  <2>1. pendingFunctors \in Seq(Functor) /\ functors \in Seq(Functor) /\ posted \in Nat
    BY DEF TypeOK
  <2>2. ASSUME NEW idle \in BOOLEAN, PushBack(idle)
        PROVE  Queue!Post
    <3>1. [id |-> posted + 1, idle |-> idle] \in Functor
      BY <2>1, <2>2 DEF PushBack, Functor
    <3>2. functors \o Append(pendingFunctors, [id |-> posted + 1, idle |-> idle])
            = Append(functors \o pendingFunctors, [id |-> posted + 1, idle |-> idle])
      BY <2>1, <3>1, AppendToSecond
    <3> QED
      BY <2>2, <3>1, <3>2 DEF PushBack, Queue!Post
  <2>3. ASSUME UNCHANGED queueVars
        PROVE  UNCHANGED Queue!vars
    BY <2>3 DEF Queue!vars
  <2>4. CASE LoopStep
    <3>1. CASE SwapFunctors
      <4>1. functors = <<>>
        BY <3>1 DEF IInv, PendingInv, SwapFunctors
      <4>2. functors' \o pendingFunctors' = functors \o pendingFunctors
        BY <2>1, <3>1, <4>1, EmptyFirst DEF SwapFunctors
      <4> QED
        BY <3>1, <4>2 DEF SwapFunctors, Queue!vars
    <3>2. CASE RunFunctor
      <4>1. /\ functors \o pendingFunctors # <<>>
            /\ Head(functors \o pendingFunctors) = Head(functors)
            /\ Tail(functors \o pendingFunctors) = Tail(functors) \o pendingFunctors
        BY <2>1, <3>2, TakeFromFirst DEF RunFunctor
      <4> QED
        BY <3>2, <4>1 DEF RunFunctor, Queue!Next, Queue!Run
    <3>3. CASE LeaveLoop BY <2>3, <3>3 DEF LeaveLoop
    <3>4. CASE EnterPoll BY <2>3, <3>4 DEF EnterPoll
    <3>5. CASE PollReturns BY <2>3, <3>5 DEF PollReturns
    <3>6. CASE HandleRead BY <2>3, <3>6 DEF HandleRead
    <3>7. ASSUME NEW c \in Channels, HandleEvent(c) PROVE UNCHANGED Queue!vars
      BY <2>3, <3>7 DEF HandleEvent
    <3>8. CASE HandlerReturns BY <2>3, <3>8 DEF HandlerReturns
    <3>9. CASE BeginPendingFunctors BY <2>3, <3>9 DEF BeginPendingFunctors
    <3>10. CASE FunctorReturns BY <2>3, <3>10 DEF FunctorReturns
    <3>11. CASE EndPendingFunctors BY <2>3, <3>11 DEF EndPendingFunctors
    <3> QED
      BY <2>4, <3>1, <3>2, <3>3, <3>4, <3>5, <3>6, <3>7, <3>8, <3>9, <3>10, <3>11
         DEF LoopStep
  <2>5. CASE PollTimesOut BY <2>3, <2>5 DEF PollTimesOut
  <2>6. CASE OwnerCall
    <3>1. CASE StartLoop BY <2>3, <3>1 DEF StartLoop
    <3>2. CASE QueueInLoopOwner
      <4>1. (pc = "stopped") \in BOOLEAN
        OBVIOUS
      <4> QED
        BY <2>2, <3>2, <4>1 DEF QueueInLoopOwner, Queue!Next
    <3>3. CASE QuitLoopOwner BY <2>3, <3>3 DEF QuitLoopOwner
    <3> QED
      BY <2>6, <3>1, <3>2, <3>3 DEF OwnerCall
  <2>7. ASSUME NEW t \in Threads, ThreadStep(t)
        PROVE  [Queue!Next]_Queue!vars
    <3>1. CASE QueueInLoop(t) BY <2>2, <3>1 DEF QueueInLoop, Queue!Next
    <3>2. CASE QuitLoop(t) BY <2>3, <3>2 DEF QuitLoop
    <3>3. CASE WriteWakeup(t) BY <2>3, <3>3 DEF WriteWakeup
    <3> QED
      BY <2>7, <3>1, <3>2, <3>3 DEF ThreadStep
  <2>8. ASSUME NEW c \in Channels, Arrive(c)
        PROVE  UNCHANGED Queue!vars
    BY <2>3, <2>8 DEF Arrive
  <2>9. CASE UNCHANGED vars BY <2>3, <2>9
  <2> QED
    BY <2>4, <2>5, <2>6, <2>7, <2>8, <2>9 DEF Next
<1> QED
  BY <1>1, <1>2, Invariance, PTL DEF Spec, ImplementsFunctorQueue, Queue!Spec
=============================================================================
