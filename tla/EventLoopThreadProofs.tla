----------------------- MODULE EventLoopThreadProofs ------------------------
(***************************************************************************)
(* Proofs, for any functors and any eventfd, that the handshake of         *)
(* StartLoop returns a loop that runs or is about to, that no assert on    *)
(* the way fails, and that nobody waits for nobody.                        *)
(***************************************************************************)
EXTENDS EventLoopThreadProps, EventLoopProofs

USE OwnerAssumption DEF OwnerAssumption
-----------------------------------------------------------------------------
(* Every step of the owner and of its thread is one of EventLoop's, with the
   owner as its only other thread, or leaves the loop alone. *)
LEMMA StepIsLoopStep == [ThreadNext]_allVars => [Next]_vars
<1> SUFFICES ASSUME [ThreadNext]_allVars
             PROVE  [Next]_vars
  OBVIOUS
<1>1. CASE Post
  <2>1. \E t \in Threads : ThreadStep(t)
    BY <1>1 DEF Post, ThreadStep
  <2> QED BY <2>1 DEF Next
<1>2. CASE Quit
  <2>1. \E t \in Threads : ThreadStep(t)
    BY <1>2 DEF Quit, ThreadStep
  <2> QED BY <2>1 DEF Next
<1>3. CASE Wake
  <2>1. \E t \in Threads : ThreadStep(t)
    BY <1>3 DEF Wake, ThreadStep
  <2> QED BY <2>1 DEF Next
<1>4. CASE WorkerStarts
  BY <1>4 DEF WorkerStarts, Next, OwnerCall
<1>5. CASE WorkerLoops
  BY <1>5 DEF WorkerLoops, Next
<1>6. CASE WorkerPollTimesOut
  BY <1>6 DEF WorkerPollTimesOut, Next
<1>7. CASE WorkerPosts
  BY <1>7 DEF WorkerPosts, Next, OwnerCall
<1>8. CASE UNCHANGED vars
  BY <1>8
<1>9. CASE CreateThread \/ CreateFails \/ LockLatch \/ WaitLatch \/ CheckTid
             \/ LockMutex \/ WaitLoop \/ WakeUp \/ Join
  BY <1>9 DEF CreateThread, CreateFails, LockLatch, WaitLatch, CheckTid,
              LockMutex, WaitLoop, WakeUp, Join
<1>10. CASE SetTid \/ WorkerLocksLatch \/ CountDown \/ ConstructLoop
              \/ WorkerLocksMutex \/ Publish \/ DestroyLoop
  BY <1>10 DEF SetTid, WorkerLocksLatch, CountDown, ConstructLoop,
               WorkerLocksMutex, Publish, DestroyLoop
<1>11. CASE UNCHANGED allVars
  BY <1>11 DEF allVars
<1> QED
  BY <1>1, <1>2, <1>3, <1>4, <1>5, <1>6, <1>7, <1>9, <1>10, <1>11
     DEF ThreadNext, OwnerStep, WorkerStep

(* By its definition the composition takes only steps of EventLoop, so that
   what is proved of the loop can be cited here. *)
LEMMA LoopIsUsedAsModelled == ThreadSpec => Spec
<1>1. ThreadInit => Init
  BY DEF ThreadInit
<1> QED
  BY <1>1, StepIsLoopStep, PTL DEF ThreadSpec, Spec

(* So a functor that the owner queues has its wakeup here too
   (CEventLoop.cpp:170-180). *)
THEOREM OwnerWakeupsNotLost == ThreadSpec => []NoLostWakeup
BY LoopIsUsedAsModelled, WakeupsNotLost, PTL
-----------------------------------------------------------------------------
(* The invariant behind the properties of the handshake, and what it says of
   a loop that goes on: it is left only when it was stopped. *)
ThreadInv == ThreadTypeOK /\ Handshake /\ ThreadAssertsHold

LEMMA LoopGoesOn ==
    ASSUME LoopStep \/ PollTimesOut, pc # "stopped", inLooping
    PROVE  /\ quit' = quit
           /\ pc' = "stopped" => quit
           /\ inLooping' <=> pc' # "stopped"
<1>1. CASE LeaveLoop
  BY <1>1 DEF LeaveLoop
<1>2. CASE EnterPoll \/ PollReturns \/ PollTimesOut
  BY <1>2 DEF EnterPoll, PollReturns, PollTimesOut
<1>3. CASE HandleRead \/ (\E c \in Channels : HandleEvent(c)) \/ HandlerReturns
  BY <1>3 DEF HandleRead, HandleEvent, HandlerReturns
<1>4. CASE BeginPendingFunctors \/ SwapFunctors \/ EndPendingFunctors
  BY <1>4 DEF BeginPendingFunctors, SwapFunctors, EndPendingFunctors
<1>5. CASE RunFunctor \/ FunctorReturns
  BY <1>5 DEF RunFunctor, FunctorReturns
<1> QED
  BY <1>1, <1>2, <1>3, <1>4, <1>5 DEF LoopStep

(* What the operations make of a mutex. *)
LEMMA UnusedMonitor ==
    /\ Unused \in Monitors
    /\ Unused.owner = NoOne /\ Unused.holder = NoOne /\ Unused.waiting = {}
BY DEF Unused, Monitors, Who

LEMMA LockedMonitor ==
    ASSUME NEW m \in Monitors, NEW t \in Who
    PROVE  /\ Locked(m, t) \in Monitors
           /\ Locked(m, t).owner = t
           /\ Locked(m, t).holder = t
           /\ Locked(m, t).waiting = m.waiting
BY DEF Locked, AssignHolder, Monitors, Who

LEMMA UnlockedMonitor ==
    ASSUME NEW m \in Monitors
    PROVE  /\ Unlocked(m) \in Monitors
           /\ Unlocked(m).owner = NoOne
           /\ Unlocked(m).holder = NoOne
           /\ Unlocked(m).waiting = m.waiting
BY DEF Unlocked, UnassignHolder, Monitors, Who

LEMMA WaitsMonitor ==
    ASSUME NEW m \in Monitors
    PROVE  /\ Waits(m, Owner) \in Monitors
           /\ Waits(m, Owner).owner = NoOne
           /\ Waits(m, Owner).holder = NoOne
BY DEF Waits, Unlocked, UnassignHolder, Monitors, Who

LEMMA NotifiedMonitor ==
    ASSUME NEW m \in Monitors
    PROVE  /\ AllNotified(m) \in Monitors
           /\ AllNotified(m).waiting = {}
           /\ \A n \in Notified(m) : n \in Monitors /\ n.waiting = {}
BY DEF AllNotified, Notified, Monitors, Who

LEMMA SpuriousMonitor ==
    ASSUME NEW m \in Monitors
    PROVE  /\ Spurious(m, Owner) \in Monitors
           /\ Spurious(m, Owner).owner = m.owner
           /\ Spurious(m, Owner).holder = m.holder
           /\ Spurious(m, Owner).waiting = {}
BY DEF Spurious, Monitors, Who

LEMMA Counts == 1 # 0 /\ 1 - 1 = 0 /\ ~(0 > 0) /\ \A c \in {0, 1} : ~(c > 0) => c = 0
OBVIOUS

LEMMA ThreadInvInit == ThreadInit => ThreadInv
BY UnusedMonitor, Counts
   DEF ThreadInit, Init, CreateEventFd, ThreadInv, ThreadTypeOK, Handshake, ThreadAssertsHold,
       OwnerPlaces, WorkerPlaces

LEMMA ThreadInvStep == ThreadInv /\ [ThreadNext]_allVars => ThreadInv'
<1> SUFFICES ASSUME ThreadInv, [ThreadNext]_allVars
             PROVE  ThreadInv'
  OBVIOUS
<1> USE DEF ThreadInv
<1>1. CASE CreateThread
  <2> USE DEF CreateThread, ThreadTypeOK, Handshake, vars, loopVars
  <2>1. ThreadTypeOK'
    BY <1>1 DEF OwnerPlaces, WorkerPlaces
  <2>2. Handshake'
    BY <1>1 DEF WorkerPlaces
  <2>3. ThreadAssertsHold'
    BY <1>1 DEF ThreadAssertsHold
  <2> QED BY <2>1, <2>2, <2>3
<1>2. CASE CreateFails
  <2> USE DEF CreateFails, ThreadTypeOK, Handshake, vars, loopVars
  <2>1. ThreadTypeOK'
    BY <1>2 DEF OwnerPlaces, WorkerPlaces
  <2>2. Handshake'
    BY <1>2 DEF WorkerPlaces
  <2>3. ThreadAssertsHold'
    BY <1>2 DEF ThreadAssertsHold
  <2> QED BY <2>1, <2>2, <2>3
<1>3. CASE LockLatch
  <2> USE DEF LockLatch, CanLock, CanWake, Who, ThreadTypeOK, Handshake, vars, loopVars
  <2>0. /\ latch' \in Monitors /\ latch'.owner = Owner
        /\ worker # "latch"
    BY <1>3, LockedMonitor DEF NoOne
  <2>1. ThreadTypeOK'
    BY <1>3, <2>0 DEF OwnerPlaces, WorkerPlaces
  <2>2. Handshake'
    BY <1>3, LockedMonitor DEF WorkerPlaces
  <2>3. ThreadAssertsHold'
    BY <1>3, LockedMonitor DEF ThreadAssertsHold
  <2> QED BY <2>1, <2>2, <2>3
<1>4. CASE WaitLatch
  <2> USE DEF WaitLatch, ThreadTypeOK, Handshake, vars, loopVars
  <2>1. ThreadTypeOK'
    BY <1>4, WaitsMonitor, UnlockedMonitor DEF OwnerPlaces, WorkerPlaces
  <2>0. /\ latch'.owner = NoOne /\ latch'.holder = NoOne
        /\ owner' = "tid" => count = 0
        /\ Owner \in latch'.waiting => owner' = "latch wait" /\ count # 0
    <3>1. CASE count > 0
      <4>1. count # 0
        <5> HIDE DEF WaitLatch, ThreadTypeOK, Handshake, vars, loopVars, ThreadInv
        <5> QED BY <3>1, Counts
      <4> QED BY <1>4, <3>1, <4>1, WaitsMonitor
    <3>2. CASE ~(count > 0)
      <4>1. count = 0
        BY <3>2, Counts
      <4> QED BY <1>4, <3>2, <4>1, UnlockedMonitor
    <3> QED BY <3>1, <3>2
  <2>2. Handshake'
    BY <1>4, <2>0 DEF WorkerPlaces
  <2>3. ThreadAssertsHold'
    BY <1>4, WaitsMonitor, UnlockedMonitor DEF ThreadAssertsHold
  <2> QED BY <2>1, <2>2, <2>3
<1>5. CASE CheckTid
  <2> USE DEF CheckTid, ThreadTypeOK, Handshake, vars, loopVars
  <2>1. ThreadTypeOK'
    BY <1>5 DEF OwnerPlaces, WorkerPlaces
  <2>2. Handshake'
    BY <1>5 DEF WorkerPlaces
  <2>0. tid
    <3>1. count = 0
      BY <1>5
    <3>2. worker \notin {"none", "run"}
      BY <3>1
    <3> QED BY <3>2
  <2>3. ThreadAssertsHold'
    BY <1>5, <2>0 DEF ThreadAssertsHold
  <2> QED BY <2>1, <2>2, <2>3
<1>6. CASE LockMutex
  <2> USE DEF LockMutex, CanLock, CanWake, Who, ThreadTypeOK, Handshake, vars, loopVars
  <2>0. /\ mutex' \in Monitors /\ mutex'.owner = Owner
        /\ worker # "publish"
    BY <1>6, LockedMonitor DEF NoOne
  <2>1. ThreadTypeOK'
    BY <1>6, <2>0 DEF OwnerPlaces, WorkerPlaces
  <2>2. Handshake'
    BY <1>6, LockedMonitor DEF WorkerPlaces
  <2>3. ThreadAssertsHold'
    BY <1>6, LockedMonitor DEF ThreadAssertsHold
  <2> QED BY <2>1, <2>2, <2>3
<1>7. CASE WaitLoop
  <2> USE DEF WaitLoop, ThreadTypeOK, Handshake, vars, loopVars
  <2>1. ThreadTypeOK'
    BY <1>7, WaitsMonitor, UnlockedMonitor DEF OwnerPlaces, WorkerPlaces
  <2>2. Handshake'
    BY <1>7, WaitsMonitor, UnlockedMonitor DEF WorkerPlaces
  <2>3. ThreadAssertsHold'
    BY <1>7, WaitsMonitor, UnlockedMonitor DEF ThreadAssertsHold
  <2> QED BY <2>1, <2>2, <2>3
<1>8. CASE WakeUp
  <2> USE DEF WakeUp, ThreadTypeOK, Handshake, vars, loopVars
  <2>1. ThreadTypeOK'
    BY <1>8, SpuriousMonitor DEF OwnerPlaces, WorkerPlaces
  <2>2. Handshake'
    BY <1>8, SpuriousMonitor DEF WorkerPlaces
  <2>3. ThreadAssertsHold'
    BY <1>8, SpuriousMonitor DEF ThreadAssertsHold
  <2> QED BY <2>1, <2>2, <2>3
<1>9. CASE Post
  <2> USE DEF Post, QueueInLoop, threadVars, ThreadTypeOK, Handshake, vars, loopVars
  <2>1. ThreadTypeOK'
    BY <1>9 DEF OwnerPlaces, WorkerPlaces
  <2>2. Handshake'
    BY <1>9 DEF WorkerPlaces
  <2>3. ThreadAssertsHold'
    BY <1>9 DEF ThreadAssertsHold
  <2> QED BY <2>1, <2>2, <2>3
<1>10. CASE Wake
  <2> USE DEF Wake, WriteWakeup, threadVars, ThreadTypeOK, Handshake, vars, loopVars
  <2>1. ThreadTypeOK'
    BY <1>10 DEF OwnerPlaces, WorkerPlaces
  <2>2. Handshake'
    BY <1>10 DEF WorkerPlaces
  <2>3. ThreadAssertsHold'
    BY <1>10 DEF ThreadAssertsHold
  <2> QED BY <2>1, <2>2, <2>3
<1>11. CASE Quit
  <2> USE DEF Quit, QuitLoop, ThreadTypeOK, Handshake, vars, loopVars
  <2>1. ThreadTypeOK'
    BY <1>11 DEF OwnerPlaces, WorkerPlaces
  <2>2. Handshake'
    BY <1>11 DEF WorkerPlaces
  <2>3. ThreadAssertsHold'
    BY <1>11 DEF ThreadAssertsHold
  <2> QED BY <2>1, <2>2, <2>3
<1>12. CASE Join
  <2> USE DEF Join, ThreadTypeOK, Handshake, vars, loopVars
  <2>1. ThreadTypeOK'
    BY <1>12 DEF OwnerPlaces, WorkerPlaces
  <2>2. Handshake'
    BY <1>12 DEF WorkerPlaces
  <2>3. ThreadAssertsHold'
    BY <1>12 DEF ThreadAssertsHold
  <2> QED BY <2>1, <2>2, <2>3
<1>13. CASE SetTid
  <2> USE DEF SetTid, ThreadTypeOK, Handshake, vars, loopVars
  <2>1. ThreadTypeOK'
    BY <1>13 DEF OwnerPlaces, WorkerPlaces
  <2>2. Handshake'
    BY <1>13 DEF WorkerPlaces
  <2>3. ThreadAssertsHold'
    BY <1>13 DEF ThreadAssertsHold
  <2> QED BY <2>1, <2>2, <2>3
<1>14. CASE WorkerLocksLatch
  <2> USE DEF WorkerLocksLatch, CanLock, Who, ThreadTypeOK, Handshake, vars, loopVars
  <2>1. ThreadTypeOK'
    BY <1>14, LockedMonitor DEF OwnerPlaces, WorkerPlaces
  <2>2. Handshake'
    BY <1>14, LockedMonitor DEF WorkerPlaces
  <2>3. ThreadAssertsHold'
    BY <1>14, LockedMonitor DEF ThreadAssertsHold
  <2> QED BY <2>1, <2>2, <2>3
<1>15. CASE CountDown
  <2> USE DEF CountDown, ThreadTypeOK, Handshake, vars, loopVars
  <2>4. count = 1 /\ count' = 0
    <3>1. worker = "latch" /\ count' = count - 1
      BY <1>15
    <3>2. count # 0
      BY <3>1
    <3>3. count \in {0, 1}
      OBVIOUS
    <3> HIDE DEF CountDown, ThreadTypeOK, Handshake, vars, loopVars, ThreadInv
    <3> QED BY <3>1, <3>2, <3>3
  <2>5. latch' = Unlocked(AllNotified(latch))
    BY <1>15, <2>4
  <2>0. /\ count' = 0 /\ latch' \in Monitors
        /\ latch'.owner = NoOne /\ latch'.holder = NoOne /\ latch'.waiting = {}
    BY <2>4, <2>5, UnlockedMonitor, NotifiedMonitor
  <2>1. ThreadTypeOK'
    BY <1>15, <2>0 DEF OwnerPlaces, WorkerPlaces
  <2>2. Handshake'
    BY <1>15, <2>0 DEF WorkerPlaces
  <2>3. ThreadAssertsHold'
    BY <1>15, UnlockedMonitor, NotifiedMonitor DEF ThreadAssertsHold
  <2> QED BY <2>1, <2>2, <2>3
<1>16. CASE ConstructLoop
  <2> USE DEF ConstructLoop, ThreadTypeOK, Handshake, vars, loopVars
  <2>1. ThreadTypeOK'
    BY <1>16 DEF OwnerPlaces, WorkerPlaces
  <2>2. Handshake'
    BY <1>16 DEF WorkerPlaces
  <2>3. ThreadAssertsHold'
    BY <1>16 DEF ThreadAssertsHold
  <2> QED BY <2>1, <2>2, <2>3
<1>17. CASE WorkerLocksMutex
  <2> USE DEF WorkerLocksMutex, CanLock, Who, ThreadTypeOK, Handshake, vars, loopVars
  <2>1. ThreadTypeOK'
    BY <1>17, LockedMonitor DEF OwnerPlaces, WorkerPlaces
  <2>2. Handshake'
    BY <1>17, LockedMonitor DEF WorkerPlaces
  <2>3. ThreadAssertsHold'
    BY <1>17, LockedMonitor DEF ThreadAssertsHold
  <2> QED BY <2>1, <2>2, <2>3
<1>18. CASE Publish
  <2> USE DEF Publish, ThreadTypeOK, Handshake, vars, loopVars
  <2>1. ThreadTypeOK'
    BY <1>18, UnlockedMonitor, NotifiedMonitor DEF OwnerPlaces, WorkerPlaces
  <2>2. Handshake'
    BY <1>18, UnlockedMonitor, NotifiedMonitor DEF WorkerPlaces
  <2>3. ThreadAssertsHold'
    BY <1>18, UnlockedMonitor, NotifiedMonitor DEF ThreadAssertsHold
  <2> QED BY <2>1, <2>2, <2>3
<1>19. CASE WorkerStarts
  <2> USE DEF WorkerStarts, StartLoop, ThreadTypeOK, Handshake, vars, loopVars
  <2>1. ThreadTypeOK'
    BY <1>19 DEF OwnerPlaces, WorkerPlaces
  <2>2. Handshake'
    BY <1>19 DEF WorkerPlaces
  <2>3. ThreadAssertsHold'
    BY <1>19 DEF ThreadAssertsHold
  <2> QED BY <2>1, <2>2, <2>3
<1>20. CASE WorkerLoops
  <2> USE DEF WorkerLoops, ThreadTypeOK, Handshake, vars, loopVars
  <2>0. /\ quit' = quit
        /\ pc' = "stopped" => quit
        /\ inLooping' <=> pc' # "stopped"
    BY <1>20, LoopGoesOn
  <2>1. ThreadTypeOK'
    BY <1>20 DEF OwnerPlaces, WorkerPlaces
  <2>2. Handshake'
    BY <1>20, <2>0 DEF WorkerPlaces
  <2>3. ThreadAssertsHold'
    BY <1>20 DEF ThreadAssertsHold
  <2> QED BY <2>1, <2>2, <2>3
<1>21. CASE WorkerPollTimesOut
  <2> USE DEF WorkerPollTimesOut, PollTimesOut, threadVars, ThreadTypeOK, Handshake, vars, loopVars
  <2>1. ThreadTypeOK'
    BY <1>21 DEF OwnerPlaces, WorkerPlaces
  <2>2. Handshake'
    BY <1>21 DEF WorkerPlaces
  <2>3. ThreadAssertsHold'
    BY <1>21 DEF ThreadAssertsHold
  <2> QED BY <2>1, <2>2, <2>3
<1>22. CASE WorkerPosts
  <2> USE DEF WorkerPosts, QueueInLoopOwner, threadVars, ThreadTypeOK, Handshake, vars, loopVars
  <2>1. ThreadTypeOK'
    BY <1>22 DEF OwnerPlaces, WorkerPlaces
  <2>2. Handshake'
    BY <1>22 DEF WorkerPlaces
  <2>3. ThreadAssertsHold'
    BY <1>22 DEF ThreadAssertsHold
  <2> QED BY <2>1, <2>2, <2>3
<1>23. CASE DestroyLoop
  <2> USE DEF DestroyLoop, ThreadTypeOK, Handshake, vars, loopVars
  <2>1. ThreadTypeOK'
    BY <1>23 DEF OwnerPlaces, WorkerPlaces
  <2>2. Handshake'
    BY <1>23 DEF WorkerPlaces
  <2>3. ThreadAssertsHold'
    BY <1>23 DEF ThreadAssertsHold
  <2> QED BY <2>1, <2>2, <2>3
<1>24. CASE UNCHANGED allVars
  <2> USE DEF allVars, threadVars, ThreadTypeOK, Handshake, vars, loopVars
  <2>1. ThreadTypeOK'
    BY <1>24 DEF OwnerPlaces, WorkerPlaces
  <2>2. Handshake'
    BY <1>24 DEF WorkerPlaces
  <2>3. ThreadAssertsHold'
    BY <1>24 DEF ThreadAssertsHold
  <2> QED BY <2>1, <2>2, <2>3
<1> HIDE DEF ThreadInv
<1> QED
  BY <1>1, <1>2, <1>3, <1>4, <1>5, <1>6, <1>7, <1>8, <1>9, <1>10, <1>11, <1>12, <1>13, <1>14, <1>15, <1>16, <1>17, <1>18, <1>19, <1>20, <1>21, <1>22, <1>23, <1>24
     DEF ThreadNext, OwnerStep, WorkerStep

LEMMA ThreadInvariance == ThreadSpec => []ThreadInv
BY ThreadInvInit, ThreadInvStep, PTL DEF ThreadSpec

(* The types of the members of CEventLoopThread and CThread, and mutual
   exclusion of the owner and its thread (CEventLoopThread.h:29-33). *)
THEOREM ThreadTypeCorrect == ThreadSpec => []ThreadTypeOK
<1>1. ThreadInv => ThreadTypeOK
  BY DEF ThreadInv
<1> QED
  BY <1>1, ThreadInvariance, PTL

(* The latch, the mutexes and the loop are never found in a state that their
   users assert they are not in (CThread.cpp:39, CMutex.cpp:15). *)
THEOREM ThreadAssertsNeverFail == ThreadSpec => []ThreadAssertsHold
<1>1. ThreadInv => ThreadAssertsHold
  BY DEF ThreadInv
<1> QED
  BY <1>1, ThreadInvariance, PTL

(* StartLoop returns a loop that exists and that nobody has stopped
   (CEventLoopThread.cpp:28-51). *)
THEOREM LoopReady == ThreadSpec => []LoopIsReady
<1>1. ThreadInv => LoopIsReady
  BY DEF ThreadInv, ThreadTypeOK, Handshake, LoopIsReady, WorkerPlaces
<1> QED
  BY <1>1, ThreadInvariance, PTL

(* Nobody waits for nobody, whatever wakeups the owner gets: the provable half
   of StartAndJoinReturn.  The invariant of the handshake says where the owner
   waits and for what, and QuitNotLost that a stop ends the poll of the loop
   (CEventLoopThread.cpp:21-51, CCountDownLatch.cpp:13-27). *)
LEMMA StartGoesOn ==
    ASSUME ThreadInv, owner \in Starting, worker # "none"
    PROVE  OwnerCanGo \/ WorkerCanGo
<1> USE DEF ThreadInv, ThreadTypeOK, Handshake, OwnerCanGo, WorkerCanGo, CanLock, CanWake
<1>1. CASE owner \in {"latch", "tid", "check"}
  BY <1>1
<1>2. CASE owner \in {"latch lock", "latch wait"}
  BY <1>2 DEF WorkerPlaces
<1>3. CASE owner \in {"lock", "wait"}
  BY <1>3 DEF WorkerPlaces
<1> QED BY <1>1, <1>2, <1>3 DEF Starting

THEOREM StartAndJoinGoOn == ThreadSpec => []StartAndJoinNotStuck
<1>1. ThreadInv /\ QuitInterruptsPoll => StartAndJoinNotStuck
  <2> SUFFICES ASSUME ThreadInv, QuitInterruptsPoll PROVE StartAndJoinNotStuck
    OBVIOUS
  <2>1. ASSUME owner = "join" PROVE StopArrives \/ lost
    <3>1. (quit \/ lost) /\ worker \in {"start", "loop", "destroy", "exited"}
      BY <2>1 DEF ThreadInv, Handshake
    <3>2. (pc = "poll" /\ quit) => wakeupFd > 0 \/ wpc[Owner]
      BY DEF QuitInterruptsPoll, WakeupComing
    <3> QED BY <3>1, <3>2 DEF StopArrives
  <2> QED BY <2>1, StartGoesOn DEF StartAndJoinNotStuck
<1>2. ThreadSpec => []QuitInterruptsPoll
  BY LoopIsUsedAsModelled, QuitNotLost, PTL
<1> QED
  BY <1>1, <1>2, ThreadInvariance, PTL
=============================================================================
