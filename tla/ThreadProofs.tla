---------------------------- MODULE ThreadProofs -----------------------------
(* The invariants of Thread, for any number of objects. *)
EXTENDS ThreadProps, TLAPS

IInv == TypeOK /\ ~failed /\ LifeCycle

Monitors == [owner : Who, holder : Who, waiting : SUBSET {"user"}]

(* What the operations make of a mutex. *)
LEMMA LockedMonitor ==
    ASSUME NEW m \in Monitors, NEW t \in Who
    PROVE  /\ Locked(m, t) \in Monitors
           /\ Locked(m, t).owner = t
           /\ Locked(m, t).holder = t
           /\ Locked(m, t).waiting = m.waiting
BY DEF Locked, AssignHolder, Monitors, Who

LEMMA UnlockedMonitor ==
    ASSUME NEW m \in Monitors
    PROVE  /\ Unlocked(m) \in Monitors
           /\ Unlocked(m).owner = NoOne
           /\ Unlocked(m).holder = NoOne
           /\ Unlocked(m).waiting = m.waiting
BY DEF Unlocked, UnassignHolder, Monitors, Who

LEMMA WaitsMonitor ==
    ASSUME NEW m \in Monitors
    PROVE  /\ Waits(m, "user") \in Monitors
           /\ Waits(m, "user").owner = NoOne
           /\ Waits(m, "user").holder = NoOne
BY DEF Waits, Unlocked, UnassignHolder, Monitors, Who

LEMMA NotifiedMonitor ==
    ASSUME NEW m \in Monitors
    PROVE  /\ AllNotified(m) \in Monitors
           /\ AllNotified(m).owner = m.owner
           /\ AllNotified(m).holder = m.holder
           /\ AllNotified(m).waiting = {}
BY DEF AllNotified, Monitors, Who

LEMMA SpuriousMonitor ==
    ASSUME NEW m \in Monitors
    PROVE  /\ Spurious(m, "user") \in Monitors
           /\ Spurious(m, "user").owner = m.owner
           /\ Spurious(m, "user").holder = m.holder
           /\ Spurious(m, "user").waiting \subseteq m.waiting
BY DEF Spurious, Monitors, Who

LEMMA FreeMonitor ==
    ASSUME NEW m \in Monitors, m.owner = NoOne, m.holder = NoOne, m.waiting = {}
    PROVE  Destroyable(m)
BY DEF Destroyable, MutexDestroyable, ConditionDestroyable, Unused, Monitors

LEMMA UnusedMonitor ==
    /\ Unused \in Monitors
    /\ Unused.owner = NoOne
    /\ Unused.holder = NoOne
    /\ Unused.waiting = {}
BY DEF Unused, Monitors, Who

LEMMA LatchType == TypeOK => latch \in [Objects -> Monitors]
BY DEF TypeOK, Monitors

(* The threads of a latch are told apart. *)
LEMMA WhoDiffer == NoOne # "user" /\ NoOne # "child" /\ {"user", "child", NoOne} \subseteq Who
BY DEF NoOne, Who
-----------------------------------------------------------------------------
(* Nothing that LifeCycle says of o changes. *)
SameFlags(o) ==
    /\ o \in started' <=> o \in started
    /\ o \in joined' <=> o \in joined
    /\ o \in data' <=> o \in data
    /\ o \in detached' <=> o \in detached

Same(o) ==
    /\ user'[o] = user[o] /\ child'[o] = child[o]
    /\ num'[o] = num[o] /\ name'[o] = name[o]
    /\ tid'[o] = tid[o] /\ count'[o] = count[o]
    /\ latch'[o] = latch[o] /\ current'[o] = current[o]
    /\ SameFlags(o)
    /\ numCreated' >= numCreated


Step(o) ==
    UserStep(o) \/ UserChoice(o) \/ UserLocksLatch(o)
        \/ ChildStep(o) \/ ChildFunction(o) \/ ChildLocksLatch(o)

(* A step for one object leaves the others as they are. *)
LEMMA Frame ==
    ASSUME TypeOK, NEW p \in Objects, NEW o \in Objects, o # p, Step(p)
    PROVE  Same(o)
<1>0. /\ DOMAIN user = Objects /\ DOMAIN num = Objects /\ DOMAIN name = Objects
      /\ DOMAIN tid = Objects /\ DOMAIN count = Objects /\ DOMAIN latch = Objects
      /\ DOMAIN child = Objects /\ DOMAIN current = Objects /\ numCreated \in Nat
  BY DEF TypeOK
<1> USE <1>0 DEF Same, SameFlags, UserAt, UserTo, ChildAt, ChildTo, SetLatch, Assert_, userVars, latchVars, childVars
<1>1. CASE Construct(p)
  BY <1>1 DEF Construct, IncrementAndGet
<1>2. CASE SetDefaultName(p)
  BY <1>2 DEF SetDefaultName
<1>3. CASE StartCreates(p)
  BY <1>3 DEF StartCreates, NewThreadData
<1>4. CASE StartFails(p)
  BY <1>4 DEF StartFails
<1>5. CASE UserLocksLatch(p)
  BY <1>5 DEF UserLocksLatch
<1>6. CASE WaitLatch(p)
  BY <1>6 DEF WaitLatch
<1>7. CASE WakeUp(p)
  BY <1>7 DEF WakeUp
<1>8. CASE StartReturns(p)
  BY <1>8 DEF StartReturns
<1>9. CASE ThreadJoin(p)
  BY <1>9 DEF ThreadJoin
<1>10. CASE JoinReturns(p)
  BY <1>10 DEF JoinReturns
<1>11. CASE Destroy(p)
  BY <1>11 DEF Destroy
<1>12. CASE SetTid(p)
  BY <1>12 DEF SetTid, Cached, CacheTid
<1>13. CASE ChildLocksLatch(p)
  BY <1>13 DEF ChildLocksLatch
<1>14. CASE CountDown(p)
  BY <1>14 DEF CountDown
<1>15. CASE ChildUnlocksLatch(p)
  BY <1>15 DEF ChildUnlocksLatch
<1>16. CASE SetThreadName(p)
  BY <1>16 DEF SetThreadName
<1>17. CASE FunctionReturns(p)
  BY <1>17 DEF FunctionReturns
<1>18. CASE FunctionThrows(p)
  BY <1>18 DEF FunctionThrows
<1>19. CASE DeleteData(p)
  BY <1>19 DEF DeleteData
<1> QED
  BY <1>1, <1>2, <1>3, <1>4, <1>5, <1>6, <1>7, <1>8, <1>9, <1>10, <1>11, <1>12, <1>13, <1>14, <1>15, <1>16, <1>17, <1>18, <1>19
  DEF Step, UserStep, UserChoice, ChildStep, ChildFunction

LEMMA SameLifeCycle ==
    ASSUME TypeOK, TypeOK', NEW o \in Objects, Same(o),
           LatchAgrees(o), FlagsAgree(o), DataAgrees(o), NumberAgrees(o)
    PROVE  LatchAgrees(o)' /\ FlagsAgree(o)' /\ DataAgrees(o)' /\ NumberAgrees(o)'
<1>1. LatchAgrees(o)'
  BY DEF Same, LatchAgrees
<1>2. FlagsAgree(o)'
  BY DEF Same, SameFlags, FlagsAgree
<1>3. DataAgrees(o)'
  BY DEF Same, SameFlags, DataAgrees
<1>4. NumberAgrees(o)'
  BY DEF Same, NumberAgrees, TypeOK
<1> QED
  BY <1>1, <1>2, <1>3, <1>4
-----------------------------------------------------------------------------
(* Every step keeps the types, and no assert fails. *)
LEMMA TypePreserved ==
    ASSUME IInv, NEW p \in Objects, Step(p)
    PROVE  TypeOK' /\ ~failed'
<1> USE LatchType, WhoDiffer DEF IInv, TypeOK, UserPlaces, ChildPlaces, UserAt, UserTo, ChildAt, ChildTo, SetLatch, Assert_, userVars, latchVars, childVars
<1>0. LatchAgrees(p) /\ FlagsAgree(p) /\ latch[p] \in Monitors
  BY DEF LifeCycle

<1>1. CASE Construct(p)
  <2>1. PICK n \in {Empty, Given} : name' = [name EXCEPT ![p] = n]
    BY <1>1 DEF Construct
  <2>2. name' \in [Objects -> Nat \cup {Given}]
    BY <2>1 DEF Empty
  <2>3. user' \in [Objects -> UserPlaces]
    BY <1>1 DEF Construct
  <2>4. numCreated' \in Nat /\ num' \in [Objects -> Nat]
    BY <1>1 DEF Construct, IncrementAndGet
  <2> QED BY <1>1, <2>2, <2>3, <2>4 DEF Construct
<1>2. CASE SetDefaultName(p)
  BY <1>0, <1>2
  DEF SetDefaultName, LatchAgrees, FlagsAgree, Monitors, Fresh, Starting, BeforeCount
<1>3. CASE StartCreates(p)
  BY <1>0, <1>3
  DEF StartCreates, NewThreadData, LatchAgrees, FlagsAgree, Monitors, Fresh, Starting, BeforeCount
<1>4. CASE StartFails(p)
  BY <1>0, <1>4
  DEF StartFails, LatchAgrees, FlagsAgree, Monitors, Fresh, Starting, BeforeCount
<1>5. CASE UserLocksLatch(p)
  BY <1>0, <1>5, LockedMonitor
  DEF UserLocksLatch, LatchAgrees, FlagsAgree, Monitors, Fresh, Starting, BeforeCount
<1>6. CASE WaitLatch(p)
  <2>1. PICK m \in Monitors, place \in UserPlaces :
            latch' = [latch EXCEPT ![p] = m] /\ user' = [user EXCEPT ![p] = place]
    BY <1>0, <1>6, WaitsMonitor, UnlockedMonitor DEF WaitLatch
  <2>2. latch' \in [Objects -> Monitors] /\ user' \in [Objects -> UserPlaces]
    BY <2>1
  <2> QED BY <1>6, <2>2 DEF WaitLatch, Monitors
<1>7. CASE WakeUp(p)
  BY <1>0, <1>7, SpuriousMonitor
  DEF WakeUp, LatchAgrees, FlagsAgree, Monitors, Fresh, Starting, BeforeCount
<1>8. CASE StartReturns(p)
  <2>1. tid[p] > 0
    BY <1>0, <1>8 DEF StartReturns, LatchAgrees, FlagsAgree, Fresh, Starting, BeforeCount, ThreadId
  <2> QED BY <1>8, <2>1 DEF StartReturns
<1>9. CASE ThreadJoin(p)
  BY <1>0, <1>9
  DEF ThreadJoin, LatchAgrees, FlagsAgree, Monitors, Fresh, Starting, BeforeCount
<1>10. CASE JoinReturns(p)
  BY <1>0, <1>10
  DEF JoinReturns, LatchAgrees, FlagsAgree, Monitors, Fresh, Starting, BeforeCount
<1>11. CASE Destroy(p)
  <2>1. Destroyable(latch[p])
    <3>1. user[p] \notin {"latch", "waiting"} /\ child[p] \notin {"latch", "unlock"}
      BY <1>0, <1>11 DEF Destroy, FlagsAgree, Fresh, Starting, BeforeCount
    <3>2. latch[p].owner \in Who
      BY <1>0 DEF Monitors
    <3>3. latch[p].owner = NoOne /\ latch[p].holder = NoOne /\ latch[p].waiting = {}
      BY <1>0, <3>1, <3>2 DEF LatchAgrees, Who
    <3> QED BY <1>0, <3>3, FreeMonitor
  <2>2. failed' = failed
    BY <1>11, <2>1 DEF Destroy
  <2>3. user' \in [Objects -> UserPlaces] /\ detached' \subseteq Objects
    BY <1>11 DEF Destroy
  <2> QED BY <1>11, <2>2, <2>3 DEF Destroy
<1>12. CASE SetTid(p)
  <2>1. Cached(current[p]) \in [tid : {0, ThreadId},
            name : {"unknown", "necoThread", "data", "finished", "crashed"}]
    BY DEF Cached, CacheTid
  <2>2. current' = [current EXCEPT ![p] = Cached(current[p])]
    BY <1>12 DEF SetTid
  <2>3. current'[p].tid \in {0, ThreadId}
    BY <2>1, <2>2
  <2>4. child' \in [Objects -> ChildPlaces] /\ tid' \in [Objects -> {0, ThreadId}]
    BY <1>12, <2>3 DEF SetTid
  <2> QED BY <1>12, <2>1, <2>2, <2>4 DEF SetTid
<1>13. CASE ChildLocksLatch(p)
  BY <1>0, <1>13, LockedMonitor
  DEF ChildLocksLatch, LatchAgrees, FlagsAgree, Monitors, Fresh, Starting, BeforeCount
<1>14. CASE CountDown(p)
  <2>1. count[p] = 1
    BY <1>0, <1>14 DEF CountDown, LatchAgrees, BeforeCount
  <2>2. count' = [count EXCEPT ![p] = 0]
    BY <1>14, <2>1 DEF CountDown
  <2>3. latch' = [latch EXCEPT ![p] = AllNotified(latch[p])]
    BY <1>14, <2>2 DEF CountDown
  <2> QED
    <3>1. latch' \in [Objects -> Monitors]
      BY <1>0, <2>3, NotifiedMonitor
    <3> QED BY <1>0, <1>14, <2>2, <3>1 DEF CountDown, Monitors
<1>15. CASE ChildUnlocksLatch(p)
  <2>1. latch' = [latch EXCEPT ![p] = Unlocked(latch[p])]
    BY <1>15 DEF ChildUnlocksLatch
  <2>2. latch' \in [Objects -> Monitors]
    BY <1>0, <2>1, UnlockedMonitor
  <2> QED BY <1>0, <1>15, <2>2 DEF ChildUnlocksLatch, Monitors
<1>16. CASE SetThreadName(p)
  BY <1>16 DEF SetThreadName
<1>17. CASE FunctionReturns(p)
  BY <1>17 DEF FunctionReturns
<1>18. CASE FunctionThrows(p)
  BY <1>18 DEF FunctionThrows
<1>19. CASE DeleteData(p)
  BY <1>19 DEF DeleteData
<1> QED
  BY <1>1, <1>2, <1>3, <1>4, <1>5, <1>6, <1>7, <1>8, <1>9, <1>10, <1>11, <1>12, <1>13, <1>14, <1>15, <1>16, <1>17, <1>18, <1>19
  DEF Step, UserStep, UserChoice, ChildStep, ChildFunction
-----------------------------------------------------------------------------
(* The latch of the object that a step is for. *)
LEMMA LatchPreserved ==
    ASSUME IInv, TypeOK', NEW p \in Objects, Step(p)
    PROVE  LatchAgrees(p)'
<1>0. TypeOK /\ LatchAgrees(p) /\ FlagsAgree(p) /\ DataAgrees(p) /\ latch[p] \in Monitors
  BY LatchType DEF IInv, LifeCycle
<1> USE <1>0, WhoDiffer DEF LatchAgrees, BeforeCount, ThreadId, TypeOK, UserAt, UserTo, ChildAt, ChildTo, SetLatch, userVars, latchVars, childVars
<1>1. CASE Construct(p)
  BY <1>1 DEF Construct, IncrementAndGet
<1>2. CASE SetDefaultName(p)
  BY <1>2 DEF SetDefaultName
<1>3. CASE StartCreates(p)
  BY <1>3 DEF StartCreates, NewThreadData, FlagsAgree, Fresh
<1>4. CASE StartFails(p)
  BY <1>4 DEF StartFails
<1>5. CASE UserLocksLatch(p)
  <2>1. latch[p].owner = NoOne /\ latch[p].waiting = {}
    BY <1>5 DEF UserLocksLatch, CanLock, CanWake, Monitors
  <2>2. /\ latch'[p] = Locked(latch[p], "user") /\ user'[p] = "latch"
        /\ child'[p] = child[p] /\ count'[p] = count[p] /\ tid'[p] = tid[p]
    BY <1>5 DEF UserLocksLatch
  <2> QED BY <2>1, <2>2, LockedMonitor
<1>6. CASE WaitLatch(p)
  BY <1>6, WaitsMonitor, UnlockedMonitor DEF WaitLatch
<1>7. CASE WakeUp(p)
  BY <1>7, SpuriousMonitor DEF WakeUp
<1>8. CASE StartReturns(p)
  BY <1>8 DEF StartReturns
<1>9. CASE ThreadJoin(p)
  BY <1>9 DEF ThreadJoin
<1>10. CASE JoinReturns(p)
  BY <1>10 DEF JoinReturns
<1>11. CASE Destroy(p)
  BY <1>11, FreeMonitor DEF Destroy
<1>12. CASE SetTid(p)
  BY <1>12 DEF SetTid, Cached, CacheTid
<1>13. CASE ChildLocksLatch(p)
  <2>1. latch[p].owner = NoOne
    BY <1>13 DEF ChildLocksLatch, CanLock
  <2>2. /\ latch'[p] = Locked(latch[p], "child") /\ user'[p] = user[p]
        /\ child'[p] = "latch" /\ count'[p] = count[p] /\ tid'[p] = tid[p]
    BY <1>13 DEF ChildLocksLatch
  <2> QED BY <1>13, <2>1, <2>2, LockedMonitor DEF ChildLocksLatch
<1>14. CASE CountDown(p)
  BY <1>14, NotifiedMonitor DEF CountDown
<1>15. CASE ChildUnlocksLatch(p)
  BY <1>15, UnlockedMonitor DEF ChildUnlocksLatch
<1>16. CASE SetThreadName(p)
  BY <1>16 DEF SetThreadName
<1>17. CASE FunctionReturns(p)
  BY <1>17 DEF FunctionReturns
<1>18. CASE FunctionThrows(p)
  BY <1>18 DEF FunctionThrows
<1>19. CASE DeleteData(p)
  BY <1>19 DEF DeleteData
<1> QED
  BY <1>1, <1>2, <1>3, <1>4, <1>5, <1>6, <1>7, <1>8, <1>9, <1>10, <1>11, <1>12, <1>13, <1>14, <1>15, <1>16, <1>17, <1>18, <1>19
  DEF Step, UserStep, UserChoice, ChildStep, ChildFunction
-----------------------------------------------------------------------------
(* Its flags. *)
LEMMA FlagsPreserved ==
    ASSUME IInv, TypeOK', NEW p \in Objects, Step(p)
    PROVE  FlagsAgree(p)'
<1>0. TypeOK /\ LatchAgrees(p) /\ FlagsAgree(p) /\ DataAgrees(p) /\ latch[p] \in Monitors
  BY LatchType DEF IInv, LifeCycle
<1> USE <1>0, WhoDiffer DEF FlagsAgree, LatchAgrees, TypeOK, UserPlaces, Fresh, Starting, BeforeCount, UserAt, UserTo, ChildAt, ChildTo, SetLatch, userVars, latchVars, childVars
<1>1. CASE Construct(p)
  BY <1>1 DEF Construct, IncrementAndGet
<1>2. CASE SetDefaultName(p)
  BY <1>2 DEF SetDefaultName
<1>3. CASE StartCreates(p)
  BY <1>3 DEF StartCreates, NewThreadData
<1>4. CASE StartFails(p)
  BY <1>4 DEF StartFails
<1>5. CASE UserLocksLatch(p)
  BY <1>5 DEF UserLocksLatch
<1>6. CASE WaitLatch(p)
  BY <1>6 DEF WaitLatch
<1>7. CASE WakeUp(p)
  BY <1>7 DEF WakeUp
<1>8. CASE StartReturns(p)
  BY <1>8 DEF StartReturns
<1>9. CASE ThreadJoin(p)
  BY <1>9 DEF ThreadJoin
<1>10. CASE JoinReturns(p)
  BY <1>10 DEF JoinReturns
<1>11. CASE Destroy(p)
  BY <1>11 DEF Destroy
<1>12. CASE SetTid(p)
  BY <1>12 DEF SetTid, Cached, CacheTid
<1>13. CASE ChildLocksLatch(p)
  BY <1>13 DEF ChildLocksLatch
<1>14. CASE CountDown(p)
  BY <1>14 DEF CountDown
<1>15. CASE ChildUnlocksLatch(p)
  BY <1>15 DEF ChildUnlocksLatch
<1>16. CASE SetThreadName(p)
  BY <1>16 DEF SetThreadName
<1>17. CASE FunctionReturns(p)
  BY <1>17 DEF FunctionReturns
<1>18. CASE FunctionThrows(p)
  BY <1>18 DEF FunctionThrows
<1>19. CASE DeleteData(p)
  BY <1>19 DEF DeleteData
<1> QED
  BY <1>1, <1>2, <1>3, <1>4, <1>5, <1>6, <1>7, <1>8, <1>9, <1>10, <1>11, <1>12, <1>13, <1>14, <1>15, <1>16, <1>17, <1>18, <1>19
  DEF Step, UserStep, UserChoice, ChildStep, ChildFunction
-----------------------------------------------------------------------------
(* Its CThreadData. *)
LEMMA DataPreserved ==
    ASSUME IInv, TypeOK', NEW p \in Objects, Step(p)
    PROVE  DataAgrees(p)'
<1>0. TypeOK /\ LatchAgrees(p) /\ FlagsAgree(p) /\ DataAgrees(p) /\ latch[p] \in Monitors
  BY LatchType DEF IInv, LifeCycle
<1> USE <1>0 DEF DataAgrees, FlagsAgree, Fresh, Starting, UserPlaces, TypeOK, UserAt, UserTo, ChildAt, ChildTo, SetLatch, userVars, latchVars, childVars
<1>1. CASE Construct(p)
  BY <1>1 DEF Construct, IncrementAndGet
<1>2. CASE SetDefaultName(p)
  BY <1>2 DEF SetDefaultName
<1>3. CASE StartCreates(p)
  BY <1>3 DEF StartCreates, NewThreadData
<1>4. CASE StartFails(p)
  BY <1>4 DEF StartFails
<1>5. CASE UserLocksLatch(p)
  BY <1>5 DEF UserLocksLatch
<1>6. CASE WaitLatch(p)
  BY <1>6 DEF WaitLatch
<1>7. CASE WakeUp(p)
  BY <1>7 DEF WakeUp
<1>8. CASE StartReturns(p)
  BY <1>8 DEF StartReturns
<1>9. CASE ThreadJoin(p)
  BY <1>9 DEF ThreadJoin
<1>10. CASE JoinReturns(p)
  BY <1>10 DEF JoinReturns
<1>11. CASE Destroy(p)
  BY <1>11 DEF Destroy
<1>12. CASE SetTid(p)
  BY <1>12 DEF SetTid, Cached, CacheTid
<1>13. CASE ChildLocksLatch(p)
  BY <1>13 DEF ChildLocksLatch
<1>14. CASE CountDown(p)
  BY <1>14 DEF CountDown
<1>15. CASE ChildUnlocksLatch(p)
  BY <1>15 DEF ChildUnlocksLatch
<1>16. CASE SetThreadName(p)
  BY <1>16 DEF SetThreadName
<1>17. CASE FunctionReturns(p)
  BY <1>17 DEF FunctionReturns
<1>18. CASE FunctionThrows(p)
  BY <1>18 DEF FunctionThrows
<1>19. CASE DeleteData(p)
  BY <1>19 DEF DeleteData
<1> QED
  BY <1>1, <1>2, <1>3, <1>4, <1>5, <1>6, <1>7, <1>8, <1>9, <1>10, <1>11, <1>12, <1>13, <1>14, <1>15, <1>16, <1>17, <1>18, <1>19
  DEF Step, UserStep, UserChoice, ChildStep, ChildFunction
-----------------------------------------------------------------------------
(* The numbers of all objects: only their constructors give them any. *)
LEMMA OtherSteps ==
    ASSUME NEW p \in Objects, Step(p), ~Construct(p), ~SetDefaultName(p), TypeOK
    PROVE  /\ UNCHANGED <<numCreated, num, name>>
           /\ \/ UNCHANGED user
              \/ /\ user[p] \notin {"none", "construct"}
                 /\ user'[p] \notin {"none", "construct"}
<1>0. user \in [Objects -> UserPlaces]
  BY DEF TypeOK
<1> USE <1>0 DEF UserAt, UserTo, SetLatch, userVars, latchVars, childVars
<1>1. CASE StartCreates(p) \/ StartFails(p) \/ UserLocksLatch(p) \/ WaitLatch(p) \/ WakeUp(p)
  BY <1>1 DEF StartCreates, NewThreadData, StartFails, UserLocksLatch, WaitLatch, WakeUp
<1>2. CASE StartReturns(p) \/ ThreadJoin(p) \/ JoinReturns(p) \/ Destroy(p)
  BY <1>2 DEF StartReturns, ThreadJoin, JoinReturns, Destroy
<1>3. CASE ChildStep(p) \/ ChildFunction(p) \/ ChildLocksLatch(p)
  BY <1>3 DEF ChildStep, ChildFunction, ChildLocksLatch, SetTid, CountDown, ChildUnlocksLatch,
              SetThreadName, DeleteData, FunctionReturns, FunctionThrows
<1> QED
  BY <1>1, <1>2, <1>3 DEF Step, UserStep, UserChoice

LEMMA NumberPreserved ==
    ASSUME IInv, TypeOK', NEW p \in Objects, Step(p)
    PROVE  NumberAgrees(p)'
<1>0. TypeOK /\ NumberAgrees(p)
  BY DEF IInv, LifeCycle
<1> USE <1>0 DEF NumberAgrees, TypeOK, Empty, Given
<1>1. CASE Construct(p)
  <2>1. PICK n \in {Empty, Given} : name' = [name EXCEPT ![p] = n]
    BY <1>1 DEF Construct
  <2>2. num' = [num EXCEPT ![p] = numCreated + 1] /\ numCreated' = numCreated + 1
    BY <1>1 DEF Construct, IncrementAndGet
  <2>3. user' = [user EXCEPT ![p] = "construct"]
    BY <1>1 DEF Construct, UserTo
  <2> QED BY <2>1, <2>2, <2>3
<1>2. CASE SetDefaultName(p)
  BY <1>2 DEF SetDefaultName, UserAt, UserTo
<1>3. CASE ~Construct(p) /\ ~SetDefaultName(p)
  BY <1>3, OtherSteps
<1> QED
  BY <1>1, <1>2, <1>3

LEMMA NumbersPreserved ==
    ASSUME IInv, TypeOK', NEW p \in Objects, Step(p)
    PROVE  NumbersDiffer'
<1>0. TypeOK /\ NumbersDiffer /\ \A o \in Objects : num[o] <= numCreated
  BY DEF IInv, LifeCycle, NumberAgrees
<1>1. CASE Construct(p)
  <2>1. num' = [num EXCEPT ![p] = numCreated + 1] /\ numCreated \in Nat /\ num \in [Objects -> Nat]
    BY <1>0, <1>1 DEF Construct, IncrementAndGet, TypeOK
  <2> QED BY <1>0, <2>1 DEF NumbersDiffer
<1>2. CASE ~Construct(p)
  <2>1. num' = num
    BY <1>0, <1>2, OtherSteps DEF SetDefaultName
  <2> QED BY <1>0, <2>1 DEF NumbersDiffer
<1> QED
  BY <1>1, <1>2
-----------------------------------------------------------------------------
LEMMA InitIInv == Init => IInv
<1> SUFFICES ASSUME Init PROVE IInv
  OBVIOUS
<1>1. TypeOK /\ ~failed
  BY UnusedMonitor DEF Init, LatchCount, TypeOK, UserPlaces, ChildPlaces, Monitors, ThreadId, Empty
<1>2. LifeCycle
  <2> USE DEF Init
  <2>1. ASSUME NEW o \in Objects PROVE LatchAgrees(o)
    BY UnusedMonitor, WhoDiffer DEF LatchCount, LatchAgrees, BeforeCount
  <2>2. ASSUME NEW o \in Objects PROVE FlagsAgree(o) /\ DataAgrees(o)
    BY DEF FlagsAgree, DataAgrees, Fresh, Starting
  <2>3. ASSUME NEW o \in Objects PROVE NumberAgrees(o)
    BY DEF NumberAgrees, Empty
  <2>4. NumbersDiffer
    BY DEF NumbersDiffer
  <2> QED BY <2>1, <2>2, <2>3, <2>4 DEF LifeCycle
<1> QED BY <1>1, <1>2 DEF IInv

LEMMA NextIInv == IInv /\ [Next]_vars => IInv'
<1>1. ASSUME IInv, Next PROVE IInv'
  <2>1. PICK p \in Objects : Step(p)
    BY <1>1 DEF Next, Step
  <2>2. TypeOK' /\ ~failed'
    BY <1>1, <2>1, TypePreserved
  <2>3. NumbersDiffer'
    BY <1>1, <2>1, <2>2, NumbersPreserved
  <2>4. ASSUME NEW o \in Objects
        PROVE  LatchAgrees(o)' /\ FlagsAgree(o)' /\ DataAgrees(o)' /\ NumberAgrees(o)'
    <3>1. CASE o = p
      <4>1. LatchAgrees(p)' /\ FlagsAgree(p)'
        BY <1>1, <2>1, <2>2, LatchPreserved, FlagsPreserved
      <4>2. DataAgrees(p)' /\ NumberAgrees(p)'
        BY <1>1, <2>1, <2>2, DataPreserved, NumberPreserved
      <4> QED BY <3>1, <4>1, <4>2
    <3>2. CASE o # p
      <4>1. TypeOK /\ LatchAgrees(o) /\ FlagsAgree(o) /\ DataAgrees(o) /\ NumberAgrees(o)
        BY <1>1 DEF IInv, LifeCycle
      <4>2. Same(o)
        BY <2>1, <3>2, <4>1, Frame
      <4> QED BY <2>2, <4>1, <4>2, SameLifeCycle
    <3> QED BY <3>1, <3>2
  <2> QED BY <2>2, <2>3, <2>4 DEF IInv, LifeCycle
<1>2. ASSUME IInv, UNCHANGED vars PROVE IInv'
  BY <1>2 DEF IInv, vars, userVars, latchVars, childVars, TypeOK, LifeCycle,
     LatchAgrees, FlagsAgree, DataAgrees, NumberAgrees, NumbersDiffer
<1> QED BY <1>1, <1>2

(* What the numbers, flags and places are, and that the properties follow. *)
THEOREM Invariance == Spec => []IInv
BY InitIInv, NextIInv, PTL DEF Spec

(* Type correctness: the latch's count is 1 and then 0, tids are written once. *)
THEOREM TypeCorrect == Spec => []TypeOK
<1>1. IInv => TypeOK
  BY DEF IInv
<1> QED BY <1>1, Invariance, PTL

(* For any number of objects: nothing that a thread is going to touch has been
   destroyed. *)
THEOREM UseAfterFreeFree == Spec => []NoUseAfterFree
<1>1. IInv => NoUseAfterFree
  <2> SUFFICES ASSUME IInv, NEW o \in Objects
               PROVE  /\ TouchesObject(o) => user[o] \in {"locking", "latch", "waiting"}
                      /\ TouchesData(o) <=> o \in data
                      /\ current[o].name = "data" => o \in data
    BY DEF NoUseAfterFree
  <2>1. TypeOK /\ FlagsAgree(o) /\ DataAgrees(o)
    BY DEF IInv, LifeCycle
  <2>2. user[o] \in UserPlaces /\ child[o] \in ChildPlaces
    BY <2>1 DEF TypeOK
  <2>3. TouchesObject(o) => user[o] \in {"locking", "latch", "waiting"}
    BY <2>1, <2>2 DEF TouchesObject, FlagsAgree, UserPlaces, Fresh, Starting, BeforeCount
  <2>4. TouchesData(o) <=> o \in data
    BY <2>1, <2>2 DEF TouchesData, DataAgrees
  <2>5. current[o].name = "data" => o \in data
    BY <2>1, <2>4 DEF TouchesData, DataAgrees, ChildPlaces
  <2> QED BY <2>3, <2>4, <2>5
<1> QED BY <1>1, Invariance, PTL

(* Default names differ, whatever constructors run at the same time. *)
THEOREM DefaultNamesDistinct == Spec => []DefaultNamesDiffer
<1>1. IInv => DefaultNamesDiffer
  <2> SUFFICES ASSUME IInv, NEW o \in Objects, NEW p \in Objects, o # p,
                      user[o] \notin {"none", "construct"}, name[o] # Given
               PROVE  name[o] # name[p]
    BY DEF DefaultNamesDiffer
  <2>1. TypeOK /\ NumberAgrees(o) /\ NumberAgrees(p) /\ NumbersDiffer
    BY DEF IInv, LifeCycle
  <2>2. name[o] = num[o] /\ num[o] # 0 /\ num[o] # num[p] /\ num[o] \in Nat
    BY <2>1 DEF NumberAgrees, NumbersDiffer, TypeOK
  <2> QED BY <2>1, <2>2 DEF NumberAgrees, Empty, Given
<1> QED BY <1>1, Invariance, PTL

(* No thread is left joinable, joined twice or joined and detached. *)
THEOREM JoinedOrDetachedOnce == Spec => []JoinedOrDetached
<1>1. IInv => JoinedOrDetached
  BY DEF IInv, LifeCycle, FlagsAgree, JoinedOrDetached, Fresh
<1> QED BY <1>1, Invariance, PTL

(* The asserts of CThread and of its latch hold. *)
THEOREM NoAssertFails == Spec => []AssertsHold
<1>1. IInv => AssertsHold
  BY WhoDiffer DEF IInv, LifeCycle, LatchAgrees, AssertsHold, IslockedByThisThread
<1> QED BY <1>1, Invariance, PTL

(* Start and ThreadJoin wait for somebody who can go on, for any number of
   objects: the provable half of CallsReturn (CCountDownLatch.cpp:13-27). *)
THEOREM CallsGoOn == Spec => []CallsNotStuck
<1>1. IInv => CallsNotStuck
  <2> SUFFICES ASSUME IInv, NEW o \in Objects
               PROVE  /\ user[o] \in Starting => UserCanGo(o) \/ ChildCanGo(o)
                      /\ user[o] = "join" => child[o] \in {"name", "function", "delete", "exited"}
    BY DEF CallsNotStuck
  <2>1. LatchAgrees(o) /\ FlagsAgree(o) /\ latch[o] \in Monitors /\ child[o] \in ChildPlaces
    BY LatchType DEF IInv, LifeCycle, TypeOK
  <2>2. ASSUME user[o] \in Starting PROVE child[o] # "none"
    BY <2>1, <2>2 DEF FlagsAgree, Starting, Fresh, UserPlaces
  <2>3. ASSUME user[o] \in Starting PROVE UserCanGo(o) \/ ChildCanGo(o)
    <3>1. CASE child[o] \in {"run", "latch", "unlock"} \/ user[o] = "latch"
      BY <3>1 DEF UserCanGo, ChildCanGo
    <3>2. CASE child[o] \notin {"run", "latch", "unlock"} /\ user[o] # "latch"
      <4>1. CanLock(latch[o])
        BY <2>1, <3>2 DEF LatchAgrees, CanLock, Monitors, Who
      <4>2. child[o] = "locking" \/ latch[o].waiting = {}
        BY <2>1, <2>2, <2>3, <3>2 DEF LatchAgrees, BeforeCount
      <4> QED BY <2>3, <4>1, <4>2, <3>2 DEF UserCanGo, ChildCanGo, CanWake, Starting
    <3> QED BY <3>1, <3>2
  <2>4. user[o] = "join" => child[o] \in {"name", "function", "delete", "exited"}
    BY <2>1 DEF FlagsAgree, Fresh, Starting, BeforeCount, UserPlaces, ChildPlaces
  <2> QED BY <2>3, <2>4
<1> QED BY <1>1, Invariance, PTL
=============================================================================
