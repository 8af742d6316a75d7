------------------------------- MODULE Thread --------------------------------
(***************************************************************************)
(* CThread objects from construction to destruction (base/CThread.cpp),    *)
(* with the thread each of them starts (base/CThreadData.cpp), the         *)
(* CCountDownLatch the two meet at, and what of CurrentThread and CAtomic  *)
(* they use.  Every object has a user, a thread that constructs it, starts *)
(* it or not, joins it or not and destroys it; the users run concurrently. *)
(*                                                                         *)
(* The new thread is given addresses of m_tid and the latch, which lie in  *)
(* the object, and a CThreadData of its own, to which its name points.     *)
(***************************************************************************)
EXTENDS Monitor, Integers

CONSTANT Objects    (* CThread objects *)

VARIABLES
    numCreated,   (* s_aiNumCreated, shared by all objects *)
    user,         (* user[o]: where the user of o is *)
    num,          (* num[o]: what IncrementAndGet returned *)
    name,         (* name[o]: m_sName *)
    started,      (* objects with m_bStarted *)
    joined,       (* objects with m_bJoined *)
    tid,          (* tid[o]: m_tid, 0 until the new thread writes it *)
    count,        (* count[o]: m_nCount of the latch *)
    latch,        (* latch[o]: its mutex and condition, between "user" and "child" *)
    child,        (* child[o]: where the new thread is *)
    data,         (* objects whose CThreadData exists *)
    current,      (* current[o]: the new thread's t_nCachedTid and t_pcThreadName *)
    detached,     (* threads that pthread_detach was called for *)
    crashed,      (* an exception left a thread function: the process is gone *)
    failed        (* an assert has failed *)

userVars == <<user, num, name, started, joined>>
latchVars == <<count, latch>>
childVars == <<child, tid, data, current, detached>>
vars == <<numCreated, userVars, latchVars, childVars, crashed, failed>>

(* Names: of no letters, given by the user, and "Thread%d" as the number. *)
Empty == 0
Given == -1

(* Thread ids are positive and each thread has its own. *)
ThreadId == 1

(* m_clsLatch(1). *)
LatchCount == 1

Init ==
    /\ numCreated = 0
    /\ user = [o \in Objects |-> "none"]
    /\ num = [o \in Objects |-> 0]
    /\ name = [o \in Objects |-> Empty]
    /\ started = {}
    /\ joined = {}
    /\ tid = [o \in Objects |-> 0]
    /\ count = [o \in Objects |-> LatchCount]
    /\ latch = [o \in Objects |-> Unused]
    /\ child = [o \in Objects |-> "none"]
    /\ data = {}
    /\ current = [o \in Objects |-> [tid |-> 0, name |-> "unknown"]]
    /\ detached = {}
    /\ crashed = FALSE
    /\ failed = FALSE

UserAt(o, place) == ~crashed /\ user[o] = place
UserTo(o, place) == user' = [user EXCEPT ![o] = place]
ChildAt(o, place) == ~crashed /\ child[o] = place
ChildTo(o, place) == child' = [child EXCEPT ![o] = place]
SetLatch(o, m) == latch' = [latch EXCEPT ![o] = m]
Assert_(holds) == failed' = (failed \/ ~holds)
-----------------------------------------------------------------------------
(* The user of o. *)

(* IncrementAndGet: the sum is one of its own, whoever adds meanwhile. *)
IncrementAndGet(o) ==
    /\ numCreated' = numCreated + 1
    /\ num' = [num EXCEPT ![o] = numCreated + 1]

(* The constructor up to the name. *)
Construct(o) ==
    /\ UserAt(o, "none")
    /\ UserTo(o, "construct")
    /\ \E n \in {Empty, Given} : name' = [name EXCEPT ![o] = n]
    /\ IncrementAndGet(o)
    /\ UNCHANGED <<started, joined, latchVars, childVars, crashed, failed>>

(* Mutant: the counter is read again for the name. *)
SetDefaultNameRereads(o) ==
    /\ UserAt(o, "construct")
    /\ UserTo(o, "made")
    /\ name' = [name EXCEPT ![o] = IF @ = Empty THEN numCreated ELSE @]
    /\ UNCHANGED <<numCreated, num, started, joined, latchVars, childVars, crashed, failed>>

(* The rest of __SetDefaultName. *)
SetDefaultName(o) ==
    /\ UserAt(o, "construct")
    /\ UserTo(o, "made")
    /\ name' = [name EXCEPT ![o] = IF @ = Empty THEN num[o] ELSE @]
    /\ UNCHANGED <<numCreated, num, started, joined, latchVars, childVars, crashed, failed>>

(* The CThreadData, which lives as long as the new thread runs. *)
NewThreadData(o) == data' = data \cup {o}

(* Start, when there is a new thread. *)
StartCreates(o) ==
    /\ UserAt(o, "made")
    /\ Assert_(o \notin started)
    /\ started' = started \cup {o}
    /\ NewThreadData(o)
    /\ ChildTo(o, "run")
    /\ UserTo(o, "locking")
    /\ UNCHANGED <<numCreated, num, name, joined, tid, current, detached, latchVars, crashed>>

(* Mutant: m_bStarted stays set. *)
StartFailsStarted(o) ==
    /\ UserAt(o, "made")
    /\ Assert_(o \notin started)
    /\ started' = started \cup {o}
    /\ UNCHANGED <<numCreated, user, num, name, joined, latchVars, childVars, crashed>>

(* pthread_create fails: Start undoes what it has done and returns. *)
StartFails(o) ==
    /\ UserAt(o, "made")
    /\ Assert_(o \notin started)
    /\ UNCHANGED <<numCreated, userVars, latchVars, childVars, crashed>>

(* Wait of the latch, and the wakeups that nobody has caused. *)
UserLocksLatch(o) ==
    /\ \/ UserAt(o, "locking") /\ CanLock(latch[o])
       \/ UserAt(o, "waiting") /\ CanWake(latch[o], "user")
    /\ SetLatch(o, Locked(latch[o], "user"))
    /\ UserTo(o, "latch")
    /\ UNCHANGED <<numCreated, num, name, started, joined, count, childVars, crashed, failed>>

WaitLatch(o) ==
    /\ UserAt(o, "latch")
    /\ IF count[o] > 0
       THEN SetLatch(o, Waits(latch[o], "user")) /\ UserTo(o, "waiting")
       ELSE SetLatch(o, Unlocked(latch[o])) /\ UserTo(o, "tid")
    /\ UNCHANGED <<numCreated, num, name, started, joined, count, childVars, crashed, failed>>

WakeUp(o) ==
    /\ UserAt(o, "waiting")
    /\ "user" \in latch[o].waiting
    /\ SetLatch(o, Spurious(latch[o], "user"))
    /\ UNCHANGED <<numCreated, userVars, count, childVars, crashed, failed>>

(* The end of Start. *)
StartReturns(o) ==
    /\ UserAt(o, "tid")
    /\ Assert_(tid[o] > 0)
    /\ UserTo(o, "started")
    /\ UNCHANGED <<numCreated, num, name, started, joined, latchVars, childVars, crashed>>

(* ThreadJoin up to pthread_join, and its return. *)
ThreadJoin(o) ==
    /\ UserAt(o, "started")
    /\ Assert_(o \in started /\ o \notin joined)
    /\ joined' = joined \cup {o}
    /\ UserTo(o, "join")
    /\ UNCHANGED <<numCreated, num, name, started, latchVars, childVars, crashed>>

JoinReturns(o) ==
    /\ UserAt(o, "join")
    /\ child[o] = "exited"
    /\ UserTo(o, "joined")
    /\ UNCHANGED <<numCreated, num, name, started, joined, latchVars, childVars, crashed, failed>>

(* ~CThread and those of its members: never started, running or joined. *)
Destroy(o) ==
    /\ \E place \in {"made", "started", "joined"} : UserAt(o, place)
    /\ detached' = IF o \in started \ joined THEN detached \cup {o} ELSE detached
    /\ Assert_(Destroyable(latch[o]))
    /\ UserTo(o, "destroyed")
    /\ UNCHANGED <<numCreated, num, name, started, joined, latchVars, tid, child, data, current, crashed>>
-----------------------------------------------------------------------------
(* The new thread. *)

(* Mutant: nobody calls CacheTid. *)
CachedNever(c) == c

(* CacheTid, and CurrentThread::Tid, which calls it once. *)
CacheTid(c) == [c EXCEPT !.tid = ThreadId]
Cached(c) == IF c.tid = 0 THEN CacheTid(c) ELSE c

(* RunInThread up to CountDown. *)
SetTid(o) ==
    /\ ChildAt(o, "run")
    /\ current' = [current EXCEPT ![o] = Cached(@)]
    /\ tid' = [tid EXCEPT ![o] = current'[o].tid]
    /\ ChildTo(o, "locking")
    /\ UNCHANGED <<numCreated, userVars, latchVars, data, detached, crashed, failed>>

(* CountDown: the guard, the count with NotifyAll, the guard's destructor. *)
ChildLocksLatch(o) ==
    /\ ChildAt(o, "locking")
    /\ CanLock(latch[o])
    /\ SetLatch(o, Locked(latch[o], "child"))
    /\ ChildTo(o, "latch")
    /\ UNCHANGED <<numCreated, userVars, count, tid, data, current, detached, crashed, failed>>

(* Mutants: the guard is left before the notification; nobody is notified. *)
CountDownUnlocked(o) ==
    /\ ChildAt(o, "latch")
    /\ count' = [count EXCEPT ![o] = @ - 1]
    /\ SetLatch(o, Unlocked(IF count'[o] = 0 THEN AllNotified(latch[o]) ELSE latch[o]))
    /\ ChildTo(o, "unlock")
    /\ UNCHANGED <<numCreated, userVars, tid, data, current, detached, crashed, failed>>

CountDownSilent(o) ==
    /\ ChildAt(o, "latch")
    /\ count' = [count EXCEPT ![o] = @ - 1]
    /\ ChildTo(o, "unlock")
    /\ UNCHANGED <<numCreated, userVars, latch, tid, data, current, detached, crashed, failed>>

CountDown(o) ==
    /\ ChildAt(o, "latch")
    /\ count' = [count EXCEPT ![o] = @ - 1]
    /\ SetLatch(o, IF count'[o] = 0 THEN AllNotified(latch[o]) ELSE latch[o])
    /\ ChildTo(o, "unlock")
    /\ UNCHANGED <<numCreated, userVars, tid, data, current, detached, crashed, failed>>

ChildUnlocksLatch(o) ==
    /\ ChildAt(o, "unlock")
    /\ SetLatch(o, Unlocked(latch[o]))
    /\ ChildTo(o, "name")
    /\ UNCHANGED <<numCreated, userVars, count, tid, data, current, detached, crashed, failed>>

(* t_pcThreadName points into the CThreadData. *)
SetThreadName(o) ==
    /\ ChildAt(o, "name")
    /\ current' = [current EXCEPT ![o].name = IF name[o] = Empty THEN "necoThread" ELSE "data"]
    /\ ChildTo(o, "function")
    /\ UNCHANGED <<numCreated, userVars, latchVars, tid, data, detached, crashed, failed>>

(* m_pfnThreadFunc returns, or throws: abort after the two kinds of
   exception, terminate after the others. *)
FunctionReturns(o) ==
    /\ ChildAt(o, "function")
    /\ current' = [current EXCEPT ![o].name = "finished"]
    /\ ChildTo(o, "delete")
    /\ UNCHANGED <<numCreated, userVars, latchVars, tid, data, detached, crashed, failed>>

FunctionThrows(o) ==
    /\ ChildAt(o, "function")
    /\ current' = [current EXCEPT ![o].name = "crashed"]
    /\ crashed' = TRUE
    /\ UNCHANGED <<numCreated, userVars, latchVars, child, tid, data, detached, failed>>

(* The end of StartThread. *)
DeleteData(o) ==
    /\ ChildAt(o, "delete")
    /\ data' = data \ {o}
    /\ ChildTo(o, "exited")
    /\ UNCHANGED <<numCreated, userVars, latchVars, tid, current, detached, crashed, failed>>
-----------------------------------------------------------------------------
UserStep(o) ==
    \/ SetDefaultName(o) \/ WaitLatch(o) \/ StartReturns(o) \/ JoinReturns(o)

UserChoice(o) ==
    \/ Construct(o) \/ StartCreates(o) \/ StartFails(o) \/ WakeUp(o)
    \/ ThreadJoin(o) \/ Destroy(o)

ChildStep(o) ==
    \/ SetTid(o) \/ CountDown(o) \/ ChildUnlocksLatch(o)
    \/ SetThreadName(o) \/ DeleteData(o)

ChildFunction(o) == FunctionReturns(o) \/ FunctionThrows(o)

Next ==
    \E o \in Objects :
        \/ UserStep(o) \/ UserChoice(o) \/ UserLocksLatch(o)
        \/ ChildStep(o) \/ ChildFunction(o) \/ ChildLocksLatch(o)

Spec == Init /\ [][Next]_vars

(* Threads go on, and get a mutex that is free again and again.  Nobody has to
   start, join or destroy anything, and a thread function may never return. *)
Fairness ==
    \A o \in Objects :
        /\ WF_vars(UserStep(o))
        /\ WF_vars(ChildStep(o))
        /\ SF_vars(UserLocksLatch(o))
        /\ SF_vars(ChildLocksLatch(o))

FairSpec == Spec /\ Fairness
=============================================================================
