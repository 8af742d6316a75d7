-------------------------- MODULE EventLoopThread ---------------------------
(***************************************************************************)
(* CEventLoopThread (net/CEventLoopThread.cpp) with the CThread,           *)
(* CThreadData and CCountDownLatch under it, composed with EventLoop: an   *)
(* owner starts a thread that makes a loop on its own stack, waits until   *)
(* it is told where the loop is, queues functors for it, and in the end    *)
(* stops it and joins the thread.                                          *)
(*                                                                         *)
(* The owner is the only thread besides the loop's, and nobody but the     *)
(* destructor stops the loop: m_iEventLoop is never set back, so whoever   *)
(* ends the loop earlier leaves the destructor a pointer to nothing.       *)
(***************************************************************************)
EXTENDS EventLoop, Monitor

CONSTANT Owner    (* the thread that has the CEventLoopThread *)

ASSUME OwnerAssumption == Threads = {Owner} /\ Owner # NoOne

VARIABLES
    owner,       (* where the owner is *)
    worker,      (* where the new thread is *)
    count,       (* m_nCount of the latch *)
    latch,       (* the mutex and condition of the latch *)
    tid,         (* m_tid of the CThread is set *)
    mutex,       (* m_iMutex and m_iCond *)
    loopKnown,   (* m_iEventLoop is not null *)
    loopAlive,   (* the loop exists *)
    lost,        (* StartLoop has cleared an m_bQuit that was set (history) *)
    failed       (* an assert has failed *)

threadVars == <<owner, worker, count, latch, tid, mutex, loopKnown, loopAlive, lost, failed>>
allVars == <<vars, threadVars>>

(* The constructor. *)
ThreadInit ==
    /\ Init
    /\ owner = "made"
    /\ worker = "none"
    /\ count = 1
    /\ latch = Unused
    /\ tid = FALSE
    /\ mutex = Unused
    /\ loopKnown = FALSE
    /\ loopAlive = FALSE
    /\ lost = FALSE
    /\ failed = FALSE
-----------------------------------------------------------------------------
(* The owner in StartLoop. *)

(* CThread::Start with pthread_create. *)
CreateThread ==
    /\ owner = "made"
    /\ owner' = "latch lock"
    /\ worker' = "run"
    /\ UNCHANGED <<vars, count, latch, tid, mutex, loopKnown, loopAlive, lost, failed>>

(* pthread_create fails: Start returns, and StartLoop goes on as if there
   were a thread. *)
CreateFails ==
    /\ owner = "made"
    /\ owner' = "lock"
    /\ UNCHANGED <<vars, worker, count, latch, tid, mutex, loopKnown, loopAlive, lost, failed>>

(* Wait of the latch. *)
LockLatch ==
    /\ \/ owner = "latch lock" /\ CanLock(latch)
       \/ owner = "latch wait" /\ CanWake(latch, Owner)
    /\ latch' = Locked(latch, Owner)
    /\ owner' = "latch"
    /\ UNCHANGED <<vars, worker, count, tid, mutex, loopKnown, loopAlive, lost, failed>>

WaitLatch ==
    /\ owner = "latch"
    /\ IF count > 0
       THEN latch' = Waits(latch, Owner) /\ owner' = "latch wait"
       ELSE latch' = Unlocked(latch) /\ owner' = "tid"
    /\ UNCHANGED <<vars, worker, count, tid, mutex, loopKnown, loopAlive, lost, failed>>

CheckTid ==
    /\ owner = "tid"
    /\ failed' = (failed \/ ~tid)
    /\ owner' = "lock"
    /\ UNCHANGED <<vars, worker, count, latch, tid, mutex, loopKnown, loopAlive, lost>>

(* Mutant: m_iEventLoop is tested once, with if for while. *)
LockMutexTestsOnce ==
    /\ \/ owner = "lock" /\ CanLock(mutex) /\ mutex' = Locked(mutex, Owner) /\ owner' = "check"
       \/ owner = "wait" /\ CanWake(mutex, Owner) /\ owner' = "ready" /\ UNCHANGED mutex
    /\ UNCHANGED <<vars, worker, count, latch, tid, loopKnown, loopAlive, lost, failed>>

(* The guard of StartLoop, and the end of its Wait. *)
LockMutex ==
    /\ \/ owner = "lock" /\ CanLock(mutex)
       \/ owner = "wait" /\ CanWake(mutex, Owner)
    /\ mutex' = Locked(mutex, Owner)
    /\ owner' = "check"
    /\ UNCHANGED <<vars, worker, count, latch, tid, loopKnown, loopAlive, lost, failed>>

WaitLoop ==
    /\ owner = "check"
    /\ IF loopKnown
       THEN mutex' = Unlocked(mutex) /\ owner' = "ready"
       ELSE mutex' = Waits(mutex, Owner) /\ owner' = "wait"
    /\ UNCHANGED <<vars, worker, count, latch, tid, loopKnown, loopAlive, lost, failed>>

(* pthread_cond_wait returns without having been notified. *)
WakeUp ==
    /\ \/ Owner \in latch.waiting /\ latch' = Spurious(latch, Owner) /\ UNCHANGED mutex
       \/ Owner \in mutex.waiting /\ mutex' = Spurious(mutex, Owner) /\ UNCHANGED latch
    /\ UNCHANGED <<vars, owner, worker, count, tid, loopKnown, loopAlive, lost, failed>>
-----------------------------------------------------------------------------
(* The owner with its loop. *)

Post ==
    /\ owner = "ready"
    /\ QueueInLoop(Owner)
    /\ UNCHANGED threadVars

(* The write to the eventfd in QueueInLoop and QuitLoop.  That of QuitLoop
   may come when the loop is gone: then nobody reads what it writes. *)
Wake == WriteWakeup(Owner) /\ UNCHANGED threadVars

(* Mutant: the destructor sets the flag only. *)
QuitSilent ==
    /\ owner = "ready"
    /\ QuitLoopSilent(Owner)
    /\ owner' = "join"
    /\ UNCHANGED <<worker, count, latch, tid, mutex, loopKnown, loopAlive, lost, failed>>

(* ~CEventLoopThread up to the join. *)
Quit ==
    /\ owner = "ready"
    /\ QuitLoop(Owner)
    /\ owner' = "join"
    /\ UNCHANGED <<worker, count, latch, tid, mutex, loopKnown, loopAlive, lost, failed>>

(* The join, and the destructors of the mutexes. *)
Join ==
    /\ owner = "join"
    /\ ~wpc[Owner]
    /\ worker = "exited"
    /\ owner' = "gone"
    /\ failed' = (failed \/ mutex.holder # NoOne \/ latch.holder # NoOne)
    /\ UNCHANGED <<vars, worker, count, latch, tid, mutex, loopKnown, loopAlive, lost>>
-----------------------------------------------------------------------------
(* The new thread. *)

(* Mutant: the tid is not handed over. *)
SetTidDropped ==
    /\ worker = "run"
    /\ worker' = "latch lock"
    /\ UNCHANGED <<vars, owner, count, latch, tid, mutex, loopKnown, loopAlive, lost, failed>>

(* CThreadData::RunInThread before CountDown. *)
SetTid ==
    /\ worker = "run"
    /\ tid' = TRUE
    /\ worker' = "latch lock"
    /\ UNCHANGED <<vars, owner, count, latch, mutex, loopKnown, loopAlive, lost, failed>>

WorkerLocksLatch ==
    /\ worker = "latch lock"
    /\ CanLock(latch)
    /\ latch' = Locked(latch, "worker")
    /\ worker' = "latch"
    /\ UNCHANGED <<vars, owner, count, tid, mutex, loopKnown, loopAlive, lost, failed>>

CountDown ==
    /\ worker = "latch"
    /\ count' = count - 1
    /\ latch' = Unlocked(IF count' = 0 THEN AllNotified(latch) ELSE latch)
    /\ worker' = "construct"
    /\ UNCHANGED <<vars, owner, tid, mutex, loopKnown, loopAlive, lost, failed>>

(* __ThreadFunc. *)
ConstructLoop ==
    /\ worker = "construct"
    /\ loopAlive' = TRUE
    /\ worker' = "lock"
    /\ UNCHANGED <<vars, owner, count, latch, tid, mutex, loopKnown, lost, failed>>

WorkerLocksMutex ==
    /\ worker = "lock"
    /\ CanLock(mutex)
    /\ mutex' = Locked(mutex, "worker")
    /\ worker' = "publish"
    /\ UNCHANGED <<vars, owner, count, latch, tid, loopKnown, loopAlive, lost, failed>>

(* Mutant: the guard is not left before the loop starts. *)
PublishKeepsLock ==
    /\ worker = "publish"
    /\ loopKnown' = TRUE
    /\ mutex' \in Notified(mutex)
    /\ worker' = "start"
    /\ UNCHANGED <<vars, owner, count, latch, tid, loopAlive, lost, failed>>

Publish ==
    /\ worker = "publish"
    /\ loopKnown' = TRUE
    /\ \E m \in Notified(mutex) : mutex' = Unlocked(m)
    /\ worker' = "start"
    /\ UNCHANGED <<vars, owner, count, latch, tid, loopAlive, lost, failed>>

WorkerStarts ==
    /\ worker = "start"
    /\ StartLoop
    /\ lost' = (lost \/ quit)
    /\ worker' = "loop"
    /\ UNCHANGED <<owner, count, latch, tid, mutex, loopKnown, loopAlive, failed>>

(* The loop runs until LeaveLoop, and its functors queue others. *)
WorkerLoops ==
    /\ worker = "loop"
    /\ LoopStep
    /\ worker' = IF pc' = "stopped" THEN "destroy" ELSE "loop"
    /\ UNCHANGED <<owner, count, latch, tid, mutex, loopKnown, loopAlive, lost, failed>>

WorkerPollTimesOut == worker = "loop" /\ PollTimesOut /\ UNCHANGED threadVars
WorkerPosts == worker = "loop" /\ QueueInLoopOwner /\ UNCHANGED threadVars

(* ~CEventLoop, and the end of the thread. *)
DestroyLoop ==
    /\ worker = "destroy"
    /\ loopAlive' = FALSE
    /\ failed' = (failed \/ inLooping)
    /\ worker' = "exited"
    /\ UNCHANGED <<vars, owner, count, latch, tid, mutex, loopKnown, lost>>
-----------------------------------------------------------------------------
OwnerStep ==
    \/ LockLatch \/ WaitLatch \/ CheckTid \/ LockMutex \/ WaitLoop \/ Wake \/ Join

WorkerStep ==
    \/ SetTid \/ CountDown \/ ConstructLoop \/ Publish
    \/ WorkerStarts \/ WorkerLoops \/ DestroyLoop

ThreadNext ==
    \/ CreateThread \/ CreateFails \/ Post \/ Quit
    \/ OwnerStep \/ WakeUp
    \/ WorkerLocksLatch \/ WorkerLocksMutex \/ WorkerStep
    \/ WorkerPollTimesOut \/ WorkerPosts

ThreadSpec == ThreadInit /\ [][ThreadNext]_allVars

(* Both threads go on, callbacks return, and a thread that wants a mutex
   which is free again and again gets it.  The owner need not start, post or
   end anything. *)
ThreadFairness ==
    /\ WF_allVars(OwnerStep)
    /\ WF_allVars(WorkerStep)
    /\ SF_allVars(WorkerLocksLatch)
    /\ SF_allVars(WorkerLocksMutex)

FairThreadSpec == ThreadSpec /\ ThreadFairness
=============================================================================
