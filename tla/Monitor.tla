------------------------------- MODULE Monitor ------------------------------
(***************************************************************************)
(* CMutexLock with CMutexLockGuard (base/CMutex.cpp) and the CCondition on *)
(* it (base/CCondition.cpp): what each operation makes of a mutex.  owner  *)
(* is the thread that has the pthread mutex, holder is m_pidHolder, and    *)
(* waiting are the threads blocked in pthread_cond_wait.                   *)
(***************************************************************************)

NoOne == "nobody"

(* The constructors, and what the destructors assert: nobody holds the mutex
   and nobody waits for the condition. *)
Unused == [owner |-> NoOne, holder |-> NoOne, waiting |-> {}]
MutexDestroyable(m) == m.owner = NoOne /\ m.holder = NoOne
ConditionDestroyable(m) == m.waiting = {}
Destroyable(m) == MutexDestroyable(m) /\ ConditionDestroyable(m)

AssignHolder(m, t) == [m EXCEPT !.holder = t]
UnassignHolder(m) == [m EXCEPT !.holder = NoOne]
IslockedByThisThread(m, t) == m.holder = t

(* Lock, which blocks while another thread has the mutex. *)
CanLock(m) == m.owner = NoOne
Locked(m, t) == AssignHolder([m EXCEPT !.owner = t], t)

Unlocked(m) == [UnassignHolder(m) EXCEPT !.owner = NoOne]

(* Wait: CUnassignGuard clears the holder, pthread_cond_wait releases the
   mutex and blocks in one step; the thread that wakes up has to get the
   mutex again, and the guard's destructor makes it the holder: Locked. *)
Waits(m, t) == [Unlocked(m) EXCEPT !.waiting = @ \cup {t}]
CanWake(m, t) == t \notin m.waiting /\ CanLock(m)

(* NotifyAll, and Notify, which wakes one of the waiting threads.  A thread
   may also wake up by itself. *)
AllNotified(m) == [m EXCEPT !.waiting = {}]
Notified(m) ==
    IF m.waiting = {} THEN {m} ELSE {[m EXCEPT !.waiting = @ \ {t}] : t \in m.waiting}
Spurious(m, t) == [m EXCEPT !.waiting = @ \ {t}]
=============================================================================
