----------------------------- MODULE ThreadProps -----------------------------
(* The properties of Thread. *)
EXTENDS Thread

UserPlaces ==
    {"none", "construct", "made", "locking", "latch", "waiting", "tid",
     "started", "join", "joined", "destroyed"}
ChildPlaces ==
    {"none", "run", "locking", "latch", "unlock", "name", "function", "delete", "exited"}
Who == {"user", "child", NoOne}

(* Every variable has its type; the latch counts from 1 to 0 and no further. *)
TypeOK ==
    /\ numCreated \in Nat
    /\ user \in [Objects -> UserPlaces]
    /\ num \in [Objects -> Nat]
    /\ name \in [Objects -> Nat \cup {Given}]
    /\ started \subseteq Objects
    /\ joined \subseteq Objects
    /\ tid \in [Objects -> {0, ThreadId}]
    /\ count \in [Objects -> {0, 1}]
    /\ latch \in [Objects -> [owner : Who, holder : Who, waiting : SUBSET {"user"}]]
    /\ child \in [Objects -> ChildPlaces]
    /\ data \subseteq Objects
    /\ current \in [Objects -> [tid : {0, ThreadId},
                                name : {"unknown", "necoThread", "data", "finished", "crashed"}]]
    /\ detached \subseteq Objects
    /\ crashed \in BOOLEAN
    /\ failed \in BOOLEAN

Fresh == {"none", "construct", "made"}
Starting == {"locking", "latch", "waiting"}
BeforeCount == {"none", "run", "locking", "latch"}

(* Why the properties below hold: how far the user and the new thread of an
   object have got determines the latch between them, what is left of the
   object and the CThreadData, and which calls its flags stand for. *)
LatchAgrees(o) ==
    /\ latch[o].holder = latch[o].owner
    /\ latch[o].owner = "user" <=> user[o] = "latch"
    /\ latch[o].owner = "child" <=> child[o] \in {"latch", "unlock"}
    /\ latch[o].waiting # {} => user[o] = "waiting" /\ count[o] # 0
    /\ count[o] = 0 <=> child[o] \notin BeforeCount
    /\ tid[o] = 0 <=> child[o] \in {"none", "run"}

FlagsAgree(o) ==
    /\ child[o] = "none" <=> o \notin started
    /\ user[o] \in Fresh => o \notin started
    /\ user[o] \in UserPlaces \ (Fresh \cup {"destroyed"}) => o \in started
    /\ user[o] \in UserPlaces \ (Fresh \cup Starting)
          => child[o] \notin BeforeCount \cup {"unlock"} \/ o \notin started
    /\ o \in joined => o \in started /\ user[o] \in {"join", "joined", "destroyed"}
    /\ user[o] \in {"join", "joined"} => o \in joined
    /\ o \in detached <=> user[o] = "destroyed" /\ o \in started \ joined

DataAgrees(o) ==
    /\ o \in data <=> child[o] \notin {"none", "exited"}
    /\ current[o].name = "data" => child[o] = "function"

NumberAgrees(o) ==
    /\ num[o] <= numCreated
    /\ num[o] = 0 <=> user[o] = "none"
    /\ name[o] \in IF user[o] \in {"none", "construct"} THEN {Empty, Given} ELSE {num[o], Given}

NumbersDiffer ==
    \A o, p \in Objects : o # p /\ num[o] = num[p] => num[o] = 0

LifeCycle ==
    /\ \A o \in Objects :
          LatchAgrees(o) /\ FlagsAgree(o) /\ DataAgrees(o) /\ NumberAgrees(o)
    /\ NumbersDiffer

(* What a thread is going to touch exists.  A new thread uses the CThread
   until it has left CountDown, and the object may be destroyed, or be a local
   variable that goes out of scope, as soon as Start has returned: the latch
   must not let Start return earlier (CThread.cpp:38, CCountDownLatch.cpp:21-27).
   It uses its CThreadData until it deletes it, and its name, which points into
   that, must not be left to dangle (CThreadData.cpp:20-35, 59-65). *)
TouchesObject(o) == child[o] \in {"run", "locking", "latch", "unlock"}
TouchesData(o) == child[o] \in ChildPlaces \ {"none", "exited"}

NoUseAfterFree ==
    \A o \in Objects :
        /\ TouchesObject(o) => user[o] \in {"locking", "latch", "waiting"}
        /\ TouchesData(o) <=> o \in data
        /\ current[o].name = "data" => o \in data

(* Objects that two threads construct at the same time do not get the same
   default name (CThread.cpp:63-71, CAtomic.h:24-37). *)
DefaultNamesDiffer ==
    \A o, p \in Objects :
        o # p /\ user[o] \notin {"none", "construct"} /\ name[o] # Given => name[o] # name[p]

(* A thread that was created is joined or detached when its object is
   destroyed, once, so that the kernel can forget it; where none was created,
   because Start failed or was never called, nothing is (CThread.cpp:17-41). *)
JoinedOrDetached ==
    \A o \in Objects :
        /\ ~(o \in joined /\ o \in detached)
        /\ o \in joined \cup detached => child[o] # "none"
        /\ user[o] = "destroyed" /\ child[o] # "none" => o \in joined \cup detached

(* The asserts of Start, ThreadJoin and of the latch's destructors hold: m_tid
   is set when Start returns, and nobody has the mutex, or waits, when the
   object is destroyed.  An AssertLocked would hold in the critical sections of
   the latch and nowhere else, through all waits and wakeups (CThread.cpp:39,
   CMutex.cpp:13-65, CCondition.cpp:19-23). *)
AssertsHold ==
    /\ ~failed
    /\ \A o \in Objects :
          /\ IslockedByThisThread(latch[o], "user") <=> user[o] = "latch"
          /\ IslockedByThisThread(latch[o], "child") <=> child[o] \in {"latch", "unlock"}

(* Start and ThreadJoin never wait for nobody: as long as the process lives,
   the user or the new thread can go on from wherever the two are in the latch.
   The user waits for a notification only while it is still to come, and the
   mutex of the latch is free when one of them wants it; and a ThreadJoin waits
   for a thread that has left the latch and needs nobody else
   (CCountDownLatch.cpp:13-27, CThread.cpp:25-56). *)
UserCanGo(o) ==
    \/ user[o] = "latch"
    \/ user[o] = "locking" /\ CanLock(latch[o])
    \/ user[o] = "waiting" /\ CanWake(latch[o], "user")

ChildCanGo(o) ==
    \/ child[o] \in {"run", "latch", "unlock"}
    \/ child[o] = "locking" /\ CanLock(latch[o])

CallsNotStuck ==
    \A o \in Objects :
        /\ user[o] \in Starting => UserCanGo(o) \/ ChildCanGo(o)
        /\ user[o] = "join" => child[o] \in {"name", "function", "delete", "exited"}

(* Start returns once there is a thread, whatever is between the notification
   and the wait; and ThreadJoin returns when the function has. *)
CallsReturn ==
    \A o \in Objects :
        /\ user[o] = "locking" ~> user[o] = "started" \/ crashed
        /\ user[o] = "join" /\ child[o] = "delete" ~> user[o] = "joined" \/ crashed
=============================================================================
