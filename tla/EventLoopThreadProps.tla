------------------------ MODULE EventLoopThreadProps ------------------------
(* The properties of EventLoopThread. *)
EXTENDS EventLoopThread, EventLoopProps

OwnerPlaces ==
    {"made", "latch lock", "latch", "latch wait", "tid", "lock", "check", "wait",
     "ready", "join", "gone"}
WorkerPlaces ==
    {"none", "run", "latch lock", "latch", "construct", "lock", "publish", "start",
     "loop", "destroy", "exited"}

Who == {Owner, "worker", NoOne}
Monitors == [owner : Who, holder : Who, waiting : SUBSET {Owner}]

(* Every variable has its type, and the places of the two threads agree with
   the mutexes they have, of which each has one owner. *)
ThreadTypeOK ==
    /\ owner \in OwnerPlaces
    /\ worker \in WorkerPlaces
    /\ count \in {0, 1}
    /\ latch \in Monitors
    /\ mutex \in Monitors
    /\ tid \in BOOLEAN
    /\ loopKnown \in BOOLEAN
    /\ loopAlive \in BOOLEAN
    /\ lost \in BOOLEAN
    /\ failed \in BOOLEAN
    /\ latch.owner = IF owner = "latch" THEN Owner
                     ELSE IF worker = "latch" THEN "worker" ELSE NoOne
    /\ mutex.owner = IF owner = "check" THEN Owner
                     ELSE IF worker = "publish" THEN "worker" ELSE NoOne
    /\ ~(owner = "latch" /\ worker = "latch")
    /\ ~(owner = "check" /\ worker = "publish")

(* StartLoop returns a loop that exists and has not been left: neither the
   latch, nor a wakeup without a notification, nor a thread that was never
   created lets the owner through before (CEventLoopThread.cpp:28-51).  While
   the owner has its loop, the loop's own promise holds for what it posts. *)
LoopIsReady ==
    owner = "ready" => loopKnown /\ loopAlive /\ worker \in {"start", "loop"} /\ ~quit

(* Why the owner finds its loop alive: everything the two threads share is
   determined by how far the new thread has got, and it gets to the end of
   the loop only when the owner stops it. *)
Handshake ==
    /\ latch.holder = latch.owner
    /\ mutex.holder = mutex.owner
    /\ owner = "made" => worker = "none"
    /\ Owner \in latch.waiting => owner = "latch wait" /\ count # 0
    /\ Owner \in mutex.waiting => owner = "wait" /\ ~loopKnown
    /\ count = 0 <=> worker \notin {"none", "run", "latch lock", "latch"}
    /\ tid <=> worker \notin {"none", "run"}
    /\ loopAlive <=> worker \in {"lock", "publish", "start", "loop", "destroy"}
    /\ loopKnown <=> worker \in {"start", "loop", "destroy", "exited"}
    /\ owner = "tid" => count = 0
    /\ owner \in {"ready", "join", "gone"} => loopKnown
    /\ pc = "stopped" <=> worker # "loop"
    /\ inLooping <=> worker = "loop"
    /\ (quit \/ worker \in {"destroy", "exited"}) => owner \in {"join", "gone"}
    /\ owner \in {"join", "gone"} => quit \/ lost

(* m_tid is set when the latch lets the owner through, no mutex is held when
   it is destroyed, and the loop is not running when it is
   (CThread.cpp:39, CMutex.cpp:15, CEventLoop.cpp:66). *)
ThreadAssertsHold == ~failed

(* StartLoop never waits for nobody once there is a thread: from wherever the
   two are in the handshake, one of them can go on, and the owner waits for a
   notification only while it is still to come (CEventLoopThread.cpp:28-51).
   The join waits for a loop that has its stop before it: it is on its way to
   the end, or its poll has been or is about to be interrupted
   (CEventLoopThread.cpp:21-26, CEventLoop.cpp:112-119). *)
Starting == {"latch lock", "latch", "latch wait", "tid", "lock", "check", "wait"}

OwnerCanGo ==
    \/ owner \in {"latch", "tid", "check"}
    \/ owner = "latch lock" /\ CanLock(latch)
    \/ owner = "latch wait" /\ CanWake(latch, Owner)
    \/ owner = "lock" /\ CanLock(mutex)
    \/ owner = "wait" /\ CanWake(mutex, Owner)

WorkerCanGo ==
    \/ worker \in {"run", "latch", "construct", "publish"}
    \/ worker = "latch lock" /\ CanLock(latch)
    \/ worker = "lock" /\ CanLock(mutex)

StopArrives ==
    \/ wpc[Owner]
    \/ worker \in {"start", "destroy", "exited"}
    \/ worker = "loop" /\ quit /\ (pc = "poll" => wakeupFd > 0)

StartAndJoinNotStuck ==
    /\ owner \in Starting /\ worker # "none" => OwnerCanGo \/ WorkerCanGo
    /\ owner = "join" => StopArrives \/ lost

(* StartLoop returns once a thread could be created: no notification is lost
   between the test of the pointer, or of the count, and the wait.  The
   destructor returns, with one exception: a stop that comes after the
   handshake and before StartLoop of the loop is cleared by it, and the join
   waits for ever (CEventLoop.cpp:76, CEventLoopThread.cpp:21-26). *)
StartAndJoinReturn ==
    /\ worker = "run" ~> owner = "ready"
    /\ owner = "join" ~> (owner = "gone" \/ lost)

(* What the owner posts is run unless the owner ends the thread, without help
   from the poll timeout; also what it posts as soon as StartLoop has returned,
   when the new thread has still to enter the loop: the pointer is published
   before that, and the StartLoop of the loop, which forgets a stop that came
   before it, must not forget a wakeup (CEventLoopThread.cpp:41-51,
   CEventLoop.cpp:71-87, 170-180). *)
PostedIsRun ==
    \A n \in 1..MaxFunctors :
        (owner = "ready" /\ Queued(n)) ~> (Ran(n) \/ owner # "ready")
=============================================================================
