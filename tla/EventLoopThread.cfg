\* A thread that cannot be created is waited for: no deadlock check.
CONSTANTS
    Owner = owner
    Threads = {owner}
    Channels = {}
    WakeupChannel = wakeup
    MaxFunctors = 3
    EventFdMax = 2
SPECIFICATION FairThreadSpec
INVARIANTS LoopIsReady ThreadAssertsHold StartAndJoinNotStuck
PROPERTIES StartAndJoinReturn PostedIsRun
CHECK_DEADLOCK FALSE
