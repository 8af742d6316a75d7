CONSTANTS
    Threads = {t1, t2}
    Channels = {c1, c2}
    WakeupChannel = wakeup
    MaxFunctors = 3
    EventFdMax = 2
SPECIFICATION FairSpec
INVARIANTS NoLostWakeup QuitInterruptsPoll
PROPERTIES ImplementsFunctorQueue QueuedFunctorRuns QuitStopsLoop EveryFunctorRuns
