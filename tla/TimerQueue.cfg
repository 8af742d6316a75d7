CONSTANTS
    Timers = {t1, t2}
    Delays <- MCDelays
    Seconds <- MCSeconds
    MicroSecondsPerSecond = 2
    Fraction = 2
    MinDelay = 2
    MaxLate = 2
    Jumps <- MCJumps
    MaxJumps = 1
SPECIFICATION FairSpec
INVARIANTS TypeOK ArmedForEarliest OwnedOnce
PROPERTIES EveryTimerRuns RepeatsForever ImplementsTimerService
