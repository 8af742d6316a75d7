\* A failed assert ends the process: no deadlock check.
CONSTANTS
    Conns = {k1, k2}
    Threads = {t1, t2}
    Owner = owner
    Fds = {f1}
    MaxSends = 2
    BacklogEvents = {"in"}
SPECIFICATION FairSpec
INVARIANTS StreamInOrder OtherAssertsHold
PROPERTIES ClosedIsDestroyed PeersAreAccepted
CONSTRAINT NotCrowdedAndBusy
CHECK_DEADLOCK FALSE
