\* Channels are used up, each is registered once: no deadlock check.
CONSTANTS
    c1 = c1
    c2 = c2
    c3 = c3
    c4 = c4
    Channels = {c1, c2, c3, c4}
    Fd <- MCFd
SPECIFICATION Spec
INVARIANTS AssertsHold ReportedOnce
PROPERTIES ImplementsPollSet
CHECK_DEADLOCK FALSE
