\* A failed assert ends the process: no deadlock check.
CONSTANTS
    Conns = {k1}
    Threads = {t1, t2}
    Owner = owner
    Fds = {f1}
    MaxSends = 2
    BacklogEvents = {"in"}
SPECIFICATION Spec
INVARIANTS AssertsHold
CHECK_DEADLOCK FALSE
