CONSTANTS
    Conns = {k1, k2}
    Threads = {}
    Owner = owner
    Fds = {f1, f2}
    MaxSends = 1
    BacklogEvents = {"in", "out"}
SPECIFICATION Spec
INVARIANTS NoDanglingChannel DestroyedOnce AssertsHold FinAfterOutput
PROPERTIES CallbackOrder UsesPollSet
SYMMETRY Symmetry
