CONSTANTS
    Conns = {k1}
    Threads = {}
    Owner = owner
    Fds = {f1}
    MaxSends = 2
    BacklogEvents = {"in"}
SPECIFICATION FairSpec
PROPERTIES OutputDrains
