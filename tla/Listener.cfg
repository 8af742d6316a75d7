\* Connections are not reused: no deadlock check.
CONSTANTS
    h1 = h1
    h2 = h2
    Servers = {s1, s2}
    Conns = {c1, c2, c3}
    Hosts = {h1, h2}
    Texts = {h1, bad}
    Numbers = {0, 6}
    Base = 2
    IdRange = 2
    Sources <- MCSources
SPECIFICATION Spec
INVARIANTS AddressesAgree ConnectionsFound
SYMMETRY MCSymmetry
CHECK_DEADLOCK FALSE
