\* The assert about moving towards the front fails: see the findings.
CONSTANTS
    Byte <- MCByte
    CheapPrepend = 2
    InitialSize = 2
    ExtraSize = 3
    MaxSize = 7
    MaxData = 4
SPECIFICATION Spec
INVARIANTS SpaceAssertsHold
CHECK_DEADLOCK FALSE
