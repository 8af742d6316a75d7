\* A failed assert ends the process: no deadlock check.
CONSTANTS
    Byte <- MCByte
    CheapPrepend = 2
    InitialSize = 2
    ExtraSize = 3
    MaxSize = 6
    MaxData = 4
SPECIFICATION Spec
PROPERTIES AbortsExactlyInTheGap ImplementsByteQueue
CHECK_DEADLOCK FALSE
