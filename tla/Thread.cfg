\* Objects are used up: no deadlock check.
CONSTANTS
    Objects = {o1, o2}
SPECIFICATION FairSpec
INVARIANTS NoUseAfterFree DefaultNamesDiffer JoinedOrDetached AssertsHold CallsNotStuck
PROPERTIES CallsReturn
CHECK_DEADLOCK FALSE
