CONSTANTS
    MaxWrites = 2
    MaxUnsent = 2
    MaxAgain = 1
SPECIFICATION FairSpec
INVARIANT NoNullEvent
CHECK_DEADLOCK FALSE
