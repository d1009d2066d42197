CONSTANTS
    MaxWrites = 3
    MaxUnsent = 2
    MaxAgain = 1
SPECIFICATION FairSpec
INVARIANTS AtMostOnce FinishAnswers
PROPERTIES WriteAnswered
CHECK_DEADLOCK FALSE
