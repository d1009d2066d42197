CONSTANTS
    Users = {u1, u2}
    Nobody = Nobody
    MaxCancels = 2
SPECIFICATION FairSpec
INVARIANTS AtMostOnce NoUseAfterDestroy
PROPERTIES AlwaysAnswered
CHECK_DEADLOCK FALSE
