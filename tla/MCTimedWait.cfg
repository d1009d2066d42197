CONSTANTS
    Coros = {c1, c2, c3}
    NoCoro = NoCoro
    MaxSleep = 1
    MaxWaiters = 3
    MaxTimed = 1
SPECIFICATION FairSpec
INVARIANT NeverSwitchToFinished
CHECK_DEADLOCK FALSE
