CONSTANTS
    Callers = {c1, c2, c3, t1}
    Plain = {t1}
    Nobody = Nobody
    Coros = {c1, c2, c3}
    Threads = {t1, t2}
    Calls = 3
    NSchedulers = 2
    Slots = 1
    FutureThreads = {t1}
    VoidTasks = {2}
SPECIFICATION LocksSpec
INVARIANTS OneHolder NoLostWakeup SlotsConserved OwnResult
PROPERTIES ImplementsHandoffLock QueuedGetsLock FreeLockTaken WaitReturns
CHECK_DEADLOCK FALSE
