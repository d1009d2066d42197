CONSTANTS
    MaxWant = 2
    MaxUnread = 4
    MaxReads = 3
    Byte = {a, b}
    Junk = Junk
    InitSize = 2
    Chunk = 2
    Wrap = 16
    MaxPushed = 4
    MaxBlocks = 2
    PollEvents = {e1, e2}
    Fds = {f1, f2}
SPECIFICATION ReadSpec
INVARIANTS ReadTypesOK NoWaitForUnread NothingLost KernelMatches CalledWhenReported
PROPERTIES ImplementsByteQueue ReadsServed
CHECK_DEADLOCK FALSE
