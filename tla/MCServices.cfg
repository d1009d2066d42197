CONSTANTS
    Accepted = {a1}
    Connected = {b1}
    CoroSlots = 1
    MaxCalls = 3
    GrpcCalls = 2
    Ploys = 3
    AsyncPloys = {1, 2}
    MayFail = {3}
    TTL = 24
    RefreshAfter = 10
    RetryAfter = 2
    Latency = 1
    Nodes = {n1, n2}
    Requests = {r1, r2}
SPECIFICATION ServicesSpec
INVARIANTS
    TableMatchesOpen FinishedOnce NobodyInsideGone KeySurvives
    RefusedOnlyBesideUpdate
PROPERTIES WakeForOwnCall CallReturns CallAnswered ChangesListed
CHECK_DEADLOCK FALSE
