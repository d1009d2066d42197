CONSTANTS
    Clients = {c1, c2, c3, c4}
    Requests = {r1, r2}
    Users = {u1, u2}
    Loop = loop
    MaxSize = 1
    MaxParts = 2
    Pool = pool
    NoRequest = NoRequest
    NoClient = NoClient
SPECIFICATION Spec
SYMMETRY Symmetry
INVARIANTS OneOwner PooledUsable AllCounted NoneLost AnsweredOnce OwnAnswer
CHECK_DEADLOCK FALSE
