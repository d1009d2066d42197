CONSTANT
    Coros = {c1, c2, c3}
SPECIFICATION Spec
INVARIANT NoSlotLost
