SPECIFICATION Spec
CONSTANTS
    p1 = p1
    p2 = p2
    Pools = {p1, p2}
    Callers = {c1, c2, c3}
    Targets = {t1, t2}
    Ranks = {1, 2}
    Order <- PoolOrder
    MaxConcurrent = 1
    MaxPerTarget = 1
    MaxWaiting = 2
    StarvationLimit = 1
    MaxNested = 2
    NoPool = NoPool
    NoTarget = NoTarget
SYMMETRY CallerSymmetry
INVARIANTS
    TypeOK
    SlotsBounded
    NoIdleSlot
    StarvationBound
    ClosedHasNoWaiter
    
