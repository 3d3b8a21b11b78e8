SPECIFICATION Spec
CONSTANTS
    m1 = m1
    m2 = m2
    Mail = {m1, m2}
    Typed = typed
    NoRid = none
    MaxBatch = 2
    MaxVerify = 1
    MaxSteers = 1
    MaxReleases = 0
    MaxRecoveries = 0
    MaxTyped = 0
    MaxCrashes = 1
    MaxRestarts = 0
SYMMETRY Symmetry
INVARIANT NeverTwice
CHECK_DEADLOCK FALSE
