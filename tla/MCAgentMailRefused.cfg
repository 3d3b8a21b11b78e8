SPECIFICATION FairSpec
CONSTANTS
    m1 = m1
    Mail = {m1}
    Typed = typed
    NoRid = none
    MaxBatch = 2
    MaxVerify = 1
    MaxSteers = 0
    MaxReleases = 0
    MaxRecoveries = 0
    MaxTyped = 0
    MaxCrashes = 0
    MaxRestarts = 0
PROPERTY RetryIsOffered
CHECK_DEADLOCK FALSE
