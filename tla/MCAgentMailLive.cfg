SPECIFICATION FairSpec
CONSTANTS
    m1 = m1
    Mail = {m1}
    Typed = typed
    NoRid = none
    MaxBatch = 2
    MaxVerify = 1
    MaxSteers = 1
    MaxReleases = 1
    MaxRecoveries = 1
    MaxTyped = 1
    MaxCrashes = 1
    MaxRestarts = 0
INVARIANT PendingHasEntry
INVARIANT MailOnce
PROPERTY ClaimEnds
PROPERTY VerifyEnds
CHECK_DEADLOCK FALSE
