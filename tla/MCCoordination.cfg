SPECIFICATION Spec
CONSTANTS
    e1 = e1
    e2 = e2
    Envs = {e1, e2}
    Owns <- LocalAndContainer
    Unmerged = {}
    Backends = {1, 2}
    MaxAttempts = 2
    MaxFaults = 3
    MaxStarts = 1
    Keys = {k1, k2}
    Classes = {"critical", "recovery", "progress"}
    MaxKeys = 2
    ReservedKeys = 1
    MaxConcurrent = 2
    ReservedConcurrency = 1
    MaxCritical = 1
    MaxPending = 1
    PassLimit = 1
    g1 = g1
    g2 = g2
    GraphRuns = {g1, g2}
    Nodes <- WriterAndReader
    Pipelines = {w1}
    MaxRevision = 3
    MaxRestarts = 1
    Folders = {f1, f2}
    Home = f1
    MaxHolds = 1
    MaxEdits = 2
    MaxMoveFaults = 2
    MaxCrashes = 2
    Callers = {c1, c2, c3}
CHECK_DEADLOCK FALSE
INVARIANTS
    TypeOK
    NothingForgotten
    RetryScheduled
    RunsAccounted
    NoLostWake
    InvalidationAnswered
    
    LocksFollowStore
    MoveExcludes
    EditsKept
    GitFollows
PROPERTIES
    KeepsPromise
    AnswersAreFresh
