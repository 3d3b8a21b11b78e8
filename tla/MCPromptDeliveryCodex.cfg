SPECIFICATION Spec
CONSTANTS
    Items = {i1, i2}
    Api = {i1}
    Origin = {}
    Answers = {i2}
    Prompts = {p1}
    Steers = {s1}
    MaxMint = 1
    MaxAttempts = 1
    MaxCrashes = 1
    MaxRestarts = 1
    MaxCalls = 3
    SharedJournal = TRUE
    NoRid = NoRid
    NoItem = NoItem
CHECK_DEADLOCK FALSE
PROPERTY KeepsDelivery
INVARIANTS
    DeliveredOnce
    NothingLost
    OnePlace
