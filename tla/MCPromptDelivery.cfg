SPECIFICATION Spec
CONSTANTS
    Items = {i1, i2}
    Api = {i1}
    Origin = {i2}
    Answers = {}
    Prompts = {p1}
    Steers = {}
    MaxMint = 1
    MaxAttempts = 1
    MaxCrashes = 1
    MaxRestarts = 1
    MaxCalls = 4
    SharedJournal = FALSE
    NoRid = NoRid
    NoItem = NoItem
CHECK_DEADLOCK FALSE
INVARIANTS
    TypeOK
    DeliveredOnce
    NothingLost
    OnePlace
    OneJournal
