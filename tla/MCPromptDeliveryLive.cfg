SPECIFICATION FairSpec
CONSTANTS
    Items = {i1}
    Api = {i1}
    Origin = {}
    Answers = {}
    Prompts = {p1}
    Steers = {}
    MaxMint = 1
    MaxAttempts = 2
    MaxCrashes = 1
    MaxRestarts = 0
    MaxCalls = 3
    SharedJournal = FALSE
    NoRid = NoRid
    NoItem = NoItem
CHECK_DEADLOCK FALSE
PROPERTIES
    ReservationEnds
    SettlementEnds
