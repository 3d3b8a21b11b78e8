SPECIFICATION Spec
CONSTANTS
    Items = {i1}
    Api = {i1}
    Origin = {}
    Answers = {}
    Prompts = {}
    Steers = {}
    MaxMint = 1
    MaxAttempts = 2
    MaxCrashes = 0
    MaxRestarts = 0
    MaxCalls = 4
    SharedJournal = FALSE
    NoRid = NoRid
    NoItem = NoItem
CHECK_DEADLOCK FALSE
INVARIANTS
    DeliveredIsNotSteered
