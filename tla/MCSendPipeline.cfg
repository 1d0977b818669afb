SPECIFICATION FairSpec
CONSTANTS
    MaxOps = 3
    Profiles = {p1}
    Slots <- MCSlots
    ProviderIds = {m1}
    Requests = {}
    MaxRetries = 2
    None = None
    Worker = worker
    Testers = {}
    DaysPerWeek = 2
    Weekday <- MCLastDay
    MaxDay = 3
    MaxTries = 3
    MaxCrashes = 1
    MaxFaults = 0
INVARIANTS
    PipelineTypeOK
    OneCallPerWeek
    SettledAgreesWithLedger
PROPERTIES
    ClaimedIsSettled
    PromiseKept
