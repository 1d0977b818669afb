SPECIFICATION Spec
CONSTANTS
    MaxOps = 2
    Profiles = {p1, p2}
    Slots <- MCSlots
    ProviderIds = {m1}
    Requests = {}
    MaxRetries = 1
    None = None
    Worker = worker
    Testers = {}
    DaysPerWeek = 2
    Weekday <- MCLastDay
    MaxDay = 2
    MaxTries = 2
    MaxCrashes = 1
    MaxFaults = 1
INVARIANTS
    OneCallPerWeek
