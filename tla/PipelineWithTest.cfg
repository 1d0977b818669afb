SPECIFICATION Spec
CONSTANTS
    MaxOps = 3
    Profiles = {p1}
    Slots <- MCSlots
    ProviderIds = {m1}
    Requests = {}
    MaxRetries = 1
    None = None
    Worker = worker
    Testers = {t1}
    DaysPerWeek = 2
    Weekday <- MCLastDay
    MaxDay = 3
    MaxTries = 2
    MaxCrashes = 1
    MaxFaults = 0
INVARIANTS
    OneCallPerWeek
