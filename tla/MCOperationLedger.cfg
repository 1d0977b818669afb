SPECIFICATION LedgerSpec
CONSTANTS
    MaxOps = 2
    Profiles = {p1, p2}
    Slots = {s1, s2}
    ProviderIds = {m1, m2}
    Requests = {r1, r2}
    MaxRetries = 1
    None = None
INVARIANTS
    TypeOK
    OneNetworkAttempt
    AccountingExact
PROPERTIES
    FinalForever
