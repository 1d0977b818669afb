SPECIFICATION Spec
CONSTANTS
    Tenants = {t1, t2}
    Tokens = {k1, k2}
    Deleters = {d1, d2}
    MaxEvents = 5
    MaxMade = 3
    None = None
INVARIANTS
    TenancyTypeOK
    KeepsFiles
    ClearedStaysCleared
    ExpiredIsStopped
PROPERTY SessionsEnd
SYMMETRY Symmetry
CHECK_DEADLOCK TRUE
