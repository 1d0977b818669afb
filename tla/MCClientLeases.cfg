SPECIFICATION Spec
CONSTANTS
    Profiles = {p1, p2}
    Account <- MCAccount
    Sends = {s1}
    Tests = {t1}
    Logins = {l1, l2}
    Checks = {c1}
    Visitor = Visitor
    MaxJobs = 3
    MaxDeletes = 1
    None = None
INVARIANTS
    LeasesTypeOK
    OneOwner
    DeletedStaysDeleted
    SealedAtExit
SYMMETRY LeasesSymmetry
CHECK_DEADLOCK TRUE
