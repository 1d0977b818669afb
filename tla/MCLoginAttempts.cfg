SPECIFICATION Spec
CONSTANTS
    Attempts = {a1, a2}
    StartIds = {s1, s2}
    InputIds = {i1, i2}
    MaxPasswords = 1
    MaxRestarts = 1
    Slips = {"reset", "resend"}
    None = None
SYMMETRY LoginSymmetry
INVARIANTS
    LoginTypeOK
    OneOpenAttempt
PROPERTIES
    InputReachesItsLogin
    CancelledStaysOut
CHECK_DEADLOCK FALSE
