SPECIFICATION Spec
SYMMETRY FileSymmetry
CONSTANTS
    Fresh = {f1, f2}
    Saved = {s1}
    Sends = {w1}
    Promotions = {q1}
    MaxCrashes = 1
    MaxCleanups = 0
    None = None
PROPERTIES
    WorkKeepsSession
    FailureRestores
CHECK_DEADLOCK FALSE
