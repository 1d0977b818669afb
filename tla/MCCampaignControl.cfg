SPECIFICATION Spec
CONSTANTS
    Starts = {s1, s2}
    Stops = {}
    Pauses = {p1}
    Tests = {t1}
    Handlers = {h1, h2}
    Scheduler = scheduler
    Watchdog = watchdog
    MaxTasks = 2
    MaxCrashes = 1
    WorkersMayFail = TRUE
    None = None
SYMMETRY Symmetry
INVARIANTS
    ControlTypeOK
    RunningHasItsStart
PROPERTIES
    FenceIsKept
    NewestCompletes
CHECK_DEADLOCK FALSE
