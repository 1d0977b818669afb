SPECIFICATION FairSpec
CONSTANTS
    Starts = {s1, s2}
    Stops = {x1}
    Pauses = {}
    Tests = {}
    Handlers = {h1, h2}
    Scheduler = scheduler
    Watchdog = watchdog
    MaxTasks = 3
    MaxCrashes = 0
    WorkersMayFail = FALSE
    None = None
PROPERTIES
    FencedWorkersEnd
CHECK_DEADLOCK FALSE
