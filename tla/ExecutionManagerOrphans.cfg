\* A manager that is killed while its child runs.
SPECIFICATION FairSpec
CONSTANTS
    a = a
    b = b
    p1 = p1
    p2 = p2
    Apps <- OneApp
    Pids <- OnePid
    Selected <- OneRunning
    InitialState = "Running"
    ReportingApps <- OneApp
    UnblockingApps = {}
    MaxAttempts = 1
    MaxReports = 1
    EmMayCrash = TRUE
PROPERTIES
    NoOrphan
CHECK_DEADLOCK FALSE
