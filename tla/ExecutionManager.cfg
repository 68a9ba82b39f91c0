\* Two children of one entry, with a manager that is scheduled and may be killed.
SPECIFICATION FairSpec
CONSTANTS
    a = a
    b = b
    p1 = p1
    p2 = p2
    Apps <- TwoApps
    Pids <- TwoPids
    Selected <- StartedTwice
    InitialState = "Startup"
    ReportingApps <- OneApp
    UnblockingApps <- OneApp
    MaxAttempts = 2
    MaxReports = 1
    EmMayCrash = TRUE
INVARIANTS
    TableListsChildren
    NoForgottenExit
    NoSurvivor
    IInv
PROPERTIES
    ExitsAreReaped
    StopEndsManager
    SilenceIsNoticed
    ImplementsProcessSupervision
CHECK_DEADLOCK FALSE
