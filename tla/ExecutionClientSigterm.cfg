\* Two threads that construct, create, move and destroy clients, and two SIGTERMs.
SPECIFICATION FairSpec
CONSTANTS
    t1 = t1
    t2 = t2
    o1 = o1
    o2 = o2
    o3 = o3
    Nobody = Nobody
    Threads <- TwoThreads
    Clients <- TwoClients
    MaxHandlers = 2
    MaxMoves = 1
    MaxSignals = 2
INVARIANTS
    CallbackAlive
    NewestRegistered
PROPERTIES
    HandlerReturns
    NewestIsTold
CHECK_DEADLOCK FALSE
