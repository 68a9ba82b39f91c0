\* One thread with a client from Create, and one SIGTERM.
SPECIFICATION Spec
CONSTANTS
    t1 = t1
    t2 = t2
    o1 = o1
    o2 = o2
    o3 = o3
    Nobody = Nobody
    Threads <- OneThread
    Clients <- TwoClients
    MaxHandlers = 1
    MaxMoves = 0
    MaxSignals = 1
INVARIANT ToldNotKilled
CHECK_DEADLOCK FALSE
