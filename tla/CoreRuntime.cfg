\* Two threads and two handlers, which register each other and abort again.
SPECIFICATION FairSpec
CONSTANTS
    t1 = t1
    t2 = t2
    h1 = h1
    h2 = h2
    machine = machine
    NoThread = NoThread
    Main = t1
    Threads <- TwoThreads
    Handlers <- TwoHandlers
    Groups <- OneGroup
    States <- SomeStates
    MaxDepth = 2
INVARIANTS
    RegisteredAreTold
    IInv
PROPERTIES
    AbortEnds
CHECK_DEADLOCK FALSE
