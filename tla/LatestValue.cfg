\* Two writers and two readers; a kill at any point.
SPECIFICATION FairSpec
CONSTANTS
    w1 = w1
    w2 = w2
    r1 = r1
    r2 = r2
    Writers <- TwoWriters
    Readers <- TwoReaders
    KindChoices <- Collisions
    MaxSamples = 3
    MaxFaults = 2
    CrashPoints <- Anywhere
INVARIANTS
    NoCrossTalk
    IInv
PROPERTIES
    ImplementsConflatingFeed
    ReadersCatchUp
CHECK_DEADLOCK FALSE
