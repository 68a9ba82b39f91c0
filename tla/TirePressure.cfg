SPECIFICATION FairSpec
CONSTANTS
    c1 = c1
    Provider = Provider
    Consumers <- OneConsumer
    LowSamples <- LaterAreLow
    MaxSamples = 3
    MaxCalls = 2
    MaxStarts = 2
    MaxFaults = 1
INVARIANTS
    AnswerIsFresh
    IInv
PROPERTIES
    LowPressureIsReported
    SubscriptionEnds
CHECK_DEADLOCK FALSE
