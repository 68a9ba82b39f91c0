\* Two callers share the slots of a provider, which may be killed at any point and started
\* again, as the callers may.
SPECIFICATION FairSpec
CONSTANTS
    c1 = c1
    c2 = c2
    s1 = s1
    Callers <- TwoCallers
    Servers <- OneServer
    MaxCalls = 2
    MaxFaults = 2
    CrashPoints <- Anywhere
INVARIANTS
    AnswersOwnRequest
    IInv
PROPERTIES
    ImplementsRequestResponse
    TakesNewerRequests
    CallReturnsUnlessWedged
    UndisturbedCallAnswered
    ProvidersCatchUp
CHECK_DEADLOCK FALSE
