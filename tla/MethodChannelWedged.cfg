\* A provider killed while it holds the semaphore of the channel.
SPECIFICATION FairSpec
CONSTANTS
    c1 = c1
    c2 = c2
    s1 = s1
    Callers <- OneCaller
    Servers <- OneServer
    MaxCalls = 1
    MaxFaults = 1
    CrashPoints <- InsideSend
PROPERTIES
    CallReturns
CHECK_DEADLOCK FALSE
