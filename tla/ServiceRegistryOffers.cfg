\* Two keys on two slots, so that a stop leaves a free slot before a used one.
SPECIFICATION Spec
CONSTANTS
    p1 = p1
    p2 = p2
    k1 = k1
    k2 = k2
    s1 = s1
    s2 = s2
    s3 = s3
    i1 = i1
    i2 = i2
    e1 = e1
    e2 = e2
    Nothing = Nothing
    Unknown = Unknown
    Processes <- TwoProcesses
    ServiceKeys <- TwoKeys
    Specifiers = {}
    Instances <- TwoInstances
    Endpoints <- TwoEndpoints
    BindingTypes <- Both
    TooLong <- SecondEndpoint
    kMaxRegistryEntries = 2
    MaxFaults = 1
    CrashPoints <- Anywhere
SYMMETRY Symmetry
INVARIANTS
    OneEntryPerKey
    IInv
PROPERTIES
    ImplementsServiceDirectory
CHECK_DEADLOCK FALSE
