\* Three specifiers, one too long, on a table of one slot; kills outside the section.
SPECIFICATION FairSpec
CONSTANTS
    p1 = p1
    p2 = p2
    k1 = k1
    k2 = k2
    s1 = s1
    s2 = s2
    s3 = s3
    i1 = i1
    i2 = i2
    e1 = e1
    e2 = e2
    Nothing = Nothing
    Unknown = Unknown
    Processes <- TwoProcesses
    ServiceKeys = {}
    Specifiers <- ThreeSpecifiers
    Instances <- TwoInstances
    Endpoints <- TwoEndpoints
    BindingTypes = {"kIpc"}
    TooLong <- OneOfEach
    kMaxRegistryEntries = 1
    MaxFaults = 1
    CrashPoints <- OutsideSections
PROPERTIES
    ImplementsServiceDirectory
    OperationsReturn
