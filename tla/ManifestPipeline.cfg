\* One or two applications of some thousand shapes; the merge and the manager interleave.
SPECIFICATION Spec
CONSTANTS
    Words = {"key", "raw", "unicode", "open", "number", "padded", "huge"}
    Spelling <- SmallSpelling
    OutOfRange <- HugeNumber
    MaxTokens = 9
    Worlds <- SmallWorlds
INVARIANTS
    AcceptsJson
    IInv
    DefinitionsKeepMeaning
    WrittenManifestLoads
    StartedAsDeclared
CHECK_DEADLOCK FALSE
