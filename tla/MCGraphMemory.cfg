SPECIFICATION MemorySpec
CONSTANTS
    NodeIds = {1, 2, 3, 4, 5, 6, 7, 8, 9, 10, 11, 12}
    RelNumbers = {1, 2}
    Labels = {"root", "Memory"}
    Names = {"wo", "qi", "yue", "a", "b", ""}
    Root = "root"
    Wo = "wo"
    NoName = "(none)"
    MaxUpdates = 2
    Plans <- MCPlans
    ModelNames = {"qi", "yue"}
    HandNames = {"a"}
    Blank = ""
    RawTypes <- MCRawTypes
    MaxRetries = 2
    MaxDisturbances = 1
    MaxCrashes = 1
INVARIANTS
    GraphTypeOK
    OneNodePerEntity
PROPERTIES
    RetryConverges
    NameIsKept
    UpdateSettles
