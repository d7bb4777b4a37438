SPECIFICATION ServerSpec
CONSTANTS
    Users = {"ann"}
    Clients = {c1, c2}
    NoToken = NoToken
    Free = Free
    Owner <- MCOwner
    Requests = {r1, r2}
    Life = 2
    MaxClock = 2
    MaxRequests = 4
    MaxFaults = 1
    MaxRuns = 2
    Providers <- MCProviders
    Models <- MCModels
    Urls = {"u0", "", "openai"}
    Keys = {"k0", "k1", "env", ""}
    Reads <- MCReads
    OpenAiUrl = "openai"
    EnvKeys <- MCEnvKeys
    EnvProvider <- MCEnvProvider
    Saves = {w1, w2}
    Forms <- MCForms
    InitialFiles <- MCInitialFiles
SYMMETRY MCSymmetry
\* A start may fail, and the process ends.
CHECK_DEADLOCK FALSE
INVARIANTS
    ServerTypeOK
    LatestIsHonoured
    FileStaysWhole
PROPERTIES
    UsedOnce
    
