SPECIFICATION ServerSpec
CONSTANTS
    Users = {"ann"}
    Clients = {c1}
    NoToken = NoToken
    Free = Free
    Owner <- MCOwner
    Requests = {r1, r2}
    Life = 2
    MaxClock = 1
    MaxRequests = 3
    MaxFaults = 0
    MaxRuns = 1
    Providers <- MCProviders
    Models <- MCModels
    Urls = {"u0", "", "openai"}
    Keys = {"k0", "k1", "env", ""}
    Reads <- MCReads
    OpenAiUrl = "openai"
    EnvKeys <- MCEnvKeys
    EnvProvider <- MCEnvProvider
    Saves = {}
    Forms = {}
    InitialFiles <- MCInitialFiles
CHECK_DEADLOCK FALSE
PROPERTY OnlyOnce
