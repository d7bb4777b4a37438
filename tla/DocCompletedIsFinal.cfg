SPECIFICATION SystemSpec
CONSTANTS
    Tasks = {1}
    Agents = {a1}
    NoAgent = NoAgent
    Workspaces = {w1}
    NoWorkspace = NoWorkspace
    Home <- MCHome
    MaxNotices = 1
    Mishaps = {}
    MaxMishaps = 0
    Checks = {c1}
    Execs = {e1}
    Jobs = {j1}
    Reviews = {r1}
    MaxInbox = 1
    MaxRequests = 0
PROPERTY
    CompletedIsFinal
