SPECIFICATION SystemLiveSpec
CONSTANTS
    Tasks = {1}
    Agents = {a1}
    NoAgent = NoAgent
    Workspaces = {w1}
    NoWorkspace = NoWorkspace
    Home <- MCHome
    MaxNotices = 1
    Mishaps = {"stop", "crash", "db_error"}
    MaxMishaps = 2
    Checks = {c1}
    Execs = {e1}
    Jobs = {j1}
    Reviews = {r1}
    MaxInbox = 1
    MaxRequests = 0
INVARIANTS
    SubmittedHasCourier
PROPERTIES
    AgentSpec
    DagSpec
    InflightIsReleased
    AcceptedIsTaken
    PublishedIsClaimed
    UnreviewedIsRecovered
