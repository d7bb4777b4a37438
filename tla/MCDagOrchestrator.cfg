SPECIFICATION DagSpec
CONSTANTS
    Tasks = {1}
    Agents = {a1}
    NoAgent = NoAgent
    Workspaces = {w1}
    NoWorkspace = NoWorkspace
    Home <- MCHome
    MaxNotices = 1
    Mishaps = {"crash", "db_error"}
    MaxMishaps = 1
    Jobs = {j1, j2}
    Reviews = {r1, r2}
    MaxInbox = 1
    MaxRequests = 2
SYMMETRY MCSymmetry
INVARIANTS
    DagInv
    ReviewedWasExecuted
PROPERTIES
    SuccessOnlyByDecision
    KeepsContract
