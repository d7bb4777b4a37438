SPECIFICATION AgentSpec
CONSTANTS
    Tasks = {1}
    Agents = {a1}
    NoAgent = NoAgent
    Workspaces = {w1}
    NoWorkspace = NoWorkspace
    Home <- MCHome
    Mishaps = {"stop", "crash", "db_error"}
    MaxMishaps = 1
    Checks = {c1, c2}
    Execs = {e1, e2}
    MaxNotices = 1
SYMMETRY MCSymmetry
INVARIANTS
    AgentInv
    InflightBacked
    SubmittedWasExecuted
