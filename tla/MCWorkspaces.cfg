SPECIFICATION WsSpec
CONSTANTS
    n1 = n1
    Users = {u1, u2}
    Names = {n1, n2, n3}
    LegalNames = {n1, n2}
    DefaultName <- MCDefault
    Agents = {a1}
    Tasks = {t1}
    Jobs = {j1, j2}
    MaxRequests = 3
    NoUser = NoUser
    NoName = NoName
    NoAgent = NoAgent
    NoTask = NoTask
CHECK_DEADLOCK FALSE
SYMMETRY MCSymmetry
INVARIANTS WsTypeOK TaskFollowsWorkspace RowHasFolder DefaultAgentIsHome
PROPERTIES NameKeepsOwner RemovalTakesAll
