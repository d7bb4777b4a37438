SPECIFICATION ManagerSpec
CONSTANTS
    Agents = {a1, a2}
    Actors = {i1, i2, i3}
    Jobs = {j1, j2}
    NoAgent = NoAgent
    NoActor = NoActor
    MaxMishaps = 1
SYMMETRY MCSymmetry
CHECK_DEADLOCK FALSE
INVARIANTS ManagerInv StopIsEffective
