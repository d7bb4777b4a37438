SPECIFICATION McpSpec
CONSTANTS
    Names <- MCNames
    Sanitize <- MCSanitize
    Tasks = {t1}
    GeneratedId <- MCGeneratedId
    Shipped <- MCShipped
    Revisions = {1}
    Retries = {0, 2}
    Jobs = {j1, j2}
    NoName = NoName
    NoTask = NoTask
    NoTool = NoTool
    Torn = Torn
    MaxMishaps = 1
SYMMETRY MCSymmetry
CHECK_DEADLOCK FALSE
INVARIANTS McpInv EditsAreDurable CreatedIsAdopted
