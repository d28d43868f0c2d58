SPECIFICATION Spec
CONSTANTS
    Pid = {p1}
    ProcId = {a1, a2}
    NoId = NoId
    Req = {b1, b2}
    Free = Free
    MaxBirths = 2
    MaxCrashes = 1
    MaxFailures = 1
    Server = {s1}
    Tool = {a1, a2}
    Loop = {b1, b2}
    RetryCount = 1
    MaxLocks = 2
SYMMETRY Symmetry
INVARIANTS
    TableInv
    McpInv
CHECK_DEADLOCK FALSE
