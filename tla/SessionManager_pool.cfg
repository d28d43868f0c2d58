SPECIFICATION Spec
CONSTANTS
    Session = {s1, s2}
    Canceller = {"shutdown"}
    MaxConcurrent = 1
    WriteIsAwaitable = TRUE
    DbMayFail = TRUE
    Nobody = Nobody
SYMMETRY Symmetry
CHECK_DEADLOCK FALSE
INVARIANTS
    TypeOK
    PoolInv
    AccountInv
PROPERTIES
    ImplementsPool
