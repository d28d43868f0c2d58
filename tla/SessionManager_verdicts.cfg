SPECIFICATION ContestSpec
CONSTANTS
    Session = {s1, s2}
    Canceller = {"user", "shutdown"}
    MaxConcurrent = 1
    WriteIsAwaitable = TRUE
    DbMayFail = TRUE
    Nobody = Nobody
CHECK_DEADLOCK FALSE
INVARIANTS
    VerdictInv
PROPERTIES
    VerdictStands
    CreateReturns
    CancelReturns
    SlotIsReturned
