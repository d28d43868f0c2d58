SPECIFICATION Spec
CONSTANTS
    Session = {s1}
    Canceller = {"shutdown"}
    MaxConcurrent = 1
    WriteIsAwaitable = TRUE
    DbMayFail = FALSE
    Nobody = Nobody
CHECK_DEADLOCK FALSE
INVARIANTS
    ShutdownStopsSessions
