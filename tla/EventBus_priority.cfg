SPECIFICATION Spec
CONSTANTS
    MaxEvents = 2
    Sub = {a}
    SyncSub = {}
    Urgent = {a}
    Faulty = {a}
    Priorities = {"low","high"}
CHECK_DEADLOCK FALSE
INVARIANTS
    PriorityRespected
