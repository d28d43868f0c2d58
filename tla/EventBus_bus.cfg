SPECIFICATION FairSpec
CONSTANTS
    MaxEvents = 2
    Sub = {a, b}
    SyncSub = {b}
    Urgent = {b}
    Faulty = {a}
    Priorities = {"low", "high"}
CHECK_DEADLOCK FALSE
INVARIANTS
    TypeOK
    NoStranding
    DeliveryInv
PROPERTIES
    DeliveredToSubscribers
