SPECIFICATION Spec
CONSTANTS
    sessions = sessions
    processes = processes
    gateway = gateway
    cache = cache
    c1 = c1
    c2 = c2
    LifeCaller = {c1, c2}
    DownCaller = {c1, c2}
    Component = {sessions, processes, gateway, cache}
    Request = {"r1", "r2"}
    PhaseOf <- Phases
    DependsOn <- Dependencies
    OwnerOf <- Owners
    RegPid = {p1}
    Session = {s1}
    Caller = {k1}
    MaxStarts = 2
    Orphan = Orphan
    None = None
INVARIANTS
    TypeOK
    LifeInv
    ShutdownInv
PROPERTIES
    ShutdownReturns
    RowsReconciled
CHECK_DEADLOCK FALSE
