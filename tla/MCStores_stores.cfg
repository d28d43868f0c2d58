SPECIFICATION Spec
CONSTANTS
    Key = {k1, k2, k3}
    MaxEntries = 2
    MaxBytes = 3
    MaxSets = 3
    Storable <- Sessions
    TKey = {k1, k2}
    TCaller = {t1}
    MaxSize = 1
    MaxPuts = 2
    MaxWrites = 1
    Garbled = Garbled
    Metric = {m1, m2}
    File = {f1, f2}
    NoFile = NoFile
    BufferSize = 1
    FileSize = 1
    MaxFiles = 1
    Careless = FALSE
    Name = {n1, n2}
    Category = {g1, g2}
    Nothing = Nothing
    CommandRun = {e1, e2}
    MaxConcurrent = 1
    MaxHistory = 1
    Output <- Outputs
    ChunkSize = 3
    MaxLine = 3
    Binary = {b1, b2}
    b1 = b1
    b2 = b2
    Reached <- Directories
    Saveable = {b1}
    NvmCheck = TRUE
    BinCaller = {c1, c2}
    NoBinary = NoBinary
    NoCaller = NoCaller
    Request = {r1, r2}
    Timed = {r1}
    ServerCall = ServerCall
    MaxAttempts = 1
    MaxQueue = 1
    Proc = {d1, d2}
    MonitorPid = {i1}
    i1 = i1
    PidFor <- SamePid
    NoProc = NoProc
    MaxFaults = 1
    Octet = {0, 1}
    RingSize = 3
    Piece <- Writings
    MaxRead = 4
    Revision = {v1, v2, v3}
    NoRevision = NoRevision
    Branch = {w1, w2}
    NoBranch = NoBranch
    MaxEvents = 3
    MaxStops = 1
    Source = {u1, u2}
    SourceFile = {u1}
    u1 = u1
    u2 = u2
    Priority <- Priorities
    Contents <- Held
    Environment <- Environments
    MaxLoads = 2
    MaxChanges = 1
    Worker = {q1}
    NoWorker = NoWorker
    Validator = {z1}
    MaxUpkeeps = 2
    MaxChecks = 1
    MaxBreaks = 1
INVARIANTS
    CachesInv
    FilesInv
    StreamsInv
    CommandsInv
    RequestsInv
    ProcessesInv
PROPERTIES
    RingIsQueue
    CacheEvictsOldest
CHECK_DEADLOCK FALSE
