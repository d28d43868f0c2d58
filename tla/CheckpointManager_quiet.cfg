SPECIFICATION Spec
CONSTANTS
    Worker = {w1, w2}
    Hash = {h1, h2}
    Id = {c1, c2}
    Empty = {h2}
    SharedContent = FALSE
    QuietGC = TRUE
    MaxCrashes = 1
    NoWorker = NoWorker
    NoId = NoId
INVARIANTS
    StoredStaysIntact
    CheckpointComplete
    RestoredIsIntact
PROPERTIES
    ImplementsHistory
