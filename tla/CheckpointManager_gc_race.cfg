SPECIFICATION Spec
CONSTANTS
    Worker = {w1, w2}
    Hash = {h1, h2}
    Id = {c1, c2}
    Empty = {}
    SharedContent = FALSE
    QuietGC = FALSE
    MaxCrashes = 0
    NoWorker = NoWorker
    NoId = NoId
INVARIANTS
    CheckpointComplete
