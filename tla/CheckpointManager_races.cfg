SPECIFICATION Spec
CONSTANTS
    Worker = {w1, w2}
    Hash = {h1}
    Id = {c1, c2}
    Empty = {}
    SharedContent = TRUE
    QuietGC = FALSE
    MaxCrashes = 1
    NoWorker = NoWorker
    NoId = NoId
INVARIANTS
    TypeOK
    IndexIsDurable
    HeadUnlessEmpty
