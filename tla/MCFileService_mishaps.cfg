SPECIFICATION Spec
CONSTANTS
    None = None
    Ids = {i1}
    Reqs = {r1, r2}
    Sweepers = {s1}
    TTLs = {1}
    DefaultTTL = 0
    Sizes = {1}
    MaxUpload = 0
    Batch = 2
    Skew = 1
    Mishaps = {"fault", "cancel", "crash"}
    MaxMishaps = 1
    TicksPerSecond = 3
    MaxTime = 3
SYMMETRY Symmetry
INVARIANTS
    TypeOK
    LiveFileKept
    NoFalseNotFound
    TruthfulEvents
    DrainedMeansDrained
    NoStrandedBlob
    NoDanglingRow
    DeletedBytesUnreachable
PROPERTIES
    ServedAtMostHalfSecondLate
    ImplementsCatalog
