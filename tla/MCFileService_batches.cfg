SPECIFICATION Spec
CONSTANTS
    None = None
    Ids = {i1, i2}
    Reqs = {r1}
    Sweepers = {s1, s2}
    TTLs <- NeverOrDefault
    DefaultTTL = 1
    Sizes = {1, 2}
    MaxUpload = 1
    Batch = 1
    Skew = 0
    Mishaps = {}
    MaxMishaps = 0
    TicksPerSecond = 1
    MaxTime = 2
SYMMETRY Symmetry
INVARIANTS
    LiveFileKept
    DrainedMeansDrained
