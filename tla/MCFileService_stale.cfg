SPECIFICATION Spec
CONSTANTS
    None = None
    Ids = {i1}
    Reqs = {r1, r2}
    Sweepers = {s1}
    TTLs = {1}
    DefaultTTL = 0
    Sizes = {1}
    MaxUpload = 0
    Batch = 1
    Skew = 0
    Mishaps = {}
    MaxMishaps = 0
    TicksPerSecond = 1
    MaxTime = 1
INVARIANT DeletedMeansNotFound
