SPECIFICATION Spec
CONSTANTS
    None = None
    Ids = {i1}
    Reqs = {r1}
    Sweepers = {s1}
    TTLs = {2}
    DefaultTTL = 0
    Sizes = {1}
    MaxUpload = 0
    Batch = 1
    Skew = 1
    Mishaps = {}
    MaxMishaps = 0
    TicksPerSecond = 3
    MaxTime = 3
PROPERTY GoneOnceExpired
