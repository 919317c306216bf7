SPECIFICATION BoundedFairSpec
CONSTANTS
    None = None
    Ids = {1, 2}
    Reqs = {r1}
    Sweepers = {s1}
    TTLs = {0}
    DefaultTTL = 1
    Sizes = {1}
    MaxUpload = 1
    Batch = 1
    Skew = 0
    Mishaps = {"fault", "cancel", "crash"}
    MaxMishaps = 1
    TicksPerSecond = 1
    MaxTime = 2
PROPERTIES
    RequestsAnswered
    SweepsEnd
    ExpiredReaped
