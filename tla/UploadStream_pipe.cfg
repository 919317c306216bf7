SPECIFICATION FairSpec
CONSTANTS
    None = None
    MaxUpload = 3
    Chunks = {0, 1, 2}
    MaxChunks = 3
    MaxFaults = 1
INVARIANTS
    TypeOK
    NoTruncatedFile
    StatusTellsWhy
    ForwardedWithinLimit
PROPERTY UploadSettles
