SPECIFICATION FairSpec
CONSTANTS
    old = old
    new = new
    Versions = {1, 2, 3, 4}
    Migrators <- Binaries
    Files <- Releases
    MaxMishaps = 2
INVARIANTS
    TypeOK
    RecordedIsApplied
    SuccessMeansComplete
    AppliedInOrder
    SkippedUnlessDisturbed
PROPERTY Converges
