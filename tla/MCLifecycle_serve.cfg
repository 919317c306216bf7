CONSTANTS
    Unset = Unset
    Malformed = Malformed
    Blank = Blank
    Defaults <- ConstDefaults
    Envs <- ConstEnvs
    Rpcs = {rpc1, rpc2}
    Https = {http1}
    Sweep = Sweep
    MaxFaults = 2
SPECIFICATION FairSpec
INVARIANTS
    TypeOK
    AllReleased
    OnlyFailureHarms
    ServesOnReadyStores
PROPERTIES
    ExitsUnlessStalled
    ReapingStops
