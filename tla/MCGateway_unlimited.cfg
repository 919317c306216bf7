CONSTANTS
    Unset = Unset
    Malformed = Malformed
    Blank = Blank
    None = None
    Fresh = Fresh
    Pin = Pin
    Defaults <- ConstDefaults
    Envs <- ZeroEnvs
    TicksPerSecond = 2
    Ids = {f1}
    Strangers = {x}
    Tokens = {"k1"}
    Sizes = {0, 2, 3}
    Durations <- ConstDurations
    Seconds <- ConstSeconds
    Framing = 2
    Width = 4
    MaxTimestamp = 4
    MaxTime = 4
    MaxFaults = 0
SPECIFICATION Spec
INVARIANTS
    ZeroMeansUnlimited
