SPECIFICATION FairSpec
CONSTANTS
    c1 = c1  c2 = c2  v1 = v1  v2 = v2
    None = None
    Pids = {p1, p2}
    Clis = {c1, c2}
    Versions = {v1, v2}
    CliVersion <- TwoClisTwoVersions
    MaxSpawns = 2
    MaxCommands = 2
    MaxTries = 2
    MaxFaults = 1
    MaxWork = 1
INVARIANT TypeOK
PROPERTIES CacheRootIsExclusive EveryCommandReturns
CHECK_DEADLOCK FALSE
