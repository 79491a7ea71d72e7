SPECIFICATION MCSpec
CONSTANTS
    Threads = {th1, th2, th3}
    ArenaSize = 20
    PageSize = 4
    Padding = 2
    Modulus = 64
    Requests = {1, 4, 60}
    Reads = {r1, r2, r3, r4}
    Direct = direct
    MaxDirect = 2
    MaxFaults = 2
    None = None
INVARIANT Partition
INVARIANT UploadSeesItsMips
PROPERTY EveryReadServed
INVARIANT PatchesServe
CONSTANTS
    StockStates = 3
    Edges = {1, 3}
    Loads <- LiveParticles
    PoolCeiling = 12
INVARIANT ProcessServes
CONSTANTS
    Writers = {w1, w2}
    FlushAt = 3
    MaxLines = 4
    MaxSamples = 3
    MaxTime = 11
    Environments <- Settings
    Files <- SettingFiles
