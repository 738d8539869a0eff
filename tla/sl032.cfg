SPECIFICATION FairSpec
CONSTANTS
    Tags = {t1, t2}
    NoTag = none
    IgnoreEcho = TRUE
    RequestLength = 2
    MinFrameLength = 3
    TagLength = 4
    MaxFrameLength = 128
    Envs = {{"no_device", "collision"}, {"late", "partial", "drop"}}
    MaxPlacements = 2
    MaxFaults = 1
    MaxConnections = 2
    WakeBound = 1
INVARIANTS
    TypeOK
    ReportsInOrder
    UpToDate
PROPERTIES
    TagIsReported
