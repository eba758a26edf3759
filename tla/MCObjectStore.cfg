SPECIFICATION Spec
CONSTANTS
    x = x
    y = y
    v = v
    None = None
    Key = {x, y}
    Value = {v}
    ValueSize = 2
    TombstoneSize = 1
    MemtableSize = 2
    MaxSequence = 7
    MaxLevels = 3
    LevelMultiplier = 2
    CompactAbove = 1
    FlushThreshold = 2
    BufferThreshold = 2
    CompactEvery = 2
    MaxLog = 4
    MaxMishaps = 2
    Snapshots <- OneSnapshot
INVARIANTS
    TypeOK
    GetFindsLatest
    LogRebuildsTree
    RefusedNeverReplayed
PROPERTIES
    ActsAsMap
    LogOnlyGrows
    ImportInstalls
CHECK_DEADLOCK FALSE
