SPECIFICATION Spec
CONSTANTS
    a = a
    b = b
    Digest = {a, b}
    None = None
    RingCap = 2
    ArchiveCap = 1
    MaxSeq = 4
    FaultSets <- EveryFaultSet
    Watched <- SequenceKept
SYMMETRY Symmetry
INVARIANTS
    TypeOK
    ServedOnce
    StoredIsServed
    StoreCoherent
PROPERTIES
    HistoryRefined
