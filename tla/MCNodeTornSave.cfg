SPECIFICATION Spec
CONSTANTS
    a = a
    b = b
    Digest = {a, b}
    None = None
    RingCap = 2
    ArchiveCap = 2
    MaxSeq = 3
    FaultSets <- TornSaves
    Watched <- TornSaves
SYMMETRY Symmetry
INVARIANTS
    NoSilentDivergence
