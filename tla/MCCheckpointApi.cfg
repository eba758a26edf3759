SPECIFICATION Spec
CONSTANTS
    a = a
    b = b
    Digest = {a, b}
    None = None
    RingCap = 2
    ArchiveCap = 2
    MaxSeq = 3
SYMMETRY Symmetry
INVARIANTS
    TypeOK
    RingSeqsDistinct
    MarkerCopiesAgree
PROPERTIES
    MarkerNeverRetreats
    ForgetsOnlyOldest
