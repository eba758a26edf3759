SPECIFICATION Spec
CONSTANTS
    MaxAmount = 100
    v1 = v1
    v2 = v2
    v3 = v3
    x = x
    y = y
    Validator = {v1, v2, v3}
    Stake <- StakeTable
    MaxRound = 3
    Payload = {x, y}
    VoteQuorum = 2
    PendingCap = 2
    CommittedCap = 1
    None = None
    Self = v1
    OwnRounds = {2}
    MinBatch = 1
    MaxBatch = 2
    FirstBatch = 2
    MaxExecuted = 3
SYMMETRY Symmetry
INVARIANTS
    TypeOK
    OneVotePerRound
    MapsSeparate
    MapsBounded
