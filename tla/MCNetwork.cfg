SPECIFICATION Spec
CONSTANTS
    MaxAmount = 100
    x = x
    y = y
    None = None
    Validator = {0, 1, 2, 3}
    Stake <- SkewedStake
    MaxRound = 2
    Payload = {x, y}
    VoteQuorum = 2
    PendingCap = 2
    CommittedCap = 2
    Online = {1, 2}
    MinValidators = 4
    Lossy = TRUE
    MaxRestarts = 1
    MinBatch = 1
    MaxBatch = 2
    FirstBatch = 2
CHECK_DEADLOCK FALSE
SYMMETRY Symmetry
INVARIANTS
    TypeOK
    CountedVotesWereCast
    ExecutedHasCertificate
    NoForkingWithoutRestart
    ForkIsAccountable
    AccusedDidEquivocate
