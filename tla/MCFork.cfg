SPECIFICATION Spec
CONSTANTS
    MaxAmount = 100
    x = x
    y = y
    None = None
    Validator = {0, 1, 2, 3}
    Stake <- UnequalStake
    MaxRound = 1
    Payload = {x, y}
    VoteQuorum = 2
    PendingCap = 2
    CommittedCap = 2
    Online = {1, 2}
    MinValidators = 4
    Lossy = FALSE
    MaxRestarts = 1
    MinBatch = 1
    MaxBatch = 2
    FirstBatch = 1
CHECK_DEADLOCK FALSE
INVARIANTS
    NoForking
