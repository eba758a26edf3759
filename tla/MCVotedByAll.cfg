SPECIFICATION FairSpec
CONSTANTS
    MaxAmount = 100
    x = x
    y = y
    None = None
    Validator = {0, 1, 2, 3}
    Stake <- EqualStake
    MaxRound = 1
    Payload = {x}
    VoteQuorum = 3
    PendingCap = 2
    CommittedCap = 2
    Online = {1, 2, 3}
    MinValidators = 4
    Lossy = FALSE
    MaxRestarts = 0
    MinBatch = 1
    MaxBatch = 2
    FirstBatch = 1
CHECK_DEADLOCK FALSE
PROPERTIES
    VotedByAllCommits
