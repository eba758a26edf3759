----------------------------- MODULE NodeIngress -----------------------------
(***************************************************************************)
(* One node's block maps under every arrival order of blocks and votes,    *)
(* duplicates included, between its own proposals: ConsensusIntegration's  *)
(* checkAndPropose, onBlockReceived, onVoteReceived and maybeCommit        *)
(* (src/src/form/consensus/ConsensusIntegration.zig) over the maps of      *)
(* BlockIngress.  Peers vote as they like and propose any blocks in their  *)
(* own rounds; no node relays the blocks of another.                       *)
(*                                                                         *)
(* The stake table is the genesis one: no stake operation was submitted,   *)
(* so punishing an equivocation fails (InsufficientStake) and the handler  *)
(* returns that error before it sets should_commit.                        *)
(***************************************************************************)
EXTENDS BlockIngress

CONSTANTS
    Self,        \* this node's validator id
    OwnRounds,   \* the rounds it proposes (isProposer)
    MinBatch,    \* commit_batch.min_batch (1)
    MaxBatch,    \* commit_batch.max_batch (256)
    FirstBatch,  \* its initial size (4)
    MaxExecuted  \* bound on the executions explored

ASSUME NodeAssumption ==
    /\ Self \in Validator
    /\ Stake[Self] > 0  \* it refuses to vote otherwise
    /\ OwnRounds \subseteq 1..MaxRound
    /\ MinBatch \in Nat \ {0}
    /\ MaxBatch \in Nat \ {0}
    /\ FirstBatch \in MinBatch..MaxBatch
    /\ MaxExecuted \in Nat

VARIABLES
    maps,          \* pending_blocks and committed_blocks
    consensus_round,
    should_commit, \* a commit may be possible
    commit_batch,  \* AdaptiveBatchState.current
    executed       \* history: blocks executed, in order

vars == <<maps, consensus_round, should_commit, commit_batch, executed>>

Init ==
    /\ maps = EmptyMaps
    /\ consensus_round = 0
    /\ should_commit = FALSE
    /\ commit_batch = FirstBatch
    /\ executed = << >>

\* AdaptiveBatchState.observe
Least(a, b) == IF a <= b THEN a ELSE b
Greatest(a, b) == IF a <= b THEN b ELSE a

\* (mutant: no upper limit)
observeUncapped(current, drained) ==
    IF drained >= current THEN current * 2 ELSE current

observe(current, drained) ==
    IF drained = 0 THEN Greatest(MinBatch, current \div 2)
    ELSE IF drained >= current THEN Least(MaxBatch, current * 2)
    ELSE current

----------------------------------------------------------------------------
\* createAndBroadcastVote: the node's own vote goes through the same ingress,
\* and its result is dropped.
SelfVoted(m, b) == receiveVote(m, [voter |-> Self, block |-> b])

\* checkAndPropose when the round interval has elapsed: step the round and, if
\* it is this node's, propose and vote.
checkAndPropose(payload) ==
    LET r == consensus_round + 1
        b == [round |-> r, payload |-> payload]
    IN /\ r <= MaxRound
       /\ consensus_round' = r
       /\ IF r \in OwnRounds
          THEN /\ maps' = SelfVoted(proposeBlock(maps, b), b)
               /\ should_commit' = TRUE
          ELSE UNCHANGED <<maps, should_commit>>
       /\ UNCHANGED <<commit_batch, executed>>

\* onBlockReceived: file the block and vote for it.
onBlockReceived(b) ==
    /\ b.round \notin OwnRounds
    /\ maps' = SelfVoted(receiveBlock(maps, b), b)
    /\ UNCHANGED <<consensus_round, should_commit, commit_batch, executed>>

\* onVoteReceived: an equivocation ends the handler in an error.
onVoteReceived(vote) ==
    /\ vote.voter # Self
    /\ maps' = receiveVote(maps, vote)
    /\ IF VoteResult(maps, vote) = "equivocation"
       THEN UNCHANGED should_commit
       ELSE should_commit' = TRUE
    /\ UNCHANGED <<consensus_round, commit_batch, executed>>

\* maybeCommit and tryCommit
maybeCommit ==
    LET outcome == tryCommitBatch(maps, commit_batch) IN
    /\ should_commit
    /\ Len(executed) < MaxExecuted
    /\ should_commit' = FALSE
    /\ maps' = outcome.maps
    /\ executed' = executed \o outcome.done
    /\ commit_batch' = observe(commit_batch, Len(outcome.done))
    /\ UNCHANGED consensus_round

Next ==
    \/ \E payload \in Payload : checkAndPropose(payload)
    \/ \E b \in Block : onBlockReceived(b)
    \/ \E vote \in Vote : onVoteReceived(vote)
    \/ maybeCommit

Spec == Init /\ [][Next]_vars
----------------------------------------------------------------------------
TypeOK ==
    /\ DOMAIN maps = {"pending", "committed", "votes"}
    /\ InSeq(maps.pending) \subseteq Block
    /\ InSeq(maps.committed) \subseteq Block
    /\ maps.votes \in [Block -> [Validator -> Amount]]
    /\ consensus_round \in 0..MaxRound
    /\ should_commit \in BOOLEAN
    /\ commit_batch \in MinBatch..MaxBatch
    /\ InSeq(executed) \subseteq Block

\* No voter has votes on two stored blocks of one round, across both maps and
\* whatever was evicted and received again in between: the tally of a round
\* counts no stake twice (I-4 of docs/invariants.md, where receiveVote is the
\* enforcement point).
OneVotePerRound ==
    \A b, c \in Stored(maps), v \in Validator :
        /\ maps.votes[b][v] > 0 /\ maps.votes[c][v] > 0
        /\ b.round = c.round
        => b = c

\* The two maps never share a key nor hold one twice, and an evicted block
\* takes its votes with it: a block that comes back starts from no votes.
MapsSeparate ==
    /\ \A b \in Block :
           Cardinality({i \in DOMAIN maps.pending : maps.pending[i] = b})
           + Cardinality({i \in DOMAIN maps.committed : maps.committed[i] = b}) <= 1
    /\ \A b \in Block \ Stored(maps) : maps.votes[b] = NoVotes

\* The maps stay within their configured sizes under any flood of blocks from
\* peers.  Only proposals are filed without making room: the pending map passes
\* its cap by them alone, and the next arrival brings it back.
MapsBounded ==
    /\ Cardinality({b \in InSeq(maps.pending) : b.round \notin OwnRounds}) <= PendingCap
    /\ Len(maps.committed) <= CommittedCap
=============================================================================
