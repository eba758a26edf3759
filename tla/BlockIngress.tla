---------------------------- MODULE BlockIngress ----------------------------
(***************************************************************************)
(* The block maps of one node and the handlers that change them:           *)
(* Node.receiveBlock and Node.proposeBlock, ConsensusIngressCoordinator,   *)
(* BlockCommit, CommitCoordinator.                                         *)
(*                                                                         *)
(* A node's maps are a record and each handler an operator from the record *)
(* before it to the record after.  The maps are insertion ordered arrays   *)
(* whose swapRemove moves the last entry into the hole, so their keys are  *)
(* sequences.                                                              *)
(***************************************************************************)
EXTENDS QuorumConfig, Sequences, FiniteSetsExt

CONSTANTS
    Validator,     \* ids in the genesis stake table
    Stake,         \* its weights; no stake operation changes them
    MaxRound,      \* bound on the rounds considered
    Payload,       \* what distinguishes two blocks of one round
    VoteQuorum,    \* consensus.vote_quorum: least number of ballots
    PendingCap,    \* consensus.max_pending_blocks
    CommittedCap,  \* consensus.max_committed_blocks
    None

ASSUME IngressAssumption ==
    /\ IsFiniteSet(Validator)
    /\ Stake \in [Validator -> Amount]
    /\ MaxRound \in Nat
    /\ VoteQuorum \in Nat \ {0}
    /\ PendingCap \in Nat \ {0}
    /\ CommittedCap \in Nat \ {0}

\* Proposals carry the zero author and no parents, so round and payload
\* determine the digest: a block stands for its digest.
Block == [round : 1..MaxRound, payload : Payload]

ASSUME NoneAssumption == None \notin Block

Vote == [voter : Validator, block : Block]

NoVotes == [v \in Validator |-> 0]

\* votes[b][v] is the weight stored with v's vote on b, 0 when there is none:
\* a vote of weight 0 is never stored.
Maps == [ pending   : Seq(Block),
          committed : Seq(Block),
          votes     : [Block -> [Validator -> Amount]] ]

EmptyMaps == [ pending |-> << >>, committed |-> << >>,
               votes |-> [b \in Block |-> NoVotes] ]

InSeq(s) == {s[i] : i \in DOMAIN s}

Stored(m) == InSeq(m.pending) \cup InSeq(m.committed)

SwapRemoved(s, i) ==
    [j \in 1..Len(s) - 1 |-> IF j = i THEN s[Len(s)] ELSE s[j]]

----------------------------------------------------------------------------
(* Blocks.                                                                *)

DropFirstPending(m) ==
    [m EXCEPT !.pending = SwapRemoved(@, 1),
              !.votes[m.pending[1]] = NoVotes]

\* (mutant: makes room one block too late)
MakeRoomLate(m) ==
    IF Len(m.pending) > PendingCap THEN DropFirstPending(m) ELSE m

\* Node.receiveBlock first makes room, before it looks at the block.
MakeRoom(m) ==
    LET drop[k \in Nat] ==
            IF k = 0 THEN m ELSE DropFirstPending(drop[k - 1])
    IN IF Len(m.pending) >= PendingCap
       THEN drop[Len(m.pending) - PendingCap + 1] ELSE m

\* (mutant: only the pending map is asked for a duplicate)
receiveBlockPendingOnly(m, b) ==
    LET roomy == MakeRoom(m) IN
    IF b \in InSeq(roomy.pending) THEN roomy
    ELSE [roomy EXCEPT !.pending = Append(@, b), !.votes[b] = NoVotes]

\* ConsensusIngressCoordinator.receiveBlock: a block in either map is kept.
receiveBlock(m, b) ==
    LET roomy == MakeRoom(m) IN
    IF b \in Stored(roomy) THEN roomy
    ELSE [roomy EXCEPT !.pending = Append(@, b), !.votes[b] = NoVotes]

\* Node.proposeBlock: put without making room; an old entry is replaced.
proposeBlock(m, b) ==
    [m EXCEPT !.pending = IF b \in InSeq(@) THEN @ ELSE Append(@, b),
              !.votes[b] = NoVotes]

----------------------------------------------------------------------------
(* Votes.                                                                 *)

\* (mutant: votes of every round are compared)
VotedAtAnyRound(m, keys, v, r) ==
    {i \in DOMAIN keys : m.votes[keys[i]][v] > 0}

\* findExistingVote: the first block of that round, in map order, that holds
\* a vote of v.
VotedAt(m, keys, v, r) ==
    {i \in DOMAIN keys : keys[i].round = r /\ m.votes[keys[i]][v] > 0}

findExistingVote(m, keys, v, r) ==
    LET at == VotedAt(m, keys, v, r)
    IN IF at = {} THEN None
       ELSE keys[CHOOSE i \in at : \A j \in at : i <= j]

\* (mutant: committed blocks are not searched)
ConflictPendingOnly(m, vote) ==
    LET inPending == findExistingVote(m, m.pending, vote.voter, vote.block.round)
    IN IF inPending \notin {None, vote.block} THEN inPending ELSE None

\* The conflicting vote that receiveVote finds for this one, if any.
Conflict(m, vote) ==
    LET inPending == findExistingVote(m, m.pending, vote.voter, vote.block.round)
        inCommitted == findExistingVote(m, m.committed, vote.voter, vote.block.round)
    IN IF inPending \notin {None, vote.block} THEN inPending
       ELSE IF inCommitted \notin {None, vote.block} THEN inCommitted
       ELSE None

Weight(v) == IF v \in Validator THEN Stake[v] ELSE 0

\* receiveVote: weigh the vote by the local table; report equivocation, or
\* store a first vote on a block that is held.
VoteResult(m, vote) ==
    CASE Weight(vote.voter) = 0 -> "ignored_invalid"
      [] Weight(vote.voter) # 0 /\ Conflict(m, vote) # None -> "equivocation"
      [] OTHER -> IF vote.block \notin Stored(m) THEN "ignored_invalid"
                  ELSE IF m.votes[vote.block][vote.voter] > 0 THEN "duplicate"
                  ELSE "accepted"

receiveVote(m, vote) ==
    IF VoteResult(m, vote) = "accepted"
    THEN [m EXCEPT !.votes[vote.block][vote.voter] = Weight(vote.voter)]
    ELSE m

----------------------------------------------------------------------------
(* Commit.                                                                *)

Voters(m, b) == {v \in Validator : m.votes[b][v] > 0}

StakeOf(votes) == MapThenSumSet(LAMBDA v : votes[v], Validator)

gatheredStake(m, b) == StakeOf(m.votes[b])

totalStake == StakeOf(Stake)

\* (mutant: the stake of the ballots is not weighed)
hasQuorumAnyVote(m, b) == totalStake # 0 /\ Voters(m, b) # {}

hasQuorum(m, b) ==
    /\ totalStake # 0
    /\ Cardinality(Voters(m, b)) >= VoteQuorum
    /\ accepts(gatheredStake(m, b), totalStake)

Ready(m) == {i \in DOMAIN m.pending : hasQuorum(m, m.pending[i])}

\* tryCommitOne: the first pending block with a quorum.
NextCommit(m) == CHOOSE i \in Ready(m) : \A j \in Ready(m) : i <= j

DropFirstCommitted(m) ==
    [m EXCEPT !.committed = SwapRemoved(@, 1),
              !.votes[m.committed[1]] = NoVotes]

\* promotePendingBlock: one entry more than the cap at most.
promotePendingBlock(m, i) ==
    LET moved == [m EXCEPT !.pending = SwapRemoved(@, i),
                           !.committed = Append(@, m.pending[i])]
    IN IF Len(moved.committed) > CommittedCap
       THEN DropFirstCommitted(moved) ELSE moved

\* tryCommitBatch: `done` are the blocks executed, in order, `maps` the maps
\* after at most `budget` commits.
tryCommitBatch(m, budget) ==
    LET batch[k \in Nat] ==
            IF k = 0 THEN [maps |-> m, done |-> << >>]
            ELSE LET before == batch[k - 1] IN
                 IF Ready(before.maps) = {} THEN before
                 ELSE LET i == NextCommit(before.maps) IN
                      [ maps |-> promotePendingBlock(before.maps, i),
                        done |-> Append(before.done, before.maps.pending[i]) ]
    IN batch[budget]
=============================================================================
