-------------------------- MODULE ValidatorNetwork --------------------------
(***************************************************************************)
(* Validators that propose, vote and commit over the P2P network:          *)
(* ConsensusIntegration (src/src/form/consensus/ConsensusIntegration.zig)  *)
(* over the block maps of BlockIngress, one FIFO stream per ordered pair   *)
(* of nodes, with lost messages and process restarts.                      *)
(*                                                                         *)
(* Every node follows the code.  The stake table is the genesis one (see   *)
(* NodeIngress).                                                           *)
(***************************************************************************)
EXTENDS BlockIngress

CONSTANTS
    Online,        \* the validators that run, named by their validator_index
    MinValidators, \* consensus.min_validators, the modulus of isProposer
    Lossy,         \* whether a message may be read and thrown away
    MaxRestarts,   \* bound on the restarts explored
    MinBatch, MaxBatch, FirstBatch  \* commit_batch

ASSUME NetworkAssumption ==
    /\ Online \subseteq Validator
    /\ \A n \in Online : Stake[n] > 0  \* the others refuse to vote
    /\ Validator \subseteq Nat
    /\ MinValidators \in Nat \ {0}
    /\ Lossy \in BOOLEAN
    /\ MaxRestarts \in Nat
    /\ MinBatch \in Nat \ {0}
    /\ MaxBatch \in Nat \ {0}
    /\ FirstBatch \in MinBatch..MaxBatch

VARIABLES
    maps,            \* per node: pending_blocks and committed_blocks
    consensus_round,
    should_commit,
    commit_batch,    \* AdaptiveBatchState.current
    quarantined,     \* per node: peers whose messages it no longer reads
    evidence,        \* per node: voters in its ring of equivocation proofs
    stream,          \* stream[p][q]: messages from p that q has not read
    restarts,        \* number of restarts so far
    executed,        \* history, per node: the blocks it executed in this life
                     \* and earlier ones, in order
    cast,            \* history, per validator: the blocks it voted for
    restarted,       \* history: the nodes that restarted
    leftover         \* history, per node: the blocks with a quorum that its last
                     \* commit batch left pending, its budget being spent

vars == <<maps, consensus_round, should_commit, commit_batch, quarantined,
          evidence, stream, restarts, executed, cast, restarted, leftover>>

Message ==
    [type : {"block"}, block : Block]
    \cup [type : {"vote"}, vote : Vote]
    \cup [type : {"evidence"}, voter : Validator]

Init ==
    /\ maps = [n \in Online |-> EmptyMaps]
    /\ consensus_round = [n \in Online |-> 0]
    /\ should_commit = [n \in Online |-> FALSE]
    /\ commit_batch = [n \in Online |-> FirstBatch]
    /\ quarantined = [n \in Online |-> {}]
    /\ evidence = [n \in Online |-> {}]
    /\ stream = [p \in Online |-> [q \in Online |-> << >>]]
    /\ restarts = 0
    /\ executed = [n \in Online |-> << >>]
    /\ cast = [v \in Online |-> {}]
    /\ restarted = {}
    /\ leftover = [n \in Online |-> {}]

\* broadcast: a copy to every connected peer.
Sent(from, msgs) ==
    [stream EXCEPT ![from] =
        [q \in Online |-> IF q = from THEN @[q] ELSE @[q] \o msgs]]

\* The same, after q has read the first message of its stream from p.
ReadThenSent(p, q, msgs) ==
    [Sent(q, msgs) EXCEPT ![p][q] = Tail(@)]

\* disconnectPeer: what the two had not read from each other is lost.
Disconnected(s, p, q) == [s EXCEPT ![p][q] = << >>, ![q][p] = << >>]

EvidenceMsg(v) == [type |-> "evidence", voter |-> v]

VoteMsg(n, b) == [type |-> "vote", vote |-> [voter |-> n, block |-> b]]

\* (mutant: the vote carries the block's author, the zero id)
SelfVotedAsAuthor(m, n, b) == receiveVote(m, [voter |-> 0, block |-> b])

\* createAndBroadcastVote: to the peers, then through the own ingress, whose
\* result is dropped.
SelfVoted(m, n, b) == receiveVote(m, [voter |-> n, block |-> b])

\* (mutant: several proposers share a round)
isProposerOrLater(n, r) == r % MinValidators <= n

isProposer(n, r) == r % MinValidators = n

----------------------------------------------------------------------------
\* checkAndPropose when the round interval has elapsed: step the round and, if
\* it is this node's, propose, broadcast the block and vote for it.  A round is
\* new to the process, so it is above last_proposed_round.
checkAndPropose(n, payload) ==
    LET r == consensus_round[n] + 1
        b == [round |-> r, payload |-> payload]
    IN /\ r <= MaxRound
       /\ consensus_round' = [consensus_round EXCEPT ![n] = r]
       /\ IF isProposer(n, r)
          THEN /\ maps' = [maps EXCEPT ![n] = SelfVoted(proposeBlock(@, b), n, b)]
               /\ stream' = Sent(n, <<[type |-> "block", block |-> b], VoteMsg(n, b)>>)
               /\ should_commit' = [should_commit EXCEPT ![n] = TRUE]
               /\ cast' = [cast EXCEPT ![n] = @ \cup {b}]
          ELSE UNCHANGED <<maps, stream, should_commit, cast>>
       /\ UNCHANGED <<commit_batch, quarantined, evidence, restarts, executed, restarted, leftover>>

Readable(p, q) ==
    /\ stream[p][q] # << >>
    /\ p \notin quarantined[q]

\* onBlockReceived
onBlockReceived(p, q) ==
    LET b == Head(stream[p][q]).block IN
    /\ Readable(p, q)
    /\ Head(stream[p][q]).type = "block"
    /\ maps' = [maps EXCEPT ![q] = SelfVoted(receiveBlock(@, b), q, b)]
    /\ stream' = ReadThenSent(p, q, <<VoteMsg(q, b)>>)
    /\ cast' = [cast EXCEPT ![q] = @ \cup {b}]
    /\ UNCHANGED <<consensus_round, should_commit, commit_batch, quarantined,
                   evidence, restarts, executed, restarted, leftover>>

\* (mutant: a vote does not ask for a commit)
onVoteReceivedUnflagged(p, q) ==
    LET vote == Head(stream[p][q]).vote IN
    /\ Readable(p, q)
    /\ Head(stream[p][q]).type = "vote"
    /\ VoteResult(maps[q], vote) # "equivocation"
    /\ maps' = [maps EXCEPT ![q] = receiveVote(@, vote)]
    /\ stream' = ReadThenSent(p, q, << >>)
    /\ UNCHANGED <<consensus_round, should_commit, commit_batch, quarantined,
                   evidence, restarts, executed, cast, restarted, leftover>>

\* onVoteReceived, no conflict.
onVoteReceived(p, q) ==
    LET vote == Head(stream[p][q]).vote IN
    /\ Readable(p, q)
    /\ Head(stream[p][q]).type = "vote"
    /\ VoteResult(maps[q], vote) # "equivocation"
    /\ maps' = [maps EXCEPT ![q] = receiveVote(@, vote)]
    /\ stream' = ReadThenSent(p, q, << >>)
    /\ should_commit' = [should_commit EXCEPT ![q] = TRUE]
    /\ UNCHANGED <<consensus_round, commit_batch, quarantined, evidence,
                   restarts, executed, cast, restarted, leftover>>

\* onVoteReceived, conflict: the sender is quarantined and disconnected, the
\* evidence goes out to the others; the slash then fails for want of a stake
\* operation, and the handler ends there.  (The sender may dial again at once;
\* while it has not, what is sent to it is lost: Discard.)
onEquivocation(p, q) ==
    LET vote == Head(stream[p][q]).vote IN
    /\ Readable(p, q)
    /\ Head(stream[p][q]).type = "vote"
    /\ VoteResult(maps[q], vote) = "equivocation"
    /\ quarantined' = [quarantined EXCEPT ![q] = @ \cup {p}]
    /\ evidence' = [evidence EXCEPT ![q] = @ \cup {vote.voter}]
    /\ stream' = Disconnected(Sent(q, <<EvidenceMsg(vote.voter)>>), p, q)
    /\ UNCHANGED <<maps, consensus_round, should_commit, commit_batch, restarts,
                   executed, cast, restarted, leftover>>

\* onCertificateReceived: quarantine the voter the evidence names and keep the
\* evidence; a failing slash is only logged here.
onCertificateReceived(p, q) ==
    LET v == Head(stream[p][q]).voter IN
    /\ Readable(p, q)
    /\ Head(stream[p][q]).type = "evidence"
    /\ quarantined' = [quarantined EXCEPT ![q] = @ \cup {v}]
    /\ evidence' = [evidence EXCEPT ![q] = @ \cup {v}]
    /\ stream' = Disconnected(ReadThenSent(p, q, << >>), v, q)
    /\ UNCHANGED <<maps, consensus_round, should_commit, commit_batch, restarts,
                   executed, cast, restarted, leftover>>

\* maybeCommit and tryCommit: every quorum block up to the budget is executed
\* and moved to the committed map.
\* (mutant: no upper limit)
observeUncapped(current, drained) ==
    IF drained >= current THEN current * 2 ELSE current

observe(current, drained) ==
    IF drained = 0
    THEN IF current \div 2 < MinBatch THEN MinBatch ELSE current \div 2
    ELSE IF drained >= current
         THEN IF current * 2 > MaxBatch THEN MaxBatch ELSE current * 2
    ELSE current

maybeCommit(n) ==
    LET outcome == tryCommitBatch(maps[n], commit_batch[n]) IN
    /\ should_commit[n]
    /\ should_commit' = [should_commit EXCEPT ![n] = FALSE]
    /\ maps' = [maps EXCEPT ![n] = outcome.maps]
    /\ executed' = [executed EXCEPT ![n] = @ \o outcome.done]
    /\ commit_batch' = [commit_batch EXCEPT ![n] = observe(@, Len(outcome.done))]
    /\ leftover' = [leftover EXCEPT ![n] =
                       {b \in InSeq(outcome.maps.pending) :
                            /\ Len(outcome.done) = commit_batch[n]
                            /\ hasQuorum(outcome.maps, b)}]
    /\ UNCHANGED <<consensus_round, quarantined, evidence, stream, restarts, cast,
                   restarted>>

\* rebroadcastEquivocation: the interval has passed, one retained proof goes to
\* every peer (here: not while an earlier one is still unread, which bounds the
\* streams).
rebroadcastEquivocation(n, v) ==
    /\ v \in evidence[n]
    /\ \A q \in Online : EvidenceMsg(v) \notin InSeq(stream[n][q])
    /\ stream' = Sent(n, <<EvidenceMsg(v)>>)
    /\ UNCHANGED <<maps, consensus_round, should_commit, commit_batch,
                   quarantined, evidence, restarts, executed, cast, restarted, leftover>>

\* A message is read and thrown away: over the per-tick budget of its type or
\* the sender's rate limit (processPeerMessages).
Discard(p, q) ==
    /\ Lossy
    /\ Readable(p, q)
    /\ stream' = ReadThenSent(p, q, << >>)
    /\ UNCHANGED <<maps, consensus_round, should_commit, commit_batch,
                   quarantined, evidence, restarts, executed, cast, restarted, leftover>>

\* The process stops and starts again: Node.init empties the maps and sets the
\* round to 0, ConsensusIntegration.init starts afresh; its connections are
\* gone, with what it had not read; a peer may still read what it had sent.  The
\* evidence ring is in a file that every insertion rewrites.
Restart(n) ==
    /\ restarts < MaxRestarts
    /\ restarts' = restarts + 1
    /\ restarted' = restarted \cup {n}
    /\ maps' = [maps EXCEPT ![n] = EmptyMaps]
    /\ consensus_round' = [consensus_round EXCEPT ![n] = 0]
    /\ should_commit' = [should_commit EXCEPT ![n] = FALSE]
    /\ commit_batch' = [commit_batch EXCEPT ![n] = FirstBatch]
    /\ quarantined' = [quarantined EXCEPT ![n] = {}]
    /\ \E cut \in SUBSET Online :
           stream' = [p \in Online |-> [q \in Online |->
               IF q = n \/ (p = n /\ q \in cut) THEN << >> ELSE stream[p][q]]]
    /\ UNCHANGED <<evidence, executed, cast, leftover>>

Next ==
    \/ \E n \in Online, payload \in Payload : checkAndPropose(n, payload)
    \/ \E p, q \in Online : onBlockReceived(p, q)
    \/ \E p, q \in Online : onVoteReceived(p, q)
    \/ \E p, q \in Online : onEquivocation(p, q)
    \/ \E p, q \in Online : onCertificateReceived(p, q)
    \/ \E n \in Online, v \in Validator : rebroadcastEquivocation(n, v)
    \/ \E p, q \in Online : Discard(p, q)
    \/ \E n \in Online : maybeCommit(n)
    \/ \E n \in Online : Restart(n)

Spec == Init /\ [][Next]_vars

\* The next message of a stream is handled, whatever it is.
processPeerMessages(p, q) ==
    \/ onBlockReceived(p, q)
    \/ onVoteReceived(p, q)
    \/ onEquivocation(p, q)
    \/ onCertificateReceived(p, q)

\* A requested commit is attended to: the step that clears should_commit is
\* maybeCommit or a restart.
commitTurn(n) ==
    /\ should_commit[n]
    /\ should_commit' = [should_commit EXCEPT ![n] = FALSE]

\* The main loop of every node keeps turning: it reads each of its streams,
\* drains commits, and the clock keeps passing the round interval.
Fairness ==
    /\ \A n \in Online :
        /\ WF_vars(\E payload \in Payload : checkAndPropose(n, payload))
        /\ WF_should_commit(commitTurn(n))
    /\ \A p \in Online : \A q \in Online \ {p} : WF_vars(processPeerMessages(p, q))

FairSpec == Spec /\ Fairness
----------------------------------------------------------------------------
TypeOK ==
    /\ \A n \in Online :
        /\ InSeq(maps[n].pending) \subseteq Block
        /\ InSeq(maps[n].committed) \subseteq Block
        /\ maps[n].votes \in [Block -> [Validator -> Amount]]
        /\ InSeq(executed[n]) \subseteq Block
        /\ \A p \in Online : InSeq(stream[p][n]) \subseteq Message
    /\ consensus_round \in [Online -> 0..MaxRound]
    /\ should_commit \in [Online -> BOOLEAN]
    /\ commit_batch \in [Online -> MinBatch..MaxBatch]
    /\ quarantined \in [Online -> SUBSET Validator]
    /\ evidence \in [Online -> SUBSET Validator]
    /\ cast \in [Online -> SUBSET Block]
    /\ restarts \in 0..MaxRestarts
    /\ restarted \subseteq Online
    /\ leftover \in [Online -> SUBSET Block]

\* Every vote a node counts was cast by its voter: reordering between streams,
\* losses, evictions and restarts never attach a vote to a block the voter did
\* not see (I-2 of docs/invariants.md, "Committed(b) => Stake(Votes(b)) >= ...").
CountedVotesWereCast ==
    \A n \in Online, b \in Block, v \in Validator :
        maps[n].votes[b][v] > 0 => v \in Online /\ b \in cast[v]

\* An executed block has the votes of more than two thirds of the stake, cast
\* by those validators, wherever it was executed and whatever happened since.
ExecutedHasCertificate ==
    \A n \in Online : \A b \in InSeq(executed[n]) :
        LET backers == {v \in Online : b \in cast[v]}
        IN /\ Cardinality(backers) >= VoteQuorum
           /\ accepts(StakeOf([v \in Validator |-> IF v \in backers THEN Stake[v] ELSE 0]),
                      totalStake)

\* "No two different blocks can be committed at the same round" (I-1 of
\* docs/invariants.md), at one node or at two.
NoForking ==
    \A p, q \in Online : \A b \in InSeq(executed[p]), c \in InSeq(executed[q]) :
        b.round = c.round => b = c

\* The same for validators that keep running, however messages interleave and
\* get lost: only a process restart can make two proposals of one round.
NoForkingWithoutRestart == restarted = {} => NoForking

\* "an honest validator votes for at most one block per round (by protocol)"
\* (docs/protocol/safety-proofs.md, Theorem 1): true while nobody restarts.
VotesOnceWithoutRestart ==
    restarted = {} =>
        \A v \in Online : \A b, c \in cast[v] : b.round = c.round => b = c

\* When restarts do fork a round, it is accountable: validators with more than a
\* third of the stake signed both blocks that were executed, so that no fork
\* comes from fewer of them than QuorumConfig.byzantineThreshold tolerates.
ForkIsAccountable ==
    \A p, q \in Online : \A b \in InSeq(executed[p]), c \in InSeq(executed[q]) :
        b.round = c.round /\ b # c =>
            LET both == {v \in Online : {b, c} \subseteq cast[v]}
            IN StakeOf([v \in Validator |-> IF v \in both THEN Stake[v] ELSE 0])
               > byzantineThreshold(totalStake)

\* Whoever is quarantined, or named by evidence that is kept or gossiped, did
\* sign two blocks of one round: duplicates, evictions, committed blocks that
\* return and restarts never turn honest votes into an accusation.
Equivocated(v) ==
    \E b, c \in cast[v] : b # c /\ b.round = c.round

AccusedDidEquivocate ==
    \A n \in Online :
        \A v \in quarantined[n] \cup evidence[n] : v \in Online /\ Equivocated(v)

\* Without losses and restarts a proposed block is executed at its proposer,
\* unless it was evicted to make room, or had its quorum when a batch spent its
\* budget on other blocks (no further batch is asked for then): the votes that
\* complete its quorum come after the block is filed, and each of them asks for
\* a commit, however the blocks of several rounds overlap.
Proposed(n, b) ==
    b \in cast[n] /\ isProposer(n, b.round)

ProposerExecutes ==
    \A n \in Online, b \in Block :
        Proposed(n, b) ~> \/ b \in InSeq(executed[n])
                          \/ b \notin Stored(maps[n])
                          \/ b \in leftover[n]

\* "if they all vote for the same block B, then Stake(B) >= Quorum"
\* (docs/protocol/safety-proofs.md, Theorem 2): a block every node voted for
\* is executed by every node.
VotedByAll(b) == \A n \in Online : b \in cast[n]

VotedByAllCommits ==
    \A n \in Online, b \in Block : VotedByAll(b) ~> b \in InSeq(executed[n])
=============================================================================
