-------------------------- MODULE NodeIngressProofs --------------------------
(***************************************************************************)
(* Theorems about NodeIngress: the invariants of a node's block maps under *)
(* any arrivals, for every stake table, cap and number of rounds.          *)
(***************************************************************************)
EXTENDS NodeIngress, BlockIngressProofs

----------------------------------------------------------------------------
(* The invariant: sound maps within their sizes, whose own blocks are of   *)
(* rounds the node has reached.  The last part is what makes a proposal    *)
(* new to the maps, since it is filed without asking whether it is there.  *)

Foreign(m) == {b \in InSeq(m.pending) : b.round \notin OwnRounds}

OwnReached == \A b \in Stored(maps) : b.round \in OwnRounds => b.round <= consensus_round

WithinCaps ==
    /\ Cardinality(Foreign(maps)) <= PendingCap
    /\ Len(maps.committed) <= CommittedCap

IngressInv ==
    /\ maps \in SoundMaps
    /\ consensus_round \in 0..MaxRound
    /\ should_commit \in BOOLEAN
    /\ commit_batch \in MinBatch..MaxBatch
    /\ executed \in Seq(Block)
    /\ OwnReached
    /\ WithinCaps

\* A map has no more keys than entries.
LEMMA KeysCounted ==
    ASSUME NEW m \in Maps
    PROVE  /\ IsFiniteSet(Foreign(m))
           /\ Cardinality(Foreign(m)) \in Nat
           /\ Cardinality(Foreign(m)) <= Len(m.pending)
<1> DEFINE s == m.pending
           n == Len(s)
           K == InSeq(s)
<1>1. s \in Seq(Block) /\ n \in Nat
  BY MapsFacts, SeqFacts
<1>2. s \in Surjection(1..n, K)
  BY <1>1 DEF Surjection, InSeq
<1>3. IsFiniteSet(1..n) /\ Cardinality(1..n) = n
  BY <1>1, FS_Interval
<1> HIDE DEF s, n, K
<1>4. IsFiniteSet(K) /\ Cardinality(K) <= n
  BY <1>2, <1>3, FS_Surjection
<1>5. Foreign(m) \in SUBSET K
  BY DEF Foreign, K, s
<1>6. IsFiniteSet(Foreign(m)) /\ Cardinality(Foreign(m)) <= Cardinality(K)
  BY <1>4, <1>5, FS_Subset
<1>7. Cardinality(Foreign(m)) \in Nat /\ Cardinality(K) \in Nat
  BY <1>4, <1>6, FS_CardinalityType
<1> QED
  BY <1>1, <1>4, <1>6, <1>7 DEF n, s

\* Fewer foreign keys are still within the cap.
LEMMA FewerForeign ==
    ASSUME NEW m \in Maps, NEW d \in Maps,
           \A b \in InSeq(d.pending) : b \in InSeq(m.pending) \/ b.round \in OwnRounds,
           Cardinality(Foreign(m)) <= PendingCap
    PROVE  Cardinality(Foreign(d)) <= PendingCap
<1>1. Foreign(d) \in SUBSET Foreign(m)
  BY DEF Foreign
<1>2. IsFiniteSet(Foreign(m)) /\ Cardinality(Foreign(m)) \in Nat
  BY KeysCounted
<1>3. Cardinality(Foreign(d)) \in Nat
  BY KeysCounted
<1>4. Cardinality(Foreign(d)) <= Cardinality(Foreign(m))
  BY <1>1, <1>2, FS_Subset
<1> QED
  BY <1>2, <1>3, <1>4, IngressAssumption

LEMMA InitInv == Init => IngressInv
<1> SUFFICES ASSUME Init PROVE IngressInv
  OBVIOUS
<1>1. maps = EmptyMaps /\ consensus_round = 0
  BY DEF Init
<1>2. /\ EmptyMaps.pending = << >> /\ EmptyMaps.committed = << >>
      /\ EmptyMaps.votes = [b \in Block |-> NoVotes]
      /\ InSeq(<< >>) = {}
  BY DEF EmptyMaps, InSeq
<1>3. EmptyMaps \in Maps
  BY AmountFacts DEF EmptyMaps, Maps, NoVotes
<1>4. Stored(EmptyMaps) = {}
  BY <1>2 DEF Stored
<1>5. Separate(EmptyMaps) /\ OneVote(EmptyMaps)
  BY <1>2, <1>4 DEF Separate, Injective, Disjoint, VotesOnStored, NoVotes, OneVote
<1>6. Foreign(EmptyMaps) = {}
  BY <1>2 DEF Foreign
<1>7. Cardinality(Foreign(EmptyMaps)) = 0 /\ Len(EmptyMaps.committed) = 0
  BY <1>2, <1>6, FS_EmptySet
<1>8. WithinCaps
  BY <1>1, <1>7, IngressAssumption DEF WithinCaps
<1>9. OwnReached
  BY <1>1, <1>4 DEF OwnReached
<1>10. EmptyMaps \in SoundMaps
  BY <1>3, <1>5 DEF SoundMaps
<1>11. /\ 0 \in 0..MaxRound
       /\ should_commit \in BOOLEAN
       /\ executed \in Seq(Block)
  <2>1. should_commit = FALSE /\ executed = << >>
    BY DEF Init
  <2>2. 0 \in 0..MaxRound
    BY IngressAssumption
  <2>3. << >> \in Seq(Block)
    OBVIOUS
  <2> QED
    BY <2>1, <2>2, <2>3
<1>12. commit_batch \in MinBatch..MaxBatch
  BY NodeAssumption DEF Init
<1> QED
  BY <1>1, <1>8, <1>9, <1>10, <1>11, <1>12 DEF IngressInv

\* observe keeps the batch size between its limits.
LEMMA ObserveTyped ==
    ASSUME NEW current \in MinBatch..MaxBatch, NEW drained \in Nat
    PROVE  observe(current, drained) \in MinBatch..MaxBatch
<1>1. MinBatch \in Nat /\ MaxBatch \in Nat /\ current \in Nat
  BY NodeAssumption
<1>2. current \div 2 \in Nat /\ current \div 2 <= current
  BY <1>1
<1> QED
  BY <1>1, <1>2 DEF observe, Greatest, Least

\* The node's own vote, through the same ingress as the others.
LEMMA SelfVotedFacts ==
    ASSUME NEW m \in SoundMaps, NEW b \in Block
    PROVE  /\ SelfVoted(m, b) \in SoundMaps
           /\ SelfVoted(m, b).pending = m.pending
           /\ SelfVoted(m, b).committed = m.committed
<1>1. [voter |-> Self, block |-> b] \in Vote
  BY NodeAssumption DEF Vote
<1> QED
  BY <1>1, VoteReceived DEF SelfVoted

\* The invariant from the maps after a step that files the blocks of F.
LEMMA MapsStep ==
    ASSUME IngressInv, maps' \in SoundMaps, NEW F, F \subseteq Block,
           \A b \in F : b.round \in OwnRounds => b.round <= consensus_round',
           consensus_round <= consensus_round', consensus_round' \in 0..MaxRound,
           \A b \in InSeq(maps'.pending) : b \in Stored(maps) \/ b \in F,
           \A b \in InSeq(maps'.committed) : b \in Stored(maps)
    PROVE  OwnReached'
<1>1. \A b : b \in Stored(maps') <=> b \in InSeq(maps'.pending) \/ b \in InSeq(maps'.committed)
  BY DEF Stored
<1>2. \A b \in Stored(maps) : b \in Block /\ b.round \in Nat
  BY MapsFacts DEF IngressInv, SoundMaps, Block
<1>3. consensus_round \in Nat /\ consensus_round' \in Nat
  BY IngressAssumption DEF IngressInv
<1> SUFFICES ASSUME NEW b \in Stored(maps'), b.round \in OwnRounds
             PROVE  b.round <= consensus_round'
  BY DEF OwnReached
<1>4. CASE b \in F
  BY <1>4
<1>5. CASE b \in Stored(maps)
  BY <1>2, <1>3, <1>5 DEF IngressInv, OwnReached
<1> QED
  BY <1>1, <1>4, <1>5

LEMMA NextInv == IngressInv /\ [Next]_vars => IngressInv'
<1> SUFFICES ASSUME IngressInv, [Next]_vars PROVE IngressInv'
  OBVIOUS
<1>0. /\ maps \in SoundMaps /\ maps \in Maps
      /\ \A b : b \in Stored(maps) <=> b \in InSeq(maps.pending) \/ b \in InSeq(maps.committed)
      /\ consensus_round \in Nat /\ consensus_round <= MaxRound
      /\ Cardinality(Foreign(maps)) <= PendingCap
      /\ Len(maps.committed) <= CommittedCap
      /\ PendingCap \in Nat /\ CommittedCap \in Nat /\ MaxRound \in Nat
  BY IngressAssumption DEF IngressInv, WithinCaps, SoundMaps, Stored
<1>1. ASSUME NEW payload \in Payload, checkAndPropose(payload) PROVE IngressInv'
  <2> DEFINE r == consensus_round + 1
             b == [round |-> r, payload |-> payload]
             m == proposeBlock(maps, b)
  <2>1. /\ r <= MaxRound /\ consensus_round' = r /\ r \in 0..MaxRound
        /\ r \in 1..MaxRound /\ consensus_round <= r
        /\ commit_batch' = commit_batch /\ executed' = executed
    BY <1>0, <1>1 DEF checkAndPropose
  <2>2. CASE r \in OwnRounds
    <3>1. maps' = SelfVoted(m, b) /\ should_commit' = TRUE
      BY <1>1, <2>2 DEF checkAndPropose
    <3>2. b \in Block /\ b.round = r
      BY <2>1 DEF Block
    <3>3. b \notin Stored(maps)
      <4>1. ~(r <= consensus_round)
        BY <1>0
      <4> QED
        BY <2>2, <3>2, <4>1 DEF IngressInv, OwnReached
    <3> HIDE DEF b
    <3>4. /\ m \in SoundMaps
          /\ \A c \in InSeq(m.pending) : c \in InSeq(maps.pending) \/ c = b
          /\ m.committed = maps.committed
      BY <1>0, <3>2, <3>3, BlockProposed
    <3> HIDE DEF m
    <3>5. /\ maps' \in SoundMaps /\ maps' \in Maps
          /\ maps'.pending = m.pending
          /\ maps'.committed = m.committed
      BY <3>1, <3>2, <3>4, SelfVotedFacts DEF SoundMaps
    <3>6. OwnReached'
      <4> DEFINE F == {b}
      <4>1. /\ F \subseteq Block
            /\ \A c \in F : c.round \in OwnRounds => c.round <= consensus_round'
            /\ \A c \in InSeq(maps'.pending) : c \in Stored(maps) \/ c \in F
            /\ \A c \in InSeq(maps'.committed) : c \in Stored(maps)
        BY <1>0, <2>1, <3>2, <3>4, <3>5
      <4> HIDE DEF F, r
      <4> QED
        BY <2>1, <3>5, <4>1, MapsStep
    <3>7. Cardinality(Foreign(maps')) <= PendingCap
      <4>1. \A c \in InSeq(maps'.pending) : c \in InSeq(maps.pending) \/ c.round \in OwnRounds
        BY <2>2, <3>2, <3>4, <3>5
      <4> QED
        BY <1>0, <3>5, <4>1, FewerForeign
    <3>8. WithinCaps'
      BY <1>0, <3>4, <3>5, <3>7 DEF WithinCaps, Foreign
    <3> QED
      BY <2>1, <3>1, <3>5, <3>6, <3>8 DEF IngressInv
  <2>3. CASE r \notin OwnRounds
    <3>1. maps' = maps /\ should_commit' = should_commit
      BY <1>1, <2>3 DEF checkAndPropose
    <3>2. OwnReached'
      <4> DEFINE F == {}
      <4>1. /\ F \subseteq Block
            /\ \A c \in F : c.round \in OwnRounds => c.round <= consensus_round'
            /\ \A c \in InSeq(maps'.pending) : c \in Stored(maps) \/ c \in F
            /\ \A c \in InSeq(maps'.committed) : c \in Stored(maps)
            /\ maps' \in SoundMaps
        BY <1>0, <3>1
      <4> HIDE DEF F, r
      <4> QED
        BY <2>1, <4>1, MapsStep
    <3>3. WithinCaps'
      BY <3>1 DEF IngressInv, WithinCaps, Foreign
    <3> QED
      BY <2>1, <3>1, <3>2, <3>3 DEF IngressInv
  <2> QED
    BY <2>2, <2>3
<1>2. ASSUME NEW b \in Block, onBlockReceived(b) PROVE IngressInv'
  <2> DEFINE m == receiveBlock(maps, b)
  <2>1. /\ b.round \notin OwnRounds
        /\ maps' = SelfVoted(m, b)
        /\ consensus_round' = consensus_round /\ should_commit' = should_commit
        /\ commit_batch' = commit_batch /\ executed' = executed
    BY <1>2 DEF onBlockReceived
  <2>2. /\ m \in SoundMaps
        /\ Len(m.pending) <= PendingCap
        /\ \A c \in InSeq(m.pending) : c \in InSeq(maps.pending) \/ c = b
        /\ m.committed = maps.committed
    BY <1>0, BlockReceived
  <2> HIDE DEF m
  <2>3. /\ maps' \in SoundMaps /\ maps' \in Maps
        /\ maps'.pending = m.pending
        /\ maps'.committed = m.committed
    BY <2>1, <2>2, SelfVotedFacts DEF SoundMaps
  <2>4. OwnReached'
    <3> DEFINE F == {b}
    <3>1. /\ F \subseteq Block
          /\ \A c \in F : c.round \in OwnRounds => c.round <= consensus_round'
          /\ \A c \in InSeq(maps'.pending) : c \in Stored(maps) \/ c \in F
          /\ \A c \in InSeq(maps'.committed) : c \in Stored(maps)
          /\ consensus_round <= consensus_round' /\ consensus_round' \in 0..MaxRound
      BY <1>0, <2>1, <2>2, <2>3
    <3> HIDE DEF F
    <3> QED
      BY <2>3, <3>1, MapsStep
  <2>5. Cardinality(Foreign(maps')) <= PendingCap
    <3>1. /\ Cardinality(Foreign(maps')) <= Len(maps'.pending)
          /\ Cardinality(Foreign(maps')) \in Nat
      BY <2>3, KeysCounted
    <3>2. Len(maps'.pending) <= PendingCap /\ Len(maps'.pending) \in Nat
      BY <2>2, <2>3, MapsFacts, SeqFacts
    <3> QED
      BY <1>0, <3>1, <3>2
  <2>6. WithinCaps'
    BY <1>0, <2>2, <2>3, <2>5 DEF WithinCaps, Foreign
  <2> QED
    BY <2>1, <2>3, <2>4, <2>6 DEF IngressInv
<1>3. ASSUME NEW vote \in Vote, onVoteReceived(vote) PROVE IngressInv'
  <2>1. /\ maps' = receiveVote(maps, vote)
        /\ should_commit' \in BOOLEAN
        /\ consensus_round' = consensus_round
        /\ commit_batch' = commit_batch /\ executed' = executed
    BY <1>3 DEF onVoteReceived, IngressInv
  <2>2. /\ maps' \in SoundMaps
        /\ maps'.pending = maps.pending
        /\ maps'.committed = maps.committed
    BY <1>0, <2>1, VoteReceived
  <2>3. OwnReached'
    BY <1>0, <2>1, <2>2 DEF IngressInv, OwnReached, Stored
  <2>4. WithinCaps'
    BY <1>0, <2>2 DEF WithinCaps, Foreign
  <2> QED
    BY <2>1, <2>2, <2>3, <2>4 DEF IngressInv
<1>4. ASSUME maybeCommit PROVE IngressInv'
  <2> DEFINE outcome == tryCommitBatch(maps, commit_batch)
  <2>1. /\ should_commit' = FALSE
        /\ maps' = outcome.maps
        /\ executed' = executed \o outcome.done
        /\ commit_batch' = observe(commit_batch, Len(outcome.done))
        /\ consensus_round' = consensus_round
    BY <1>4 DEF maybeCommit
  <2>2. commit_batch \in Nat
    BY NodeAssumption DEF IngressInv
  <2>3. outcome \in [maps : Within(maps), done : Seq(Quorate(maps))]
    BY <1>0, <2>2, BatchCommitted
  <2> HIDE DEF outcome
  <2>4. maps' \in Within(maps) /\ outcome.done \in Seq(Block)
    <3>1. maps' \in Within(maps) /\ outcome.done \in Seq(Quorate(maps))
      BY <2>1, <2>3
    <3>2. Quorate(maps) \subseteq Block
      BY DEF Quorate
    <3> QED
      BY <3>1, <3>2
  <2>5. /\ maps' \in SoundMaps /\ maps' \in Maps
        /\ \A b \in InSeq(maps'.pending) : b \in InSeq(maps.pending)
        /\ \A b \in Stored(maps') : b \in Stored(maps)
        /\ Len(maps.committed) <= CommittedCap => Len(maps'.committed) <= CommittedCap
    BY <2>4 DEF Within, SoundMaps
  <2>6. executed' \in Seq(Block) /\ Len(outcome.done) \in Nat
    BY <2>1, <2>4 DEF IngressInv
  <2>7. commit_batch' \in MinBatch..MaxBatch
    BY <2>1, <2>6, ObserveTyped DEF IngressInv
  <2>8. OwnReached'
    BY <2>1, <2>5 DEF IngressInv, OwnReached
  <2>9. Cardinality(Foreign(maps')) <= PendingCap
    BY <1>0, <2>5, FewerForeign
  <2>10. WithinCaps'
    BY <1>0, <2>5, <2>9 DEF WithinCaps, Foreign
  <2> QED
    BY <2>1, <2>5, <2>6, <2>7, <2>8, <2>10 DEF IngressInv
<1>5. CASE UNCHANGED vars
  BY <1>5 DEF vars, IngressInv, OwnReached, WithinCaps, Stored, Foreign
<1> QED
  BY <1>1, <1>2, <1>3, <1>4, <1>5 DEF Next

----------------------------------------------------------------------------
(* Its consequences.                                                      *)

\* In a map without repetition a block is at one place at most.
LEMMA PlacesCounted ==
    ASSUME NEW s \in Seq(Block), Injective(s), NEW b
    PROVE  Cardinality({i \in DOMAIN s : s[i] = b}) = IF b \in InSeq(s) THEN 1 ELSE 0
<1> DEFINE P == {i \in DOMAIN s : s[i] = b}
<1>1. CASE b \in InSeq(s)
  <2>1. PICK i \in 1..Len(s) : b = s[i]
    BY <1>1, SeqFacts
  <2>2. P = {i}
    BY <2>1, SeqFacts DEF Injective
  <2>3. Cardinality(P) = 1
    BY <2>2, FS_Singleton
  <2> QED
    BY <1>1, <2>3
<1>2. CASE b \notin InSeq(s)
  <2>1. P = {}
    BY <1>2, SeqFacts
  <2>2. Cardinality(P) = 0
    BY <2>1, FS_EmptySet
  <2> QED
    BY <1>2, <2>2
<1> QED
  BY <1>1, <1>2

LEMMA InvImplies == IngressInv => TypeOK /\ OneVotePerRound /\ MapsSeparate /\ MapsBounded
<1> SUFFICES ASSUME IngressInv PROVE TypeOK /\ OneVotePerRound /\ MapsSeparate /\ MapsBounded
  OBVIOUS
<1>1. maps \in Maps /\ Separate(maps) /\ OneVote(maps)
  BY DEF IngressInv, SoundMaps
<1>2. /\ maps = [pending |-> maps.pending, committed |-> maps.committed, votes |-> maps.votes]
      /\ maps.pending \in Seq(Block) /\ maps.committed \in Seq(Block)
      /\ maps.votes \in [Block -> [Validator -> Amount]]
      /\ \A b : b \in Stored(maps) <=> b \in InSeq(maps.pending) \/ b \in InSeq(maps.committed)
  BY <1>1, MapsFacts
<1>3. TypeOK
  <2>1. DOMAIN maps = {"pending", "committed", "votes"}
    BY <1>2
  <2>2. /\ InSeq(maps.pending) \subseteq Block
        /\ InSeq(maps.committed) \subseteq Block
        /\ InSeq(executed) \subseteq Block
    BY <1>2, SeqFacts DEF IngressInv
  <2> QED
    BY <1>2, <2>1, <2>2 DEF IngressInv, TypeOK
<1>4. OneVotePerRound
  BY <1>1 DEF OneVote, OneVotePerRound
<1>5. MapsSeparate
  <2>1. ASSUME NEW b \in Block
        PROVE  Cardinality({i \in DOMAIN maps.pending : maps.pending[i] = b})
               + Cardinality({i \in DOMAIN maps.committed : maps.committed[i] = b}) <= 1
    <3>1. Cardinality({i \in DOMAIN maps.pending : maps.pending[i] = b})
              = IF b \in InSeq(maps.pending) THEN 1 ELSE 0
      BY <1>1, <1>2, PlacesCounted DEF Separate
    <3>2. Cardinality({i \in DOMAIN maps.committed : maps.committed[i] = b})
              = IF b \in InSeq(maps.committed) THEN 1 ELSE 0
      BY <1>1, <1>2, PlacesCounted DEF Separate
    <3>3. ~(b \in InSeq(maps.pending) /\ b \in InSeq(maps.committed))
      BY <1>1 DEF Separate, Disjoint
    <3> QED
      BY <3>1, <3>2, <3>3
  <2>2. ASSUME NEW b \in Block \ Stored(maps) PROVE maps.votes[b] = NoVotes
    <3>1. maps.votes[b] \in [Validator -> Amount]
      BY <1>2
    <3>2. \A v \in Validator : maps.votes[b][v] = 0
      BY <1>1 DEF Separate, VotesOnStored
    <3> QED
      BY <3>1, <3>2 DEF NoVotes
  <2> QED
    BY <2>1, <2>2 DEF MapsSeparate
<1>6. MapsBounded
  BY DEF IngressInv, WithinCaps, Foreign, MapsBounded
<1> QED
  BY <1>3, <1>4, <1>5, <1>6

THEOREM InvAlways == Spec => []IngressInv
<1>1. Init => IngressInv
  BY InitInv
<1>2. IngressInv /\ [Next]_vars => IngressInv'
  BY NextInv
<1> QED
  BY <1>1, <1>2, PTL DEF Spec

\* TypeOK for every stake table, quorum, cap and number of rounds: the maps of
\* ConsensusIngressCoordinator hold blocks, and every vote weight is an amount.
THEOREM TypeCorrect == Spec => []TypeOK
<1>1. IngressInv => TypeOK
  BY InvImplies
<1> QED
  BY <1>1, InvAlways, PTL

\* OneVotePerRound, whatever arrives and whatever is evicted: findExistingVote
\* looks at every block that is held, and an evicted block takes its votes along.
THEOREM OneVoteAlways == Spec => []OneVotePerRound
<1>1. IngressInv => OneVotePerRound
  BY InvImplies
<1> QED
  BY <1>1, InvAlways, PTL

\* MapsSeparate: proposeBlock files a block without asking whether the maps hold
\* it, which they cannot, since its round is new to the node.
THEOREM SeparateAlways == Spec => []MapsSeparate
<1>1. IngressInv => MapsSeparate
  BY InvImplies
<1> QED
  BY <1>1, InvAlways, PTL

\* MapsBounded: receiveBlock's makeRoom and promotePendingBlock's pruning keep
\* both maps within their caps but for the node's own proposals.
THEOREM BoundedAlways == Spec => []MapsBounded
<1>1. IngressInv => MapsBounded
  BY InvImplies
<1> QED
  BY <1>1, InvAlways, PTL
=============================================================================
