----------------------- MODULE ValidatorNetworkProofs -----------------------
(***************************************************************************)
(* Theorems about ValidatorNetwork, for any validators, stakes, rounds and *)
(* caps, under losses, reordering between streams, evictions and restarts. *)
(***************************************************************************)
EXTENDS ValidatorNetwork, BlockIngressProofs

----------------------------------------------------------------------------
(* The parts of the invariant, as operators of the votes cast, so that a   *)
(* step that only adds votes keeps them.                                   *)

Casts == [Online -> SUBSET Block]

More(c, d) == \A v \in Online : c[v] \subseteq d[v]

Twice(c, v) == \E a, b \in c[v] : a # b /\ a.round = b.round

\* What p may have sent.
ValidMsg(c, p) ==
    {msg \in Message :
        /\ msg.type = "block" =>
               isProposer(p, msg.block.round) /\ msg.block \in c[p]
        /\ msg.type = "vote" =>
               msg.vote.voter = p /\ msg.vote.block \in c[p]
        /\ msg.type = "evidence" =>
               msg.voter \in Online /\ Twice(c, msg.voter)}

GoodStreams(c, s) ==
    /\ s \in [Online -> [Online -> Seq(Message)]]
    /\ \A p, q \in Online : /\ s[p][q] \in Seq(ValidMsg(c, p))
                            /\ p = q => s[p][q] = << >>

\* Every vote a node holds was cast and is weighed by the table.
Counted(c, m) ==
    \A b \in Block, v \in Validator :
        m.votes[b][v] > 0 =>
            v \in Online /\ b \in c[v] /\ m.votes[b][v] = Stake[v]

\* A node holds own blocks of rounds it has reached only.
OwnHeld(n, r, m) ==
    \A b \in Stored(m) : isProposer(n, b.round) => b.round <= r

NodeOK(c, n, r, m) == m \in SoundMaps /\ Counted(c, m) /\ OwnHeld(n, r, m)

Backers(c, b) == {v \in Online : b \in c[v]}

BackedStake(c, b) == [v \in Validator |-> IF v \in Backers(c, b) THEN Stake[v] ELSE 0]

Certified(c) ==
    {b \in Block : /\ Cardinality(Backers(c, b)) >= VoteQuorum
                   /\ accepts(StakeOf(BackedStake(c, b)), totalStake)}

\* Who is accused voted twice.
Fair(c, accused) == \A v \in accused : v \in Online /\ Twice(c, v)

\* Whatever a validator voted for was voted for by its proposer.
Proposed1(c) ==
    \A v \in Online : \A b \in c[v] :
        \E p \in Online : isProposer(p, b.round) /\ b \in c[p]

\* A proposer voted for one block of each of its rounds so far.
OnePerRound(c, rounds) ==
    \A p \in Online : \A b \in c[p] :
        isProposer(p, b.round) =>
            /\ b.round <= rounds[p]
            /\ \A a \in c[p] : a.round = b.round => a = b

NetworkInv ==
    /\ \A n \in Online : NodeOK(cast, n, consensus_round[n], maps[n])
    /\ DOMAIN maps = Online
    /\ consensus_round \in [Online -> 0..MaxRound]
    /\ should_commit \in [Online -> BOOLEAN]
    /\ commit_batch \in [Online -> MinBatch..MaxBatch]
    /\ quarantined \in [Online -> SUBSET Validator]
    /\ evidence \in [Online -> SUBSET Validator]
    /\ \A n \in Online : Fair(cast, quarantined[n]) /\ Fair(cast, evidence[n])
    /\ GoodStreams(cast, stream)
    /\ restarts \in 0..MaxRestarts
    /\ DOMAIN executed = Online
    /\ \A n \in Online : executed[n] \in Seq(Certified(cast))
    /\ cast \in Casts
    /\ restarted \subseteq Online
    /\ Proposed1(cast)
    /\ restarted = {} => OnePerRound(cast, consensus_round)

----------------------------------------------------------------------------
(* More votes keep everything that was true of fewer.                      *)

LEMMA StakeFacts ==
    /\ IsFiniteSet(Validator) /\ IsFiniteSet(Online)
    /\ Stake \in [Validator -> Nat] /\ \A v \in Validator : Stake[v] \in Amount
    /\ Online \subseteq Validator
    /\ totalStake \in Nat
    /\ thresholdOf(totalStake) \in Nat
<1>1. IsFiniteSet(Validator) /\ Online \subseteq Validator /\ Stake \in [Validator -> Amount]
  BY IngressAssumption, NetworkAssumption
<1>2. IsFiniteSet(Online)
  BY <1>1, FS_Subset
<1>3. Stake \in [Validator -> Nat]
  BY <1>1, AmountFacts
<1>4. totalStake \in Nat
  BY <1>3, SumGrows DEF totalStake
<1>5. thresholdOf(totalStake) \in Nat
  BY <1>4, AmountAssumption DEF thresholdOf
<1> QED
  BY <1>1, <1>2, <1>3, <1>4, <1>5

LEMMA BackedFacts ==
    ASSUME NEW c, NEW b
    PROVE  /\ Backers(c, b) \subseteq Online
           /\ IsFiniteSet(Backers(c, b))
           /\ Cardinality(Backers(c, b)) \in Nat
           /\ BackedStake(c, b) \in [Validator -> Nat]
           /\ StakeOf(BackedStake(c, b)) \in Nat
<1>1. Backers(c, b) \subseteq Online
  BY DEF Backers
<1>2. IsFiniteSet(Backers(c, b)) /\ Cardinality(Backers(c, b)) \in Nat
  BY <1>1, StakeFacts, FS_Subset, FS_CardinalityType
<1>3. BackedStake(c, b) \in [Validator -> Nat]
  BY StakeFacts DEF BackedStake
<1>4. StakeOf(BackedStake(c, b)) \in Nat
  BY <1>3, SumGrows
<1> QED
  BY <1>1, <1>2, <1>3, <1>4

\* A certificate from weights that the votes cast account for.
LEMMA CertificateFrom ==
    ASSUME NEW c, NEW b \in Block, NEW w \in [Validator -> Nat], NEW voters,
           voters \subseteq Backers(c, b), Cardinality(voters) \in Nat,
           Cardinality(voters) >= VoteQuorum,
           accepts(StakeOf(w), totalStake),
           \A v \in Validator : w[v] <= BackedStake(c, b)[v]
    PROVE  b \in Certified(c)
<1>1. StakeOf(w) \in Nat /\ StakeOf(w) <= StakeOf(BackedStake(c, b))
  BY BackedFacts, SumGrows
<1>2. accepts(StakeOf(BackedStake(c, b)), totalStake)
  BY <1>1, BackedFacts, StakeFacts DEF accepts
<1>3. Cardinality(voters) <= Cardinality(Backers(c, b))
  BY BackedFacts, FS_Subset
<1>4. Cardinality(Backers(c, b)) >= VoteQuorum
  BY <1>3, BackedFacts, IngressAssumption
<1> QED
  BY <1>2, <1>4 DEF Certified

LEMMA MoreKeeps ==
    ASSUME NEW c \in Casts, NEW d \in Casts, More(c, d)
    PROVE  /\ \A v \in Online : Twice(c, v) => Twice(d, v)
           /\ \A p \in Online : ValidMsg(c, p) \subseteq ValidMsg(d, p)
           /\ Certified(c) \subseteq Certified(d)
           /\ \A m : Counted(c, m) => Counted(d, m)
           /\ \A accused : Fair(c, accused) => Fair(d, accused)
           /\ \A s : GoodStreams(c, s) => GoodStreams(d, s)
<1>1. \A v \in Online : Twice(c, v) => Twice(d, v)
  BY DEF Twice, More
<1>2. ASSUME NEW p \in Online PROVE ValidMsg(c, p) \subseteq ValidMsg(d, p)
  BY <1>1 DEF ValidMsg, More
<1>3. ASSUME NEW b \in Certified(c) PROVE b \in Certified(d)
  <2>1. Backers(c, b) \subseteq Backers(d, b)
    BY DEF Backers, More
  <2>2. \A v \in Validator : BackedStake(c, b)[v] <= BackedStake(d, b)[v]
    BY <2>1, StakeFacts DEF BackedStake
  <2>3. /\ b \in Block /\ Cardinality(Backers(c, b)) >= VoteQuorum
        /\ accepts(StakeOf(BackedStake(c, b)), totalStake)
    BY DEF Certified
  <2>4. Cardinality(Backers(c, b)) \in Nat /\ BackedStake(c, b) \in [Validator -> Nat]
    BY BackedFacts
  <2> QED
    BY <2>1, <2>2, <2>3, <2>4, CertificateFrom
<1>4. \A m : Counted(c, m) => Counted(d, m)
  BY DEF Counted, More
<1>5. \A accused : Fair(c, accused) => Fair(d, accused)
  BY <1>1 DEF Fair
<1>6. ASSUME NEW s, GoodStreams(c, s) PROVE GoodStreams(d, s)
  <2>1. ASSUME NEW p \in Online, NEW q \in Online PROVE s[p][q] \in Seq(ValidMsg(d, p))
    <3>1. s[p][q] \in Seq(ValidMsg(c, p)) /\ ValidMsg(c, p) \subseteq ValidMsg(d, p)
      BY <1>2, <1>6 DEF GoodStreams
    <3> QED
      BY <3>1
  <2> QED
    BY <1>6, <2>1 DEF GoodStreams
<1> QED
  BY <1>1, <1>2, <1>3, <1>4, <1>5, <1>6

----------------------------------------------------------------------------
(* What a handler does to the maps of one node.                           *)

LEMMA CountedLater ==
    ASSUME NEW c \in Casts, NEW m \in SoundMaps, NEW d \in SoundMaps,
           Counted(c, m), NoNewVotes(m, d)
    PROVE  Counted(c, d)
<1> SUFFICES ASSUME NEW b \in Block, NEW v \in Validator, d.votes[b][v] > 0
             PROVE  v \in Online /\ b \in c[v] /\ d.votes[b][v] = Stake[v]
  BY DEF Counted
<1>1. d.votes[b][v] # 0
  OBVIOUS
<1>2. d.votes[b][v] = m.votes[b][v]
  BY <1>1 DEF NoNewVotes
<1> QED
  BY <1>2 DEF Counted

\* A vote that was cast, through receiveVote.
LEMMA VoteKeeps ==
    ASSUME NEW c \in Casts, NEW n, NEW r, NEW m, NodeOK(c, n, r, m),
           NEW vote \in Vote, vote.voter \in Online, vote.block \in c[vote.voter]
    PROVE  NodeOK(c, n, r, receiveVote(m, vote))
<1> DEFINE d == receiveVote(m, vote)
<1>1. m \in SoundMaps /\ Counted(c, m) /\ OwnHeld(n, r, m)
  BY DEF NodeOK
<1>2. /\ d \in SoundMaps /\ d.pending = m.pending /\ d.committed = m.committed
      /\ \A b \in Block, v \in Validator :
             \/ d.votes[b][v] = m.votes[b][v]
             \/ /\ b = vote.block /\ v = vote.voter
                /\ d.votes[b][v] = Stake[v]
  BY <1>1, VoteReceived
<1> HIDE DEF d
<1>3. Counted(c, d)
  <2> SUFFICES ASSUME NEW b \in Block, NEW v \in Validator, d.votes[b][v] > 0
               PROVE  v \in Online /\ b \in c[v] /\ d.votes[b][v] = Stake[v]
    BY DEF Counted
  <2> QED
    BY <1>1, <1>2 DEF Counted
<1>4. OwnHeld(n, r, d)
  BY <1>1, <1>2 DEF OwnHeld, Stored
<1> QED
  BY <1>2, <1>3, <1>4 DEF NodeOK, d

\* The node's own vote is one.
LEMMA SelfKeeps ==
    ASSUME NEW c \in Casts, NEW n \in Online, NEW r, NEW m, NodeOK(c, n, r, m),
           NEW b \in Block, b \in c[n]
    PROVE  NodeOK(c, n, r, SelfVoted(m, n, b))
<1> DEFINE vote == [voter |-> n, block |-> b]
<1>1. vote \in Vote /\ vote.voter \in Online /\ vote.block \in c[vote.voter]
  BY StakeFacts DEF Vote
<1> HIDE DEF vote
<1>2. NodeOK(c, n, r, receiveVote(m, vote))
  BY <1>1, VoteKeeps
<1> QED
  BY <1>2 DEF SelfVoted, vote

\* checkAndPropose
LEMMA ProposedKeeps ==
    ASSUME NEW c \in Casts, NEW n \in Online, NEW r \in Nat, NEW m, NodeOK(c, n, r, m),
           NEW b \in Block, b.round = r + 1, isProposer(n, b.round)
    PROVE  NodeOK(c, n, r + 1, proposeBlock(m, b))
<1> DEFINE d == proposeBlock(m, b)
<1>1. m \in SoundMaps /\ Counted(c, m) /\ OwnHeld(n, r, m)
  BY DEF NodeOK
<1>2. ~(r + 1 <= r)
  OBVIOUS
<1>3. b \notin Stored(m)
  BY <1>1, <1>2 DEF OwnHeld
<1>4. /\ d \in SoundMaps
      /\ \A x \in InSeq(d.pending) : x \in InSeq(m.pending) \/ x = b
      /\ d.committed = m.committed
      /\ NoNewVotes(m, d)
  BY <1>1, <1>3, BlockProposed
<1> HIDE DEF d
<1>5. Counted(c, d)
  BY <1>1, <1>4, CountedLater
<1>6. OwnHeld(n, r + 1, d)
  <2> SUFFICES ASSUME NEW x \in Stored(d), isProposer(n, x.round) PROVE x.round <= r + 1
    BY DEF OwnHeld
  <2>1. x \in Stored(m) \/ x = b
    BY <1>4 DEF Stored
  <2>2. CASE x = b
    BY <2>2
  <2>3. CASE x \in Stored(m)
    <3>1. x.round <= r
      BY <1>1, <2>3 DEF OwnHeld
    <3>2. x \in Block
      BY <1>1, <2>3, MapsFacts DEF SoundMaps
    <3>3. x.round \in Nat
      BY <3>2 DEF Block
    <3> QED
      BY <3>1, <3>3
  <2> QED
    BY <2>1, <2>2, <2>3
<1> QED
  BY <1>4, <1>5, <1>6 DEF NodeOK, d

\* A round that goes by without a proposal.
LEMMA RoundKeeps ==
    ASSUME NEW c, NEW n, NEW r \in Nat, NEW m, NodeOK(c, n, r, m)
    PROVE  NodeOK(c, n, r + 1, m)
<1>1. m \in SoundMaps /\ OwnHeld(n, r, m)
  BY DEF NodeOK
<1>2. ASSUME NEW x \in Stored(m), isProposer(n, x.round) PROVE x.round <= r + 1
  <2>1. x.round <= r
    BY <1>1, <1>2 DEF OwnHeld
  <2>2. x \in Block
    BY <1>1, MapsFacts DEF SoundMaps
  <2>3. x.round \in Nat
    BY <2>2 DEF Block
  <2> QED
    BY <2>1, <2>3
<1> QED
  BY <1>2 DEF NodeOK, OwnHeld

\* onBlockReceived
LEMMA ReceivedKeeps ==
    ASSUME NEW c \in Casts, NEW n \in Online, NEW r, NEW m, NodeOK(c, n, r, m),
           NEW b \in Block, ~isProposer(n, b.round)
    PROVE  NodeOK(c, n, r, receiveBlock(m, b))
<1> DEFINE d == receiveBlock(m, b)
<1>1. m \in SoundMaps /\ Counted(c, m) /\ OwnHeld(n, r, m)
  BY DEF NodeOK
<1>2. /\ d \in SoundMaps
      /\ \A x \in InSeq(d.pending) : x \in InSeq(m.pending) \/ x = b
      /\ d.committed = m.committed
      /\ NoNewVotes(m, d)
  BY <1>1, BlockReceived
<1> HIDE DEF d
<1>3. Counted(c, d)
  BY <1>1, <1>2, CountedLater
<1>4. OwnHeld(n, r, d)
  BY <1>1, <1>2 DEF OwnHeld, Stored
<1> QED
  BY <1>2, <1>3, <1>4 DEF NodeOK, d

\* A quorum of counted votes is a certificate.
LEMMA QuorumCertifies ==
    ASSUME NEW c \in Casts, NEW a \in SoundMaps, Counted(c, a),
           NEW b \in Block, hasQuorum(a, b)
    PROVE  b \in Certified(c)
<1> DEFINE w == a.votes[b]
           voters == Voters(a, b)
<1>1. w \in [Validator -> Amount] /\ \A v \in Validator : w[v] \in Nat
  BY MapsFacts, AmountFacts DEF SoundMaps
<1>2. \A v \in Validator : w[v] > 0 => v \in Backers(c, b) /\ w[v] = Stake[v]
  BY DEF Counted, Backers
<1>3. voters = {v \in Validator : w[v] > 0}
  BY DEF Voters
<1>4. Cardinality(voters) >= VoteQuorum /\ accepts(StakeOf(w), totalStake)
  BY DEF hasQuorum, gatheredStake
<1> HIDE DEF w, voters
<1>5. voters \subseteq Backers(c, b)
  BY <1>2, <1>3
<1>6. Cardinality(voters) \in Nat
  BY <1>5, BackedFacts, FS_Subset, FS_CardinalityType
<1>7. w \in [Validator -> Nat]
  BY <1>1
<1>8. ASSUME NEW v \in Validator PROVE w[v] <= BackedStake(c, b)[v]
  <2>1. w[v] = 0 \/ w[v] > 0
    BY <1>1
  <2>2. BackedStake(c, b)[v] \in Nat
    BY BackedFacts
  <2>3. v \in Backers(c, b) => BackedStake(c, b)[v] = Stake[v]
    BY DEF BackedStake
  <2>4. Stake[v] \in Nat
    BY StakeFacts
  <2> QED
    BY <1>2, <2>1, <2>2, <2>3, <2>4
<1> QED
  BY <1>4, <1>5, <1>6, <1>7, <1>8, CertificateFrom

\* maybeCommit
LEMMA CommitKeeps ==
    ASSUME NEW c \in Casts, NEW n, NEW r, NEW m, NodeOK(c, n, r, m),
           NEW budget \in Nat
    PROVE  /\ NodeOK(c, n, r, tryCommitBatch(m, budget).maps)
           /\ tryCommitBatch(m, budget).done \in Seq(Certified(c))
<1> DEFINE outcome == tryCommitBatch(m, budget)
<1>1. m \in SoundMaps /\ Counted(c, m) /\ OwnHeld(n, r, m)
  BY DEF NodeOK
<1>2. outcome.maps \in Within(m) /\ outcome.done \in Seq(Quorate(m))
  <2>1. outcome \in [maps : Within(m), done : Seq(Quorate(m))]
    BY <1>1, BatchCommitted
  <2> HIDE DEF outcome
  <2> QED
    BY <2>1
<1> HIDE DEF outcome
<1>3. ASSUME NEW a \in Within(m) PROVE a \in SoundMaps /\ Counted(c, a)
  <2>1. a \in SoundMaps /\ NoNewVotes(m, a)
    BY DEF Within
  <2> QED
    BY <1>1, <2>1, CountedLater
<1>4. OwnHeld(n, r, outcome.maps)
  BY <1>1, <1>2 DEF OwnHeld, Within
<1>5. Quorate(m) \subseteq Certified(c)
  BY <1>3, QuorumCertifies DEF Quorate
<1>6. NodeOK(c, n, r, outcome.maps) /\ outcome.done \in Seq(Certified(c))
  BY <1>2, <1>3, <1>4, <1>5 DEF NodeOK
<1> QED
  BY <1>6 DEF outcome

----------------------------------------------------------------------------
(* What a handler does to the streams.                                    *)

LEMMA MessageRead ==
    ASSUME NEW c, NEW s, GoodStreams(c, s), NEW p \in Online, NEW q \in Online,
           s[p][q] # << >>
    PROVE  /\ p # q
           /\ Head(s[p][q]) \in ValidMsg(c, p)
           /\ Tail(s[p][q]) \in Seq(ValidMsg(c, p))
<1>1. s[p][q] \in Seq(ValidMsg(c, p)) /\ p # q
  BY DEF GoodStreams
<1> QED
  BY <1>1

LEMMA StreamSet ==
    ASSUME NEW c, NEW s, GoodStreams(c, s), NEW p \in Online, NEW q \in Online,
           NEW x \in Seq(ValidMsg(c, p)), p = q => x = << >>
    PROVE  /\ GoodStreams(c, [s EXCEPT ![p][q] = x])
           /\ \A t \in Online, u \in Online :
                  [s EXCEPT ![p][q] = x][t][u] = IF t = p /\ u = q THEN x ELSE s[t][u]
<1> DEFINE d == [s EXCEPT ![p][q] = x]
<1>1. /\ s \in [Online -> [Online -> Seq(Message)]]
      /\ \A t \in Online, u \in Online : /\ s[t][u] \in Seq(ValidMsg(c, t))
                                         /\ t = u => s[t][u] = << >>
  BY DEF GoodStreams
<1>2. x \in Seq(Message)
  <2>1. ValidMsg(c, p) \subseteq Message
    BY DEF ValidMsg
  <2> QED
    BY <2>1
<1>3. d \in [Online -> [Online -> Seq(Message)]]
  BY <1>1, <1>2
<1>4. \A t \in Online, u \in Online : d[t][u] = IF t = p /\ u = q THEN x ELSE s[t][u]
  BY <1>1
<1> HIDE DEF d
<1>5. GoodStreams(c, d)
  <2>1. ASSUME NEW t \in Online, NEW u \in Online
        PROVE  d[t][u] \in Seq(ValidMsg(c, t)) /\ (t = u => d[t][u] = << >>)
    <3>1. CASE t = p /\ u = q
      <4>1. d[t][u] = x
        BY <1>4, <3>1
      <4> QED
        BY <3>1, <4>1
    <3>2. CASE ~(t = p /\ u = q)
      <4>1. d[t][u] = s[t][u]
        BY <1>4, <3>2
      <4>2. s[t][u] \in Seq(ValidMsg(c, t)) /\ (t = u => s[t][u] = << >>)
        BY <1>1
      <4> QED
        BY <4>1, <4>2
    <3> QED
      BY <3>1, <3>2
  <2> QED
    BY <1>3, <2>1 DEF GoodStreams
<1> QED
  BY <1>4, <1>5 DEF d

LEMMA MessagesSent ==
    ASSUME NEW c, GoodStreams(c, stream), NEW n \in Online,
           NEW msgs \in Seq(ValidMsg(c, n))
    PROVE  /\ GoodStreams(c, Sent(n, msgs))
           /\ \A p \in Online : p # n => Sent(n, msgs)[p] = stream[p]
<1> DEFINE row == [q \in Online |-> IF q = n THEN stream[n][q] ELSE stream[n][q] \o msgs]
           d == Sent(n, msgs)
<1>1. /\ stream \in [Online -> [Online -> Seq(Message)]]
      /\ \A t \in Online, u \in Online : /\ stream[t][u] \in Seq(ValidMsg(c, t))
                                         /\ t = u => stream[t][u] = << >>
  BY DEF GoodStreams
<1>2. d = [stream EXCEPT ![n] = row]
  BY <1>1 DEF Sent
<1>3. \A q \in Online : /\ row[q] \in Seq(ValidMsg(c, n))
                        /\ q = n => row[q] = << >>
  BY <1>1
<1>4. row \in [Online -> Seq(Message)]
  <2>1. ValidMsg(c, n) \subseteq Message
    BY DEF ValidMsg
  <2>2. \A q \in Online : row[q] \in Seq(Message)
    BY <1>3, <2>1
  <2> QED
    BY <2>2
<1> HIDE DEF row, d
<1>5. d \in [Online -> [Online -> Seq(Message)]]
  BY <1>1, <1>2, <1>4
<1>6. d[n] = row /\ \A p \in Online : p # n => d[p] = stream[p]
  BY <1>1, <1>2
<1>7. GoodStreams(c, d)
  <2>1. ASSUME NEW t \in Online, NEW u \in Online
        PROVE  d[t][u] \in Seq(ValidMsg(c, t)) /\ (t = u => d[t][u] = << >>)
    BY <1>1, <1>3, <1>6
  <2> QED
    BY <1>5, <2>1 DEF GoodStreams
<1> QED
  BY <1>6, <1>7 DEF d

LEMMA MessagesAnswered ==
    ASSUME NEW c, GoodStreams(c, stream), NEW p \in Online, NEW q \in Online,
           stream[p][q] # << >>, NEW msgs \in Seq(ValidMsg(c, q))
    PROVE  GoodStreams(c, ReadThenSent(p, q, msgs))
<1> DEFINE s == Sent(q, msgs)
           x == Tail(s[p][q])
<1>1. p # q
  BY MessageRead
<1>2. GoodStreams(c, s) /\ s[p] = stream[p]
  BY <1>1, MessagesSent
<1>3. ReadThenSent(p, q, msgs) = [s EXCEPT ![p][q] = x]
  BY <1>2 DEF ReadThenSent, GoodStreams
<1> HIDE DEF s
<1>4. x \in Seq(ValidMsg(c, p))
  BY <1>2, MessageRead
<1> HIDE DEF x
<1>5. GoodStreams(c, [s EXCEPT ![p][q] = x])
  BY <1>1, <1>2, <1>4, StreamSet
<1> QED
  BY <1>3, <1>5

LEMMA StreamsCut ==
    ASSUME NEW c, NEW s, GoodStreams(c, s), NEW p \in Online, NEW q \in Online
    PROVE  GoodStreams(c, Disconnected(s, p, q))
<1> DEFINE d == [s EXCEPT ![p][q] = << >>]
<1>1. << >> \in Seq(ValidMsg(c, p)) /\ << >> \in Seq(ValidMsg(c, q))
  OBVIOUS
<1>2. GoodStreams(c, d)
  BY <1>1, StreamSet
<1>3. Disconnected(s, p, q) = [d EXCEPT ![q][p] = << >>]
  BY DEF Disconnected
<1> HIDE DEF d
<1>4. GoodStreams(c, [d EXCEPT ![q][p] = << >>])
  BY <1>1, <1>2, StreamSet
<1> QED
  BY <1>3, <1>4

\* A restart: what the node had not read, and some of what it had sent.
AfterRestart(s, n, cut) ==
    [p \in Online |-> [q \in Online |->
        IF q = n \/ (p = n /\ q \in cut) THEN << >> ELSE s[p][q]]]

LEMMA StreamsRestarted ==
    ASSUME NEW c, NEW s, GoodStreams(c, s), NEW n, NEW cut
    PROVE  GoodStreams(c, AfterRestart(s, n, cut))
<1> DEFINE d == AfterRestart(s, n, cut)
<1>1. /\ s \in [Online -> [Online -> Seq(Message)]]
      /\ \A t \in Online, u \in Online : /\ s[t][u] \in Seq(ValidMsg(c, t))
                                         /\ t = u => s[t][u] = << >>
  BY DEF GoodStreams
<1>2. \A t \in Online, u \in Online : d[t][u] = << >> \/ d[t][u] = s[t][u]
  BY DEF AfterRestart
<1>3. d \in [Online -> [Online -> Seq(Message)]]
  BY <1>1 DEF AfterRestart
<1> HIDE DEF d
<1>4. ASSUME NEW t \in Online, NEW u \in Online
      PROVE  d[t][u] \in Seq(ValidMsg(c, t)) /\ (t = u => d[t][u] = << >>)
  BY <1>1, <1>2
<1>5. GoodStreams(c, d)
  BY <1>3, <1>4 DEF GoodStreams
<1> QED
  BY <1>5 DEF d

\* A conflict names a validator that voted twice.
LEMMA ConflictIsTrue ==
    ASSUME NEW c \in Casts, NEW m \in SoundMaps, Counted(c, m), NEW vote \in Vote,
           vote.voter \in Online, vote.block \in c[vote.voter],
           VoteResult(m, vote) = "equivocation"
    PROVE  Twice(c, vote.voter)
<1> DEFINE v == vote.voter
           b == vote.block
           x == findExistingVote(m, m.pending, v, b.round)
           y == findExistingVote(m, m.committed, v, b.round)
<1>1. m \in Maps /\ m.pending \in Seq(Block) /\ m.committed \in Seq(Block)
  BY MapsFacts DEF SoundMaps
<1>2. /\ x # None => x \in InSeq(m.pending) /\ x.round = b.round /\ m.votes[x][v] > 0
      /\ y # None => y \in InSeq(m.committed) /\ y.round = b.round /\ m.votes[y][v] > 0
  BY <1>1, ExistingVote
<1>3. v \in Validator /\ b \in Block
  BY DEF Vote
<1>4. Conflict(m, vote) # None
  BY DEF VoteResult
<1>5. (x \notin {None, b}) \/ (y \notin {None, b})
  BY <1>4 DEF Conflict
<1>6. \A z : z \in InSeq(m.pending) \/ z \in InSeq(m.committed) => z \in Block
  BY <1>1, SeqFacts
<1> HIDE DEF x, y, v, b
<1>7. PICK z \in Block : z # b /\ z.round = b.round /\ m.votes[z][v] > 0
  BY <1>2, <1>5, <1>6
<1>8. z \in c[v]
  BY <1>3, <1>7 DEF Counted
<1>9. b \in c[v]
  BY DEF v, b
<1>10. Twice(c, v)
  BY <1>7, <1>8, <1>9 DEF Twice
<1> QED
  BY <1>10 DEF v

----------------------------------------------------------------------------
(* What a vote does to the votes cast.                                    *)

Voted(c, n, b) == [c EXCEPT ![n] = @ \cup {b}]

LEMMA VoteCast ==
    ASSUME NEW c \in Casts, NEW n \in Online, NEW b \in Block
    PROVE  /\ Voted(c, n, b) \in Casts
           /\ More(c, Voted(c, n, b))
           /\ b \in Voted(c, n, b)[n]
           /\ \A v \in Online : \A x \in Voted(c, n, b)[v] :
                  x \in c[v] \/ (v = n /\ x = b)
  BY DEF Casts, Voted, More

LEMMA VoteOnProposed ==
    ASSUME NEW c \in Casts, NEW n \in Online, NEW b \in Block, Proposed1(c),
           isProposer(n, b.round) \/ \E p \in Online : isProposer(p, b.round) /\ b \in c[p]
    PROVE  Proposed1(Voted(c, n, b))
<1> DEFINE d == Voted(c, n, b)
<1>1. /\ More(c, d) /\ b \in d[n]
      /\ \A v \in Online : \A x \in d[v] : x \in c[v] \/ (v = n /\ x = b)
  BY VoteCast
<1> HIDE DEF d
<1>2. ASSUME NEW v \in Online, NEW x \in d[v]
      PROVE  \E p \in Online : isProposer(p, x.round) /\ x \in d[p]
  <2>1. CASE x = b
    BY <1>1, <2>1 DEF More
  <2>2. CASE x \in c[v]
    <3>1. PICK p \in Online : isProposer(p, x.round) /\ x \in c[p]
      BY <2>2 DEF Proposed1
    <3> QED
      BY <1>1, <3>1 DEF More
  <2> QED
    BY <1>1, <2>1, <2>2
<1>3. Proposed1(d)
  BY <1>2 DEF Proposed1
<1> QED
  BY <1>3 DEF d

\* A proposal of a round the proposer has not reached.
LEMMA VoteOnOwn ==
    ASSUME NEW c \in Casts, NEW n \in Online, NEW rounds \in [Online -> Nat],
           NEW b \in Block, b.round = rounds[n] + 1, OnePerRound(c, rounds)
    PROVE  OnePerRound(Voted(c, n, b), [rounds EXCEPT ![n] = b.round])
<1> DEFINE d == Voted(c, n, b)
           e == [rounds EXCEPT ![n] = b.round]
<1>1. \A v \in Online : \A x \in d[v] : x \in c[v] \/ (v = n /\ x = b)
  BY VoteCast
<1>2. /\ e[n] = rounds[n] + 1 /\ b.round = rounds[n] + 1
      /\ \A v \in Online : v # n => e[v] = rounds[v]
      /\ \A v \in Online : rounds[v] \in Nat
  OBVIOUS
<1>3. \A v \in Online : \A x \in c[v] : x.round \in Nat
  BY DEF Casts, Block
<1> HIDE DEF d, e
<1> SUFFICES ASSUME NEW p \in Online, NEW x \in d[p], isProposer(p, x.round)
             PROVE  /\ x.round <= e[p]
                    /\ \A a \in d[p] : a.round = x.round => a = x
  BY DEF OnePerRound, d, e
<1>4. CASE x \in c[p]
  <2>1. /\ x.round <= rounds[p] /\ x.round \in Nat
        /\ \A a \in c[p] : a.round = x.round => a = x
    BY <1>3, <1>4 DEF OnePerRound
  <2>2. x.round <= e[p]
    BY <1>2, <2>1
  <2>3. p = n => b.round # x.round
    BY <1>2, <2>1
  <2> QED
    BY <1>1, <2>1, <2>2, <2>3
<1>5. CASE p = n /\ x = b
  <2>1. x.round <= e[p]
    BY <1>2, <1>5
  <2>2. ASSUME NEW a \in d[p], a.round = x.round PROVE a = x
    <3>1. CASE a \in c[p]
      <4>1. a.round <= rounds[p]
        BY <2>2, <3>1 DEF OnePerRound
      <4>2. FALSE
        BY <1>2, <1>5, <2>2, <4>1
      <4> QED
        BY <4>2
    <3> QED
      BY <1>1, <1>5, <3>1
  <2> QED
    BY <2>1, <2>2
<1> QED
  BY <1>1, <1>4, <1>5

\* A vote in the round of another.
LEMMA VoteOnOthers ==
    ASSUME NEW c \in Casts, NEW n \in Online, NEW rounds,
           NEW b \in Block, ~isProposer(n, b.round), OnePerRound(c, rounds)
    PROVE  OnePerRound(Voted(c, n, b), rounds)
<1> DEFINE d == Voted(c, n, b)
<1>1. \A v \in Online : \A x \in d[v] : x \in c[v] \/ (v = n /\ x = b)
  BY VoteCast
<1> HIDE DEF d
<1>2. ASSUME NEW p \in Online, NEW x \in d[p], isProposer(p, x.round)
      PROVE  /\ x.round <= rounds[p]
             /\ \A a \in d[p] : a.round = x.round => a = x
  <2>1. x \in c[p]
    BY <1>1, <1>2
  <2>2. ASSUME NEW a \in d[p], a.round = x.round PROVE a \in c[p]
    BY <1>1, <1>2, <2>2
  <2> QED
    BY <1>2, <2>1, <2>2 DEF OnePerRound
<1>3. OnePerRound(d, rounds)
  BY <1>2 DEF OnePerRound
<1> QED
  BY <1>3 DEF d

\* A round without a proposal.
LEMMA RoundOnly ==
    ASSUME NEW c \in Casts, NEW rounds \in [Online -> Nat], NEW n \in Online,
           OnePerRound(c, rounds)
    PROVE  OnePerRound(c, [rounds EXCEPT ![n] = rounds[n] + 1])
<1> DEFINE e == [rounds EXCEPT ![n] = rounds[n] + 1]
<1>1. /\ e[n] = rounds[n] + 1
      /\ \A v \in Online : v # n => e[v] = rounds[v]
      /\ \A v \in Online : rounds[v] \in Nat
  OBVIOUS
<1>2. \A v \in Online : \A x \in c[v] : x.round \in Nat
  BY DEF Casts, Block
<1> HIDE DEF e
<1>3. ASSUME NEW p \in Online, NEW x \in c[p], isProposer(p, x.round)
      PROVE  /\ x.round <= e[p]
             /\ \A a \in c[p] : a.round = x.round => a = x
  <2>1. /\ x.round <= rounds[p] /\ x.round \in Nat
        /\ \A a \in c[p] : a.round = x.round => a = x
    BY <1>2, <1>3 DEF OnePerRound
  <2> QED
    BY <1>1, <2>1
<1>4. OnePerRound(c, e)
  BY <1>3 DEF OnePerRound
<1> QED
  BY <1>4 DEF e

----------------------------------------------------------------------------
(* The invariant.                                                         *)

LEMMA FirstMaps == ASSUME NEW c, NEW n, NEW r PROVE NodeOK(c, n, r, EmptyMaps)
<1>1. /\ EmptyMaps.pending = << >> /\ EmptyMaps.committed = << >>
      /\ EmptyMaps.votes = [b \in Block |-> NoVotes]
      /\ InSeq(<< >>) = {}
  BY DEF EmptyMaps, InSeq
<1>2. EmptyMaps \in Maps
  BY AmountFacts DEF EmptyMaps, Maps, NoVotes
<1>3. Stored(EmptyMaps) = {}
  BY <1>1 DEF Stored
<1>4. Separate(EmptyMaps) /\ OneVote(EmptyMaps)
  BY <1>1, <1>3 DEF Separate, Injective, Disjoint, VotesOnStored, NoVotes, OneVote
<1>5. Counted(c, EmptyMaps)
  BY <1>1 DEF Counted, NoVotes
<1>6. OwnHeld(n, r, EmptyMaps)
  BY <1>3 DEF OwnHeld
<1> QED
  BY <1>2, <1>4, <1>5, <1>6 DEF NodeOK, SoundMaps

LEMMA BatchFacts ==
    /\ FirstBatch \in MinBatch..MaxBatch
    /\ \A current \in MinBatch..MaxBatch, drained \in Nat :
           /\ current \in Nat
           /\ observe(current, drained) \in MinBatch..MaxBatch
<1>1. MinBatch \in Nat /\ MaxBatch \in Nat /\ FirstBatch \in MinBatch..MaxBatch
  BY NetworkAssumption
<1>2. ASSUME NEW current \in MinBatch..MaxBatch, NEW drained \in Nat
      PROVE  /\ current \in Nat
             /\ observe(current, drained) \in MinBatch..MaxBatch
  <2>1. current \in Nat /\ current \div 2 \in Nat /\ current \div 2 <= current
    BY <1>1
  <2> QED
    BY <1>1, <2>1 DEF observe
<1> QED
  BY <1>1, <1>2

LEMMA InitInv == Init => NetworkInv
<1> SUFFICES ASSUME Init PROVE NetworkInv
  OBVIOUS
<1>1. /\ maps = [n \in Online |-> EmptyMaps]
      /\ consensus_round = [n \in Online |-> 0]
      /\ should_commit = [n \in Online |-> FALSE]
      /\ commit_batch = [n \in Online |-> FirstBatch]
      /\ quarantined = [n \in Online |-> {}]
      /\ evidence = [n \in Online |-> {}]
      /\ stream = [p \in Online |-> [q \in Online |-> << >>]]
      /\ restarts = 0
      /\ executed = [n \in Online |-> << >>]
      /\ cast = [v \in Online |-> {}]
      /\ restarted = {}
  BY DEF Init
<1>2. \A n \in Online : NodeOK(cast, n, consensus_round[n], maps[n])
  BY <1>1, FirstMaps
<1>3. consensus_round \in [Online -> 0..MaxRound]
  BY <1>1, IngressAssumption
<1>4. commit_batch \in [Online -> MinBatch..MaxBatch]
  BY <1>1, BatchFacts
<1>5. restarts \in 0..MaxRestarts
  BY <1>1, NetworkAssumption
<1>6. \A n \in Online : Fair(cast, quarantined[n]) /\ Fair(cast, evidence[n])
  BY <1>1 DEF Fair
<1>7. GoodStreams(cast, stream)
  BY <1>1 DEF GoodStreams
<1>8. \A n \in Online : executed[n] \in Seq(Certified(cast))
  BY <1>1
<1>9. cast \in Casts
  BY <1>1 DEF Casts
<1>10. Proposed1(cast) /\ OnePerRound(cast, consensus_round)
  BY <1>1 DEF Proposed1, OnePerRound
<1>11. /\ DOMAIN maps = Online /\ DOMAIN executed = Online
       /\ should_commit \in [Online -> BOOLEAN]
       /\ quarantined \in [Online -> SUBSET Validator]
       /\ evidence \in [Online -> SUBSET Validator]
       /\ restarted \subseteq Online
  BY <1>1
<1> QED
  BY <1>2, <1>3, <1>4, <1>5, <1>6, <1>7, <1>8, <1>9, <1>10, <1>11 DEF NetworkInv

\* The invariant after more votes.
LEMMA InvUnderMore ==
    ASSUME NetworkInv, NEW d \in Casts, More(cast, d)
    PROVE  /\ \A n \in Online : NodeOK(d, n, consensus_round[n], maps[n])
           /\ \A n \in Online : Fair(d, quarantined[n]) /\ Fair(d, evidence[n])
           /\ GoodStreams(d, stream)
           /\ \A n \in Online : executed[n] \in Seq(Certified(d))
<1>1. cast \in Casts
  BY DEF NetworkInv
<1>2. /\ Certified(cast) \subseteq Certified(d)
      /\ \A m : Counted(cast, m) => Counted(d, m)
      /\ \A accused : Fair(cast, accused) => Fair(d, accused)
      /\ \A s : GoodStreams(cast, s) => GoodStreams(d, s)
  BY <1>1, MoreKeeps
<1>3. ASSUME NEW n \in Online PROVE NodeOK(d, n, consensus_round[n], maps[n])
  BY <1>2 DEF NetworkInv, NodeOK
<1>4. ASSUME NEW n \in Online PROVE executed[n] \in Seq(Certified(d))
  <2>1. executed[n] \in Seq(Certified(cast))
    BY DEF NetworkInv
  <2> QED
    BY <1>2, <2>1
<1> QED
  BY <1>2, <1>3, <1>4 DEF NetworkInv

LEMMA InvOfParts ==
    ASSUME NetworkInv
    PROVE  /\ cast \in Casts /\ DOMAIN maps = Online /\ DOMAIN executed = Online
           /\ consensus_round \in [Online -> Nat]
           /\ \A n \in Online : /\ NodeOK(cast, n, consensus_round[n], maps[n])
                                /\ maps[n] \in SoundMaps
                                /\ Counted(cast, maps[n])
           /\ GoodStreams(cast, stream)
           /\ stream \in [Online -> [Online -> Seq(Message)]]
<1>1. consensus_round \in [Online -> Nat]
  BY IngressAssumption DEF NetworkInv
<1> QED
  BY <1>1 DEF NetworkInv, NodeOK, GoodStreams

\* Steps that only move messages.
LEMMA StreamStep ==
    ASSUME NetworkInv, GoodStreams(cast, stream'),
           UNCHANGED <<maps, consensus_round, should_commit, commit_batch,
                       quarantined, evidence, restarts, executed, cast, restarted>>
    PROVE  NetworkInv'
  BY DEF NetworkInv

LEMMA ProposeStep ==
    ASSUME NetworkInv, NEW n \in Online, NEW payload \in Payload,
           checkAndPropose(n, payload)
    PROVE  NetworkInv'
<1> DEFINE r == consensus_round[n] + 1
           b == [round |-> r, payload |-> payload]
           m == proposeBlock(maps[n], b)
           d == Voted(cast, n, b)
           msgs == <<[type |-> "block", block |-> b], VoteMsg(n, b)>>
<1>1. /\ r <= MaxRound
      /\ consensus_round' = [consensus_round EXCEPT ![n] = r]
      /\ UNCHANGED <<commit_batch, quarantined, evidence, restarts, executed, restarted>>
  BY DEF checkAndPropose
<1>2. /\ cast \in Casts /\ DOMAIN maps = Online
      /\ consensus_round \in [Online -> Nat]
      /\ \A q \in Online : NodeOK(cast, q, consensus_round[q], maps[q])
      /\ GoodStreams(cast, stream)
  BY InvOfParts
<1>3. /\ r \in 1..MaxRound /\ r \in 0..MaxRound
      /\ b \in Block /\ b.round = r
  BY <1>1, <1>2, IngressAssumption DEF Block
<1>4. /\ consensus_round' \in [Online -> 0..MaxRound]
      /\ consensus_round'[n] = r
      /\ \A q \in Online : q # n => consensus_round'[q] = consensus_round[q]
  BY <1>1, <1>2, <1>3 DEF NetworkInv
<1>5. CASE isProposer(n, r)
  <2>1. /\ maps' = [maps EXCEPT ![n] = SelfVoted(m, n, b)]
        /\ stream' = Sent(n, msgs)
        /\ should_commit' = [should_commit EXCEPT ![n] = TRUE]
        /\ cast' = d
    BY <1>5 DEF checkAndPropose, Voted
  <2> DEFINE k == consensus_round[n]
  <2>2. k \in Nat /\ r = k + 1 /\ NodeOK(cast, n, k, maps[n])
    BY <1>2
  <2> HIDE DEF b, k
  <2>3. /\ d \in Casts /\ More(cast, d) /\ b \in d[n]
    BY <1>2, <1>3, VoteCast
  <2>4. /\ \A q \in Online : NodeOK(d, q, consensus_round[q], maps[q])
        /\ \A q \in Online : Fair(d, quarantined[q]) /\ Fair(d, evidence[q])
        /\ GoodStreams(d, stream)
        /\ \A q \in Online : executed[q] \in Seq(Certified(d))
    BY <2>3, InvUnderMore
  <2>5. NodeOK(d, n, k, maps[n])
    BY <2>4 DEF k
  <2>6. isProposer(n, b.round) /\ b.round = k + 1
    BY <1>3, <1>5, <2>2
  <2>7. Proposed1(d)
    BY <1>2, <1>3, <2>6, VoteOnProposed DEF NetworkInv
  <2>8. OnePerRound(cast, consensus_round) => OnePerRound(d, consensus_round')
    BY <1>1, <1>2, <1>3, VoteOnOwn
  <2> HIDE DEF d, r
  <2>9. NodeOK(d, n, k + 1, m)
    BY <1>3, <2>2, <2>3, <2>5, <2>6, ProposedKeeps
  <2> HIDE DEF m
  <2>10. NodeOK(d, n, k + 1, SelfVoted(m, n, b))
    BY <1>3, <2>3, <2>9, SelfKeeps
  <2>11. \A q \in Online : NodeOK(d, q, consensus_round'[q], maps'[q])
    BY <1>2, <1>4, <2>1, <2>2, <2>4, <2>10
  <2>12. GoodStreams(d, stream')
    <3>1. [type |-> "block", block |-> b] \in ValidMsg(d, n)
      BY <1>3, <2>3, <2>6 DEF ValidMsg, Message
    <3>2. VoteMsg(n, b) \in ValidMsg(d, n)
      BY <1>3, <2>3, StakeFacts DEF ValidMsg, Message, VoteMsg, Vote
    <3>3. msgs \in Seq(ValidMsg(d, n))
      BY <3>1, <3>2
    <3> HIDE DEF msgs
    <3> QED
      BY <2>1, <2>4, <3>3, MessagesSent
  <2>13. DOMAIN maps' = Online /\ should_commit' \in [Online -> BOOLEAN]
    BY <1>2, <2>1 DEF NetworkInv
  <2> QED
    BY <1>1, <1>4, <2>1, <2>3, <2>4, <2>7, <2>8, <2>11, <2>12, <2>13 DEF NetworkInv
<1>6. CASE ~isProposer(n, r)
  <2>1. UNCHANGED <<maps, stream, should_commit, cast>>
    BY <1>6 DEF checkAndPropose
  <2>2. NodeOK(cast, n, r, maps[n])
    BY <1>2, RoundKeeps
  <2>3. \A q \in Online : NodeOK(cast, q, consensus_round'[q], maps[q])
    BY <1>2, <1>4, <2>2
  <2>4. OnePerRound(cast, consensus_round) => OnePerRound(cast, consensus_round')
    BY <1>1, <1>2, RoundOnly
  <2> QED
    BY <1>1, <1>4, <2>1, <2>3, <2>4 DEF NetworkInv
<1> QED
  BY <1>5, <1>6

LEMMA BlockStep ==
    ASSUME NetworkInv, NEW p \in Online, NEW q \in Online, onBlockReceived(p, q)
    PROVE  NetworkInv'
<1> DEFINE msg == Head(stream[p][q])
           b == msg.block
           m == receiveBlock(maps[q], b)
           d == Voted(cast, q, b)
           k == consensus_round[q]
<1>1. /\ stream[p][q] # << >> /\ msg.type = "block"
      /\ maps' = [maps EXCEPT ![q] = SelfVoted(m, q, b)]
      /\ stream' = ReadThenSent(p, q, <<VoteMsg(q, b)>>)
      /\ cast' = d
      /\ UNCHANGED <<consensus_round, should_commit, commit_batch, quarantined,
                     evidence, restarts, executed, restarted>>
  BY DEF onBlockReceived, Readable, Voted
<1>2. /\ cast \in Casts /\ DOMAIN maps = Online
      /\ consensus_round \in [Online -> Nat]
      /\ GoodStreams(cast, stream)
  BY InvOfParts
<1>3. p # q /\ msg \in ValidMsg(cast, p)
  BY <1>1, <1>2, MessageRead
<1> HIDE DEF msg
<1>4. isProposer(p, b.round) /\ b \in cast[p]
  BY <1>1, <1>3 DEF ValidMsg
<1>5. b \in Block
  BY <1>2, <1>4 DEF Casts
<1>6. ~isProposer(q, b.round)
  BY <1>3, <1>4 DEF isProposer
<1> HIDE DEF b
<1>7. d \in Casts /\ More(cast, d) /\ b \in d[q]
  BY <1>2, <1>5, VoteCast
<1>8. /\ \A n \in Online : NodeOK(d, n, consensus_round[n], maps[n])
      /\ \A n \in Online : Fair(d, quarantined[n]) /\ Fair(d, evidence[n])
      /\ GoodStreams(d, stream)
      /\ \A n \in Online : executed[n] \in Seq(Certified(d))
  BY <1>7, InvUnderMore
<1>9. Proposed1(d)
  BY <1>2, <1>4, <1>5, VoteOnProposed DEF NetworkInv
<1>10. OnePerRound(cast, consensus_round) => OnePerRound(d, consensus_round')
  BY <1>1, <1>2, <1>5, <1>6, VoteOnOthers
<1>11. NodeOK(d, q, k, maps[q])
  BY <1>8
<1> HIDE DEF d, k
<1>12. NodeOK(d, q, k, m)
  BY <1>5, <1>6, <1>7, <1>11, ReceivedKeeps
<1> HIDE DEF m
<1>13. NodeOK(d, q, k, SelfVoted(m, q, b))
  BY <1>5, <1>7, <1>12, SelfKeeps
<1>14. \A n \in Online : NodeOK(d, n, consensus_round'[n], maps'[n])
  BY <1>1, <1>2, <1>8, <1>13 DEF k
<1>15. GoodStreams(d, stream')
  <2> DEFINE msgs == <<VoteMsg(q, b)>>
  <2>1. VoteMsg(q, b) \in ValidMsg(d, q)
    BY <1>5, <1>7, StakeFacts DEF ValidMsg, Message, VoteMsg, Vote
  <2>2. msgs \in Seq(ValidMsg(d, q))
    BY <2>1
  <2> HIDE DEF msgs
  <2>3. GoodStreams(d, ReadThenSent(p, q, msgs))
    BY <1>1, <1>8, <2>2, MessagesAnswered
  <2> QED
    BY <1>1, <2>3 DEF msgs
<1>16. DOMAIN maps' = Online
  BY <1>1, <1>2
<1> QED
  BY <1>1, <1>7, <1>8, <1>9, <1>10, <1>14, <1>15, <1>16 DEF NetworkInv

\* The vote at the head of a stream was cast by its sender.
LEMMA VoteRead ==
    ASSUME NetworkInv, NEW p \in Online, NEW q \in Online, stream[p][q] # << >>,
           Head(stream[p][q]).type = "vote"
    PROVE  LET vote == Head(stream[p][q]).vote IN
           /\ vote \in Vote /\ vote.voter = p /\ vote.voter \in Online
           /\ vote.block \in cast[vote.voter]
<1> DEFINE msg == Head(stream[p][q])
<1>1. msg \in ValidMsg(cast, p)
  BY InvOfParts, MessageRead
<1>2. msg.type = "vote"
  OBVIOUS
<1> HIDE DEF msg
<1>3. msg.vote.voter = p /\ msg.vote.block \in cast[p] /\ msg.vote \in Vote
  BY <1>1, <1>2 DEF ValidMsg, Message
<1> QED
  BY <1>3 DEF msg

LEMMA VoteStep ==
    ASSUME NetworkInv, NEW p \in Online, NEW q \in Online, onVoteReceived(p, q)
    PROVE  NetworkInv'
<1> DEFINE vote == Head(stream[p][q]).vote
<1>1. /\ stream[p][q] # << >> /\ Head(stream[p][q]).type = "vote"
      /\ maps' = [maps EXCEPT ![q] = receiveVote(maps[q], vote)]
      /\ stream' = ReadThenSent(p, q, << >>)
      /\ should_commit' = [should_commit EXCEPT ![q] = TRUE]
      /\ UNCHANGED <<consensus_round, commit_batch, quarantined, evidence,
                     restarts, executed, cast, restarted>>
  BY DEF onVoteReceived, Readable
<1>2. vote \in Vote /\ vote.voter \in Online /\ vote.block \in cast[vote.voter]
  BY <1>1, VoteRead
<1> HIDE DEF vote
<1>3. /\ cast \in Casts /\ DOMAIN maps = Online
      /\ \A n \in Online : NodeOK(cast, n, consensus_round[n], maps[n])
      /\ GoodStreams(cast, stream)
  BY InvOfParts
<1>4. NodeOK(cast, q, consensus_round[q], receiveVote(maps[q], vote))
  BY <1>2, <1>3, VoteKeeps
<1>5. \A n \in Online : NodeOK(cast, n, consensus_round[n], maps'[n])
  BY <1>1, <1>3, <1>4
<1>6. GoodStreams(cast, stream')
  <2>1. << >> \in Seq(ValidMsg(cast, q))
    OBVIOUS
  <2> QED
    BY <1>1, <1>3, <2>1, MessagesAnswered
<1>7. DOMAIN maps' = Online /\ should_commit' \in [Online -> BOOLEAN]
  BY <1>1, <1>3 DEF NetworkInv
<1> QED
  BY <1>1, <1>5, <1>6, <1>7 DEF NetworkInv

\* An accusation of v, who voted twice, at q.
LEMMA AccuseStep ==
    ASSUME NetworkInv, NEW q \in Online, NEW u \in Online, NEW v \in Online,
           Twice(cast, u), Twice(cast, v),
           quarantined' = [quarantined EXCEPT ![q] = @ \cup {u}],
           evidence' = [evidence EXCEPT ![q] = @ \cup {v}],
           GoodStreams(cast, stream'),
           UNCHANGED <<maps, consensus_round, should_commit, commit_batch, restarts,
                       executed, cast, restarted>>
    PROVE  NetworkInv'
<1>1. u \in Validator /\ v \in Validator
  BY StakeFacts
<1>2. /\ quarantined \in [Online -> SUBSET Validator]
      /\ evidence \in [Online -> SUBSET Validator]
      /\ \A n \in Online : Fair(cast, quarantined[n]) /\ Fair(cast, evidence[n])
  BY DEF NetworkInv
<1>3. /\ quarantined' \in [Online -> SUBSET Validator]
      /\ evidence' \in [Online -> SUBSET Validator]
  BY <1>1, <1>2
<1>4. \A n \in Online : /\ \A x \in quarantined'[n] : x \in quarantined[n] \/ x = u
                        /\ \A x \in evidence'[n] : x \in evidence[n] \/ x = v
  BY <1>2
<1>5. \A n \in Online : Fair(cast, quarantined'[n]) /\ Fair(cast, evidence'[n])
  BY <1>2, <1>4 DEF Fair
<1> QED
  BY <1>3, <1>5 DEF NetworkInv

LEMMA EvidenceIsValid ==
    ASSUME NEW c, NEW n, NEW v \in Online, Twice(c, v)
    PROVE  <<EvidenceMsg(v)>> \in Seq(ValidMsg(c, n))
<1>1. EvidenceMsg(v) \in ValidMsg(c, n)
  BY StakeFacts DEF EvidenceMsg, ValidMsg, Message
<1> QED
  BY <1>1

LEMMA EquivocationStep ==
    ASSUME NetworkInv, NEW p \in Online, NEW q \in Online, onEquivocation(p, q)
    PROVE  NetworkInv'
<1> DEFINE vote == Head(stream[p][q]).vote
           v == vote.voter
           msgs == <<EvidenceMsg(v)>>
           s == Sent(q, msgs)
<1>1. /\ stream[p][q] # << >> /\ Head(stream[p][q]).type = "vote"
      /\ VoteResult(maps[q], vote) = "equivocation"
      /\ quarantined' = [quarantined EXCEPT ![q] = @ \cup {p}]
      /\ evidence' = [evidence EXCEPT ![q] = @ \cup {v}]
      /\ stream' = Disconnected(s, p, q)
      /\ UNCHANGED <<maps, consensus_round, should_commit, commit_batch, restarts,
                     executed, cast, restarted>>
  BY DEF onEquivocation, Readable
<1>2. vote \in Vote /\ vote.voter = p /\ vote.block \in cast[vote.voter]
  BY <1>1, VoteRead
<1> HIDE DEF vote
<1>3. /\ cast \in Casts /\ maps[q] \in SoundMaps /\ Counted(cast, maps[q])
      /\ GoodStreams(cast, stream)
  BY InvOfParts
<1>4. v = p /\ v \in Online /\ Twice(cast, v)
  BY <1>1, <1>2, <1>3, ConflictIsTrue
<1> HIDE DEF v
<1>5. msgs \in Seq(ValidMsg(cast, q))
  BY <1>4, EvidenceIsValid
<1> HIDE DEF msgs
<1>6. GoodStreams(cast, s)
  BY <1>3, <1>5, MessagesSent
<1> HIDE DEF s
<1>7. GoodStreams(cast, stream')
  BY <1>1, <1>6, StreamsCut
<1> QED
  BY <1>1, <1>4, <1>7, AccuseStep

LEMMA CertificateStep ==
    ASSUME NetworkInv, NEW p \in Online, NEW q \in Online, onCertificateReceived(p, q)
    PROVE  NetworkInv'
<1> DEFINE msg == Head(stream[p][q])
           v == msg.voter
           s == ReadThenSent(p, q, << >>)
<1>1. /\ stream[p][q] # << >> /\ msg.type = "evidence"
      /\ quarantined' = [quarantined EXCEPT ![q] = @ \cup {v}]
      /\ evidence' = [evidence EXCEPT ![q] = @ \cup {v}]
      /\ stream' = Disconnected(s, v, q)
      /\ UNCHANGED <<maps, consensus_round, should_commit, commit_batch, restarts,
                     executed, cast, restarted>>
  BY DEF onCertificateReceived, Readable
<1>2. GoodStreams(cast, stream)
  BY InvOfParts
<1>3. msg \in ValidMsg(cast, p)
  BY <1>1, <1>2, MessageRead
<1> HIDE DEF msg
<1>4. v \in Online /\ Twice(cast, v)
  BY <1>1, <1>3 DEF ValidMsg
<1> HIDE DEF v
<1>5. GoodStreams(cast, s)
  <2>1. << >> \in Seq(ValidMsg(cast, q))
    OBVIOUS
  <2> QED
    BY <1>1, <1>2, <2>1, MessagesAnswered
<1> HIDE DEF s
<1>6. GoodStreams(cast, stream')
  BY <1>1, <1>4, <1>5, StreamsCut
<1> QED
  BY <1>1, <1>4, <1>6, AccuseStep

LEMMA GossipStep ==
    ASSUME NetworkInv, NEW n \in Online, NEW v \in Validator, rebroadcastEquivocation(n, v)
    PROVE  NetworkInv'
<1> DEFINE msgs == <<EvidenceMsg(v)>>
<1>1. /\ v \in evidence[n] /\ stream' = Sent(n, msgs)
      /\ UNCHANGED <<maps, consensus_round, should_commit, commit_batch,
                     quarantined, evidence, restarts, executed, cast, restarted>>
  BY DEF rebroadcastEquivocation
<1>2. v \in Online /\ Twice(cast, v)
  BY <1>1 DEF NetworkInv, Fair
<1>3. msgs \in Seq(ValidMsg(cast, n))
  BY <1>2, EvidenceIsValid
<1> HIDE DEF msgs
<1>4. GoodStreams(cast, stream')
  BY <1>1, <1>3, InvOfParts, MessagesSent
<1> QED
  BY <1>1, <1>4, StreamStep

LEMMA DiscardStep ==
    ASSUME NetworkInv, NEW p \in Online, NEW q \in Online, Discard(p, q)
    PROVE  NetworkInv'
<1>1. /\ stream[p][q] # << >> /\ stream' = ReadThenSent(p, q, << >>)
      /\ UNCHANGED <<maps, consensus_round, should_commit, commit_batch,
                     quarantined, evidence, restarts, executed, cast, restarted>>
  BY DEF Discard, Readable
<1>2. << >> \in Seq(ValidMsg(cast, q))
  OBVIOUS
<1>3. GoodStreams(cast, stream')
  BY <1>1, <1>2, InvOfParts, MessagesAnswered
<1> QED
  BY <1>1, <1>3, StreamStep

LEMMA CommitStep ==
    ASSUME NetworkInv, NEW n \in Online, maybeCommit(n)
    PROVE  NetworkInv'
<1> DEFINE budget == commit_batch[n]
           outcome == tryCommitBatch(maps[n], budget)
           done == outcome.done
<1>1. /\ should_commit' = [should_commit EXCEPT ![n] = FALSE]
      /\ maps' = [maps EXCEPT ![n] = outcome.maps]
      /\ executed' = [executed EXCEPT ![n] = @ \o done]
      /\ commit_batch' = [commit_batch EXCEPT ![n] = observe(budget, Len(done))]
      /\ UNCHANGED <<consensus_round, quarantined, evidence, stream, restarts, cast,
                     restarted>>
  BY DEF maybeCommit, NetworkInv
<1>2. /\ commit_batch \in [Online -> MinBatch..MaxBatch]
      /\ budget \in MinBatch..MaxBatch
  BY DEF NetworkInv
<1>3. budget \in Nat
  BY <1>2, BatchFacts
<1>4. /\ cast \in Casts /\ DOMAIN maps = Online /\ DOMAIN executed = Online
      /\ \A q \in Online : NodeOK(cast, q, consensus_round[q], maps[q])
  BY InvOfParts
<1> HIDE DEF budget
<1>5. /\ NodeOK(cast, n, consensus_round[n], outcome.maps)
      /\ done \in Seq(Certified(cast))
  BY <1>3, <1>4, CommitKeeps
<1> HIDE DEF done, outcome
<1>6. \A q \in Online : NodeOK(cast, q, consensus_round[q], maps'[q])
  BY <1>1, <1>4, <1>5
<1>7. \A q \in Online : executed'[q] \in Seq(Certified(cast))
  <2>1. \A q \in Online : executed[q] \in Seq(Certified(cast))
    BY DEF NetworkInv
  <2>2. executed[n] \o done \in Seq(Certified(cast))
    BY <1>5, <2>1
  <2> QED
    BY <1>1, <1>4, <2>1, <2>2
<1>8. commit_batch' \in [Online -> MinBatch..MaxBatch]
  <2>1. Len(done) \in Nat
    BY <1>5
  <2>2. observe(budget, Len(done)) \in MinBatch..MaxBatch
    BY <1>2, <2>1, BatchFacts
  <2> QED
    BY <1>1, <1>2, <2>2
<1>9. /\ DOMAIN maps' = Online /\ DOMAIN executed' = Online
      /\ should_commit' \in [Online -> BOOLEAN]
  BY <1>1, <1>4 DEF NetworkInv
<1> QED
  BY <1>1, <1>6, <1>7, <1>8, <1>9 DEF NetworkInv

LEMMA RestartStep ==
    ASSUME NetworkInv, NEW n \in Online, Restart(n)
    PROVE  NetworkInv'
<1>1. /\ restarts < MaxRestarts /\ restarts' = restarts + 1
      /\ restarted' = restarted \cup {n}
      /\ maps' = [maps EXCEPT ![n] = EmptyMaps]
      /\ consensus_round' = [consensus_round EXCEPT ![n] = 0]
      /\ should_commit' = [should_commit EXCEPT ![n] = FALSE]
      /\ commit_batch' = [commit_batch EXCEPT ![n] = FirstBatch]
      /\ quarantined' = [quarantined EXCEPT ![n] = {}]
      /\ UNCHANGED <<evidence, executed, cast>>
  BY DEF Restart
<1>2. /\ DOMAIN maps = Online
      /\ \A q \in Online : NodeOK(cast, q, consensus_round[q], maps[q])
      /\ GoodStreams(cast, stream)
  BY InvOfParts
<1>3. GoodStreams(cast, stream')
  <2>1. PICK cut \in SUBSET Online : stream' = AfterRestart(stream, n, cut)
    BY DEF Restart, AfterRestart
  <2> QED
    BY <1>2, <2>1, StreamsRestarted
<1>4. restarts' \in 0..MaxRestarts
  BY <1>1, NetworkAssumption DEF NetworkInv
<1>5. \A q \in Online : NodeOK(cast, q, consensus_round'[q], maps'[q])
  <2>1. NodeOK(cast, n, consensus_round'[n], EmptyMaps)
    BY FirstMaps
  <2>2. \A q \in Online : q # n => consensus_round'[q] = consensus_round[q]
    BY <1>1 DEF NetworkInv
  <2> QED
    BY <1>1, <1>2, <2>1, <2>2
<1>6. /\ consensus_round' \in [Online -> 0..MaxRound]
      /\ commit_batch' \in [Online -> MinBatch..MaxBatch]
      /\ should_commit' \in [Online -> BOOLEAN]
      /\ quarantined' \in [Online -> SUBSET Validator]
      /\ DOMAIN maps' = Online
      /\ restarted' \subseteq Online /\ restarted' # {}
  <2>1. 0 \in 0..MaxRound /\ FirstBatch \in MinBatch..MaxBatch
    BY IngressAssumption, BatchFacts
  <2> QED
    BY <1>1, <1>2, <2>1 DEF NetworkInv
<1>7. \A q \in Online : Fair(cast, quarantined'[q])
  BY <1>1 DEF NetworkInv, Fair
<1> QED
  BY <1>1, <1>3, <1>4, <1>5, <1>6, <1>7 DEF NetworkInv

LEMMA NextInv == NetworkInv /\ [Next]_vars => NetworkInv'
<1> SUFFICES ASSUME NetworkInv, [Next]_vars PROVE NetworkInv'
  OBVIOUS
<1>1. CASE \E n \in Online, payload \in Payload : checkAndPropose(n, payload)
  BY <1>1, ProposeStep
<1>2. CASE \E p, q \in Online : onBlockReceived(p, q)
  BY <1>2, BlockStep
<1>3. CASE \E p, q \in Online : onVoteReceived(p, q)
  BY <1>3, VoteStep
<1>4. CASE \E p, q \in Online : onEquivocation(p, q)
  BY <1>4, EquivocationStep
<1>5. CASE \E p, q \in Online : onCertificateReceived(p, q)
  BY <1>5, CertificateStep
<1>6. CASE \E n \in Online, v \in Validator : rebroadcastEquivocation(n, v)
  BY <1>6, GossipStep
<1>7. CASE \E p, q \in Online : Discard(p, q)
  BY <1>7, DiscardStep
<1>8. CASE \E n \in Online : maybeCommit(n)
  BY <1>8, CommitStep
<1>9. CASE \E n \in Online : Restart(n)
  BY <1>9, RestartStep
<1>10. CASE UNCHANGED vars
  BY <1>10 DEF vars, NetworkInv
<1> QED
  BY <1>1, <1>2, <1>3, <1>4, <1>5, <1>6, <1>7, <1>8, <1>9, <1>10 DEF Next

\* What a commit batch leaves pending are blocks; only maybeCommit notes them.
LeftoverType == leftover \in [Online -> SUBSET Block]

LEMMA LeftoverCommit ==
    ASSUME NetworkInv, LeftoverType, NEW n \in Online, maybeCommit(n)
    PROVE  LeftoverType'
<1> DEFINE outcome == tryCommitBatch(maps[n], commit_batch[n])
           left == {b \in InSeq(outcome.maps.pending) :
                        /\ Len(outcome.done) = commit_batch[n]
                        /\ hasQuorum(outcome.maps, b)}
<1>1. leftover' = [leftover EXCEPT ![n] = left]
  BY DEF maybeCommit
<1>2. commit_batch[n] \in Nat
  BY BatchFacts DEF NetworkInv
<1>3. outcome.maps \in Maps
  <2>1. NodeOK(cast, n, consensus_round[n], outcome.maps)
    BY <1>2, InvOfParts, CommitKeeps
  <2> HIDE DEF outcome
  <2> QED
    BY <2>1 DEF NodeOK, SoundMaps
<1> HIDE DEF outcome
<1>4. left \subseteq Block
  BY <1>3, MapsFacts, SeqFacts
<1> HIDE DEF left
<1> QED
  BY <1>1, <1>4 DEF LeftoverType

LEMMA LeftoverStep == NetworkInv /\ LeftoverType /\ [Next]_vars => LeftoverType'
<1> SUFFICES ASSUME NetworkInv, LeftoverType, [Next]_vars PROVE LeftoverType'
  OBVIOUS
<1>1. CASE \E n \in Online : maybeCommit(n)
  BY <1>1, LeftoverCommit
<1>2. CASE leftover' = leftover
  BY <1>2 DEF LeftoverType
<1>3. (\E n \in Online : maybeCommit(n)) \/ leftover' = leftover
  BY DEF Next, vars, checkAndPropose, onBlockReceived, onVoteReceived, onEquivocation,
         onCertificateReceived, rebroadcastEquivocation, Discard, Restart
<1> QED
  BY <1>1, <1>2, <1>3

----------------------------------------------------------------------------
(* Its consequences.                                                      *)

LEMMA TypeFollows == NetworkInv /\ LeftoverType => TypeOK
<1> SUFFICES ASSUME NetworkInv, LeftoverType PROVE TypeOK
  OBVIOUS
<1>1. ASSUME NEW n \in Online
      PROVE  /\ InSeq(maps[n].pending) \subseteq Block
             /\ InSeq(maps[n].committed) \subseteq Block
             /\ maps[n].votes \in [Block -> [Validator -> Amount]]
  <2>1. maps[n] \in Maps
    BY InvOfParts DEF SoundMaps
  <2> QED
    BY <2>1, MapsFacts, SeqFacts
<1>2. ASSUME NEW n \in Online PROVE InSeq(executed[n]) \subseteq Block
  <2>1. executed[n] \in Seq(Certified(cast))
    BY DEF NetworkInv
  <2>2. InSeq(executed[n]) \subseteq Certified(cast)
    BY <2>1, SeqFacts
  <2> QED
    BY <2>2 DEF Certified
<1>3. ASSUME NEW n \in Online, NEW p \in Online
      PROVE  InSeq(stream[p][n]) \subseteq Message
  <2>1. stream[p][n] \in Seq(Message)
    BY InvOfParts
  <2> QED
    BY <2>1, SeqFacts
<1> QED
  BY <1>1, <1>2, <1>3 DEF NetworkInv, LeftoverType, TypeOK, Casts

LEMMA CountedFollows == NetworkInv => CountedVotesWereCast
  BY InvOfParts DEF Counted, CountedVotesWereCast

LEMMA CertificateFollows == NetworkInv => ExecutedHasCertificate
<1> SUFFICES ASSUME NetworkInv, NEW n \in Online, NEW b \in InSeq(executed[n])
             PROVE  /\ Cardinality(Backers(cast, b)) >= VoteQuorum
                    /\ accepts(StakeOf(BackedStake(cast, b)), totalStake)
  BY DEF ExecutedHasCertificate, Backers, BackedStake
<1>1. executed[n] \in Seq(Certified(cast))
  BY DEF NetworkInv
<1>2. b \in Certified(cast)
  BY <1>1, SeqFacts
<1> QED
  BY <1>2 DEF Certified

\* While no node restarted, two blocks of a round that anyone voted for are one:
\* both were voted for by their proposer, who is the same.
LEMMA OneBlockPerRound ==
    ASSUME NetworkInv, restarted = {}, NEW u \in Online, NEW v \in Online,
           NEW b \in cast[u], NEW d \in cast[v], b.round = d.round
    PROVE  b = d
<1>1. Proposed1(cast) /\ OnePerRound(cast, consensus_round)
  BY DEF NetworkInv
<1>2. PICK p \in Online : isProposer(p, b.round) /\ b \in cast[p]
  BY <1>1 DEF Proposed1
<1>3. PICK q \in Online : isProposer(q, d.round) /\ d \in cast[q]
  BY <1>1 DEF Proposed1
<1>4. p = q
  BY <1>2, <1>3 DEF isProposer
<1> QED
  BY <1>1, <1>2, <1>3, <1>4 DEF OnePerRound

LEMMA VotesOnceFollows == NetworkInv => VotesOnceWithoutRestart
  BY OneBlockPerRound DEF VotesOnceWithoutRestart

\* A certified block has a backer.
LEMMA SomeBacker ==
    ASSUME NEW c, NEW b \in Certified(c)
    PROVE  \E v \in Online : b \in c[v]
<1>1. Cardinality(Backers(c, b)) >= VoteQuorum /\ VoteQuorum \in Nat \ {0}
  BY IngressAssumption DEF Certified
<1>2. IsFiniteSet(Backers(c, b)) /\ Cardinality(Backers(c, b)) \in Nat
  BY BackedFacts
<1>3. Backers(c, b) # {}
  BY <1>1, <1>2, FS_EmptySet
<1> QED
  BY <1>3 DEF Backers

LEMMA NoForkFollows == NetworkInv => NoForkingWithoutRestart
<1> SUFFICES ASSUME NetworkInv, restarted = {},
                    NEW p \in Online, NEW q \in Online,
                    NEW b \in InSeq(executed[p]), NEW d \in InSeq(executed[q]),
                    b.round = d.round
             PROVE  b = d
  BY DEF NoForkingWithoutRestart, NoForking
<1>1. executed[p] \in Seq(Certified(cast)) /\ executed[q] \in Seq(Certified(cast))
  BY DEF NetworkInv
<1>2. b \in Certified(cast) /\ d \in Certified(cast)
  BY <1>1, SeqFacts
<1>3. (\E v \in Online : b \in cast[v]) /\ (\E v \in Online : d \in cast[v])
  BY <1>2, SomeBacker
<1> QED
  BY <1>3, OneBlockPerRound

LEMMA AccusedFollows == NetworkInv => AccusedDidEquivocate
  BY DEF NetworkInv, Fair, Twice, Equivocated, AccusedDidEquivocate

----------------------------------------------------------------------------
(* The theorems.                                                          *)

\* NetworkInv, the inductive invariant, is an invariant.
THEOREM InvAlways == Spec => []NetworkInv
<1>1. Init => NetworkInv
  BY InitInv
<1>2. NetworkInv /\ [Next]_vars => NetworkInv'
  BY NextInv
<1> QED
  BY <1>1, <1>2, PTL DEF Spec

\* TypeOK: the state of ConsensusIntegration keeps its types, and the batch size
\* of maybeCommit its limits, whatever the validators, caps and losses.
THEOREM TypeCorrect == Spec => []TypeOK
<1>1. Init => LeftoverType
  BY DEF Init, LeftoverType
<1>2. NetworkInv /\ LeftoverType /\ [Next]_vars => LeftoverType'
  BY LeftoverStep
<1>3. NetworkInv /\ LeftoverType => TypeOK
  BY TypeFollows
<1> QED
  BY <1>1, <1>2, <1>3, InvAlways, PTL DEF Spec

\* CountedVotesWereCast: receiveVote stores only votes that their voter signed,
\* however streams interleave, messages are lost and processes restart.
THEOREM CountedAlways == Spec => []CountedVotesWereCast
<1>1. NetworkInv => CountedVotesWereCast
  BY CountedFollows
<1> QED
  BY <1>1, InvAlways, PTL

\* ExecutedHasCertificate: maybeCommit executes only blocks that more than two
\* thirds of the stake signed, for every stake table and quorum.
THEOREM CertificateAlways == Spec => []ExecutedHasCertificate
<1>1. NetworkInv => ExecutedHasCertificate
  BY CertificateFollows
<1> QED
  BY <1>1, InvAlways, PTL

\* NoForkingWithoutRestart: checkAndPropose makes one block per round and life,
\* and isProposer names one validator, so no two nodes execute different blocks
\* of a round before the first restart.
THEOREM NoForkAlways == Spec => []NoForkingWithoutRestart
<1>1. NetworkInv => NoForkingWithoutRestart
  BY NoForkFollows
<1> QED
  BY <1>1, InvAlways, PTL

\* VotesOnceWithoutRestart: onBlockReceived votes for what arrives, and before
\* the first restart one block of a round exists to arrive.
THEOREM VotesOnceAlways == Spec => []VotesOnceWithoutRestart
<1>1. NetworkInv => VotesOnceWithoutRestart
  BY VotesOnceFollows
<1> QED
  BY <1>1, InvAlways, PTL

\* AccusedDidEquivocate: onEquivocation, onCertificateReceived and the gossip of
\* rebroadcastEquivocation accuse only validators that signed two blocks of a
\* round, restarts and evictions included.
THEOREM AccusedAlways == Spec => []AccusedDidEquivocate
<1>1. NetworkInv => AccusedDidEquivocate
  BY AccusedFollows
<1> QED
  BY <1>1, InvAlways, PTL

----------------------------------------------------------------------------
(* Forks under restarts.                                                  *)

Shared(c, b, d) == {v \in Online : {b, d} \subseteq c[v]}

WeightOf(voters) == [v \in Validator |-> IF v \in voters THEN Stake[v] ELSE 0]

LEMMA QuorumsShare ==
    ASSUME totalStake \in Amount, NEW c, NEW b \in Certified(c), NEW d \in Certified(c)
    PROVE  StakeOf(WeightOf(Shared(c, b, d))) > byzantineThreshold(totalStake)
<1> DEFINE B == WeightOf(Backers(c, b))
           D == WeightOf(Backers(c, d))
           both == WeightOf(Shared(c, b, d))
           either == WeightOf(Backers(c, b) \cup Backers(c, d))
           all == [v \in Validator |-> B[v] + D[v]]
<1>1. \A s : /\ WeightOf(s) \in [Validator -> Nat]
             /\ \A v \in Validator : WeightOf(s)[v] <= Stake[v]
  BY StakeFacts DEF WeightOf
<1>2. \A v \in Validator : both[v] + either[v] = B[v] + D[v]
  BY StakeFacts DEF WeightOf, Shared, Backers
<1>3. accepts(StakeOf(B), totalStake) /\ accepts(StakeOf(D), totalStake)
  BY DEF Certified, BackedStake, WeightOf
<1>4. /\ B \in [Validator -> Nat] /\ D \in [Validator -> Nat]
      /\ both \in [Validator -> Nat] /\ either \in [Validator -> Nat]
      /\ \A v \in Validator : B[v] <= Stake[v] /\ D[v] <= Stake[v] /\ either[v] <= Stake[v]
  BY <1>1
<1> HIDE DEF B, D, both, either
<1>5. all \in [Validator -> Nat] /\ \A v \in Validator : all[v] = B[v] + D[v]
  BY <1>4
<1> HIDE DEF all
<1>6. /\ StakeOf(B) \in Nat /\ StakeOf(D) \in Nat
      /\ StakeOf(B) + StakeOf(D) = StakeOf(all)
  BY <1>4, <1>5, SumAdds
<1>7. /\ StakeOf(both) \in Nat /\ StakeOf(either) \in Nat
      /\ StakeOf(both) + StakeOf(either) = StakeOf(all)
  BY <1>2, <1>4, <1>5, SumAdds
<1>8. /\ StakeOf(B) <= totalStake /\ StakeOf(D) <= totalStake
      /\ StakeOf(either) <= totalStake
  BY <1>4, StakeFacts, SumGrows DEF totalStake
<1>9. StakeOf(B) \in 0..totalStake /\ StakeOf(D) \in 0..totalStake
  BY <1>6, <1>8, StakeFacts
<1>10. StakeOf(B) + StakeOf(D) - totalStake > byzantineThreshold(totalStake)
  BY <1>3, <1>9, QuorumsIntersect
<1>11. byzantineThreshold(totalStake) \in Nat
  BY StakeFacts DEF byzantineThreshold
<1>12. StakeOf(both) >= StakeOf(B) + StakeOf(D) - totalStake
  BY <1>6, <1>7, <1>8, StakeFacts
<1>13. StakeOf(both) > byzantineThreshold(totalStake)
  BY <1>6, <1>7, <1>10, <1>11, <1>12, StakeFacts
<1> QED
  BY <1>13 DEF both

LEMMA AccountableFollows ==
    ASSUME totalStake \in Amount, NetworkInv
    PROVE  ForkIsAccountable
<1> SUFFICES ASSUME NEW p \in Online, NEW q \in Online,
                    NEW b \in InSeq(executed[p]), NEW d \in InSeq(executed[q])
             PROVE  StakeOf(WeightOf(Shared(cast, b, d))) > byzantineThreshold(totalStake)
  BY DEF ForkIsAccountable, WeightOf, Shared
<1>1. executed[p] \in Seq(Certified(cast)) /\ executed[q] \in Seq(Certified(cast))
  BY DEF NetworkInv
<1>2. b \in Certified(cast) /\ d \in Certified(cast)
  BY <1>1, SeqFacts
<1> QED
  BY <1>2, QuorumsShare

\* ForkIsAccountable: whatever restarts do, two executed blocks of one round
\* leave validators with more than a third of the stake that signed both, by
\* the acceptance threshold of QuorumConfig.  The total is assumed to fit the
\* amounts, as the sum that Node.hasQuorum computes must.
THEOREM AccountableAlways ==
    ASSUME totalStake \in Amount
    PROVE  Spec => []ForkIsAccountable
<1>1. NetworkInv => ForkIsAccountable
  BY AccountableFollows
<1> QED
  BY <1>1, InvAlways, PTL
=============================================================================
