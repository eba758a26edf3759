------------------------- MODULE BlockIngressProofs -------------------------
(***************************************************************************)
(* Theorems about the quorum arithmetic, for every total, and what the     *)
(* handlers of BlockIngress keep of the block maps, whatever the stake     *)
(* table, the caps and the blocks: the lemmas the theorems about           *)
(* NodeIngress and ValidatorNetwork rest on.                               *)
(***************************************************************************)
EXTENDS BlockIngress, FiniteSetTheorems, WellFoundedInduction, TLAPS

----------------------------------------------------------------------------
(* The quorum arithmetic, for every total stake.                           *)

\* Two quorums of one stake table overlap in more than the Byzantine share,
\* the reason QuorumConfig gives for its formula ("any two quorums intersect
\* in more than the Byzantine share").  When 2 * total overflows there is no
\* quorum at all among the amounts the type holds.
THEOREM QuorumsIntersect ==
    ASSUME NEW t \in Amount, NEW a \in 0..t, NEW b \in 0..t,
           accepts(a, t), accepts(b, t)
    PROVE  a + b - t > byzantineThreshold(t)
<1>1. CASE 2 * t > MaxAmount
  BY <1>1, AmountAssumption DEF accepts, thresholdOf, Amount
<1>2. CASE ~(2 * t > MaxAmount)
  <2>1. a > (2 * t) \div 3 + 1 /\ b > (2 * t) \div 3 + 1
    BY <1>2 DEF accepts, thresholdOf
  <2> QED
    BY <2>1, AmountAssumption DEF byzantineThreshold, Amount
<1> QED
  BY <1>1, <1>2

\* A quorum never loses its standing as more stake votes for it.
THEOREM QuorumMonotone ==
    ASSUME NEW t \in Amount, NEW a \in Amount, NEW b \in Amount,
           a <= b, accepts(a, t)
    PROVE  accepts(b, t)
BY AmountAssumption DEF accepts, thresholdOf, Amount

----------------------------------------------------------------------------
(* Functions defined by recursion on a natural number exist: the two loops *)
(* of the maps (making room, the batch of commits) are such functions.     *)

LEMMA SetInduction ==
    ASSUME NEW T, T \subseteq Nat, 0 \in T, \A n \in T : n + 1 \in T
    PROVE  T = Nat
<1>1. SUFFICES ASSUME Nat \ T # {} PROVE FALSE
  OBVIOUS
<1>2. PICK x \in Nat \ T : \A y \in Nat \ T : ~(<<y, x>> \in OpToRel(<, Nat))
  <2>1. Nat \ T \subseteq Nat
    OBVIOUS
  <2> QED
    BY <1>1, <2>1, NatLessThanWellFounded, WFMin
<1>3. \A y \in Nat \ T : ~(y < x)
  BY <1>2 DEF OpToRel
<1>4. x # 0 /\ x - 1 \in Nat /\ x - 1 < x /\ (x - 1) + 1 = x
  OBVIOUS
<1>5. x - 1 \in T
  BY <1>3, <1>4
<1> QED
  BY <1>4, <1>5

\* A nonempty set of naturals has a least element.
LEMMA LeastExists ==
    ASSUME NEW S, S \subseteq Nat, S # {}
    PROVE  \E i \in S : \A j \in S : i <= j
<1>1. PICK x \in S : \A y \in S : ~(<<y, x>> \in OpToRel(<, Nat))
  BY NatLessThanWellFounded, WFMin
<1>2. ASSUME NEW y \in S PROVE x <= y
  <2>1. ~(y < x)
    BY <1>1 DEF OpToRel
  <2> QED
    BY <2>1
<1> QED
  BY <1>2

\* The first n steps of s from x.
Run(S, s, x, n) ==
    {g \in [0..n -> S] : /\ g[0] = x
                         /\ \A k \in 0..n : k # n => g[k + 1] = s[g[k]]}

LEMMA RunExtends ==
    ASSUME NEW S, NEW x \in S, NEW s \in [S -> S], NEW n \in Nat, NEW g \in Run(S, s, x, n)
    PROVE  Run(S, s, x, n + 1) # {}
<1> DEFINE h == [k \in 0..(n + 1) |-> IF k = n + 1 THEN s[g[n]] ELSE g[k]]
<1>1. /\ g \in [0..n -> S] /\ g[0] = x
      /\ \A k \in 0..n : k # n => g[k + 1] = s[g[k]]
  BY DEF Run
<1>2. \A k \in 0..(n + 1) : k = n + 1 \/ k \in 0..n
  OBVIOUS
<1>3. n \in 0..n /\ 0 \in 0..(n + 1) /\ 0 # n + 1 /\ n + 1 \in 0..(n + 1)
  OBVIOUS
<1>4. h \in [0..(n + 1) -> S]
  BY <1>1, <1>2, <1>3
<1>5. h[0] = x
  BY <1>1, <1>3
<1>6. ASSUME NEW k \in 0..(n + 1), k # n + 1 PROVE h[k + 1] = s[h[k]]
  <2>1. k \in 0..n /\ k + 1 \in 0..(n + 1) /\ (k = n \/ (k # n /\ k + 1 # n + 1))
    BY <1>6
  <2>2. h[k] = g[k]
    BY <1>6
  <2>3. CASE k = n
    <3>1. h[n + 1] = s[g[n]]
      BY <1>3
    <3> QED
      BY <2>2, <2>3, <3>1
  <2>4. CASE k # n
    <3>1. h[k + 1] = g[k + 1]
      BY <2>1, <2>4
    <3>2. g[k + 1] = s[g[k]]
      BY <1>1, <2>1, <2>4
    <3> QED
      BY <2>2, <3>1, <3>2
  <2> QED
    BY <2>1, <2>3, <2>4
<1>7. h \in Run(S, s, x, n + 1)
  <2> HIDE DEF h
  <2> QED
    BY <1>4, <1>5, <1>6 DEF Run
<1> QED
  BY <1>7

LEMMA RunExists ==
    ASSUME NEW S, NEW x \in S, NEW s \in [S -> S], NEW n \in Nat
    PROVE  Run(S, s, x, n) # {}
<1> DEFINE T == {k \in Nat : Run(S, s, x, k) # {}}
<1>1. T \subseteq Nat
  OBVIOUS
<1>2. 0 \in T
  <2> DEFINE g == [k \in 0..0 |-> x]
  <2>1. g \in Run(S, s, x, 0)
    BY DEF Run
  <2> QED
    BY <2>1
<1>3. ASSUME NEW k \in T PROVE k + 1 \in T
  <2>1. k \in Nat /\ k + 1 \in Nat /\ Run(S, s, x, k) # {}
    OBVIOUS
  <2>2. PICK g : g \in Run(S, s, x, k)
    BY <2>1
  <2>3. Run(S, s, x, k + 1) # {}
    BY <2>1, <2>2, RunExtends
  <2> QED
    BY <2>1, <2>3
<1>4. T = Nat
  <2> HIDE DEF T
  <2> QED
    BY <1>1, <1>2, <1>3, SetInduction
<1> QED
  BY <1>4

LEMMA RunsAgree ==
    ASSUME NEW S, NEW x \in S, NEW s \in [S -> S], NEW n \in Nat, NEW p \in Nat,
           NEW g \in Run(S, s, x, n), NEW h \in Run(S, s, x, p)
    PROVE  \A k \in Nat : k <= n /\ k <= p => g[k] = h[k]
<1> DEFINE T == {k \in Nat : k <= n /\ k <= p => g[k] = h[k]}
<1>1. /\ g[0] = x /\ \A k \in 0..n : k # n => g[k + 1] = s[g[k]]
      /\ h[0] = x /\ \A k \in 0..p : k # p => h[k + 1] = s[h[k]]
  BY DEF Run
<1>2. T \subseteq Nat
  OBVIOUS
<1>3. 0 \in T
  BY <1>1
<1>4. ASSUME NEW k \in T PROVE k + 1 \in T
  <2> SUFFICES ASSUME k + 1 <= n, k + 1 <= p PROVE g[k + 1] = h[k + 1]
    OBVIOUS
  <2>1. k \in 0..n /\ k \in 0..p /\ k # n /\ k # p /\ k <= n /\ k <= p
    OBVIOUS
  <2>2. g[k] = h[k]
    BY <2>1
  <2> QED
    BY <1>1, <2>1, <2>2
<1>5. T = Nat
  <2> HIDE DEF T
  <2> QED
    BY <1>2, <1>3, <1>4, SetInduction
<1> QED
  BY <1>5

\* All of them.
Orbit(S, s, x) ==
    {f \in [Nat -> S] : f[0] = x /\ \A k \in Nat : f[k + 1] = s[f[k]]}

LEMMA Iterate ==
    ASSUME NEW S, NEW x \in S, NEW s \in [S -> S]
    PROVE  Orbit(S, s, x) # {}
<1> DEFINE G == [n \in Nat |-> CHOOSE g : g \in Run(S, s, x, n)]
           f == [n \in Nat |-> G[n][n]]
<1>1. \A n \in Nat : G[n] \in Run(S, s, x, n)
  BY RunExists
<1> HIDE DEF G
<1>2. ASSUME NEW n \in Nat PROVE f[n] \in S /\ f[n] = G[n][n]
  <2>1. G[n] \in [0..n -> S] /\ n \in 0..n
    BY <1>1 DEF Run
  <2> QED
    BY <2>1
<1>3. f[0] = x
  BY <1>1 DEF Run
<1>4. ASSUME NEW k \in Nat PROVE f[k + 1] = s[f[k]]
  <2>1. k + 1 \in Nat /\ k \in 0..(k + 1) /\ k # k + 1 /\ k <= k /\ k <= k + 1
    OBVIOUS
  <2>2. G[k] \in Run(S, s, x, k) /\ G[k + 1] \in Run(S, s, x, k + 1)
    BY <1>1, <2>1
  <2>3. G[k + 1][k] = G[k][k]
    BY <2>1, <2>2, RunsAgree
  <2>4. G[k + 1][k + 1] = s[G[k + 1][k]]
    BY <2>1, <2>2 DEF Run
  <2> QED
    BY <2>1, <2>3, <2>4
<1>5. f \in [Nat -> S]
  BY <1>2
<1> QED
  <2> HIDE DEF f
  <2>1. f \in Orbit(S, s, x)
    BY <1>3, <1>4, <1>5 DEF Orbit
  <2> QED
    BY <2>1

----------------------------------------------------------------------------
(* The keys of a map.                                                     *)

Injective(s) == \A i, j \in 1..Len(s) : s[i] = s[j] => i = j

LEMMA SeqFacts ==
    ASSUME NEW S, NEW s \in Seq(S)
    PROVE  /\ Len(s) \in Nat
           /\ DOMAIN s = 1..Len(s)
           /\ \A i \in 1..Len(s) : s[i] \in S /\ s[i] \in InSeq(s)
           /\ \A b \in InSeq(s) : b \in S /\ \E i \in 1..Len(s) : b = s[i]
BY DEF InSeq

LEMMA SwapRemovedFacts ==
    ASSUME NEW S, NEW s \in Seq(S), NEW i \in 1..Len(s)
    PROVE  /\ SwapRemoved(s, i) \in Seq(S)
           /\ Len(SwapRemoved(s, i)) = Len(s) - 1
           /\ \A b \in InSeq(SwapRemoved(s, i)) : b \in InSeq(s)
           /\ \A b \in InSeq(s) : b = s[i] \/ b \in InSeq(SwapRemoved(s, i))
           /\ Injective(s) => /\ Injective(SwapRemoved(s, i))
                              /\ s[i] \notin InSeq(SwapRemoved(s, i))
<1> DEFINE t == SwapRemoved(s, i)
           n == Len(s)
<1>1. /\ n \in Nat /\ i \in 1..n /\ n - 1 \in Nat /\ n \in 1..n
      /\ \A j \in 1..n - 1 : j \in 1..n /\ j # n
      /\ \A j \in 1..n : j # n => j \in 1..n - 1
  OBVIOUS
<1>2. /\ t \in [1..n - 1 -> S]
      /\ \A j \in 1..n - 1 : t[j] = IF j = i THEN s[n] ELSE s[j]
  BY <1>1 DEF SwapRemoved
<1>3. t \in Seq(S) /\ Len(t) = n - 1
  <2> HIDE DEF t, n
  <2> QED
    BY <1>1, <1>2
<1> HIDE DEF t
<1>4. ASSUME NEW b \in InSeq(t) PROVE \E j \in 1..n - 1 : b = t[j]
  BY <1>3, SeqFacts
<1>5. ASSUME NEW j \in 1..n - 1 PROVE t[j] \in InSeq(t)
  BY <1>3, SeqFacts
<1>6. ASSUME NEW b \in InSeq(t) PROVE b \in InSeq(s)
  <2>1. PICK j \in 1..n - 1 : b = t[j]
    BY <1>4
  <2>2. b = s[n] \/ b = s[j]
    BY <1>2, <2>1
  <2>3. n \in 1..Len(s) /\ j \in 1..Len(s)
    BY <1>1
  <2> QED
    BY <2>2, <2>3, SeqFacts
<1>7. ASSUME NEW b \in InSeq(s), b # s[i] PROVE b \in InSeq(t)
  <2>1. PICK j \in 1..n : b = s[j]
    BY SeqFacts
  <2>2. CASE j = n
    <3>1. i \in 1..n - 1 /\ t[i] = s[n]
      BY <1>1, <1>2, <1>7, <2>1, <2>2
    <3> QED
      BY <1>5, <2>1, <2>2, <3>1
  <2>3. CASE j # n
    <3>1. j \in 1..n - 1 /\ t[j] = s[j]
      BY <1>1, <1>2, <1>7, <2>1, <2>3
    <3> QED
      BY <1>5, <2>1, <3>1
  <2> QED
    BY <2>2, <2>3
<1>8. ASSUME Injective(s) PROVE Injective(t) /\ s[i] \notin InSeq(t)
  <2>1. \A j, k \in 1..n : s[j] = s[k] => j = k
    BY <1>8 DEF Injective
  <2>2. ASSUME NEW j \in 1..n - 1, NEW k \in 1..n - 1, t[j] = t[k] PROVE j = k
    BY <1>1, <1>2, <2>1, <2>2
  <2>3. ASSUME NEW j \in 1..n - 1 PROVE t[j] # s[i]
    BY <1>1, <1>2, <2>1
  <2> QED
    BY <1>3, <1>4, <2>2, <2>3 DEF Injective
<1> QED
  BY <1>3, <1>6, <1>7, <1>8 DEF t

LEMMA AppendFacts ==
    ASSUME NEW S, NEW s \in Seq(S), NEW b \in S
    PROVE  /\ Append(s, b) \in Seq(S)
           /\ Len(Append(s, b)) = Len(s) + 1
           /\ \A c : c \in InSeq(Append(s, b)) <=> c \in InSeq(s) \/ c = b
           /\ Injective(s) /\ b \notin InSeq(s) => Injective(Append(s, b))
<1> DEFINE t == Append(s, b)
           n == Len(s)
<1>1. /\ n \in Nat /\ t \in Seq(S) /\ Len(t) = n + 1
      /\ t[n + 1] = b /\ \A j \in 1..n : t[j] = s[j]
      /\ n + 1 \in 1..n + 1
      /\ \A j \in 1..n : j \in 1..n + 1 /\ j # n + 1
      /\ \A j \in 1..n + 1 : j = n + 1 \/ j \in 1..n
  OBVIOUS
<1> HIDE DEF t
<1>2. ASSUME NEW c PROVE c \in InSeq(t) <=> c \in InSeq(s) \/ c = b
  <2>1. ASSUME c \in InSeq(t) PROVE c \in InSeq(s) \/ c = b
    <3>1. PICK j \in 1..n + 1 : c = t[j]
      BY <1>1, <2>1, SeqFacts
    <3>2. CASE j = n + 1
      BY <1>1, <3>1, <3>2
    <3>3. CASE j # n + 1
      <4>1. j \in 1..n /\ c = s[j]
        BY <1>1, <3>1, <3>3
      <4> QED
        BY <4>1, SeqFacts
    <3> QED
      BY <3>2, <3>3
  <2>2. ASSUME c \in InSeq(s) PROVE c \in InSeq(t)
    <3>1. PICK j \in 1..n : c = s[j]
      BY <2>2, SeqFacts
    <3>2. j \in 1..Len(t) /\ c = t[j]
      BY <1>1, <3>1
    <3> QED
      BY <1>1, <3>2, SeqFacts
  <2>3. b \in InSeq(t)
    <3>1. n + 1 \in 1..Len(t)
      BY <1>1
    <3> QED
      BY <1>1, <3>1, SeqFacts
  <2> QED
    BY <2>1, <2>2, <2>3
<1>3. ASSUME Injective(s), b \notin InSeq(s) PROVE Injective(t)
  <2>1. \A j, k \in 1..n : s[j] = s[k] => j = k
    BY <1>3 DEF Injective
  <2>2. \A j \in 1..n : s[j] # b
    BY <1>3, SeqFacts
  <2>3. ASSUME NEW j \in 1..n + 1, NEW k \in 1..n + 1, t[j] = t[k] PROVE j = k
    BY <1>1, <2>1, <2>2, <2>3
  <2> QED
    BY <1>1, <2>3 DEF Injective
<1> QED
  BY <1>1, <1>2, <1>3 DEF t

----------------------------------------------------------------------------
(* What the handlers keep.                                                *)

OneVote(m) ==
    \A b, c \in Stored(m), v \in Validator :
        /\ m.votes[b][v] > 0 /\ m.votes[c][v] > 0
        /\ b.round = c.round
        => b = c

Disjoint(m) == \A b \in InSeq(m.pending) : b \notin InSeq(m.committed)

VotesOnStored(m) ==
    \A b \in Block : b \notin Stored(m) =>
        \A v \in Validator : m.votes[b][v] = 0

Separate(m) ==
    /\ Injective(m.pending)
    /\ Injective(m.committed)
    /\ Disjoint(m)
    /\ VotesOnStored(m)

SoundMaps == {m \in Maps : Separate(m) /\ OneVote(m)}

\* d counts the votes of m, or fewer.
NoNewVotes(m, d) ==
    \A c \in Block, v \in Validator :
        d.votes[c][v] = 0 \/ d.votes[c][v] = m.votes[c][v]

LEMMA AmountFacts == 0 \in Amount /\ \A a \in Amount : a \in Nat
  BY AmountAssumption DEF Amount

LEMMA MapsFacts ==
    ASSUME NEW m \in Maps
    PROVE  /\ m = [pending |-> m.pending, committed |-> m.committed, votes |-> m.votes]
           /\ m.pending \in Seq(Block) /\ m.committed \in Seq(Block)
           /\ m.votes \in [Block -> [Validator -> Amount]]
           /\ \A b \in Block, v \in Validator : m.votes[b][v] \in Amount
           /\ Stored(m) \subseteq Block
           /\ \A b : b \in Stored(m) <=> b \in InSeq(m.pending) \/ b \in InSeq(m.committed)
<1>1. m.pending \in Seq(Block) /\ m.committed \in Seq(Block)
  BY DEF Maps
<1> QED
  BY <1>1, SeqFacts DEF Maps, Stored

\* Updates of two fields at once.
LEMMA UpdatePending ==
    ASSUME NEW m \in Maps, NEW q, NEW x, NEW n
    PROVE  [m EXCEPT !.pending = q, !.votes[x] = n] =
               [pending |-> q, committed |-> m.committed,
                votes |-> [m.votes EXCEPT ![x] = n]]
<1> DEFINE w == [m.votes EXCEPT ![x] = n]
           a == [m EXCEPT !.pending = q]
<1>1. a = [pending |-> q, committed |-> m.committed, votes |-> m.votes]
  BY DEF Maps
<1>2. [m EXCEPT !.pending = q, !.votes[x] = n] = [a EXCEPT !.votes = w]
  OBVIOUS
<1> HIDE DEF w, a
<1>3. [a EXCEPT !.votes = w] = [pending |-> q, committed |-> m.committed, votes |-> w]
  BY <1>1
<1> QED
  BY <1>2, <1>3 DEF w

LEMMA UpdateBoth ==
    ASSUME NEW m \in Maps, NEW q, NEW r
    PROVE  [m EXCEPT !.pending = q, !.committed = r] =
               [pending |-> q, committed |-> r, votes |-> m.votes]
<1> DEFINE a == [m EXCEPT !.pending = q]
<1>1. a = [pending |-> q, committed |-> m.committed, votes |-> m.votes]
  BY DEF Maps
<1>2. [m EXCEPT !.pending = q, !.committed = r] = [a EXCEPT !.committed = r]
  OBVIOUS
<1> HIDE DEF a
<1>3. [a EXCEPT !.committed = r] = [pending |-> q, committed |-> r, votes |-> m.votes]
  BY <1>1
<1> QED
  BY <1>2, <1>3

\* Maps with fewer keys, the same votes on those and none on the others.
LEMMA Fewer ==
    ASSUME NEW m \in SoundMaps, NEW d \in Maps,
           Injective(d.pending), Injective(d.committed), Disjoint(d),
           \A b : b \in Stored(d) => b \in Stored(m),
           \A b \in Block, v \in Validator :
               d.votes[b][v] = IF b \in Stored(d) THEN m.votes[b][v] ELSE 0
    PROVE  d \in SoundMaps
<1>1. VotesOnStored(d)
  BY DEF VotesOnStored
<1>2. OneVote(d)
  <2> SUFFICES ASSUME NEW b \in Stored(d), NEW c \in Stored(d), NEW v \in Validator,
                      d.votes[b][v] > 0, d.votes[c][v] > 0, b.round = c.round
               PROVE  b = c
    BY DEF OneVote
  <2>1. b \in Stored(m) /\ c \in Stored(m) /\ b \in Block /\ c \in Block
    BY MapsFacts
  <2>2. m.votes[b][v] > 0 /\ m.votes[c][v] > 0
    BY <2>1
  <2>3. OneVote(m)
    BY DEF SoundMaps
  <2> QED
    BY <2>1, <2>2, <2>3 DEF OneVote
<1> QED
  BY <1>1, <1>2 DEF SoundMaps, Separate

\* The votes after those of one block are forgotten.
LEMMA ForgetVotes ==
    ASSUME NEW m \in Maps, NEW x \in Block
    PROVE  /\ [m.votes EXCEPT ![x] = NoVotes] \in [Block -> [Validator -> Amount]]
           /\ \A b \in Block, v \in Validator :
                  [m.votes EXCEPT ![x] = NoVotes][b][v] =
                      IF b = x THEN 0 ELSE m.votes[b][v]
<1>1. NoVotes \in [Validator -> Amount]
  BY AmountFacts DEF NoVotes
<1>2. m.votes \in [Block -> [Validator -> Amount]]
  BY MapsFacts
<1>3. [m.votes EXCEPT ![x] = NoVotes] \in [Block -> [Validator -> Amount]]
  BY <1>1, <1>2
<1>4. ASSUME NEW b \in Block, NEW v \in Validator
      PROVE  [m.votes EXCEPT ![x] = NoVotes][b][v] =
                 IF b = x THEN 0 ELSE m.votes[b][v]
  BY <1>2 DEF NoVotes
<1> QED
  BY <1>3, <1>4

\* One entry leaves a map, with its votes.
LEMMA DropPending ==
    ASSUME NEW m \in SoundMaps, m.pending # << >>
    PROVE  /\ DropFirstPending(m) \in SoundMaps
           /\ Len(DropFirstPending(m).pending) = Len(m.pending) - 1
           /\ \A b \in InSeq(DropFirstPending(m).pending) : b \in InSeq(m.pending)
           /\ DropFirstPending(m).committed = m.committed
           /\ NoNewVotes(m, DropFirstPending(m))
<1> DEFINE d == DropFirstPending(m)
           x == m.pending[1]
           q == SwapRemoved(m.pending, 1)
<1>1. /\ m \in Maps /\ Separate(m)
      /\ 1 \in 1..Len(m.pending)
  BY DEF SoundMaps, Maps
<1>2. x \in Block /\ x \in InSeq(m.pending) /\ x \notin InSeq(m.committed)
  BY <1>1, MapsFacts, SeqFacts DEF Separate, Disjoint
<1>3. /\ q \in Seq(Block)
      /\ Len(q) = Len(m.pending) - 1
      /\ \A b \in InSeq(q) : b \in InSeq(m.pending)
      /\ \A b \in InSeq(m.pending) : b = x \/ b \in InSeq(q)
      /\ Injective(q)
      /\ x \notin InSeq(q)
  <2>1. m.pending \in Seq(Block) /\ Injective(m.pending)
    BY <1>1, MapsFacts DEF Separate
  <2> QED
    BY <1>1, <2>1, SwapRemovedFacts
<1>4. d = [m EXCEPT !.pending = q, !.votes[x] = NoVotes]
  BY DEF DropFirstPending
<1> HIDE DEF d, x, q
<1>5. d = [pending |-> q, committed |-> m.committed,
           votes |-> [m.votes EXCEPT ![x] = NoVotes]]
  BY <1>1, <1>4, UpdatePending
<1>6. d.pending = q /\ d.committed = m.committed /\ d.votes = [m.votes EXCEPT ![x] = NoVotes]
  BY <1>5
<1>7. d \in Maps
  BY <1>1, <1>2, <1>3, <1>5, MapsFacts, ForgetVotes DEF Maps
<1>8. \A b \in Block, v \in Validator :
          d.votes[b][v] = IF b = x THEN 0 ELSE m.votes[b][v]
  BY <1>1, <1>2, <1>6, ForgetVotes
<1>9. /\ \A b : b \in Stored(d) => b \in Stored(m)
      /\ \A b \in Stored(m) : b = x \/ b \in Stored(d)
      /\ x \notin Stored(d)
  BY <1>1, <1>2, <1>3, <1>6, <1>7, MapsFacts
<1>10. ASSUME NEW b \in Block, NEW v \in Validator
       PROVE  d.votes[b][v] = IF b \in Stored(d) THEN m.votes[b][v] ELSE 0
  BY <1>1, <1>8, <1>9 DEF Separate, VotesOnStored
<1>11. Injective(d.committed) /\ Injective(d.pending) /\ Disjoint(d)
  BY <1>1, <1>3, <1>6 DEF Separate, Disjoint
<1>12. d \in SoundMaps
  BY <1>7, <1>9, <1>10, <1>11, Fewer
<1>13. NoNewVotes(m, d)
  BY <1>8 DEF NoNewVotes
<1> QED
  BY <1>3, <1>6, <1>12, <1>13 DEF d

LEMMA DropCommitted ==
    ASSUME NEW m \in SoundMaps, m.committed # << >>
    PROVE  /\ DropFirstCommitted(m) \in SoundMaps
           /\ Len(DropFirstCommitted(m).committed) = Len(m.committed) - 1
           /\ \A b \in InSeq(DropFirstCommitted(m).committed) : b \in InSeq(m.committed)
           /\ DropFirstCommitted(m).pending = m.pending
           /\ NoNewVotes(m, DropFirstCommitted(m))
<1> DEFINE d == DropFirstCommitted(m)
           x == m.committed[1]
           q == SwapRemoved(m.committed, 1)
<1>1. /\ m \in Maps /\ Separate(m)
      /\ 1 \in 1..Len(m.committed)
  BY DEF SoundMaps, Maps
<1>2. x \in Block /\ x \in InSeq(m.committed) /\ x \notin InSeq(m.pending)
  BY <1>1, MapsFacts, SeqFacts DEF Separate, Disjoint
<1>3. /\ q \in Seq(Block)
      /\ Len(q) = Len(m.committed) - 1
      /\ \A b \in InSeq(q) : b \in InSeq(m.committed)
      /\ \A b \in InSeq(m.committed) : b = x \/ b \in InSeq(q)
      /\ Injective(q)
      /\ x \notin InSeq(q)
  <2>1. m.committed \in Seq(Block) /\ Injective(m.committed)
    BY <1>1, MapsFacts DEF Separate
  <2> QED
    BY <1>1, <2>1, SwapRemovedFacts
<1>4. d = [m EXCEPT !.committed = q, !.votes[x] = NoVotes]
  BY DEF DropFirstCommitted
<1> HIDE DEF d, x, q
<1>5. d = [pending |-> m.pending, committed |-> q,
           votes |-> [m.votes EXCEPT ![x] = NoVotes]]
  <2> DEFINE w == [m.votes EXCEPT ![x] = NoVotes]
             a == [m EXCEPT !.committed = q]
  <2>1. a = [pending |-> m.pending, committed |-> q, votes |-> m.votes]
    BY <1>1 DEF Maps
  <2>2. d = [a EXCEPT !.votes = w]
    BY <1>4
  <2> HIDE DEF w, a
  <2>3. d = [pending |-> m.pending, committed |-> q, votes |-> w]
    BY <2>1, <2>2
  <2> QED
    BY <2>3 DEF w
<1>6. d.pending = m.pending /\ d.committed = q /\ d.votes = [m.votes EXCEPT ![x] = NoVotes]
  BY <1>5
<1>7. d \in Maps
  BY <1>1, <1>2, <1>3, <1>5, MapsFacts, ForgetVotes DEF Maps
<1>8. \A b \in Block, v \in Validator :
          d.votes[b][v] = IF b = x THEN 0 ELSE m.votes[b][v]
  BY <1>1, <1>2, <1>6, ForgetVotes
<1>9. /\ \A b : b \in Stored(d) => b \in Stored(m)
      /\ \A b \in Stored(m) : b = x \/ b \in Stored(d)
      /\ x \notin Stored(d)
  BY <1>1, <1>2, <1>3, <1>6, <1>7, MapsFacts
<1>10. ASSUME NEW b \in Block, NEW v \in Validator
       PROVE  d.votes[b][v] = IF b \in Stored(d) THEN m.votes[b][v] ELSE 0
  BY <1>1, <1>8, <1>9 DEF Separate, VotesOnStored
<1>11. Injective(d.committed) /\ Injective(d.pending) /\ Disjoint(d)
  BY <1>1, <1>3, <1>6 DEF Separate, Disjoint
<1>12. d \in SoundMaps
  BY <1>7, <1>9, <1>10, <1>11, Fewer
<1>13. NoNewVotes(m, d)
  BY <1>8 DEF NoNewVotes
<1> QED
  BY <1>3, <1>6, <1>12, <1>13 DEF d

\* Making room: the oldest keys go until the map is below its cap.
LEMMA DropTyped ==
    ASSUME NEW m \in Maps
    PROVE  DropFirstPending(m) \in Maps
<1> DEFINE d == DropFirstPending(m)
           x == m.pending[1]
           q == SwapRemoved(m.pending, 1)
           w == [m.votes EXCEPT ![x] = NoVotes]
<1>1. m.pending \in Seq(Block) /\ Len(m.pending) \in Nat
  BY MapsFacts, SeqFacts
<1>2. q \in Seq(Block)
  <2>1. CASE Len(m.pending) = 0
    <3>1. q = << >>
      BY <1>1, <2>1 DEF SwapRemoved
    <3> HIDE DEF q
    <3> QED
      BY <3>1
  <2>2. CASE Len(m.pending) # 0
    <3>1. 1 \in 1..Len(m.pending)
      BY <1>1, <2>2
    <3> QED
      BY <1>1, <3>1, SwapRemovedFacts
  <2> QED
    BY <2>1, <2>2
<1>3. w \in [Block -> [Validator -> Amount]]
  <2>1. NoVotes \in [Validator -> Amount]
    BY AmountFacts DEF NoVotes
  <2>2. m.votes \in [Block -> [Validator -> Amount]]
    BY MapsFacts
  <2> HIDE DEF x
  <2> QED
    BY <2>1, <2>2
<1>4. d = [m EXCEPT !.pending = q, !.votes[x] = NoVotes]
  BY DEF DropFirstPending
<1> HIDE DEF d, x, q
<1>5. d = [pending |-> q, committed |-> m.committed,
           votes |-> [m.votes EXCEPT ![x] = NoVotes]]
  BY <1>4, UpdatePending
<1> QED
  BY <1>2, <1>3, <1>5, MapsFacts DEF Maps, d

LEMMA RoomMade ==
    ASSUME NEW m \in SoundMaps
    PROVE  /\ MakeRoom(m) \in SoundMaps
           /\ Len(MakeRoom(m).pending) < PendingCap
           /\ \A b \in InSeq(MakeRoom(m).pending) : b \in InSeq(m.pending)
           /\ MakeRoom(m).committed = m.committed
           /\ NoNewVotes(m, MakeRoom(m))
<1> DEFINE l == Len(m.pending)
           s == [a \in Maps |-> DropFirstPending(a)]
           body(g) == [k \in Nat |-> IF k = 0 THEN m ELSE DropFirstPending(g[k - 1])]
           drop == CHOOSE g : g = body(g)
<1>1. m \in Maps /\ l \in Nat /\ PendingCap \in Nat \ {0}
  BY MapsFacts, SeqFacts, IngressAssumption DEF SoundMaps
<1>2. s \in [Maps -> Maps]
  BY DropTyped
<1>3. PICK f \in [Nat -> Maps] : f[0] = m /\ \A k \in Nat : f[k + 1] = s[f[k]]
  <2> HIDE DEF s
  <2>1. Orbit(Maps, s, m) # {}
    BY <1>1, <1>2, Iterate
  <2> QED
    BY <2>1 DEF Orbit
<1>4. \A k \in Nat : f[k + 1] = DropFirstPending(f[k])
  BY <1>3
<1>5. f = body(f)
  <2>1. ASSUME NEW k \in Nat
        PROVE  f[k] = IF k = 0 THEN m ELSE DropFirstPending(f[k - 1])
    <3>1. CASE k = 0
      BY <1>3, <3>1
    <3>2. CASE k # 0
      <4>1. k - 1 \in Nat /\ (k - 1) + 1 = k
        BY <3>2
      <4>2. f[(k - 1) + 1] = DropFirstPending(f[k - 1])
        BY <1>4, <4>1
      <4> QED
        BY <3>2, <4>1, <4>2
    <3> QED
      BY <3>1, <3>2
  <2> QED
    BY <2>1
<1>6. drop = body(drop)
  BY <1>5
<1>7. MakeRoom(m) = IF l >= PendingCap THEN drop[l - PendingCap + 1] ELSE m
  BY DEF MakeRoom
<1> DEFINE Kept(k, a) == /\ a \in SoundMaps
                         /\ Len(a.pending) = l - k
                         /\ \A b \in InSeq(a.pending) : b \in InSeq(m.pending)
                         /\ a.committed = m.committed
                         /\ NoNewVotes(m, a)
           T == {k \in Nat : k <= l => Kept(k, drop[k])}
<1>8. drop[0] = m /\ \A k \in Nat : drop[k + 1] = DropFirstPending(drop[k])
  <2> HIDE DEF drop
  <2>1. drop[0] = m
    BY <1>6
  <2>2. ASSUME NEW k \in Nat PROVE drop[k + 1] = DropFirstPending(drop[k])
    <3>1. k + 1 \in Nat /\ k + 1 # 0 /\ (k + 1) - 1 = k
      OBVIOUS
    <3> QED
      BY <1>6, <3>1
  <2> QED
    BY <2>1, <2>2
<1> HIDE DEF drop, l
<1>9. T = Nat
  <2>1. T \subseteq Nat
    OBVIOUS
  <2>2. 0 \in T
    <3>1. Kept(0, m)
      BY <1>1 DEF l, NoNewVotes
    <3> QED
      BY <1>8, <3>1
  <2>3. ASSUME NEW k \in T PROVE k + 1 \in T
    <3> SUFFICES ASSUME k + 1 <= l PROVE Kept(k + 1, drop[k + 1])
      OBVIOUS
    <3>1. k \in Nat /\ k <= l /\ l - k # 0
      BY <1>1
    <3>2. Kept(k, drop[k])
      BY <3>1
    <3> DEFINE a == drop[k]
    <3>3. drop[k + 1] = DropFirstPending(a)
      BY <1>8
    <3> HIDE DEF a
    <3>4. /\ a \in SoundMaps /\ Len(a.pending) = l - k /\ a.committed = m.committed
          /\ \A b \in InSeq(a.pending) : b \in InSeq(m.pending)
          /\ NoNewVotes(m, a)
      BY <3>2 DEF a
    <3>5. a.pending # << >>
      BY <3>1, <3>4
    <3>6. /\ DropFirstPending(a) \in SoundMaps
          /\ Len(DropFirstPending(a).pending) = Len(a.pending) - 1
          /\ \A b \in InSeq(DropFirstPending(a).pending) : b \in InSeq(a.pending)
          /\ DropFirstPending(a).committed = a.committed
          /\ NoNewVotes(a, DropFirstPending(a))
      BY <3>4, <3>5, DropPending
    <3>7. (l - k) - 1 = l - (k + 1)
      BY <1>1, <3>1
    <3>8. NoNewVotes(m, DropFirstPending(a))
      BY <3>4, <3>6 DEF NoNewVotes
    <3> QED
      BY <3>3, <3>4, <3>6, <3>7, <3>8
  <2> QED
    <3> HIDE DEF T
    <3> QED
      BY <2>1, <2>2, <2>3, SetInduction
<1>10. CASE l >= PendingCap
  <2> DEFINE k == l - PendingCap + 1
  <2>1. k \in Nat /\ k <= l /\ l - k < PendingCap
    BY <1>1, <1>10
  <2>2. MakeRoom(m) = drop[k]
    BY <1>7, <1>10
  <2> HIDE DEF k
  <2>3. Kept(k, drop[k])
    BY <1>9, <2>1
  <2> QED
    BY <2>1, <2>2, <2>3
<1>11. CASE ~(l >= PendingCap)
  BY <1>1, <1>7, <1>11 DEF l, NoNewVotes
<1> QED
  BY <1>10, <1>11

\* A block that is not held is filed, without votes.
LEMMA Filed ==
    ASSUME NEW m \in SoundMaps, NEW b \in Block, b \notin Stored(m)
    PROVE  LET d == [m EXCEPT !.pending = Append(@, b), !.votes[b] = NoVotes] IN
           /\ d \in SoundMaps
           /\ Len(d.pending) = Len(m.pending) + 1
           /\ \A c : c \in InSeq(d.pending) <=> c \in InSeq(m.pending) \/ c = b
           /\ d.committed = m.committed
           /\ NoNewVotes(m, d)
<1> DEFINE q == Append(m.pending, b)
           d == [m EXCEPT !.pending = q, !.votes[b] = NoVotes]
<1>1. m \in Maps /\ Separate(m) /\ OneVote(m) /\ m.pending \in Seq(Block)
  BY MapsFacts DEF SoundMaps
<1>2. b \notin InSeq(m.pending) /\ b \notin InSeq(m.committed)
  BY <1>1, MapsFacts
<1>3. /\ q \in Seq(Block)
      /\ Len(q) = Len(m.pending) + 1
      /\ \A c : c \in InSeq(q) <=> c \in InSeq(m.pending) \/ c = b
      /\ Injective(q)
  BY <1>1, <1>2, AppendFacts DEF Separate
<1> HIDE DEF q
<1>4. d = [pending |-> q, committed |-> m.committed,
           votes |-> [m.votes EXCEPT ![b] = NoVotes]]
  BY <1>1, UpdatePending
<1> HIDE DEF d
<1>5. d.pending = q /\ d.committed = m.committed /\ d.votes = [m.votes EXCEPT ![b] = NoVotes]
  BY <1>4
<1>6. d \in Maps
  BY <1>1, <1>3, <1>4, MapsFacts, ForgetVotes DEF Maps
<1>7. \A c \in Block, v \in Validator :
          d.votes[c][v] = IF c = b THEN 0 ELSE m.votes[c][v]
  BY <1>1, <1>5, ForgetVotes
<1>8. \A c : c \in Stored(d) <=> c \in Stored(m) \/ c = b
  BY <1>1, <1>3, <1>5, <1>6, MapsFacts
<1>9. Injective(d.pending) /\ Injective(d.committed) /\ Disjoint(d)
  BY <1>1, <1>2, <1>3, <1>5 DEF Separate, Disjoint
<1>10. VotesOnStored(d)
  BY <1>1, <1>7, <1>8 DEF Separate, VotesOnStored
<1>11. OneVote(d)
  <2> SUFFICES ASSUME NEW c \in Stored(d), NEW e \in Stored(d), NEW v \in Validator,
                      d.votes[c][v] > 0, d.votes[e][v] > 0, c.round = e.round
               PROVE  c = e
    BY DEF OneVote
  <2>1. c \in Block /\ e \in Block
    BY <1>6, MapsFacts
  <2>2. c # b /\ e # b /\ m.votes[c][v] > 0 /\ m.votes[e][v] > 0
    BY <1>7, <2>1
  <2>3. c \in Stored(m) /\ e \in Stored(m)
    BY <1>8, <2>2
  <2> QED
    BY <1>1, <2>2, <2>3 DEF OneVote
<1>12. d \in SoundMaps
  BY <1>6, <1>9, <1>10, <1>11 DEF SoundMaps, Separate
<1>13. NoNewVotes(m, d)
  BY <1>7 DEF NoNewVotes
<1> QED
  BY <1>3, <1>5, <1>12, <1>13 DEF d, q

\* receiveBlock: a block from a peer.
LEMMA BlockReceived ==
    ASSUME NEW m \in SoundMaps, NEW b \in Block
    PROVE  /\ receiveBlock(m, b) \in SoundMaps
           /\ Len(receiveBlock(m, b).pending) <= PendingCap
           /\ \A c \in InSeq(receiveBlock(m, b).pending) : c \in InSeq(m.pending) \/ c = b
           /\ receiveBlock(m, b).committed = m.committed
           /\ NoNewVotes(m, receiveBlock(m, b))
<1> DEFINE roomy == MakeRoom(m)
           d == [roomy EXCEPT !.pending = Append(@, b), !.votes[b] = NoVotes]
<1>1. /\ roomy \in SoundMaps
      /\ Len(roomy.pending) < PendingCap
      /\ \A c \in InSeq(roomy.pending) : c \in InSeq(m.pending)
      /\ roomy.committed = m.committed
      /\ NoNewVotes(m, roomy)
  BY RoomMade
<1>2. Len(roomy.pending) \in Nat /\ PendingCap \in Nat
  BY <1>1, MapsFacts, SeqFacts, IngressAssumption DEF SoundMaps
<1>3. receiveBlock(m, b) = IF b \in Stored(roomy) THEN roomy ELSE d
  BY DEF receiveBlock
<1> HIDE DEF roomy
<1>4. CASE b \in Stored(roomy)
  BY <1>1, <1>2, <1>3, <1>4
<1>5. CASE b \notin Stored(roomy)
  <2>1. /\ d \in SoundMaps
        /\ Len(d.pending) = Len(roomy.pending) + 1
        /\ \A c : c \in InSeq(d.pending) <=> c \in InSeq(roomy.pending) \/ c = b
        /\ d.committed = roomy.committed
        /\ NoNewVotes(roomy, d)
    BY <1>1, <1>5, Filed
  <2> HIDE DEF d
  <2>2. NoNewVotes(m, d)
    BY <1>1, <2>1 DEF NoNewVotes
  <2> QED
    BY <1>1, <1>2, <1>3, <1>5, <2>1, <2>2
<1> QED
  BY <1>4, <1>5

\* proposeBlock: a node's own block, new to its maps.
LEMMA BlockProposed ==
    ASSUME NEW m \in SoundMaps, NEW b \in Block, b \notin Stored(m)
    PROVE  /\ proposeBlock(m, b) \in SoundMaps
           /\ \A c \in InSeq(proposeBlock(m, b).pending) : c \in InSeq(m.pending) \/ c = b
           /\ proposeBlock(m, b).committed = m.committed
           /\ NoNewVotes(m, proposeBlock(m, b))
<1> DEFINE d == [m EXCEPT !.pending = Append(@, b), !.votes[b] = NoVotes]
<1>1. b \notin InSeq(m.pending)
  BY MapsFacts DEF SoundMaps
<1>2. proposeBlock(m, b) = d
  BY <1>1 DEF proposeBlock
<1>3. /\ d \in SoundMaps
      /\ \A c : c \in InSeq(d.pending) <=> c \in InSeq(m.pending) \/ c = b
      /\ d.committed = m.committed
      /\ NoNewVotes(m, d)
  BY Filed
<1> HIDE DEF d
<1> QED
  BY <1>2, <1>3

\* The block findExistingVote returns holds such a vote; it returns None only
\* when no block of the map does.
LEMMA ExistingVote ==
    ASSUME NEW m \in Maps, NEW keys \in Seq(Block), NEW v, NEW r
    PROVE  LET found == findExistingVote(m, keys, v, r) IN
           /\ found # None => /\ found \in InSeq(keys)
                              /\ found.round = r
                              /\ m.votes[found][v] > 0
           /\ found = None => \A b \in InSeq(keys) : ~(b.round = r /\ m.votes[b][v] > 0)
<1> DEFINE at == VotedAt(m, keys, v, r)
           first == CHOOSE i \in at : \A j \in at : i <= j
           found == findExistingVote(m, keys, v, r)
<1>1. /\ \A i \in at : /\ i \in 1..Len(keys) /\ i \in Nat
                       /\ keys[i].round = r /\ m.votes[keys[i]][v] > 0
      /\ \A i \in 1..Len(keys) : keys[i].round = r /\ m.votes[keys[i]][v] > 0 => i \in at
  BY SeqFacts DEF VotedAt
<1>2. found = IF at = {} THEN None ELSE keys[first]
  BY DEF findExistingVote
<1> HIDE DEF at, found
<1>3. at # {} => first \in at
  BY <1>1, LeastExists
<1> HIDE DEF first
<1>4. at # {} => keys[first] \in InSeq(keys) /\ keys[first] \in Block
  BY <1>1, <1>3, SeqFacts
<1>5. ASSUME found # None
      PROVE  found \in InSeq(keys) /\ found.round = r /\ m.votes[found][v] > 0
  BY <1>1, <1>2, <1>3, <1>4, <1>5
<1>6. ASSUME found = None, NEW b \in InSeq(keys)
      PROVE  ~(b.round = r /\ m.votes[b][v] > 0)
  <2>1. at = {}
    BY <1>2, <1>4, <1>6, NoneAssumption
  <2>2. PICK i \in 1..Len(keys) : b = keys[i]
    BY SeqFacts
  <2> QED
    BY <1>1, <2>1, <2>2
<1> QED
  BY <1>5, <1>6 DEF found

\* receiveVote: nothing changes but the vote it accepts, on a block that is
\* held where no other held block of the round has one.
LEMMA VoteReceived ==
    ASSUME NEW m \in SoundMaps, NEW vote \in Vote
    PROVE  /\ receiveVote(m, vote) \in SoundMaps
           /\ receiveVote(m, vote).pending = m.pending
           /\ receiveVote(m, vote).committed = m.committed
           /\ \A c \in Block, v \in Validator :
                  \/ receiveVote(m, vote).votes[c][v] = m.votes[c][v]
                  \/ /\ c = vote.block /\ v = vote.voter
                     /\ receiveVote(m, vote).votes[c][v] = Stake[v]
<1> DEFINE d == receiveVote(m, vote)
           b == vote.block
           u == vote.voter
<1>1. m \in Maps /\ Separate(m) /\ OneVote(m) /\ b \in Block /\ u \in Validator
  BY DEF SoundMaps, Vote
<1> DEFINE Result(a) ==
               /\ a \in SoundMaps
               /\ a.pending = m.pending
               /\ a.committed = m.committed
               /\ \A c \in Block, v \in Validator :
                      \/ a.votes[c][v] = m.votes[c][v]
                      \/ c = b /\ v = u /\ a.votes[c][v] = Stake[v]
<1>2. CASE VoteResult(m, vote) # "accepted"
  <2>1. d = m
    BY <1>2 DEF receiveVote
  <2>2. Result(m)
    OBVIOUS
  <2> HIDE DEF d, Result
  <2>3. Result(d)
    BY <2>1, <2>2
  <2> QED
    BY <2>3 DEF d, Result
<1>3. CASE VoteResult(m, vote) = "accepted"
  <2>1. /\ Conflict(m, vote) = None
        /\ b \in Stored(m)
        /\ ~(m.votes[b][u] > 0)
    BY <1>3 DEF VoteResult
  <2>2. Stake[u] \in Amount /\ Weight(u) = Stake[u]
    BY <1>1, IngressAssumption DEF Weight
  <2> DEFINE row == [m.votes[b] EXCEPT ![u] = Weight(u)]
             w == [m.votes EXCEPT ![b] = row]
  <2>3. d = [m EXCEPT !.votes = w]
    BY <1>3 DEF receiveVote
  <2>4. /\ m.votes \in [Block -> [Validator -> Amount]]
        /\ m.votes[b] \in [Validator -> Amount]
    BY <1>1, MapsFacts
  <2>5. /\ row \in [Validator -> Amount]
        /\ row[u] = Stake[u]
        /\ \A v \in Validator : v # u => row[v] = m.votes[b][v]
    BY <1>1, <2>2, <2>4
  <2> HIDE DEF row
  <2>6. /\ w \in [Block -> [Validator -> Amount]]
        /\ w[b] = row
        /\ \A c \in Block : c # b => w[c] = m.votes[c]
    BY <1>1, <2>4, <2>5
  <2>7. \A c \in Block, v \in Validator :
            c # b \/ v # u => w[c][v] = m.votes[c][v]
    BY <2>5, <2>6
  <2> HIDE DEF w, d
  <2>8. d = [pending |-> m.pending, committed |-> m.committed, votes |-> w]
    BY <1>1, <2>3 DEF Maps
  <2>9. d.pending = m.pending /\ d.committed = m.committed /\ d.votes = w
    BY <2>8
  <2>10. d \in Maps
    BY <1>1, <2>6, <2>8, MapsFacts DEF Maps
  <2>11. \A c : c \in Stored(d) <=> c \in Stored(m)
    BY <2>9 DEF Stored
  <2>12. Separate(d)
    <3>1. Injective(d.pending) /\ Injective(d.committed) /\ Disjoint(d)
      BY <1>1, <2>9 DEF Separate, Disjoint
    <3>2. VotesOnStored(d)
      BY <1>1, <2>1, <2>7, <2>9, <2>11 DEF Separate, VotesOnStored
    <3> QED
      BY <3>1, <3>2 DEF Separate
  <2>13. \A c \in Stored(m) : m.votes[c][u] > 0 => c.round # b.round
    <3> SUFFICES ASSUME NEW c \in Stored(m), m.votes[c][u] > 0, c.round = b.round
                 PROVE  FALSE
      OBVIOUS
    <3> DEFINE inP == findExistingVote(m, m.pending, u, b.round)
               inC == findExistingVote(m, m.committed, u, b.round)
    <3>1. /\ inP \notin {None, b} => FALSE
          /\ inC \notin {None, b} => FALSE
      BY <2>1 DEF Conflict
    <3>2. m.pending \in Seq(Block) /\ m.committed \in Seq(Block)
      BY <1>1, MapsFacts
    <3>3. /\ inP # None => m.votes[inP][u] > 0
          /\ inP = None => c \notin InSeq(m.pending)
      BY <1>1, <3>2, ExistingVote
    <3>4. /\ inC # None => m.votes[inC][u] > 0
          /\ inC = None => c \notin InSeq(m.committed)
      BY <1>1, <3>2, ExistingVote
    <3> HIDE DEF inP, inC
    <3>5. inP = None /\ inC = None
      BY <2>1, <3>1, <3>3, <3>4
    <3> QED
      BY <1>1, <3>3, <3>4, <3>5, MapsFacts
  <2>14. OneVote(d)
    <3> SUFFICES ASSUME NEW c \in Stored(d), NEW e \in Stored(d), NEW v \in Validator,
                        d.votes[c][v] > 0, d.votes[e][v] > 0, c.round = e.round, c # e
                 PROVE  FALSE
      BY DEF OneVote
    <3>1. c \in Stored(m) /\ e \in Stored(m) /\ c \in Block /\ e \in Block
      BY <1>1, <2>11, MapsFacts
    <3>2. CASE v # u
      BY <1>1, <2>7, <2>9, <3>1, <3>2 DEF OneVote
    <3>3. CASE v = u
      <4>1. /\ c = b \/ m.votes[c][u] > 0
            /\ e = b \/ m.votes[e][u] > 0
        BY <2>7, <2>9, <3>1, <3>3
      <4> QED
        BY <1>1, <2>13, <3>1, <4>1 DEF OneVote
    <3> QED
      BY <3>2, <3>3
  <2>15. d \in SoundMaps
    BY <2>10, <2>12, <2>14 DEF SoundMaps
  <2>16. \A c \in Block, v \in Validator :
            \/ d.votes[c][v] = m.votes[c][v]
            \/ c = b /\ v = u /\ d.votes[c][v] = Stake[v]
    BY <2>5, <2>6, <2>7, <2>9
  <2>17. Result(d)
    BY <2>9, <2>15, <2>16
  <2> HIDE DEF Result
  <2> QED
    BY <2>17 DEF d, Result
<1> QED
  BY <1>2, <1>3

\* promotePendingBlock: a pending block moves to the committed map, which
\* forgets its first key when it passes its cap.
LEMMA Promoted ==
    ASSUME NEW m \in SoundMaps, NEW i \in 1..Len(m.pending)
    PROVE  LET d == promotePendingBlock(m, i) IN
           /\ d \in SoundMaps
           /\ \A b \in InSeq(d.pending) : b \in InSeq(m.pending)
           /\ \A b \in Stored(d) : b \in Stored(m)
           /\ Len(m.committed) <= CommittedCap => Len(d.committed) <= CommittedCap
           /\ NoNewVotes(m, d)
<1> DEFINE x == m.pending[i]
           q == SwapRemoved(m.pending, i)
           r == Append(m.committed, x)
           a == [m EXCEPT !.pending = q, !.committed = r]
           d == promotePendingBlock(m, i)
<1>1. /\ m \in Maps /\ Separate(m)
      /\ m.pending \in Seq(Block) /\ m.committed \in Seq(Block)
      /\ Len(m.committed) \in Nat /\ CommittedCap \in Nat
  BY MapsFacts, SeqFacts, IngressAssumption DEF SoundMaps
<1>2. x \in Block /\ x \in InSeq(m.pending) /\ x \notin InSeq(m.committed)
  BY <1>1, SeqFacts DEF Separate, Disjoint
<1>3. /\ q \in Seq(Block)
      /\ \A b \in InSeq(q) : b \in InSeq(m.pending)
      /\ \A b \in InSeq(m.pending) : b = x \/ b \in InSeq(q)
      /\ Injective(q)
      /\ x \notin InSeq(q)
  BY <1>1, SwapRemovedFacts DEF Separate
<1>4. /\ r \in Seq(Block)
      /\ Len(r) = Len(m.committed) + 1
      /\ \A b : b \in InSeq(r) <=> b \in InSeq(m.committed) \/ b = x
      /\ Injective(r)
  BY <1>1, <1>2, AppendFacts DEF Separate
<1>5. d = IF Len(a.committed) > CommittedCap THEN DropFirstCommitted(a) ELSE a
  BY DEF promotePendingBlock
<1> HIDE DEF q, r, x
<1>6. a = [pending |-> q, committed |-> r, votes |-> m.votes]
  BY <1>1, UpdateBoth
<1> HIDE DEF a, d
<1>7. a.pending = q /\ a.committed = r /\ a.votes = m.votes
  BY <1>6
<1>8. a \in Maps
  BY <1>1, <1>3, <1>4, <1>6, MapsFacts DEF Maps
<1>9. \A b : b \in Stored(a) <=> b \in Stored(m)
  BY <1>1, <1>2, <1>3, <1>4, <1>7, <1>8, MapsFacts
<1>10. Injective(a.pending) /\ Injective(a.committed) /\ Disjoint(a)
  BY <1>1, <1>3, <1>4, <1>7 DEF Separate, Disjoint
<1>11. ASSUME NEW b \in Block, NEW v \in Validator
       PROVE  a.votes[b][v] = IF b \in Stored(a) THEN m.votes[b][v] ELSE 0
  BY <1>1, <1>7, <1>9 DEF Separate, VotesOnStored
<1>12. a \in SoundMaps
  BY <1>8, <1>9, <1>10, <1>11, Fewer
<1>13. NoNewVotes(m, a)
  BY <1>7 DEF NoNewVotes
<1>14. CASE Len(r) > CommittedCap
  <2>1. d = DropFirstCommitted(a)
    BY <1>5, <1>7, <1>14
  <2>2. a.committed # << >>
    BY <1>1, <1>4, <1>7
  <2>3. /\ d \in SoundMaps
        /\ Len(d.committed) = Len(a.committed) - 1
        /\ \A b \in InSeq(d.committed) : b \in InSeq(a.committed)
        /\ d.pending = a.pending
        /\ NoNewVotes(a, d)
    BY <1>12, <2>1, <2>2, DropCommitted
  <2>4. Len(d.committed) = Len(m.committed)
    BY <1>1, <1>4, <1>7, <2>3
  <2>5. \A b \in Stored(d) : b \in Stored(m)
    BY <1>8, <1>9, <2>3, MapsFacts DEF SoundMaps
  <2>6. NoNewVotes(m, d)
    BY <1>13, <2>3 DEF NoNewVotes
  <2> QED
    BY <1>1, <1>3, <1>7, <2>3, <2>4, <2>5, <2>6 DEF d
<1>15. CASE ~(Len(r) > CommittedCap)
  <2>1. d = a
    BY <1>5, <1>7, <1>15
  <2>2. Len(d.committed) <= CommittedCap
    BY <1>1, <1>4, <1>7, <1>15, <2>1
  <2> QED
    BY <1>3, <1>7, <1>9, <1>12, <1>13, <2>1, <2>2 DEF d
<1> QED
  BY <1>14, <1>15

\* What a batch of commits starting from m may leave behind.
Within(m) ==
    {a \in SoundMaps :
        /\ \A b \in InSeq(a.pending) : b \in InSeq(m.pending)
        /\ \A b \in Stored(a) : b \in Stored(m)
        /\ Len(m.committed) <= CommittedCap => Len(a.committed) <= CommittedCap
        /\ NoNewVotes(m, a)}

\* The blocks such a batch may execute.
Quorate(m) == {b \in Block : \E a \in Within(m) : hasQuorum(a, b)}

\* tryCommitBatch: any number of promotions, each of a block with a quorum.
LEMMA BatchCommitted ==
    ASSUME NEW m \in SoundMaps, NEW budget \in Nat
    PROVE  tryCommitBatch(m, budget) \in [maps : Within(m), done : Seq(Quorate(m))]
<1> DEFINE S == [maps : Within(m), done : Seq(Quorate(m))]
           next(e) == IF Ready(e.maps) = {} THEN e
                      ELSE [ maps |-> promotePendingBlock(e.maps, NextCommit(e.maps)),
                             done |-> Append(e.done, e.maps.pending[NextCommit(e.maps)]) ]
           s == [e \in S |-> next(e)]
           start == [maps |-> m, done |-> << >>]
           body(g) == [k \in Nat |-> IF k = 0 THEN start ELSE next(g[k - 1])]
           batch == CHOOSE g : g = body(g)
<1>1. start \in S
  BY DEF Within, NoNewVotes
<1>2. ASSUME NEW e \in S PROVE next(e) \in S
  <2>1. CASE Ready(e.maps) = {}
    BY <2>1
  <2>2. CASE Ready(e.maps) # {}
    <3> DEFINE a == e.maps
               i == NextCommit(a)
               d == promotePendingBlock(a, i)
    <3>1. a \in Within(m) /\ a \in SoundMaps /\ e.done \in Seq(Quorate(m))
      BY DEF Within
    <3>2. a.pending \in Seq(Block)
      BY <3>1, MapsFacts DEF SoundMaps
    <3>3. /\ Ready(a) \subseteq 1..Len(a.pending)
          /\ Ready(a) \subseteq Nat
      BY <3>2, SeqFacts DEF Ready
    <3>4. i \in Ready(a)
      BY <2>2, <3>3, LeastExists DEF NextCommit
    <3>5. i \in 1..Len(a.pending) /\ a.pending[i] \in Block /\ hasQuorum(a, a.pending[i])
      BY <3>2, <3>3, <3>4, SeqFacts DEF Ready
    <3> HIDE DEF i, a
    <3>6. /\ d \in SoundMaps
          /\ \A b \in InSeq(d.pending) : b \in InSeq(a.pending)
          /\ \A b \in Stored(d) : b \in Stored(a)
          /\ Len(a.committed) <= CommittedCap => Len(d.committed) <= CommittedCap
          /\ NoNewVotes(a, d)
      BY <3>1, <3>5, Promoted
    <3> HIDE DEF d
    <3>7. d \in Within(m)
      BY <3>1, <3>6 DEF Within, NoNewVotes
    <3>8. Append(e.done, a.pending[i]) \in Seq(Quorate(m))
      <4>1. a.pending[i] \in Quorate(m)
        BY <3>1, <3>5 DEF Quorate
      <4> QED
        BY <3>1, <4>1
    <3>9. next(e) = [maps |-> d, done |-> Append(e.done, a.pending[i])]
      BY <2>2 DEF d, i, a
    <3> HIDE DEF next
    <3> QED
      BY <3>7, <3>8, <3>9
  <2> QED
    BY <2>1, <2>2
<1> HIDE DEF next, start, S
<1>3. s \in [S -> S]
  BY <1>2
<1>4. PICK f \in [Nat -> S] : f[0] = start /\ \A k \in Nat : f[k + 1] = s[f[k]]
  <2> HIDE DEF s
  <2>1. Orbit(S, s, start) # {}
    BY <1>1, <1>3, Iterate
  <2> QED
    BY <2>1 DEF Orbit
<1>5. \A k \in Nat : f[k + 1] = next(f[k])
  BY <1>4
<1>6. f = body(f)
  <2>1. ASSUME NEW k \in Nat PROVE f[k] = IF k = 0 THEN start ELSE next(f[k - 1])
    <3>1. CASE k = 0
      BY <1>4, <3>1
    <3>2. CASE k # 0
      <4>1. k - 1 \in Nat /\ (k - 1) + 1 = k
        BY <3>2
      <4>2. f[(k - 1) + 1] = next(f[k - 1])
        BY <1>5, <4>1
      <4> QED
        BY <3>2, <4>1, <4>2
    <3> QED
      BY <3>1, <3>2
  <2> QED
    BY <2>1
<1>7. batch = body(batch)
  BY <1>6
<1>8. tryCommitBatch(m, budget) = batch[budget]
  BY DEF tryCommitBatch, next, start
<1> HIDE DEF batch
<1> DEFINE T == {k \in Nat : batch[k] \in S}
<1>9. T = Nat
  <2>1. T \subseteq Nat
    OBVIOUS
  <2>2. 0 \in T
    BY <1>1, <1>7
  <2>3. ASSUME NEW k \in T PROVE k + 1 \in T
    <3>1. k + 1 \in Nat /\ k + 1 # 0 /\ (k + 1) - 1 = k /\ batch[k] \in S
      OBVIOUS
    <3>2. batch[k + 1] = next(batch[k])
      BY <1>7, <3>1
    <3> QED
      BY <1>2, <3>1, <3>2
  <2> QED
    <3> HIDE DEF T
    <3> QED
      BY <2>1, <2>2, <2>3, SetInduction
<1>10. batch[budget] \in S
  BY <1>9
<1> QED
  BY <1>8, <1>10 DEF S

----------------------------------------------------------------------------
(* Sums of stake.  StakeOf adds along a chain of subsets of Validator,     *)
(* each without the element Pick of the one before.                        *)

Pick(s) == CHOOSE x \in s : TRUE

LEMMA SubsetFacts ==
    ASSUME NEW s \in SUBSET Validator
    PROVE  /\ Cardinality(s) \in Nat
           /\ Cardinality(s) <= Cardinality(Validator)
           /\ s # {} => /\ Pick(s) \in Validator
                        /\ s \ {Pick(s)} \in SUBSET Validator
                        /\ Cardinality(s \ {Pick(s)}) = Cardinality(s) - 1
<1>1. IsFiniteSet(Validator)
  BY IngressAssumption
<1>2. IsFiniteSet(s) /\ Cardinality(s) <= Cardinality(Validator)
  BY <1>1, FS_Subset
<1>3. Cardinality(s) \in Nat
  BY <1>2, FS_CardinalityType
<1>4. ASSUME s # {}
      PROVE  /\ Pick(s) \in s
             /\ Cardinality(s \ {Pick(s)}) = Cardinality(s) - 1
  <2>1. Pick(s) \in s
    BY <1>4 DEF Pick
  <2> QED
    BY <1>2, <2>1, FS_RemoveElement
<1> QED
  BY <1>2, <1>3, <1>4

LEMMA SumExists ==
    ASSUME NEW w \in [Validator -> Nat]
    PROVE  \E sum \in [SUBSET Validator -> Nat] :
               /\ StakeOf(w) = sum[Validator]
               /\ sum[{}] = 0
               /\ \A s \in SUBSET Validator :
                      s # {} => sum[s] = w[Pick(s)] + sum[s \ {Pick(s)}]
<1> DEFINE V == SUBSET Validator
           Q == [V -> Nat]
           step(g) == [s \in V |-> IF s = {} THEN 0 ELSE w[Pick(s)] + g[s \ {Pick(s)}]]
           next == [g \in Q |-> step(g)]
           zero == [s \in V |-> 0]
           sum == CHOOSE g : g = step(g)
<1>0. /\ \A s \in V : Cardinality(s) \in Nat /\ Cardinality(s) <= Cardinality(Validator)
      /\ \A s \in V : s # {} => /\ Pick(s) \in Validator
                                /\ s \ {Pick(s)} \in V
                                /\ Cardinality(s \ {Pick(s)}) = Cardinality(s) - 1
      /\ Validator \in V /\ {} \in V
  BY SubsetFacts
<1> HIDE DEF V
<1>1. ASSUME NEW g \in Q PROVE step(g) \in Q
  <2>1. ASSUME NEW s \in V
        PROVE  (IF s = {} THEN 0 ELSE w[Pick(s)] + g[s \ {Pick(s)}]) \in Nat
    <3>1. CASE s = {}
      BY <3>1
    <3>2. CASE s # {}
      <4>1. w[Pick(s)] \in Nat /\ g[s \ {Pick(s)}] \in Nat
        BY <1>0, <3>2
      <4> QED
        BY <3>2, <4>1
    <3> QED
      BY <3>1, <3>2
  <2> QED
    BY <2>1
<1>2. next \in [Q -> Q] /\ zero \in Q
  <2> HIDE DEF step
  <2>1. next \in [Q -> Q]
    BY <1>1
  <2>2. zero \in Q
    OBVIOUS
  <2> QED
    BY <2>1, <2>2
<1> HIDE DEF Q
<1>3. PICK f \in [Nat -> Q] : f[0] = zero /\ \A k \in Nat : f[k + 1] = next[f[k]]
  <2> HIDE DEF next, zero
  <2>1. Orbit(Q, next, zero) # {}
    BY <1>2, Iterate
  <2> QED
    BY <2>1 DEF Orbit
<1>4. ASSUME NEW k \in Nat PROVE f[k + 1] = step(f[k]) /\ f[k] \in Q
  BY <1>3
<1> DEFINE T == {n \in Nat : \A s \in V : Cardinality(s) < n => f[n + 1][s] = f[n][s]}
<1>5. T = Nat
  <2>1. T \subseteq Nat
    OBVIOUS
  <2>2. 0 \in T
    BY <1>0
  <2>3. ASSUME NEW n \in T PROVE n + 1 \in T
    <3> SUFFICES ASSUME NEW s \in V, Cardinality(s) < n + 1
                 PROVE  f[(n + 1) + 1][s] = f[n + 1][s]
      OBVIOUS
    <3>1. n \in Nat /\ n + 1 \in Nat
      OBVIOUS
    <3>2. f[(n + 1) + 1] = step(f[n + 1]) /\ f[n + 1] = step(f[n])
      BY <1>4, <3>1
    <3>3. CASE s = {}
      BY <3>2, <3>3
    <3>4. CASE s # {}
      <4> DEFINE r == s \ {Pick(s)}
      <4>1. r \in V /\ Cardinality(r) < n
        BY <3>1, <3>4, <1>0
      <4>2. f[n + 1][r] = f[n][r]
        BY <4>1
      <4>3. /\ f[(n + 1) + 1][s] = w[Pick(s)] + f[n + 1][r]
            /\ f[n + 1][s] = w[Pick(s)] + f[n][r]
        <5>1. step(f[n + 1])[s] = w[Pick(s)] + f[n + 1][r]
          BY <3>4
        <5>2. step(f[n])[s] = w[Pick(s)] + f[n][r]
          BY <3>4
        <5> HIDE DEF step
        <5> QED
          BY <3>2, <5>1, <5>2
      <4> QED
        BY <4>2, <4>3
    <3> QED
      BY <3>3, <3>4
  <2> QED
    <3> HIDE DEF T
    <3> QED
      BY <2>1, <2>2, <2>3, SetInduction
<1>6. sum = step(sum)
  <2> DEFINE n == Cardinality(Validator) + 1
             h == f[n]
  <2>1. n \in Nat /\ \A s \in V : Cardinality(s) < n
    BY <1>0
  <2> HIDE DEF n
  <2>2. \A s \in V : f[n + 1][s] = f[n][s]
    BY <1>5, <2>1
  <2>3. f[n + 1] = step(h) /\ step(h) \in Q /\ h \in Q
    <3> HIDE DEF step
    <3> QED
      BY <1>1, <1>4, <2>1
  <2>4. step(h) = h
    <3> HIDE DEF step, h
    <3>1. \A s \in V : step(h)[s] = h[s]
      BY <2>2, <2>3 DEF h
    <3> QED
      BY <2>3, <3>1 DEF Q
  <2> HIDE DEF h
  <2> QED
    BY <2>4
<1>7. StakeOf(w) = sum[Validator]
  BY DEF StakeOf, MapThenSumSet, MapThenFoldSet, Pick, V
<1> HIDE DEF sum
<1>8. /\ sum[{}] = 0
      /\ \A s \in V : s # {} => sum[s] = w[Pick(s)] + sum[s \ {Pick(s)}]
      /\ DOMAIN sum = V
      /\ sum = [s \in V |-> sum[s]]
  <2>1. \A s \in V : sum[s] = IF s = {} THEN 0 ELSE w[Pick(s)] + sum[s \ {Pick(s)}]
    BY <1>6
  <2>2. DOMAIN sum = V
    BY <1>6
  <2>3. sum = [s \in V |-> sum[s]]
    BY <1>6
  <2>4. sum[{}] = 0
    BY <1>0, <2>1
  <2> QED
    BY <2>1, <2>2, <2>3, <2>4
<1> DEFINE U == {n \in Nat : \A s \in V : Cardinality(s) < n => sum[s] \in Nat}
<1>9. U = Nat
  <2>1. U \subseteq Nat
    OBVIOUS
  <2>2. 0 \in U
    BY <1>0
  <2>3. ASSUME NEW n \in U PROVE n + 1 \in U
    <3> SUFFICES ASSUME NEW s \in V, Cardinality(s) < n + 1 PROVE sum[s] \in Nat
      OBVIOUS
    <3>1. CASE s = {}
      BY <1>8, <3>1
    <3>2. CASE s # {}
      <4>1. s \ {Pick(s)} \in V /\ Cardinality(s \ {Pick(s)}) < n /\ Pick(s) \in Validator
        BY <3>2, <1>0
      <4>2. sum[s \ {Pick(s)}] \in Nat /\ w[Pick(s)] \in Nat
        BY <4>1
      <4>3. sum[s] = w[Pick(s)] + sum[s \ {Pick(s)}]
        BY <1>8, <3>2
      <4> QED
        BY <4>2, <4>3
    <3> QED
      BY <3>1, <3>2
  <2> QED
    <3> HIDE DEF U
    <3> QED
      BY <2>1, <2>2, <2>3, SetInduction
<1>10. sum \in [V -> Nat]
  <2>1. ASSUME NEW s \in V PROVE sum[s] \in Nat
    <3>1. Cardinality(s) + 1 \in U /\ Cardinality(s) < Cardinality(s) + 1
      BY <1>9, <1>0
    <3> QED
      BY <3>1
  <2> QED
    BY <1>8, <2>1
<1> QED
  BY <1>7, <1>8, <1>10 DEF V

\* The parts of w add up to the sum of w.
LEMMA SumAdds ==
    ASSUME NEW a \in [Validator -> Nat], NEW b \in [Validator -> Nat],
           NEW w \in [Validator -> Nat],
           \A v \in Validator : a[v] + b[v] = w[v]
    PROVE  /\ StakeOf(a) \in Nat /\ StakeOf(b) \in Nat /\ StakeOf(w) \in Nat
           /\ StakeOf(a) + StakeOf(b) = StakeOf(w)
<1> DEFINE V == SUBSET Validator
<1>0. /\ \A s \in V : Cardinality(s) \in Nat /\ Cardinality(s) <= Cardinality(Validator)
      /\ \A s \in V : s # {} => /\ Pick(s) \in Validator
                                /\ s \ {Pick(s)} \in V
                                /\ Cardinality(s \ {Pick(s)}) = Cardinality(s) - 1
      /\ Validator \in V /\ {} \in V
  BY SubsetFacts
<1>1. PICK A \in [V -> Nat] :
          /\ StakeOf(a) = A[Validator]
          /\ A[{}] = 0
          /\ \A s \in V : s # {} => A[s] = a[Pick(s)] + A[s \ {Pick(s)}]
  BY SumExists
<1>2. PICK B \in [V -> Nat] :
          /\ StakeOf(b) = B[Validator]
          /\ B[{}] = 0
          /\ \A s \in V : s # {} => B[s] = b[Pick(s)] + B[s \ {Pick(s)}]
  BY SumExists
<1>3. PICK W \in [V -> Nat] :
          /\ StakeOf(w) = W[Validator]
          /\ W[{}] = 0
          /\ \A s \in V : s # {} => W[s] = w[Pick(s)] + W[s \ {Pick(s)}]
  BY SumExists
<1> HIDE DEF V
<1> DEFINE T == {n \in Nat : \A s \in V : Cardinality(s) < n => A[s] + B[s] = W[s]}
<1>4. T = Nat
  <2>1. T \subseteq Nat
    OBVIOUS
  <2>2. 0 \in T
    BY <1>0
  <2>3. ASSUME NEW n \in T PROVE n + 1 \in T
    <3> SUFFICES ASSUME NEW s \in V, Cardinality(s) < n + 1 PROVE A[s] + B[s] = W[s]
      OBVIOUS
    <3>1. CASE s = {}
      BY <1>1, <1>2, <1>3, <3>1
    <3>2. CASE s # {}
      <4> DEFINE r == s \ {Pick(s)}
                 x == Pick(s)
      <4>1. r \in V /\ Cardinality(r) < n /\ x \in Validator
        <5>1. r \in V /\ Cardinality(r) = Cardinality(s) - 1 /\ x \in Validator
          BY <1>0, <3>2
        <5>2. Cardinality(s) \in Nat
          BY <1>0
        <5> HIDE DEF r
        <5> QED
          BY <5>1, <5>2
      <4>2. A[s] = a[x] + A[r] /\ B[s] = b[x] + B[r] /\ W[s] = w[x] + W[r]
        BY <1>1, <1>2, <1>3, <3>2
      <4>3. A[r] + B[r] = W[r]
        BY <4>1
      <4>4. /\ A[r] \in Nat /\ B[r] \in Nat /\ W[r] \in Nat
            /\ a[x] \in Nat /\ b[x] \in Nat /\ w[x] \in Nat
            /\ a[x] + b[x] = w[x]
        BY <4>1
      <4> HIDE DEF r, x
      <4> QED
        BY <4>2, <4>3, <4>4
    <3> QED
      BY <3>1, <3>2
  <2> QED
    <3> HIDE DEF T
    <3> QED
      BY <2>1, <2>2, <2>3, SetInduction
<1>6. Cardinality(Validator) + 1 \in T /\ Cardinality(Validator) < Cardinality(Validator) + 1
  BY <1>0, <1>4
<1>7. A[Validator] + B[Validator] = W[Validator]
  BY <1>0, <1>6
<1> QED
  BY <1>0, <1>1, <1>2, <1>3, <1>7

\* More weight gives no smaller sum.
LEMMA SumGrows ==
    ASSUME NEW a \in [Validator -> Nat], NEW w \in [Validator -> Nat],
           \A v \in Validator : a[v] <= w[v]
    PROVE  StakeOf(a) \in Nat /\ StakeOf(w) \in Nat /\ StakeOf(a) <= StakeOf(w)
<1> DEFINE b == [v \in Validator |-> w[v] - a[v]]
<1>1. b \in [Validator -> Nat] /\ \A v \in Validator : a[v] + b[v] = w[v]
  OBVIOUS
<1> HIDE DEF b
<1>2. /\ StakeOf(a) \in Nat /\ StakeOf(b) \in Nat /\ StakeOf(w) \in Nat
      /\ StakeOf(a) + StakeOf(b) = StakeOf(w)
  BY <1>1, SumAdds
<1> QED
  BY <1>2
=============================================================================
