------------------------------ MODULE BlsProofs ------------------------------
(***************************************************************************)
(* Theorems about how blst aggregates: about PairingContext, for every     *)
(* order, batch size, set of points, scalars and hashes, and any sequence  *)
(* of calls; and about UniquenessTree, for any set of messages and any     *)
(* sequence of insertions.                                                 *)
(***************************************************************************)
EXTENDS PairingContext, UniquenessTree, FiniteSetTheorems, SequenceTheorems,
        WellFoundedInduction, TLAPS

----------------------------------------------------------------------------
(* Sums and products modulo the order.                                     *)

Plus(a, b) == (a + b) % GroupSize

\* What a residue is.
LEMMA ResidueFacts ==
    ASSUME NEW n \in Nat
    PROVE  /\ n % GroupSize \in Multiples /\ n \div GroupSize \in Nat
           /\ n = GroupSize * (n \div GroupSize) + (n % GroupSize)
<1>1. GroupSize \in Nat /\ GroupSize > 0
  BY PairingContextAssumption
<1>2. n % GroupSize \in 0 .. GroupSize - 1
  BY <1>1
<1>3. n \div GroupSize \in Nat
  BY <1>1
<1>4. n = GroupSize * (n \div GroupSize) + (n % GroupSize)
  BY <1>1
<1> QED
  BY <1>2, <1>3, <1>4 DEF Multiples

\* There is only one.
LEMMA ResidueUnique ==
    ASSUME NEW q \in Nat, NEW r \in Multiples
    PROVE  (GroupSize * q + r) % GroupSize = r
<1> DEFINE n == GroupSize * q + r
           p == n \div GroupSize
           s == n % GroupSize
<1>0. GroupSize \in Nat /\ GroupSize > 0 /\ r \in Nat /\ r < GroupSize
  BY PairingContextAssumption DEF Multiples
<1>1. GroupSize * q \in Nat
  BY <1>0
<1>2. n \in Nat
  BY <1>0, <1>1
<1>3. p \in Nat /\ s \in Nat /\ s < GroupSize /\ n = GroupSize * p + s
  <2> HIDE DEF n
  <2> QED
    BY <1>0, <1>2, ResidueFacts DEF Multiples
<1> HIDE DEF p, s
<1>4. ASSUME NEW a \in Nat, NEW b \in Nat, a < b PROVE GroupSize * a + GroupSize <= GroupSize * b
  <2>1. PICK d \in Nat : b = a + 1 + d
    <3>1. b - a - 1 \in Nat /\ b = a + 1 + (b - a - 1)
      BY <1>4
    <3> QED
      BY <3>1
  <2>2. GroupSize * b = GroupSize * a + GroupSize + GroupSize * d
    BY <1>0, <2>1
  <2>3. GroupSize * d \in Nat /\ GroupSize * a \in Nat
    BY <1>0
  <2> QED
    BY <1>0, <2>2, <2>3
<1>5. GroupSize * p \in Nat
  BY <1>0, <1>3
<1>6. ~(p < q)
  BY <1>0, <1>1, <1>3, <1>4, <1>5
<1>7. ~(q < p)
  BY <1>0, <1>1, <1>3, <1>4, <1>5
<1>8. p = q
  BY <1>3, <1>6, <1>7
<1> QED
  BY <1>0, <1>1, <1>3, <1>8 DEF s

\* Whole orders do not matter.
LEMMA ResidueOfSum ==
    ASSUME NEW q \in Nat, NEW n \in Nat
    PROVE  (GroupSize * q + n) % GroupSize = n % GroupSize
<1>0. GroupSize \in Nat
  BY PairingContextAssumption
<1> DEFINE d == n \div GroupSize
           r == n % GroupSize
<1>2. d \in Nat /\ r \in Multiples /\ n = GroupSize * d + r
  BY ResidueFacts
<1> HIDE DEF d, r
<1>3. GroupSize * q + n = GroupSize * (q + d) + r /\ q + d \in Nat
  BY <1>0, <1>2 DEF Multiples
<1>4. (GroupSize * (q + d) + r) % GroupSize = r
  BY <1>2, <1>3, ResidueUnique
<1> QED
  BY <1>3, <1>4 DEF r

\* Adding multiples is adding in a group.
LEMMA PlusFacts ==
    ASSUME NEW a \in Multiples, NEW b \in Multiples
    PROVE  /\ Plus(a, b) \in Multiples /\ Plus(a, b) = Plus(b, a)
           /\ Plus(a, b) = IF a + b < GroupSize THEN a + b ELSE a + b - GroupSize
           /\ 0 \in Multiples /\ Plus(a, 0) = a /\ Plus(0, a) = a
<1>0. /\ GroupSize \in Nat /\ GroupSize > 0 /\ a \in Nat /\ b \in Nat
      /\ a < GroupSize /\ b < GroupSize /\ 0 \in Multiples
  BY PairingContextAssumption DEF Multiples
<1>1. Plus(a, b) \in Multiples
  <2>1. a + b \in Nat
    BY <1>0
  <2> QED
    BY <2>1, ResidueFacts DEF Plus
<1>2. ASSUME NEW x \in Multiples, NEW y \in Multiples
      PROVE  Plus(x, y) = IF x + y < GroupSize THEN x + y ELSE x + y - GroupSize
  <2>0. x \in Nat /\ y \in Nat /\ x < GroupSize /\ y < GroupSize
    BY <1>0 DEF Multiples
  <2>1. CASE x + y < GroupSize
    <3>1. x + y \in Multiples /\ GroupSize * 0 + (x + y) = x + y
      BY <1>0, <2>0, <2>1 DEF Multiples
    <3>2. (GroupSize * 0 + (x + y)) % GroupSize = x + y
      BY <3>1, ResidueUnique
    <3> QED
      BY <2>1, <3>1, <3>2 DEF Plus
  <2>2. CASE ~(x + y < GroupSize)
    <3>1. /\ x + y - GroupSize \in Multiples
          /\ GroupSize * 1 + (x + y - GroupSize) = x + y
      BY <1>0, <2>0, <2>2 DEF Multiples
    <3>2. (GroupSize * 1 + (x + y - GroupSize)) % GroupSize = x + y - GroupSize
      BY <3>1, ResidueUnique
    <3> QED
      BY <2>2, <3>1, <3>2 DEF Plus
  <2> QED
    BY <2>1, <2>2
<1>3. Plus(a, 0) = a /\ Plus(0, a) = a
  BY <1>0, <1>2
<1>4. Plus(a, b) = Plus(b, a)
  BY <1>0 DEF Plus
<1> QED
  BY <1>0, <1>1, <1>2, <1>3, <1>4

LEMMA PlusAssociative ==
    ASSUME NEW a \in Multiples, NEW b \in Multiples, NEW c \in Multiples
    PROVE  Plus(Plus(a, b), c) = Plus(a, Plus(b, c))
<1>1. Plus(a, b) \in Multiples /\ Plus(b, c) \in Multiples
  BY PlusFacts
<1>2. /\ Plus(a, b) = IF a + b < GroupSize THEN a + b ELSE a + b - GroupSize
      /\ Plus(b, c) = IF b + c < GroupSize THEN b + c ELSE b + c - GroupSize
  BY PlusFacts
<1>3. Plus(Plus(a, b), c) = IF Plus(a, b) + c < GroupSize THEN Plus(a, b) + c
                            ELSE Plus(a, b) + c - GroupSize
  BY <1>1, PlusFacts
<1>4. Plus(a, Plus(b, c)) = IF a + Plus(b, c) < GroupSize THEN a + Plus(b, c)
                            ELSE a + Plus(b, c) - GroupSize
  BY <1>1, PlusFacts
<1>5. /\ GroupSize \in Nat /\ a \in Nat /\ b \in Nat /\ c \in Nat
      /\ a < GroupSize /\ b < GroupSize /\ c < GroupSize
  BY PairingContextAssumption DEF Multiples
<1> QED
  BY <1>2, <1>3, <1>4, <1>5

\* A product of multiples is a multiple, whichever factor is reduced first.
LEMMA TimesFacts ==
    ASSUME NEW a \in Nat, NEW b \in Nat
    PROVE  /\ TimesModulo(a, b) \in Multiples /\ TimesModulo(a, b) = TimesModulo(b, a)
           /\ TimesModulo(a % GroupSize, b) = TimesModulo(a, b)
<1>0. GroupSize \in Nat
  BY PairingContextAssumption
<1>1. a * b \in Nat /\ a * b = b * a
  OBVIOUS
<1>2. TimesModulo(a, b) \in Multiples /\ TimesModulo(a, b) = TimesModulo(b, a)
  BY <1>1, ResidueFacts DEF TimesModulo
<1>3. TimesModulo(a % GroupSize, b) = TimesModulo(a, b)
  <2> DEFINE d == a \div GroupSize
             r == a % GroupSize
  <2>1. d \in Nat /\ r \in Nat /\ a = GroupSize * d + r
    BY <1>0, ResidueFacts DEF Multiples
  <2> HIDE DEF d, r
  <2>2. a * b = GroupSize * (d * b) + r * b
    BY <1>0, <2>1
  <2>3. d * b \in Nat /\ r * b \in Nat
    BY <2>1
  <2>4. (GroupSize * (d * b) + r * b) % GroupSize = (r * b) % GroupSize
    BY <2>3, ResidueOfSum
  <2>5. TimesModulo(r, b) = TimesModulo(a, b)
    BY <2>2, <2>4 DEF TimesModulo
  <2> QED
    BY <2>5 DEF r
<1> QED
  BY <1>2, <1>3

----------------------------------------------------------------------------
(* The product of a sequence of pairs.                                     *)

LEMMA SetInduction ==
    ASSUME NEW T, T \subseteq Nat, 0 \in T, \A n \in T : n + 1 \in T
    PROVE  T = Nat
<1>1. SUFFICES ASSUME Nat \ T # {} PROVE FALSE
  OBVIOUS
<1>2. PICK x \in Nat \ T : \A y \in Nat \ T : ~(<<y, x>> \in OpToRel(<, Nat))
  <2>1. Nat \ T \subseteq Nat
    OBVIOUS
  <2> QED
    BY <1>1, <2>1, NatLessThanWellFounded, WFMin
<1>3. \A y \in Nat \ T : ~(y < x)
  BY <1>2 DEF OpToRel
<1>4. x # 0 /\ x - 1 \in Nat /\ x - 1 < x /\ (x - 1) + 1 = x
  OBVIOUS
<1>5. x - 1 \in T
  BY <1>3, <1>4
<1> QED
  BY <1>4, <1>5

Gt == Multiples \cup {ZeroProduct}

Pair == Multiples \X Multiples

\* Zero swallows; the rest is the group of multiples.
LEMMA GtFacts ==
    /\ ZeroProduct \notin Multiples
    /\ \A a, b \in Multiples : GtMul(a, b) = Plus(a, b) /\ GtMul(a, b) \in Multiples
    /\ \A a \in Gt : /\ GtMul(a, ZeroProduct) = ZeroProduct
                     /\ GtMul(ZeroProduct, a) = ZeroProduct
                     /\ GtMul(0, a) = a
<1>1. ZeroProduct \notin Multiples
  BY PairingContextAssumption DEF Multiples
<1>2. ASSUME NEW a \in Multiples, NEW b \in Multiples
      PROVE  GtMul(a, b) = Plus(a, b) /\ GtMul(a, b) \in Multiples
  <2>1. a # ZeroProduct /\ b # ZeroProduct
    BY <1>1
  <2>2. GtMul(a, b) = Plus(a, b)
    BY <2>1 DEF GtMul, Plus
  <2> QED
    BY <2>2, PlusFacts
<1>3. ASSUME NEW a \in Gt
      PROVE  /\ GtMul(a, ZeroProduct) = ZeroProduct
             /\ GtMul(ZeroProduct, a) = ZeroProduct
             /\ GtMul(0, a) = a
  <2>1. GtMul(a, ZeroProduct) = ZeroProduct /\ GtMul(ZeroProduct, a) = ZeroProduct
    BY DEF GtMul
  <2>2. CASE a = ZeroProduct
    BY <2>1, <2>2 DEF GtMul
  <2>3. CASE a \in Multiples
    <3>1. 0 \in Multiples /\ Plus(0, a) = a
      BY <2>3, PlusFacts
    <3> QED
      BY <1>2, <2>1, <2>3, <3>1
  <2> QED
    BY <2>2, <2>3 DEF Gt
<1> QED
  BY <1>1, <1>2, <1>3

\* f holds the products of the first pairs of s, up to the n-th.
Sums(f, s, n) ==
    /\ f \in [0 .. n -> Multiples] /\ f[0] = 0
    /\ \A k \in 1 .. n : f[k] = GtMul(f[k - 1], TimesModulo(s[k][1], s[k][2]))

LEMMA PairFacts ==
    ASSUME NEW s \in Seq(Pair), NEW k \in 1 .. Len(s)
    PROVE  /\ s[k] \in Pair /\ s[k][1] \in Multiples /\ s[k][2] \in Multiples
           /\ TimesModulo(s[k][1], s[k][2]) \in Multiples
<1>1. s[k] \in Pair
  OBVIOUS
<1>2. s[k][1] \in Multiples /\ s[k][2] \in Multiples
  BY <1>1 DEF Pair
<1>3. s[k][1] \in Nat /\ s[k][2] \in Nat
  BY <1>2, PairingContextAssumption DEF Multiples
<1> QED
  BY <1>1, <1>2, <1>3, TimesFacts

LEMMA SumsExist ==
    ASSUME NEW s \in Seq(Pair)
    PROVE  \E f : Sums(f, s, Len(s))
<1> DEFINE T == {n \in Nat : n <= Len(s) => \E f : Sums(f, s, n)}
<1>1. 0 \in T
  <2> DEFINE f == [k \in 0 .. 0 |-> 0]
  <2>1. f \in [0 .. 0 -> Multiples] /\ f[0] = 0
    BY PairingContextAssumption DEF Multiples
  <2>2. Sums(f, s, 0)
    <3> HIDE DEF f
    <3> QED
      BY <2>1 DEF Sums
  <2> QED
    BY <2>2
<1>2. ASSUME NEW n \in T PROVE n + 1 \in T
  <2>0. n \in Nat /\ n + 1 \in Nat
    OBVIOUS
  <2>1. SUFFICES ASSUME n + 1 <= Len(s) PROVE \E g : Sums(g, s, n + 1)
    BY <2>0
  <2>2. PICK f : Sums(f, s, n)
    BY <2>0, <2>1
  <2> DEFINE g == [k \in 0 .. n + 1 |-> IF k = n + 1
                       THEN GtMul(f[n], TimesModulo(s[n + 1][1], s[n + 1][2])) ELSE f[k]]
  <2>3. \A k \in 0 .. n : f[k] \in Multiples
    BY <2>2 DEF Sums
  <2>4. GtMul(f[n], TimesModulo(s[n + 1][1], s[n + 1][2])) \in Multiples
    <3>1. n \in 0 .. n /\ n + 1 \in 1 .. Len(s)
      BY <2>0, <2>1
    <3> QED
      BY <2>3, <3>1, PairFacts, GtFacts
  <2>5. g \in [0 .. n + 1 -> Multiples]
    <3>1. ASSUME NEW k \in 0 .. n + 1 PROVE g[k] \in Multiples
      <4>1. CASE k = n + 1
        BY <2>4, <4>1
      <4>2. CASE k # n + 1
        <5>1. k \in 0 .. n
          BY <2>0, <4>2
        <5> QED
          BY <2>3, <4>2, <5>1
      <4> QED
        BY <4>1, <4>2
    <3> QED
      BY <3>1
  <2>6. \A k \in 0 .. n : g[k] = f[k]
    BY <2>0
  <2>7. g[n + 1] = GtMul(f[n], TimesModulo(s[n + 1][1], s[n + 1][2]))
    BY <2>0
  <2> HIDE DEF g
  <2>8. g[0] = 0
    BY <2>0, <2>2, <2>6 DEF Sums
  <2>9. ASSUME NEW k \in 1 .. n + 1
        PROVE  g[k] = GtMul(g[k - 1], TimesModulo(s[k][1], s[k][2]))
    <3>1. CASE k = n + 1
      <4>1. k - 1 = n /\ n \in 0 .. n
        BY <2>0, <3>1
      <4> QED
        BY <2>6, <2>7, <3>1, <4>1
    <3>2. CASE k # n + 1
      <4>1. k \in 1 .. n /\ k \in 0 .. n /\ k - 1 \in 0 .. n
        BY <2>0, <3>2
      <4> QED
        BY <2>2, <2>6, <4>1 DEF Sums
    <3> QED
      BY <3>1, <3>2
  <2> QED
    BY <2>5, <2>8, <2>9 DEF Sums
<1> HIDE DEF T
<1>3. T = Nat
  <2>1. T \subseteq Nat
    BY DEF T
  <2> QED
    BY <1>1, <1>2, <2>1, SetInduction
<1>4. Len(s) \in T
  BY <1>3
<1> QED
  BY <1>4 DEF T

SamePairs(s, t, n) == \A k \in 1 .. n : s[k] = t[k]

\* The products of the first pairs depend on those only.
LEMMA SumsAgree ==
    ASSUME NEW s, NEW t, NEW f, NEW g, NEW m \in Nat, NEW n \in Nat, m <= n,
           Sums(f, s, m), Sums(g, t, n), SamePairs(s, t, m)
    PROVE  f[m] = g[m]
<1> DEFINE T == {k \in Nat : k <= m => f[k] = g[k]}
<1>1. 0 \in T
  BY DEF Sums
<1>2. ASSUME NEW k \in T PROVE k + 1 \in T
  <2>1. SUFFICES ASSUME k + 1 <= m PROVE f[k + 1] = g[k + 1]
    OBVIOUS
  <2>2. k \in Nat /\ k + 1 \in 1 .. m /\ k + 1 \in 1 .. n /\ (k + 1) - 1 = k /\ f[k] = g[k]
    BY <2>1
  <2> HIDE DEF T
  <2>3. /\ f[k + 1] = GtMul(f[(k + 1) - 1], TimesModulo(s[k + 1][1], s[k + 1][2]))
        /\ g[k + 1] = GtMul(g[(k + 1) - 1], TimesModulo(t[k + 1][1], t[k + 1][2]))
    BY <2>2 DEF Sums
  <2>4. s[k + 1] = t[k + 1]
    BY <2>2 DEF SamePairs
  <2> QED
    BY <2>2, <2>3, <2>4
<1> HIDE DEF T
<1>3. T = Nat
  <2>1. T \subseteq Nat
    BY DEF T
  <2> QED
    BY <1>1, <1>2, <2>1, SetInduction
<1>4. m \in T
  BY <1>3
<1> QED
  BY <1>4 DEF T

\* LoopProduct is the last of these products.
LEMMA ProductOfSums ==
    ASSUME NEW s \in Seq(Pair), NEW f, Sums(f, s, Len(s))
    PROVE  LoopProduct(s) = f[Len(s)]
<1> DEFINE body(h) == [n \in 0 .. Len(s) |-> IF n = 0 THEN 0
                         ELSE GtMul(h[n - 1], TimesModulo(s[n][1], s[n][2]))]
           u == CHOOSE h : h = body(h)
<1>0. Len(s) \in Nat
  OBVIOUS
<1>1. f = body(f)
  <2>1. f \in [0 .. Len(s) -> Multiples]
    BY DEF Sums
  <2>2. ASSUME NEW n \in 0 .. Len(s) PROVE f[n] = body(f)[n]
    <3>1. CASE n = 0
      BY <3>1 DEF Sums
    <3>2. CASE n # 0
      <4>1. n \in 1 .. Len(s)
        BY <1>0, <3>2
      <4> QED
        BY <3>2, <4>1 DEF Sums
    <3> QED
      BY <3>1, <3>2
  <2> QED
    BY <2>1, <2>2
<1>2. u = body(u)
  BY <1>1
<1>3. LoopProduct(s) = u[Len(s)]
  BY DEF LoopProduct
<1> DEFINE T == {k \in Nat : k <= Len(s) => u[k] = f[k]}
<1>4. ASSUME NEW n \in 0 .. Len(s)
      PROVE  u[n] = IF n = 0 THEN 0 ELSE GtMul(u[n - 1], TimesModulo(s[n][1], s[n][2]))
  BY <1>2
<1> HIDE DEF u
<1>5. 0 \in T
  BY <1>0, <1>4 DEF Sums
<1>6. ASSUME NEW k \in T PROVE k + 1 \in T
  <2>1. SUFFICES ASSUME k + 1 <= Len(s) PROVE u[k + 1] = f[k + 1]
    OBVIOUS
  <2>2. /\ k \in Nat /\ k + 1 \in 1 .. Len(s) /\ k + 1 \in 0 .. Len(s) /\ k + 1 # 0
        /\ (k + 1) - 1 = k /\ u[k] = f[k]
    BY <1>0, <2>1
  <2>3. f[k + 1] = GtMul(f[(k + 1) - 1], TimesModulo(s[k + 1][1], s[k + 1][2]))
    BY <2>2 DEF Sums
  <2>4. u[k + 1] = GtMul(u[(k + 1) - 1], TimesModulo(s[k + 1][1], s[k + 1][2]))
    BY <1>4, <2>2
  <2> QED
    BY <2>2, <2>3, <2>4
<1> HIDE DEF T
<1>7. T = Nat
  <2>1. T \subseteq Nat
    BY DEF T
  <2> QED
    BY <1>5, <1>6, <2>1, SetInduction
<1>8. Len(s) \in T
  BY <1>0, <1>7
<1> QED
  BY <1>3, <1>8 DEF T

\* The product of no pair is one (the multiple 0), and a further pair multiplies it.
LEMMA ProductFacts ==
    /\ LoopProduct(<< >>) = 0
    /\ \A s \in Seq(Pair) : LoopProduct(s) \in Multiples
    /\ \A s \in Seq(Pair), x \in Pair :
           LoopProduct(Append(s, x)) = Plus(LoopProduct(s), TimesModulo(x[1], x[2]))
<1>1. LoopProduct(<< >>) = 0
  <2>1. << >> \in Seq(Pair) /\ Len(<< >>) = 0
    OBVIOUS
  <2>2. PICK f : Sums(f, << >>, Len(<< >>))
    BY <2>1, SumsExist
  <2>3. LoopProduct(<< >>) = f[Len(<< >>)]
    BY <2>1, <2>2, ProductOfSums
  <2> QED
    BY <2>1, <2>2, <2>3 DEF Sums
<1>2. ASSUME NEW s \in Seq(Pair) PROVE LoopProduct(s) \in Multiples
  <2>1. PICK f : Sums(f, s, Len(s))
    BY SumsExist
  <2>2. LoopProduct(s) = f[Len(s)] /\ Len(s) \in 0 .. Len(s)
    BY <2>1, ProductOfSums
  <2> QED
    BY <2>1, <2>2 DEF Sums
<1>3. ASSUME NEW s \in Seq(Pair), NEW x \in Pair
      PROVE  LoopProduct(Append(s, x)) = Plus(LoopProduct(s), TimesModulo(x[1], x[2]))
  <2> DEFINE t == Append(s, x)
             n == Len(s)
  <2>1. /\ t \in Seq(Pair) /\ Len(t) = n + 1 /\ n \in Nat /\ t[n + 1] = x
        /\ \A k \in 1 .. n : s[k] = t[k]
    OBVIOUS
  <2> HIDE DEF t
  <2>2. PICK f : Sums(f, s, n)
    BY SumsExist
  <2>3. PICK g : Sums(g, t, n + 1)
    BY <2>1, SumsExist
  <2>4. f[n] = g[n]
    <3> DEFINE m == n + 1
    <3>1. n <= m /\ m \in Nat /\ n \in Nat /\ Sums(g, t, m) /\ Sums(f, s, n)
      BY <2>1, <2>2, <2>3
    <3>2. SamePairs(s, t, n)
      BY <2>1 DEF SamePairs
    <3> HIDE DEF n, m
    <3> QED
      BY <3>1, <3>2, SumsAgree
  <2>5. LoopProduct(s) = f[n] /\ LoopProduct(t) = g[n + 1]
    BY <2>1, <2>2, <2>3, ProductOfSums
  <2>6. g[n + 1] = GtMul(g[(n + 1) - 1], TimesModulo(t[n + 1][1], t[n + 1][2]))
    <3>1. n + 1 \in 1 .. n + 1
      BY <2>1
    <3> QED
      BY <2>3, <3>1 DEF Sums
  <2>7. (n + 1) - 1 = n /\ n + 1 \in 1 .. Len(t)
    BY <2>1
  <2>8. LoopProduct(s) \in Multiples /\ TimesModulo(x[1], x[2]) \in Multiples
    BY <1>2, <2>1, <2>7, PairFacts
  <2>9. LoopProduct(t) = GtMul(LoopProduct(s), TimesModulo(x[1], x[2]))
    BY <2>1, <2>4, <2>5, <2>6, <2>7
  <2>10. LoopProduct(t) = Plus(LoopProduct(s), TimesModulo(x[1], x[2]))
    BY <2>8, <2>9, GtFacts
  <2> QED
    BY <2>10 DEF t
<1> QED
  BY <1>1, <1>2, <1>3

----------------------------------------------------------------------------
(* What a context holds accounts for what it was given.                    *)

Kinds == {"min_pk", "min_sig"}

Context ==
    [type : SUBSET Kinds, signSet : BOOLEAN, gtSet : BOOLEAN, pending : Seq(Pair),
     GT : Gt, sign : Multiples]

Given == [pairs : Multiples, signatures : Multiples, any : BOOLEAN, infiniteQ : BOOLEAN]

InfiniteQ(s) == \E i \in DOMAIN s : s[i][1] = 0

\* The signatures add up to the sum; a product is set or a pair pending if a pair
\* was given; no zero comes from anywhere but an infinite Q; and without one the
\* product and the pending pairs make the product of all pairs.
Accounts(x, g) ==
    /\ x.sign = g.signatures /\ (x.signSet => x.type # {}) /\ (~x.signSet => x.sign = 0)
    /\ ~x.gtSet => x.GT = 0
    /\ g.any <=> (x.gtSet \/ x.pending # << >>)
    /\ x.GT = ZeroProduct \/ InfiniteQ(x.pending) => g.infiniteQ
    /\ x.GT # ZeroProduct => g.pairs = Plus(x.GT, LoopProduct(x.pending))

LEMMA FreshAccounts == Fresh \in Context /\ NothingGiven \in Given /\ Accounts(Fresh, NothingGiven)
<1>1. 0 \in Multiples /\ 0 # ZeroProduct /\ Plus(0, 0) = 0
  BY PairingContextAssumption, PlusFacts DEF Multiples
<1>2. << >> \in Seq(Pair) /\ ~InfiniteQ(<< >>)
  BY DEF InfiniteQ
<1>3. Fresh \in Context /\ NothingGiven \in Given
  BY <1>1, <1>2 DEF Fresh, NothingGiven, Context, Given, Gt
<1>4. Accounts(Fresh, NothingGiven)
  BY <1>1, <1>2, ProductFacts DEF Fresh, NothingGiven, Accounts
<1> QED
  BY <1>3, <1>4

LEMMA MillerFacts ==
    ASSUME NEW s \in Seq(Pair)
    PROVE  /\ MillerLoop(s) \in Gt
           /\ MillerLoop(s) = ZeroProduct => InfiniteQ(s)
           /\ MillerLoop(s) # ZeroProduct => MillerLoop(s) = LoopProduct(s)
<1>1. LoopProduct(s) \in Multiples /\ LoopProduct(s) # ZeroProduct
  BY ProductFacts, GtFacts
<1> QED
  BY <1>1 DEF MillerLoop, InfiniteQ, Gt

\* Multiplying the pending pairs in changes nothing of the account.
LEMMA MultiplyInKeeps ==
    ASSUME NEW x \in Context, NEW g \in Given, Accounts(x, g), x.pending # << >>
    PROVE  /\ MultiplyIn(x) \in Context /\ Accounts(MultiplyIn(x), g)
           /\ MultiplyIn(x).pending = << >>
<1> DEFINE p == MillerLoop(x.pending)
           y == MultiplyIn(x)
<1>1. x.pending \in Seq(Pair) /\ x.GT \in Gt /\ x.sign \in Multiples /\ x.gtSet \in BOOLEAN
  BY DEF Context
<1>2. p \in Gt /\ (p = ZeroProduct => InfiniteQ(x.pending))
      /\ (p # ZeroProduct => p = LoopProduct(x.pending))
  BY <1>1, MillerFacts
<1> HIDE DEF p
<1>3. ~x.gtSet => x.GT = 0
  BY DEF Accounts
<1>4. /\ y.type = x.type /\ y.signSet = x.signSet /\ y.sign = x.sign
      /\ y.gtSet = TRUE /\ y.pending = << >>
      /\ y.GT = IF x.gtSet THEN GtMul(x.GT, p) ELSE p
      /\ y.GT \in Gt => y \in Context
  <2> DEFINE made == IF x.gtSet THEN GtMul(x.GT, p) ELSE p
  <2>1. y = [x EXCEPT !.GT = made, !.gtSet = TRUE, !.pending = << >>]
    BY DEF MultiplyIn, p
  <2> HIDE DEF y, made
  <2>2. /\ y.type = x.type /\ y.signSet = x.signSet /\ y.sign = x.sign
        /\ y.gtSet = TRUE /\ y.pending = << >> /\ y.GT = made
    BY <2>1 DEF Context
  <2>3. ASSUME made \in Gt PROVE y \in Context
    <3>1. << >> \in Seq(Pair)
      OBVIOUS
    <3> QED
      BY <2>1, <2>3, <3>1 DEF Context
  <2> QED
    BY <2>2, <2>3 DEF made
<1>5. y.GT = GtMul(x.GT, p)
  <2>1. CASE x.gtSet
    BY <1>4, <2>1
  <2>2. CASE ~x.gtSet
    BY <1>2, <1>3, <1>4, <2>2, GtFacts
  <2> QED
    BY <2>1, <2>2
<1>6. /\ y.GT \in Gt
      /\ y.GT = ZeroProduct => x.GT = ZeroProduct \/ p = ZeroProduct
      /\ y.GT # ZeroProduct => /\ x.GT \in Multiples /\ p \in Multiples
                               /\ x.GT # ZeroProduct /\ p # ZeroProduct
                               /\ y.GT = Plus(x.GT, p) /\ y.GT \in Multiples
  BY <1>1, <1>2, <1>5, GtFacts DEF Gt
<1>7. y \in Context
  BY <1>4, <1>6
<1> HIDE DEF y
<1>8. y.GT # ZeroProduct => g.pairs = Plus(y.GT, LoopProduct(y.pending))
  <2>1. SUFFICES ASSUME y.GT # ZeroProduct PROVE g.pairs = Plus(y.GT, LoopProduct(y.pending))
    OBVIOUS
  <2>2. g.pairs = y.GT
    BY <1>2, <1>6, <2>1 DEF Accounts
  <2>3. LoopProduct(y.pending) = 0 /\ Plus(y.GT, 0) = y.GT
    BY <1>4, <1>6, <2>1, ProductFacts, PlusFacts
  <2> QED
    BY <2>2, <2>3
<1>9. y.GT = ZeroProduct \/ InfiniteQ(y.pending) => g.infiniteQ
  <2>1. ~InfiniteQ(y.pending)
    BY <1>4 DEF InfiniteQ
  <2> QED
    BY <1>2, <1>6, <2>1 DEF Accounts
<1>10. g.any
  BY DEF Accounts
<1>11. Accounts(y, g)
  BY <1>4, <1>8, <1>9, <1>10 DEF Accounts
<1> QED
  BY <1>4, <1>7, <1>11 DEF y

\* So does committing them.
LEMMA CommitKeeps ==
    ASSUME NEW x \in Context, NEW g \in Given, Accounts(x, g)
    PROVE  Commit(x) \in Context /\ Accounts(Commit(x), g) /\ Commit(x).pending = << >>
BY MultiplyInKeeps DEF Commit

\* A pair is accounted for at once, and its product whenever it is made.
LEMMA AddPairKeeps ==
    ASSUME NEW x \in Context, NEW g \in Given, Accounts(x, g),
           NEW q \in Multiples, NEW p \in Multiples, NEW h \in Given,
           h.pairs = Plus(g.pairs, TimesModulo(q, p)), h.signatures = g.signatures,
           h.any, g.infiniteQ => h.infiniteQ, q = 0 => h.infiniteQ
    PROVE  AddPair(x, q, p) \in Context /\ Accounts(AddPair(x, q, p), h)
<1> DEFINE y == [x EXCEPT !.pending = Append(@, <<q, p>>)]
           s == x.pending
           t == Append(s, <<q, p>>)
<1>0. s \in Seq(Pair) /\ <<q, p>> \in Pair
  BY DEF Context, Pair
<1>1. /\ t \in Seq(Pair) /\ t # << >> /\ Len(t) = Len(s) + 1 /\ Len(s) \in Nat
      /\ t[Len(s) + 1] = <<q, p>> /\ \A i \in 1 .. Len(s) : t[i] = s[i]
  BY <1>0
<1>2. LoopProduct(t) = Plus(LoopProduct(s), TimesModulo(q, p)) /\ LoopProduct(s) \in Multiples
  BY <1>0, ProductFacts
<1>3. InfiniteQ(t) => InfiniteQ(s) \/ q = 0
  <2>1. SUFFICES ASSUME NEW i \in 1 .. Len(t), t[i][1] = 0 PROVE InfiniteQ(s) \/ q = 0
    BY <1>1 DEF InfiniteQ
  <2>2. CASE i = Len(s) + 1
    BY <1>1, <2>1, <2>2
  <2>3. CASE i # Len(s) + 1
    <3>1. i \in 1 .. Len(s)
      BY <1>1, <2>3
    <3>2. i \in DOMAIN s /\ s[i][1] = 0
      BY <1>0, <1>1, <2>1, <3>1
    <3> QED
      BY <3>2 DEF InfiniteQ
  <2> QED
    BY <2>2, <2>3
<1>4. /\ y \in Context /\ y.pending = t /\ y.type = x.type /\ y.signSet = x.signSet
      /\ y.sign = x.sign /\ y.gtSet = x.gtSet /\ y.GT = x.GT
  <2> HIDE DEF t
  <2>1. y = [x EXCEPT !.pending = t]
    BY DEF t
  <2> QED
    BY <1>1, <2>1 DEF Context
<1> HIDE DEF y, t
<1>5. x.GT # ZeroProduct => h.pairs = Plus(x.GT, LoopProduct(t))
  <2>1. SUFFICES ASSUME x.GT # ZeroProduct PROVE h.pairs = Plus(x.GT, LoopProduct(t))
    OBVIOUS
  <2>2. x.GT \in Multiples /\ g.pairs = Plus(x.GT, LoopProduct(s))
    BY <2>1 DEF Accounts, Context, Gt
  <2>3. TimesModulo(q, p) \in Multiples
    BY PairingContextAssumption, TimesFacts DEF Multiples
  <2> QED
    BY <1>2, <2>2, <2>3, PlusAssociative
<1>6. Accounts(y, h)
  BY <1>1, <1>3, <1>4, <1>5 DEF Accounts
<1>7. AddPair(x, q, p) = IF Len(y.pending) = PendingMax THEN MultiplyIn(y) ELSE y
  BY DEF AddPair, y
<1> QED
  BY <1>1, <1>4, <1>6, <1>7, MultiplyInKeeps

\* A scalar may multiply either side of a pair, and leaves infinity alone.
LEMMA ScaleFacts ==
    ASSUME NEW factor \in Factors \cup {NoArgument}, NEW a \in Multiples, NEW b \in Multiples
    PROVE  /\ Scale(factor, a) \in Multiples /\ Scale(factor, 0) = 0
           /\ TimesModulo(Scale(factor, a), b) = TimesModulo(a, Scale(factor, b))
<1>0. a \in Nat /\ b \in Nat /\ 0 \in Multiples /\ GroupSize \in Nat
  BY PairingContextAssumption DEF Multiples
<1>1. CASE factor = NoArgument
  BY <1>0, <1>1 DEF Scale
<1>2. CASE factor # NoArgument
  <2>1. factor \in Nat
    BY <1>2, PairingContextAssumption
  <2>2. \A x : Scale(factor, x) = TimesModulo(factor, x)
    BY <1>2 DEF Scale
  <2>3. Scale(factor, a) \in Multiples
    BY <1>0, <2>1, <2>2, TimesFacts
  <2>4. Scale(factor, 0) = 0
    <3>1. factor * 0 = GroupSize * 0 + 0
      BY <1>0, <2>1
    <3>2. (GroupSize * 0 + 0) % GroupSize = 0
      BY <1>0, ResidueUnique
    <3> QED
      BY <2>2, <3>1, <3>2 DEF TimesModulo
  <2>5. ASSUME NEW x \in Nat, NEW y \in Nat
        PROVE  TimesModulo(TimesModulo(factor, x), y) = ((factor * x) * y) % GroupSize
    <3>1. factor * x \in Nat
      BY <2>1
    <3>2. TimesModulo((factor * x) % GroupSize, y) = TimesModulo(factor * x, y)
      BY <3>1, TimesFacts
    <3> QED
      BY <3>2 DEF TimesModulo
  <2>6. (factor * a) * b = (factor * b) * a
    BY <1>0, <2>1
  <2>7. TimesModulo(factor, b) \in Nat
    <3>1. TimesModulo(factor, b) \in Multiples
      BY <1>0, <2>1, TimesFacts
    <3> QED
      BY <1>0, <3>1 DEF Multiples
  <2>8. TimesModulo(a, TimesModulo(factor, b)) = TimesModulo(TimesModulo(factor, b), a)
    BY <1>0, <2>7, TimesFacts
  <2>9. TimesModulo(TimesModulo(factor, a), b) = TimesModulo(TimesModulo(factor, b), a)
    BY <1>0, <2>5, <2>6
  <2> QED
    BY <2>2, <2>3, <2>4, <2>8, <2>9
<1> QED
  BY <1>1, <1>2

LEMMA AddSignatureKeeps ==
    ASSUME NEW x \in Context, NEW g \in Given, Accounts(x, g), x.type # {},
           NEW s \in Multiples, NEW h \in Given,
           h.signatures = Plus(g.signatures, s), h.pairs = g.pairs,
           h.any = g.any, h.infiniteQ = g.infiniteQ
    PROVE  AddSignature(x, s) \in Context /\ Accounts(AddSignature(x, s), h)
<1> DEFINE sum == IF x.signSet THEN (x.sign + s) % GroupSize ELSE s
           y == AddSignature(x, s)
<1>1. x.sign \in Multiples /\ x.sign = g.signatures /\ (~x.signSet => x.sign = 0)
  BY DEF Context, Accounts
<1>2. sum = Plus(x.sign, s) /\ sum \in Multiples
  BY <1>1, PlusFacts DEF Plus
<1>3. y = [x EXCEPT !.sign = sum, !.signSet = TRUE]
  BY DEF AddSignature
<1> HIDE DEF y, sum
<1>4. /\ y \in Context /\ y.sign = sum /\ y.signSet = TRUE /\ y.type = x.type
      /\ y.pending = x.pending /\ y.GT = x.GT /\ y.gtSet = x.gtSet
  BY <1>2, <1>3 DEF Context
<1>5. Accounts(y, h)
  BY <1>1, <1>2, <1>4 DEF Accounts
<1> QED
  BY <1>4, <1>5 DEF y

\* What a call of Aggregate gives a context, by the answer.
Taken(g, err, pk, sig, factor, hash) ==
    LET signature == IF err # "AGGR_TYPE_MISMATCH" /\ sig \in Multiples THEN Scale(factor, sig)
                     ELSE 0
        paired == err = "SUCCESS" /\ pk # NoArgument
        pairing == IF paired THEN TimesModulo(Scale(factor, pk), hash) ELSE 0
    IN [pairs |-> Plus(g.pairs, pairing), signatures |-> Plus(g.signatures, signature),
        any |-> g.any \/ paired, infiniteQ |-> g.infiniteQ]

\* Whatever it answers, the context accounts for what was taken.
LEMMA AggregateKeeps ==
    ASSUME NEW x \in Context, NEW g \in Given, Accounts(x, g), NEW type \in Kinds,
           NEW pk \in Multiples \cup {Outside, NoArgument},
           NEW sig \in Multiples \cup {Outside, NoArgument},
           NEW factor \in Factors \cup {NoArgument}, NEW hash \in 1 .. GroupSize - 1
    PROVE  LET answer == Aggregate(x, type, pk, TRUE, sig, TRUE, factor, hash)
               taken == Taken(g, answer.err, pk, sig, factor, hash)
           IN answer.ctx \in Context /\ taken \in Given /\ Accounts(answer.ctx, taken)
<1> DEFINE answer == Aggregate(x, type, pk, TRUE, sig, TRUE, factor, hash)
           taken == Taken(g, answer.err, pk, sig, factor, hash)
           typed == [x EXCEPT !.type = @ \cup {type}]
           signed == IF sig \in {NoArgument, 0} THEN typed
                     ELSE AddSignature(typed, Scale(factor, sig))
           q == IF type = "min_pk" THEN hash ELSE pk
           p == IF type = "min_pk" THEN Scale(factor, pk) ELSE Scale(factor, hash)
           signature == IF sig \in Multiples THEN Scale(factor, sig) ELSE 0
           g1 == [g EXCEPT !.signatures = Plus(@, signature)]
<1>0. /\ NoArgument \notin Multiples /\ Outside \notin Multiples /\ NoArgument # Outside
      /\ 0 \in Multiples /\ hash \in Multiples /\ hash # 0
  BY PairingContextAssumption DEF Multiples
<1>1. /\ g.pairs \in Multiples /\ g.signatures \in Multiples /\ g.any \in BOOLEAN
      /\ g.infiniteQ \in BOOLEAN
  BY DEF Given
<1>2. signature \in Multiples /\ (sig \in {NoArgument, 0} => signature = 0)
  BY <1>0, ScaleFacts
<1>3. /\ g1 \in Given /\ g1.signatures = Plus(g.signatures, signature) /\ g1.pairs = g.pairs
      /\ g1.any = g.any /\ g1.infiniteQ = g.infiniteQ
  <2> HIDE DEF signature
  <2>1. Plus(g.signatures, signature) \in Multiples
    BY <1>1, <1>2, PlusFacts
  <2> QED
    BY <2>1 DEF Given
<1>4. /\ typed \in Context /\ typed.type = x.type \cup {type} /\ typed.signSet = x.signSet
      /\ typed.sign = x.sign /\ typed.pending = x.pending /\ typed.GT = x.GT
      /\ typed.gtSet = x.gtSet
  BY DEF Context
<1> HIDE DEF typed, g1
<1>5. Accounts(typed, g) /\ typed.type # {}
  BY <1>4 DEF Accounts
<1>6. ASSUME sig # Outside PROVE signed \in Context /\ Accounts(signed, g1)
  <2>1. CASE sig \in {NoArgument, 0}
    <3>1. g1.signatures = g.signatures
      BY <1>1, <1>2, <1>3, <2>1, PlusFacts
    <3>2. signed = typed
      BY <2>1
    <3> HIDE DEF signed
    <3> QED
      BY <1>3, <1>4, <1>5, <3>1, <3>2 DEF Accounts
  <2>2. CASE ~(sig \in {NoArgument, 0})
    <3>1. sig \in Multiples
      BY <1>6, <2>2
    <3>2. signature = Scale(factor, sig) /\ signed = AddSignature(typed, signature)
      BY <2>2, <3>1
    <3> HIDE DEF signature, signed
    <3> QED
      BY <1>2, <1>3, <1>4, <1>5, <3>2, AddSignatureKeeps
  <2> QED
    BY <2>1, <2>2
<1>7. answer = IF x.type \ {type} # {} THEN [ctx |-> x, err |-> "AGGR_TYPE_MISMATCH"]
               ELSE IF sig = Outside THEN [ctx |-> typed, err |-> "POINT_NOT_IN_GROUP"]
               ELSE IF pk = NoArgument THEN [ctx |-> signed, err |-> "SUCCESS"]
               ELSE IF pk = 0 THEN [ctx |-> signed, err |-> "PK_IS_INFINITY"]
               ELSE IF pk = Outside THEN [ctx |-> signed, err |-> "POINT_NOT_IN_GROUP"]
               ELSE [ctx |-> AddPair(signed, q, p), err |-> "SUCCESS"]
  BY DEF Aggregate, typed
<1> HIDE DEF answer, signed, signature
<1>8. ASSUME x.type \ {type} # {}
      PROVE  answer.ctx \in Context /\ taken \in Given /\ Accounts(answer.ctx, taken)
  <2>1. answer.ctx = x /\ answer.err = "AGGR_TYPE_MISMATCH"
    BY <1>7, <1>8
  <2>2. taken = [pairs |-> Plus(g.pairs, 0), signatures |-> Plus(g.signatures, 0),
                 any |-> g.any, infiniteQ |-> g.infiniteQ]
    BY <1>1, <2>1 DEF Taken
  <2>3. taken = g
    BY <1>1, <2>2, PlusFacts DEF Given
  <2> QED
    BY <2>1, <2>3
<1>9. ASSUME ~(x.type \ {type} # {}), sig = Outside \/ pk \in {NoArgument, 0, Outside}
      PROVE  answer.ctx \in Context /\ taken \in Given /\ Accounts(answer.ctx, taken)
  <2>1. /\ answer.err # "AGGR_TYPE_MISMATCH" /\ ~(answer.err = "SUCCESS" /\ pk # NoArgument)
        /\ answer.ctx = IF sig = Outside THEN typed ELSE signed
    BY <1>7, <1>9
  <2>2. taken = [pairs |-> Plus(g.pairs, 0), signatures |-> Plus(g.signatures, signature),
                 any |-> g.any, infiniteQ |-> g.infiniteQ]
    BY <1>1, <2>1 DEF Taken, signature
  <2>3. taken = g1
    BY <1>1, <1>3, <2>2, PlusFacts DEF Given, g1
  <2>4. CASE sig = Outside
    <3>1. signature = 0
      BY <1>0, <2>4 DEF signature
    <3>2. g1.signatures = g.signatures
      BY <1>1, <1>3, <3>1, PlusFacts
    <3> QED
      BY <1>3, <1>4, <1>5, <2>1, <2>3, <2>4, <3>2 DEF Accounts
  <2>5. CASE sig # Outside
    BY <1>3, <1>6, <2>1, <2>3, <2>5
  <2> QED
    BY <2>4, <2>5
<1>10. ASSUME ~(x.type \ {type} # {}), sig # Outside, pk \notin {NoArgument, 0, Outside}
       PROVE  answer.ctx \in Context /\ taken \in Given /\ Accounts(answer.ctx, taken)
  <2>1. answer.ctx = AddPair(signed, q, p) /\ answer.err = "SUCCESS"
    BY <1>7, <1>10
  <2>2. pk \in Multiples /\ pk # 0 /\ q \in Multiples /\ q # 0 /\ p \in Multiples
    BY <1>0, <1>10, ScaleFacts
  <2>3. TimesModulo(Scale(factor, pk), hash) = TimesModulo(q, p)
    <3>1. CASE type = "min_pk"
      <4>1. Scale(factor, pk) \in Nat /\ hash \in Nat
        BY <1>0, <2>2, ScaleFacts, PairingContextAssumption DEF Multiples
      <4> QED
        BY <3>1, <4>1, TimesFacts
    <3>2. CASE type # "min_pk"
      BY <1>0, <2>2, <3>2, ScaleFacts
    <3> QED
      BY <3>1, <3>2
  <2> HIDE DEF q, p
  <2>4. TimesModulo(q, p) \in Multiples
    <3>1. q \in Nat /\ p \in Nat
      BY <2>2, PairingContextAssumption DEF Multiples
    <3> QED
      BY <3>1, TimesFacts
  <2>5. Plus(g.pairs, TimesModulo(q, p)) \in Multiples
    BY <1>1, <2>4, PlusFacts
  <2>6. taken = [pairs |-> Plus(g.pairs, TimesModulo(q, p)),
                 signatures |-> Plus(g.signatures, signature),
                 any |-> TRUE, infiniteQ |-> g.infiniteQ]
    BY <1>10, <2>1, <2>3 DEF Taken, signature
  <2> HIDE DEF taken
  <2>7. /\ taken \in Given /\ taken.pairs = Plus(g1.pairs, TimesModulo(q, p))
        /\ taken.signatures = g1.signatures /\ taken.any /\ taken.infiniteQ = g1.infiniteQ
    <3>1. Plus(g.signatures, signature) \in Multiples
      BY <1>1, <1>2, PlusFacts
    <3> QED
      BY <1>1, <1>3, <2>5, <2>6, <3>1 DEF Given
  <2>8. signed \in Context /\ Accounts(signed, g1)
    BY <1>6, <1>10
  <2>9. AddPair(signed, q, p) \in Context /\ Accounts(AddPair(signed, q, p), taken)
    BY <1>3, <2>2, <2>7, <2>8, AddPairKeeps
  <2> QED
    BY <2>1, <2>7, <2>9
<1>11. answer.ctx \in Context /\ taken \in Given /\ Accounts(answer.ctx, taken)
  BY <1>8, <1>9, <1>10
<1> QED
  BY <1>11 DEF answer

\* What two contexts were given together.
Joined(a, b) ==
    [pairs |-> Plus(a.pairs, b.pairs), signatures |-> Plus(a.signatures, b.signatures),
     any |-> a.any \/ b.any, infiniteQ |-> a.infiniteQ \/ b.infiniteQ]

LEMMA MergeKeeps ==
    ASSUME NEW x \in Context, NEW y \in Context, NEW g \in Given, NEW h \in Given,
           Accounts(x, g), Accounts(y, h), Merge(x, y).err = "SUCCESS"
    PROVE  /\ Merge(x, y).ctx \in Context /\ Joined(g, h) \in Given
           /\ Accounts(Merge(x, y).ctx, Joined(g, h))
<1> DEFINE n == Merge(x, y).ctx
           joined == Joined(g, h)
           sign == IF ~y.signSet THEN x.sign
                   ELSE IF x.signSet THEN (x.sign + y.sign) % GroupSize ELSE y.sign
           GT == IF ~y.gtSet THEN x.GT ELSE IF x.gtSet THEN GtMul(x.GT, y.GT) ELSE y.GT
<1>1. x.pending = << >> /\ y.pending = << >>
  BY DEF Merge
<1>2. /\ n.type = x.type \cup y.type /\ n.signSet = (x.signSet \/ y.signSet)
      /\ n.gtSet = (x.gtSet \/ y.gtSet) /\ n.sign = sign /\ n.GT = GT /\ n.pending = << >>
      /\ sign \in Multiples /\ GT \in Gt => n \in Context
  BY <1>1 DEF Merge, Context
<1>3. /\ x.sign \in Multiples /\ y.sign \in Multiples /\ x.GT \in Gt /\ y.GT \in Gt
      /\ x.gtSet \in BOOLEAN /\ y.gtSet \in BOOLEAN /\ x.signSet \in BOOLEAN /\ y.signSet \in BOOLEAN
  BY DEF Context
<1>4. sign = Plus(x.sign, y.sign) /\ sign \in Multiples
  <2>1. (~x.signSet => x.sign = 0) /\ (~y.signSet => y.sign = 0)
    BY DEF Accounts
  <2> QED
    BY <1>3, <2>1, PlusFacts DEF Plus
<1>5. GT = GtMul(x.GT, y.GT) /\ GtMul(x.GT, 0) = x.GT
  <2>1. (~x.gtSet => x.GT = 0) /\ (~y.gtSet => y.GT = 0)
    BY DEF Accounts
  <2>2. GtMul(0, y.GT) = y.GT
    BY <1>3, GtFacts
  <2>3. GtMul(x.GT, 0) = x.GT
    <3>1. CASE x.GT = ZeroProduct
      BY <3>1 DEF GtMul
    <3>2. CASE x.GT \in Multiples
      <4>1. 0 \in Multiples /\ Plus(x.GT, 0) = x.GT
        BY <3>2, PlusFacts
      <4> QED
        BY <3>2, <4>1, GtFacts
    <3> QED
      BY <1>3, <3>1, <3>2 DEF Gt
  <2> QED
    BY <2>1, <2>2, <2>3
<1> HIDE DEF n, sign, GT
<1>6. /\ GT \in Gt /\ (GT = ZeroProduct => x.GT = ZeroProduct \/ y.GT = ZeroProduct)
      /\ GT # ZeroProduct => /\ x.GT \in Multiples /\ x.GT # ZeroProduct
                            /\ y.GT \in Multiples /\ y.GT # ZeroProduct
                            /\ GT = Plus(x.GT, y.GT) /\ GT \in Multiples
  BY <1>3, <1>5, GtFacts DEF Gt
<1>7. LoopProduct(<< >>) = 0 /\ ~InfiniteQ(<< >>)
  BY ProductFacts DEF InfiniteQ
<1>8. /\ joined \in Given /\ joined.pairs = Plus(g.pairs, h.pairs)
      /\ joined.signatures = Plus(g.signatures, h.signatures)
      /\ joined.any = (g.any \/ h.any) /\ joined.infiniteQ = (g.infiniteQ \/ h.infiniteQ)
  <2>1. /\ g.pairs \in Multiples /\ h.pairs \in Multiples
        /\ g.signatures \in Multiples /\ h.signatures \in Multiples
        /\ (g.any \/ h.any) \in BOOLEAN /\ (g.infiniteQ \/ h.infiniteQ) \in BOOLEAN
    BY DEF Given
  <2>2. Plus(g.pairs, h.pairs) \in Multiples /\ Plus(g.signatures, h.signatures) \in Multiples
    BY <2>1, PlusFacts
  <2> QED
    BY <2>1, <2>2 DEF Joined, Given
<1> HIDE DEF joined
<1>9. GT # ZeroProduct => joined.pairs = Plus(GT, LoopProduct(n.pending))
  <2>1. SUFFICES ASSUME GT # ZeroProduct PROVE joined.pairs = Plus(GT, LoopProduct(n.pending))
    OBVIOUS
  <2>2. g.pairs = Plus(x.GT, 0) /\ h.pairs = Plus(y.GT, 0)
    BY <1>1, <1>6, <1>7, <2>1 DEF Accounts
  <2>3. Plus(x.GT, 0) = x.GT /\ Plus(y.GT, 0) = y.GT /\ Plus(GT, 0) = GT
    BY <1>6, <2>1, PlusFacts
  <2> QED
    BY <1>2, <1>6, <1>7, <1>8, <2>1, <2>2, <2>3
<1>10. n.GT = ZeroProduct \/ InfiniteQ(n.pending) => joined.infiniteQ
  BY <1>2, <1>6, <1>7, <1>8 DEF Accounts
<1>11. joined.any <=> (n.gtSet \/ n.pending # << >>)
  BY <1>1, <1>2, <1>8 DEF Accounts
<1>12. /\ n.sign = joined.signatures /\ (n.signSet => n.type # {}) /\ (~n.signSet => n.sign = 0)
       /\ ~n.gtSet => n.GT = 0
  <2>1. n.sign = joined.signatures
    BY <1>2, <1>4, <1>8 DEF Accounts
  <2>2. n.signSet => n.type # {}
    BY <1>2, <1>3 DEF Accounts
  <2>3. ~n.signSet => n.sign = 0
    <3>1. 0 \in Multiples /\ Plus(0, 0) = 0
      BY PairingContextAssumption, PlusFacts DEF Multiples
    <3> QED
      BY <1>2, <1>3, <1>4, <3>1 DEF Accounts
  <2>4. ~n.gtSet => n.GT = 0
    BY <1>2, <1>3, <1>5 DEF Accounts
  <2> QED
    BY <2>1, <2>2, <2>3, <2>4
<1>13. Accounts(n, joined)
  BY <1>2, <1>9, <1>10, <1>11, <1>12 DEF Accounts
<1> QED
  BY <1>2, <1>4, <1>6, <1>8, <1>13 DEF n, joined

\* A context that accounts for what it was given gives the right verdict once
\* nothing is pending.
LEMMA VerdictFollows ==
    ASSUME NEW x \in Context, NEW g \in Given, Accounts(x, g), x.pending = << >>,
           NEW gtsig \in Multiples \cup {NoArgument}
    PROVE  LET answer == FinalVerify(x, gtsig)
               asked == IF gtsig = NoArgument THEN g.signatures ELSE gtsig
               product == g.any /\ g.pairs = asked
           IN /\ answer => product
              /\ product /\ ~g.infiniteQ => answer
<1> DEFINE asked == IF gtsig = NoArgument THEN g.signatures ELSE gtsig
<1>1. LoopProduct(x.pending) = 0
  BY ProductFacts
<1>2. x.GT # ZeroProduct => g.pairs = x.GT
  <2>1. x.GT # ZeroProduct => x.GT \in Multiples
    BY DEF Context, Gt
  <2> QED
    BY <1>1, <2>1, PlusFacts DEF Accounts
<1>3. g.any <=> x.gtSet
  BY DEF Accounts
<1>4. x.GT = ZeroProduct => g.infiniteQ
  BY DEF Accounts
<1>5. (IF gtsig # NoArgument THEN gtsig ELSE IF x.signSet THEN x.sign ELSE 0) = asked
  BY DEF Accounts
<1>6. gtsig # NoArgument \/ (x.signSet => x.type # {})
  BY DEF Accounts
<1>7. FinalVerify(x, gtsig) <=> x.gtSet /\ x.GT # ZeroProduct /\ asked = x.GT
  <2> HIDE DEF asked
  <2> QED
    BY <1>5, <1>6 DEF FinalVerify
<1> QED
  BY <1>2, <1>3, <1>4, <1>7

\* A verification of one signature is a context of its own.
LEMMA LoneVerdictHolds == LoneVerdict
<1> SUFFICES ASSUME NEW type \in Kinds, NEW pk \in Points \cup Multiples,
                    NEW sig \in Points \cup Multiples, NEW hash \in Hashes
             PROVE  CoreVerify(type, pk, sig, hash) = "SUCCESS" <=>
                        /\ pk \in Multiples \ {0} /\ sig \in Multiples
                        /\ sig = TimesModulo(pk, hash)
  BY DEF LoneVerdict, Kinds
<1> DEFINE answer == Aggregate(Fresh, type, pk, TRUE, sig, TRUE, NoArgument, hash)
           taken == Taken(NothingGiven, answer.err, pk, sig, NoArgument, hash)
           end == Commit(answer.ctx)
<1>0. /\ pk \in Multiples \cup {Outside} /\ sig \in Multiples \cup {Outside}
      /\ hash \in 1 .. GroupSize - 1 /\ hash \in Nat /\ NoArgument \notin Multiples
      /\ NoArgument # Outside /\ Outside \notin Multiples /\ 0 \in Multiples
  BY PairingContextAssumption DEF Multiples
<1>1. answer.ctx \in Context /\ taken \in Given /\ Accounts(answer.ctx, taken)
  <2>1. NoArgument \in Factors \cup {NoArgument}
    OBVIOUS
  <2> QED
    BY <1>0, <2>1, FreshAccounts, AggregateKeeps
<1>2. answer.err = "SUCCESS" <=> sig # Outside /\ pk # 0 /\ pk # Outside
  <2>1. Fresh.type \ {type} = {}
    BY DEF Fresh
  <2> QED
    BY <1>0, <2>1 DEF Aggregate
<1>3. CoreVerify(type, pk, sig, hash) = "SUCCESS" <=>
          answer.err = "SUCCESS" /\ FinalVerify(end, NoArgument)
  <2> HIDE DEF answer, end
  <2>1. CoreVerify(type, pk, sig, hash) =
            IF answer.err # "SUCCESS" THEN answer.err
            ELSE IF FinalVerify(end, NoArgument) THEN "SUCCESS" ELSE "VERIFY_FAIL"
    BY DEF CoreVerify, answer, end
  <2> QED
    BY <2>1
<1>4. end \in Context /\ Accounts(end, taken) /\ end.pending = << >>
  BY <1>1, CommitKeeps
<1> HIDE DEF end, answer
<1>5. ASSUME answer.err = "SUCCESS"
      PROVE  FinalVerify(end, NoArgument) <=> sig = TimesModulo(pk, hash)
  <2>1. sig \in Multiples /\ pk \in Multiples /\ pk # NoArgument
    BY <1>0, <1>2, <1>5
  <2>2. TimesModulo(pk, hash) \in Multiples
    <3>1. pk \in Nat
      BY <2>1, PairingContextAssumption DEF Multiples
    <3> QED
      BY <1>0, <3>1, TimesFacts
  <2>3. \A a : Scale(NoArgument, a) = a
    BY DEF Scale
  <2>4. /\ taken.pairs = Plus(0, TimesModulo(pk, hash)) /\ taken.signatures = Plus(0, sig)
        /\ taken.any /\ ~taken.infiniteQ
    BY <1>5, <2>1, <2>3 DEF Taken, NothingGiven
  <2> HIDE DEF taken
  <2>5. taken.pairs = TimesModulo(pk, hash) /\ taken.signatures = sig
    BY <2>1, <2>2, <2>4, PlusFacts
  <2>6. /\ FinalVerify(end, NoArgument) => taken.any /\ taken.pairs = taken.signatures
        /\ taken.any /\ taken.pairs = taken.signatures /\ ~taken.infiniteQ =>
               FinalVerify(end, NoArgument)
    <3>1. NoArgument \in Multiples \cup {NoArgument}
      OBVIOUS
    <3> QED
      BY <1>1, <1>4, <3>1, VerdictFollows
  <2> QED
    BY <2>4, <2>5, <2>6
<1> QED
  BY <1>0, <1>2, <1>3, <1>5

----------------------------------------------------------------------------
(* The calls keep every context's account.                                 *)

ContextInv ==
    /\ contexts \in [Contexts -> Context] /\ given \in [Contexts -> Given]
    /\ \A c \in Contexts : Accounts(contexts[c], given[c])

LEMMA ContextInitInv == ContextInit => ContextInv
BY FreshAccounts DEF ContextInit, ContextInv

LEMMA AggregateStep ==
    ASSUME ContextInv, NEW c \in Contexts, CallAggregate(c)
    PROVE  ContextInv'
<1>1. PICK type \in Kinds, pk \in Points \cup {NoArgument}, sig \in Points \cup {NoArgument},
           factor \in Factors, hash \in Hashes :
        LET answer == Aggregate(contexts[c], type, pk, TRUE, sig, TRUE, factor, hash)
            accepted == answer.err # "AGGR_TYPE_MISMATCH"
            signature == IF accepted /\ sig \in Multiples THEN Scale(factor, sig) ELSE 0
            paired == answer.err = "SUCCESS" /\ pk # NoArgument
            pairing == IF paired THEN TimesModulo(Scale(factor, pk), hash) ELSE 0
        IN /\ Called
           /\ contexts' = [contexts EXCEPT ![c] = answer.ctx]
           /\ given' = [given EXCEPT ![c].signatures = (@ + signature) % GroupSize,
                                     ![c].pairs = (@ + pairing) % GroupSize,
                                     ![c].any = @ \/ paired]
  BY DEF CallAggregate, Kinds
<1> DEFINE answer == Aggregate(contexts[c], type, pk, TRUE, sig, TRUE, factor, hash)
           taken == Taken(given[c], answer.err, pk, sig, factor, hash)
<1>2. /\ contexts[c] \in Context /\ given[c] \in Given /\ Accounts(contexts[c], given[c])
      /\ contexts \in [Contexts -> Context] /\ given \in [Contexts -> Given]
  BY DEF ContextInv
<1>3. answer.ctx \in Context /\ taken \in Given /\ Accounts(answer.ctx, taken)
  <2>1. /\ pk \in Multiples \cup {Outside, NoArgument}
        /\ sig \in Multiples \cup {Outside, NoArgument}
        /\ hash \in 1 .. GroupSize - 1 /\ factor \in Factors \cup {NoArgument}
    BY PairingContextAssumption DEF Multiples
  <2> QED
    BY <1>2, <2>1, AggregateKeeps
<1>4. contexts' = [contexts EXCEPT ![c] = answer.ctx]
  BY <1>1
<1>5. given' = [given EXCEPT ![c] = taken]
  <2> DEFINE signature == IF answer.err # "AGGR_TYPE_MISMATCH" /\ sig \in Multiples
                          THEN Scale(factor, sig) ELSE 0
             paired == answer.err = "SUCCESS" /\ pk # NoArgument
             pairing == IF paired THEN TimesModulo(Scale(factor, pk), hash) ELSE 0
  <2>1. given' = [given EXCEPT ![c].signatures = (@ + signature) % GroupSize,
                               ![c].pairs = (@ + pairing) % GroupSize,
                               ![c].any = @ \/ paired]
    BY <1>1
  <2>2. taken = [pairs |-> (given[c].pairs + pairing) % GroupSize,
                 signatures |-> (given[c].signatures + signature) % GroupSize,
                 any |-> given[c].any \/ paired, infiniteQ |-> given[c].infiniteQ]
    BY DEF Taken, Plus
  <2> HIDE DEF signature, paired, pairing, answer, taken
  <2>4. given' = [given EXCEPT ![c] =
                     [given[c] EXCEPT !.signatures = (@ + signature) % GroupSize,
                                      !.pairs = (@ + pairing) % GroupSize,
                                      !.any = @ \/ paired]]
    BY <1>2, <2>1
  <2>5. [given[c] EXCEPT !.signatures = (@ + signature) % GroupSize,
                         !.pairs = (@ + pairing) % GroupSize, !.any = @ \/ paired] = taken
    <3> DEFINE a == (given[c].signatures + signature) % GroupSize
               b == (given[c].pairs + pairing) % GroupSize
               v == given[c].any \/ paired
    <3>1. a \in Multiples /\ b \in Multiples /\ v \in BOOLEAN
      BY <1>3, <2>2 DEF Given
    <3>2. taken = [pairs |-> b, signatures |-> a, any |-> v, infiniteQ |-> given[c].infiniteQ]
      BY <2>2
    <3> HIDE DEF a, b, v
    <3> DEFINE g == given[c]
               x == [g EXCEPT !.signatures = a, !.pairs = b, !.any = v]
    <3>3. g \in Given /\ taken = [pairs |-> b, signatures |-> a, any |-> v, infiniteQ |-> g.infiniteQ]
      BY <1>2, <3>2
    <3> HIDE DEF a, b, v, g
    <3>4. /\ x \in Given /\ x.signatures = a /\ x.pairs = b /\ x.any = v
          /\ x.infiniteQ = g.infiniteQ
      BY <3>1, <3>3 DEF Given
    <3> HIDE DEF x
    <3>5. x = taken
      BY <3>3, <3>4 DEF Given
    <3> QED
      BY <3>5 DEF x, a, b, v, g
  <2> QED
    BY <2>4, <2>5
<1> HIDE DEF answer, taken
<1>6. ASSUME NEW d \in Contexts PROVE Accounts(contexts'[d], given'[d])
  BY <1>2, <1>3, <1>4, <1>5 DEF ContextInv
<1> QED
  BY <1>2, <1>3, <1>4, <1>5, <1>6 DEF ContextInv

LEMMA RawAggregateStep ==
    ASSUME ContextInv, NEW c \in Contexts, CallRawAggregate(c)
    PROVE  ContextInv'
<1>1. PICK pair \in RawPairs :
        /\ contexts' = [contexts EXCEPT
                ![c] = IF pair = <<0, 0>> THEN @ ELSE AddPair(@, pair[1], pair[2])]
        /\ given' = [given EXCEPT
                ![c].pairs = (@ + TimesModulo(pair[1], pair[2])) % GroupSize,
                ![c].any = @ \/ pair # <<0, 0>>,
                ![c].infiniteQ = @ \/ (pair[1] = 0 /\ pair[2] # 0)]
  BY DEF CallRawAggregate
<1> DEFINE x == contexts[c]
           g == given[c]
           q == pair[1]
           p == pair[2]
           n == IF pair = <<0, 0>> THEN x ELSE AddPair(x, q, p)
           h == [pairs |-> Plus(g.pairs, TimesModulo(q, p)), signatures |-> g.signatures,
                 any |-> g.any \/ pair # <<0, 0>>, infiniteQ |-> g.infiniteQ \/ (q = 0 /\ p # 0)]
<1>2. /\ x \in Context /\ g \in Given /\ Accounts(x, g)
      /\ contexts \in [Contexts -> Context] /\ given \in [Contexts -> Given]
  BY DEF ContextInv
<1>3. q \in Multiples /\ p \in Multiples /\ (q = 0 /\ p = 0 => pair = <<0, 0>>)
  BY PairingContextAssumption DEF Multiples
<1>4. contexts' = [contexts EXCEPT ![c] = n]
  BY <1>1
<1>5. /\ g.pairs \in Multiples /\ g.signatures \in Multiples /\ g.any \in BOOLEAN
      /\ g.infiniteQ \in BOOLEAN
  BY <1>2 DEF Given
<1>6. TimesModulo(q, p) \in Multiples /\ Plus(g.pairs, TimesModulo(q, p)) \in Multiples
  <2>1. q \in Nat /\ p \in Nat
    BY <1>3, PairingContextAssumption DEF Multiples
  <2> QED
    BY <1>5, <2>1, TimesFacts, PlusFacts
<1>7. given' = [given EXCEPT ![c] = h]
  <2> DEFINE any == g.any \/ pair # <<0, 0>>
             infiniteQ == g.infiniteQ \/ (q = 0 /\ p # 0)
             pairs == (g.pairs + TimesModulo(q, p)) % GroupSize
  <2>1. given' = [given EXCEPT ![c].pairs = (@ + TimesModulo(q, p)) % GroupSize,
                               ![c].any = @ \/ pair # <<0, 0>>,
                               ![c].infiniteQ = @ \/ (q = 0 /\ p # 0)]
    BY <1>1
  <2>2. given' = [given EXCEPT ![c] = [g EXCEPT !.pairs = pairs, !.any = any,
                                                !.infiniteQ = infiniteQ]]
    BY <1>2, <2>1
  <2>3. h = [pairs |-> pairs, signatures |-> g.signatures, any |-> any, infiniteQ |-> infiniteQ]
    BY DEF Plus
  <2>4. pairs \in Multiples /\ any \in BOOLEAN /\ infiniteQ \in BOOLEAN
    BY <1>6 DEF Plus
  <2> HIDE DEF pairs, any, infiniteQ, h, g
  <2>5. [g EXCEPT !.pairs = pairs, !.any = any, !.infiniteQ = infiniteQ] = h
    <3> DEFINE y == [g EXCEPT !.pairs = pairs, !.any = any, !.infiniteQ = infiniteQ]
    <3>1. /\ y \in Given /\ y.pairs = pairs /\ y.any = any /\ y.infiniteQ = infiniteQ
          /\ y.signatures = g.signatures
      BY <1>2, <2>4 DEF Given
    <3> HIDE DEF y
    <3>2. y = h
      BY <2>3, <3>1 DEF Given
    <3> QED
      BY <3>2 DEF y
  <2> QED
    BY <2>2, <2>5
<1>8. h \in Given
  BY <1>5, <1>6 DEF Given
<1>9. n \in Context /\ Accounts(n, h)
  <2>1. CASE pair = <<0, 0>>
    <3>1. TimesModulo(q, p) = 0
      <4>1. q = 0 /\ p = 0 /\ 0 \in Multiples
        BY <2>1, <1>3
      <4>2. TimesModulo(0, 0) = Plus(0, 0)
        BY DEF TimesModulo, Plus
      <4> QED
        BY <4>1, <4>2, PlusFacts
    <3>2. h = g
      BY <1>2, <1>5, <2>1, <3>1, PlusFacts DEF Given
    <3>3. n = x
      BY <2>1
    <3> HIDE DEF h, n, x, g
    <3> QED
      BY <1>2, <3>2, <3>3
  <2>2. CASE pair # <<0, 0>>
    <3>1. h.any /\ (g.infiniteQ => h.infiniteQ) /\ (q = 0 => h.infiniteQ)
      BY <1>3, <2>2
    <3>2. h.pairs = Plus(g.pairs, TimesModulo(q, p)) /\ h.signatures = g.signatures
      OBVIOUS
    <3>3. n = AddPair(x, q, p)
      BY <2>2
    <3> HIDE DEF h, n, x, g, q, p
    <3> QED
      BY <1>2, <1>3, <1>8, <3>1, <3>2, <3>3, AddPairKeeps
  <2> QED
    BY <2>1, <2>2
<1> HIDE DEF h, n
<1>10. ASSUME NEW d \in Contexts PROVE Accounts(contexts'[d], given'[d])
  BY <1>2, <1>4, <1>7, <1>9 DEF ContextInv
<1> QED
  BY <1>2, <1>4, <1>7, <1>8, <1>9, <1>10 DEF ContextInv

LEMMA CommitStep ==
    ASSUME ContextInv, NEW c \in Contexts, CallCommit(c)
    PROVE  ContextInv'
<1>1. contexts' = [contexts EXCEPT ![c] = Commit(contexts[c])] /\ given' = given
  BY DEF CallCommit
<1>2. /\ contexts[c] \in Context /\ given[c] \in Given /\ Accounts(contexts[c], given[c])
      /\ contexts \in [Contexts -> Context] /\ given \in [Contexts -> Given]
  BY DEF ContextInv
<1>3. Commit(contexts[c]) \in Context /\ Accounts(Commit(contexts[c]), given[c])
  BY <1>2, CommitKeeps
<1>4. ASSUME NEW d \in Contexts PROVE Accounts(contexts'[d], given'[d])
  BY <1>1, <1>2, <1>3 DEF ContextInv
<1> QED
  BY <1>1, <1>2, <1>3, <1>4 DEF ContextInv

LEMMA MergeStep ==
    ASSUME ContextInv, NEW c \in Contexts, NEW other \in Contexts \ {c}, CallMerge(c, other)
    PROVE  ContextInv'
<1> DEFINE n == Merge(contexts[c], contexts[other]).ctx
           joined == Joined(given[c], given[other])
<1>1. /\ Merge(contexts[c], contexts[other]).err = "SUCCESS"
      /\ contexts' = [contexts EXCEPT ![c] = n, ![other] = Fresh]
      /\ given' = [given EXCEPT ![c] = joined, ![other] = NothingGiven]
  BY DEF CallMerge, Joined, Plus
<1>2. /\ contexts[c] \in Context /\ given[c] \in Given /\ Accounts(contexts[c], given[c])
      /\ contexts[other] \in Context /\ given[other] \in Given
      /\ Accounts(contexts[other], given[other])
      /\ contexts \in [Contexts -> Context] /\ given \in [Contexts -> Given]
  BY DEF ContextInv
<1>3. n \in Context /\ joined \in Given /\ Accounts(n, joined)
  BY <1>1, <1>2, MergeKeeps
<1> HIDE DEF n, joined
<1>4. ASSUME NEW d \in Contexts PROVE Accounts(contexts'[d], given'[d])
  <2>1. CASE d = other
    BY <1>1, <1>2, <2>1, FreshAccounts
  <2>2. CASE d = c /\ d # other
    BY <1>1, <1>2, <1>3, <2>2
  <2>3. CASE d # c /\ d # other
    BY <1>1, <1>2, <2>3 DEF ContextInv
  <2> QED
    BY <2>1, <2>2, <2>3
<1> QED
  BY <1>1, <1>2, <1>3, <1>4, FreshAccounts DEF ContextInv

\* blst_pairing_finalverify answers of a context with nothing pending whether the
\* pairs it was given multiply up to its signatures (or to the signature it is
\* asked about), for every order and batch size, however calls were batched,
\* scaled, refused or merged; and a verification alone succeeds for its signature
\* only.
THEOREM VerdictAlways == ContextSpec => []VerdictIsProduct
<1>1. ContextInv /\ [ContextNext]_contextVars => ContextInv'
  <2> SUFFICES ASSUME ContextInv, [ContextNext]_contextVars PROVE ContextInv'
    OBVIOUS
  <2>1. CASE UNCHANGED contextVars
    BY <2>1 DEF contextVars, ContextInv
  <2>2. ASSUME NEW c \in Contexts, CallAggregate(c) PROVE ContextInv'
    BY <2>2, AggregateStep
  <2>3. ASSUME NEW c \in Contexts, CallRawAggregate(c) PROVE ContextInv'
    BY <2>3, RawAggregateStep
  <2>4. ASSUME NEW c \in Contexts, CallCommit(c) PROVE ContextInv'
    BY <2>4, CommitStep
  <2>5. ASSUME NEW c \in Contexts, NEW other \in Contexts \ {c}, CallMerge(c, other)
        PROVE  ContextInv'
    BY <2>5, MergeStep
  <2> QED
    BY <2>1, <2>2, <2>3, <2>4, <2>5 DEF ContextNext
<1>2. ContextInv => VerdictIsProduct
  <2> SUFFICES ASSUME ContextInv PROVE VerdictIsProduct
    OBVIOUS
  <2>1. ASSUME NEW c \in Contexts, contexts[c].pending = << >> PROVE ContextVerdict(c)
    <3>1. contexts[c] \in Context /\ given[c] \in Given /\ Accounts(contexts[c], given[c])
      BY DEF ContextInv
    <3> QED
      BY <2>1, <3>1, VerdictFollows DEF ContextVerdict
  <2> QED
    BY <2>1, LoneVerdictHolds DEF VerdictIsProduct
<1> QED
  BY ContextInitInv, <1>1, <1>2, PTL DEF ContextSpec

----------------------------------------------------------------------------
(* The uniqueness tree (src/rb_tree.c): loops.                             *)

LEMMA LeastExists ==
    ASSUME NEW T \in SUBSET Nat, T # {}
    PROVE  \E n \in T : \A m \in T : n <= m
<1>1. PICK n \in T : \A m \in T : ~(<<m, n>> \in OpToRel(<, Nat))
  BY NatLessThanWellFounded, WFMin
<1>2. \A m \in T : ~(m < n)
  BY <1>1 DEF OpToRel
<1> QED
  BY <1>2

\* g[k] is what applying step k times makes of x.
Iteration(g, S, x, step, n) ==
    /\ g \in [0 .. n -> S]
    /\ g[0] = x
    /\ \A k \in 1 .. n : g[k] = step[g[k - 1]]

\* step can be applied to x any number of times.
LEMMA Iterates ==
    ASSUME NEW S, NEW x \in S, NEW step \in [S -> S], NEW n \in Nat
    PROVE  \E g : Iteration(g, S, x, step, n)
<1> DEFINE Runs(m) == \E g \in [0 .. m -> S] : g[0] = x /\ \A k \in 1 .. m : g[k] = step[g[k - 1]]
           T == {m \in Nat : Runs(m)}
<1>1. 0 \in T
  <2> DEFINE g == [k \in 0 .. 0 |-> x]
  <2>1. g \in [0 .. 0 -> S] /\ g[0] = x /\ 1 .. 0 = {}
    OBVIOUS
  <2> HIDE DEF g
  <2> QED
    BY <2>1
<1>2. ASSUME NEW m \in T PROVE m + 1 \in T
  <2>0. m \in Nat /\ m + 1 \in Nat
    OBVIOUS
  <2>1. PICK f \in [0 .. m -> S] : f[0] = x /\ \A k \in 1 .. m : f[k] = step[f[k - 1]]
    OBVIOUS
  <2> DEFINE g == [k \in 0 .. m + 1 |-> IF k = m + 1 THEN step[f[m]] ELSE f[k]]
  <2>2. f[m] \in S /\ step[f[m]] \in S
    BY <2>0
  <2>3. \A k \in 0 .. m : g[k] = f[k] /\ f[k] \in S
    BY <2>0
  <2>4. g[m + 1] = step[f[m]]
    BY <2>0
  <2>5. g \in [0 .. m + 1 -> S]
    <3>1. ASSUME NEW k \in 0 .. m + 1 PROVE g[k] \in S
      <4>1. k = m + 1 \/ k \in 0 .. m
        BY <2>0
      <4> QED
        BY <2>2, <2>3, <2>4, <4>1
    <3> QED
      BY <3>1
  <2> HIDE DEF g
  <2>6. g[0] = x
    BY <2>0, <2>1, <2>3
  <2>7. ASSUME NEW k \in 1 .. m + 1 PROVE g[k] = step[g[k - 1]]
    <3>1. CASE k = m + 1
      <4>1. k - 1 = m /\ m \in 0 .. m
        BY <2>0, <3>1
      <4> QED
        BY <2>3, <2>4, <3>1, <4>1
    <3>2. CASE k # m + 1
      <4>1. k \in 1 .. m /\ k \in 0 .. m /\ k - 1 \in 0 .. m
        BY <2>0, <3>2
      <4> QED
        BY <2>1, <2>3, <4>1
    <3> QED
      BY <3>1, <3>2
  <2>8. Runs(m + 1)
    BY <2>5, <2>6, <2>7
  <2> QED
    BY <2>0, <2>8
<1>3. T \subseteq Nat
  OBVIOUS
<1> HIDE DEF T
<1>4. T = Nat
  BY <1>1, <1>2, <1>3, SetInduction
<1>5. n \in T
  BY <1>4
<1>6. Runs(n)
  BY <1>5 DEF T
<1> QED
  BY <1>6 DEF Iteration

\* What holds before a loop and after each round that it holds before.
LEMMA HoldsUpTo ==
    ASSUME NEW n \in Nat, NEW T, 0 \in T, \A k \in 0 .. n - 1 : k \in T => k + 1 \in T
    PROVE  \A k \in 0 .. n : k \in T
<1> DEFINE U == {k \in Nat : k <= n => k \in T}
<1>1. 0 \in U
  OBVIOUS
<1>2. ASSUME NEW k \in U PROVE k + 1 \in U
  <2>1. CASE k + 1 <= n
    <3>1. k \in 0 .. n - 1 /\ k \in T
      BY <2>1
    <3> QED
      BY <3>1
  <2>2. CASE ~(k + 1 <= n)
    BY <2>2
  <2> QED
    BY <2>1, <2>2
<1>3. U \subseteq Nat
  OBVIOUS
<1> HIDE DEF U
<1>4. U = Nat
  BY <1>1, <1>2, <1>3, SetInduction
<1> QED
  BY <1>4 DEF U

\* The powers of two.
LEMMA TwoToFacts ==
    /\ TwoTo(0) = 1
    /\ \A n \in Nat : TwoTo(n) \in Nat \ {0} /\ TwoTo(n + 1) = 2 * TwoTo(n)
<1> DEFINE body(n, h) == [k \in 0 .. n |-> IF k = 0 THEN 1 ELSE 2 * h[k - 1]]
           u(n) == CHOOSE h : h = body(n, h)
<1>1. ASSUME NEW n \in Nat
      PROVE  /\ TwoTo(n) = u(n)[n]
             /\ u(n)[0] = 1
             /\ \A k \in 1 .. n : u(n)[k] = 2 * u(n)[k - 1]
  <2> DEFINE step == [a \in Nat |-> 2 * a]
  <2>1. step \in [Nat -> Nat] /\ 1 \in Nat
    OBVIOUS
  <2> HIDE DEF step
  <2>2. PICK g \in [0 .. n -> Nat] : g[0] = 1 /\ \A k \in 1 .. n : g[k] = step[g[k - 1]]
    <3>1. \E g : Iteration(g, Nat, 1, step, n)
      BY <2>1, Iterates
    <3> QED
      BY <3>1 DEF Iteration
  <2>3. g = body(n, g)
    <3>1. ASSUME NEW k \in 0 .. n PROVE g[k] = body(n, g)[k]
      <4>1. CASE k = 0
        BY <2>2, <4>1
      <4>2. CASE k # 0
        <5>1. k \in 1 .. n /\ k - 1 \in 0 .. n
          BY <4>2
        <5> QED
          BY <2>2, <4>2, <5>1 DEF step
      <4> QED
        BY <4>1, <4>2
    <3> QED
      BY <3>1
  <2>4. u(n) = body(n, u(n))
    <3> HIDE DEF body
    <3> QED
      BY <2>3
  <2>5. TwoTo(n) = u(n)[n]
    BY DEF TwoTo
  <2>6. \A k \in 0 .. n : u(n)[k] = IF k = 0 THEN 1 ELSE 2 * u(n)[k - 1]
    <3> DEFINE v == u(n)
    <3>1. v = body(n, v)
      BY <2>4
    <3> HIDE DEF v
    <3>2. \A k \in 0 .. n : v[k] = IF k = 0 THEN 1 ELSE 2 * v[k - 1]
      BY <3>1
    <3> QED
      BY <3>2 DEF v
  <2> HIDE DEF u, body
  <2> QED
    BY <2>5, <2>6
<1> HIDE DEF u
<1>2. ASSUME NEW n \in Nat, NEW m \in Nat, m <= n PROVE u(n)[m] = u(m)[m] /\ u(n)[m] \in Nat \ {0}
  <2> DEFINE T == {k \in 0 .. m : u(n)[k] = u(m)[k] /\ u(n)[k] \in Nat \ {0}}
  <2>1. 0 \in T
    BY <1>1
  <2>2. \A k \in 0 .. m - 1 : k \in T => k + 1 \in T
    <3> SUFFICES ASSUME NEW k \in 0 .. m - 1, k \in T PROVE k + 1 \in T
      OBVIOUS
    <3>1. k + 1 \in 1 .. m /\ k + 1 \in 1 .. n /\ (k + 1) - 1 = k
      BY <1>2
    <3>2. u(n)[k + 1] = 2 * u(n)[k] /\ u(m)[k + 1] = 2 * u(m)[k]
      BY <1>1, <3>1
    <3> QED
      BY <3>1, <3>2
  <2> HIDE DEF T
  <2>3. m \in T
    BY <2>1, <2>2, HoldsUpTo
  <2> QED
    BY <2>3 DEF T
<1>3. ASSUME NEW n \in Nat PROVE TwoTo(n) \in Nat \ {0} /\ TwoTo(n + 1) = 2 * TwoTo(n)
  <2>1. n + 1 \in 1 .. n + 1 /\ (n + 1) - 1 = n /\ n + 1 \in Nat /\ n <= n + 1
    OBVIOUS
  <2>2. TwoTo(n + 1) = u(n + 1)[n + 1] /\ u(n + 1)[n + 1] = 2 * u(n + 1)[n]
    BY <1>1, <2>1
  <2> QED
    BY <1>1, <1>2, <2>1, <2>2
<1> QED
  BY <1>1, <1>3

LEMMA TwoToGrows ==
    ASSUME NEW m \in Nat, NEW n \in Nat, m <= n
    PROVE  TwoTo(m) <= TwoTo(n)
<1> DEFINE T == {k \in Nat : TwoTo(m) <= TwoTo(m + k)}
<1>1. 0 \in T
  BY TwoToFacts
<1>2. ASSUME NEW k \in T PROVE k + 1 \in T
  <2>1. m + k \in Nat /\ m + (k + 1) = (m + k) + 1 /\ k + 1 \in Nat
    OBVIOUS
  <2>2. /\ TwoTo(m + (k + 1)) = 2 * TwoTo(m + k) /\ TwoTo(m + k) \in Nat
        /\ TwoTo(m) \in Nat /\ TwoTo(m) <= TwoTo(m + k)
    BY <2>1, TwoToFacts
  <2> QED
    BY <2>1, <2>2
<1>3. T \subseteq Nat
  OBVIOUS
<1> HIDE DEF T
<1>4. T = Nat
  BY <1>1, <1>2, <1>3, SetInduction
<1>5. n - m \in T /\ m + (n - m) = n
  BY <1>4
<1> QED
  BY <1>5 DEF T

LEMMA TwoToDouble ==
    ASSUME NEW n \in Nat
    PROVE  TwoTo(2 * n) = TwoTo(n) * TwoTo(n)
<1> DEFINE T == {k \in Nat : TwoTo(2 * k) = TwoTo(k) * TwoTo(k)}
<1>1. 0 \in T
  BY TwoToFacts
<1>2. ASSUME NEW k \in T PROVE k + 1 \in T
  <2>1. 2 * k \in Nat /\ 2 * (k + 1) = (2 * k + 1) + 1 /\ k + 1 \in Nat /\ 2 * k + 1 \in Nat
    OBVIOUS
  <2> DEFINE a == TwoTo(k)
             b == TwoTo(2 * k)
  <2>2. /\ TwoTo(2 * (k + 1)) = 2 * (2 * b) /\ TwoTo(k + 1) = 2 * a /\ a \in Nat /\ b \in Nat
        /\ b = a * a
    BY <2>1, TwoToFacts
  <2> HIDE DEF a, b
  <2>3. TwoTo(2 * (k + 1)) = TwoTo(k + 1) * TwoTo(k + 1)
    BY <2>2
  <2> QED
    BY <2>1, <2>3
<1>3. T \subseteq Nat
  OBVIOUS
<1> HIDE DEF T
<1>4. T = Nat
  BY <1>1, <1>2, <1>3, SetInduction
<1> QED
  BY <1>4 DEF T

----------------------------------------------------------------------------
(* The order of messages.                                                  *)

Byte == 0 .. 255

Data == Seq(Byte)

Less(a, b) == BytesCompare(a, b) < 0

\* a and b agree before their i-th byte, and a ends there or has the lesser one.
LessAt(a, b, i) ==
    /\ i \in 1 .. Len(b) /\ i <= Len(a) + 1
    /\ \A j \in 1 .. i - 1 : a[j] = b[j]
    /\ i <= Len(a) => a[i] < b[i]

LEMMA DataFacts ==
    ASSUME NEW a \in Data
    PROVE  Len(a) \in Nat /\ \A i \in 1 .. Len(a) : a[i] \in Nat
<1>1. a \in Seq(Byte)
  BY DEF Data
<1>2. Len(a) \in Nat
  BY <1>1
<1>3. ASSUME NEW i \in 1 .. Len(a) PROVE a[i] \in Nat
  <2>1. a[i] \in Byte
    BY <1>1
  <2>2. \A b \in Byte : b \in Nat
    BY DEF Byte
  <2> QED
    BY <2>1, <2>2
<1> QED
  BY <1>2, <1>3

\* What a comparison finds.
LEMMA CompareCases ==
    ASSUME NEW a \in Data, NEW b \in Data
    PROVE  \/ a = b /\ BytesCompare(a, b) = 0
           \/ BytesCompare(a, b) \in Int /\ BytesCompare(a, b) < 0 /\ \E i \in Nat : LessAt(a, b, i)
           \/ BytesCompare(a, b) \in Int /\ BytesCompare(a, b) > 0 /\ \E i \in Nat : LessAt(b, a, i)
<1> DEFINE n == IF Len(a) < Len(b) THEN Len(a) ELSE Len(b)
           differing == {i \in 1 .. n : a[i] # b[i]}
           first == CHOOSE i \in differing : \A j \in differing : i <= j
<1>0. /\ Len(a) \in Nat /\ \A i \in 1 .. Len(a) : a[i] \in Nat
      /\ Len(b) \in Nat /\ \A i \in 1 .. Len(b) : b[i] \in Nat
  BY DataFacts
<1>1. /\ n \in Nat /\ n <= Len(a) /\ n <= Len(b) /\ (n = Len(a) \/ n = Len(b))
      /\ differing \subseteq 1 .. n
  BY <1>0
<1>2. BytesCompare(a, b) = IF differing = {} THEN Len(a) - Len(b) ELSE a[first] - b[first]
  BY DEF BytesCompare
<1>3. \A i \in 1 .. n : i \notin differing => a[i] = b[i]
  OBVIOUS
<1>4. \A i \in differing : i \in 1 .. n /\ a[i] # b[i]
  OBVIOUS
<1>5. differing # {} => first \in differing /\ \A j \in differing : first <= j
  <2> HIDE DEF differing
  <2> SUFFICES ASSUME differing # {} PROVE first \in differing /\ \A j \in differing : first <= j
    OBVIOUS
  <2>1. differing \in SUBSET Nat
    BY <1>1
  <2>2. \E i \in differing : \A j \in differing : i <= j
    BY <2>1, LeastExists
  <2> QED
    BY <2>2
<1> HIDE DEF n, differing, first
<1>6. CASE differing = {}
  <2>1. \A i \in 1 .. n : a[i] = b[i]
    BY <1>3, <1>6
  <2>2. BytesCompare(a, b) = Len(a) - Len(b)
    BY <1>2, <1>6
  <2>3. CASE Len(a) = Len(b)
    <3>1. a = b
      <4>1. a \in Seq(Byte) /\ b \in Seq(Byte)
        BY DEF Data
      <4>2. \A i \in 1 .. Len(a) : a[i] = b[i]
        BY <1>0, <1>1, <2>1, <2>3
      <4> QED
        BY <2>3, <4>1, <4>2
    <3> QED
      BY <1>0, <2>2, <2>3, <3>1
  <2>4. CASE Len(a) < Len(b)
    <3>1. LessAt(a, b, Len(a) + 1) /\ Len(a) + 1 \in Nat
      BY <1>0, <1>1, <2>1, <2>4 DEF LessAt
    <3> QED
      BY <1>0, <2>2, <2>4, <3>1
  <2>5. CASE Len(a) > Len(b)
    <3>1. LessAt(b, a, Len(b) + 1) /\ Len(b) + 1 \in Nat
      BY <1>0, <1>1, <2>1, <2>5 DEF LessAt
    <3> QED
      BY <1>0, <2>2, <2>5, <3>1
  <2> QED
    BY <1>0, <2>3, <2>4, <2>5
<1>7. CASE differing # {}
  <2>1. /\ first \in 1 .. n /\ a[first] # b[first]
        /\ \A j \in differing : first <= j
    BY <1>4, <1>5, <1>7
  <2>2. first \in Nat /\ first \in 1 .. Len(a) /\ first \in 1 .. Len(b)
    BY <1>0, <1>1, <2>1
  <2>3. \A j \in 1 .. first - 1 : a[j] = b[j]
    <3> SUFFICES ASSUME NEW j \in 1 .. first - 1 PROVE a[j] = b[j]
      OBVIOUS
    <3>1. j \in 1 .. n /\ ~(first <= j)
      BY <1>1, <2>1
    <3> QED
      BY <1>3, <2>1, <3>1
  <2>4. BytesCompare(a, b) = a[first] - b[first]
    BY <1>2, <1>7
  <2>5. a[first] \in Nat /\ b[first] \in Nat
    BY <1>0, <2>2
  <2>6. CASE a[first] < b[first]
    <3>1. LessAt(a, b, first)
      BY <1>0, <2>2, <2>3, <2>6 DEF LessAt
    <3> QED
      BY <2>2, <2>4, <2>5, <2>6, <3>1
  <2>7. CASE a[first] > b[first]
    <3>1. LessAt(b, a, first)
      BY <1>0, <2>2, <2>3, <2>5, <2>7 DEF LessAt
    <3> QED
      BY <2>2, <2>4, <2>5, <2>7, <3>1
  <2> QED
    BY <2>1, <2>5, <2>6, <2>7
<1> QED
  BY <1>6, <1>7

LEMMA LessAtTransitive ==
    ASSUME NEW a \in Data, NEW b \in Data, NEW c \in Data, NEW i \in Nat, NEW j \in Nat,
           LessAt(a, b, i), LessAt(b, c, j)
    PROVE  \E k \in Nat : LessAt(a, c, k)
<1>0. /\ Len(a) \in Nat /\ \A k \in 1 .. Len(a) : a[k] \in Nat
      /\ Len(b) \in Nat /\ \A k \in 1 .. Len(b) : b[k] \in Nat
      /\ Len(c) \in Nat /\ \A k \in 1 .. Len(c) : c[k] \in Nat
  BY DataFacts
<1>1. /\ i \in 1 .. Len(b) /\ i <= Len(a) + 1 /\ (i <= Len(a) => a[i] < b[i])
      /\ j \in 1 .. Len(c) /\ j <= Len(b) + 1 /\ (j <= Len(b) => b[j] < c[j])
      /\ \A k \in 1 .. i - 1 : a[k] = b[k]
      /\ \A k \in 1 .. j - 1 : b[k] = c[k]
  BY DEF LessAt
<1>2. CASE i < j
  <2>1. i \in 1 .. Len(c) /\ i \in 1 .. j - 1
    BY <1>0, <1>1, <1>2
  <2>2. \A k \in 1 .. i - 1 : a[k] = c[k]
    <3> SUFFICES ASSUME NEW k \in 1 .. i - 1 PROVE a[k] = c[k]
      OBVIOUS
    <3>1. k \in 1 .. j - 1
      BY <1>2
    <3> QED
      BY <1>1, <3>1
  <2>3. b[i] = c[i]
    BY <1>1, <2>1
  <2>4. LessAt(a, c, i)
    BY <1>1, <2>1, <2>2, <2>3 DEF LessAt
  <2> QED
    BY <2>4
<1>3. CASE ~(i < j)
  <2>1. j \in 1 .. Len(b) /\ j <= Len(a) + 1
    BY <1>0, <1>1, <1>3
  <2>2. \A k \in 1 .. j - 1 : a[k] = c[k]
    <3> SUFFICES ASSUME NEW k \in 1 .. j - 1 PROVE a[k] = c[k]
      OBVIOUS
    <3>1. k \in 1 .. i - 1
      BY <1>3
    <3> QED
      BY <1>1, <3>1
  <2>3. b[j] < c[j] /\ b[j] \in Nat /\ c[j] \in Nat
    BY <1>0, <1>1, <2>1
  <2>4. ASSUME j <= Len(a) PROVE a[j] < c[j]
    <3>1. j \in 1 .. Len(a) /\ a[j] \in Nat
      BY <1>0, <1>1, <2>4
    <3>2. CASE j = i
      BY <1>1, <2>3, <2>4, <3>1, <3>2
    <3>3. CASE j # i
      <4>1. j \in 1 .. i - 1
        BY <1>1, <1>3, <3>3
      <4> QED
        BY <1>1, <2>3, <4>1
    <3> QED
      BY <3>2, <3>3
  <2>5. LessAt(a, c, j)
    BY <1>1, <2>1, <2>2, <2>4 DEF LessAt
  <2> QED
    BY <2>5
<1> QED
  BY <1>2, <1>3

LEMMA LessAtIrreflexive ==
    ASSUME NEW a \in Data, NEW i \in Nat
    PROVE  ~LessAt(a, a, i)
<1>1. Len(a) \in Nat /\ \A k \in 1 .. Len(a) : a[k] \in Nat
  BY DataFacts
<1> QED
  BY <1>1 DEF LessAt

LEMMA LessIsLessAt ==
    ASSUME NEW a \in Data, NEW b \in Data
    PROVE  Less(a, b) <=> \E i \in Nat : LessAt(a, b, i)
<1>1. ASSUME NEW i \in Nat, LessAt(a, b, i) PROVE Less(a, b)
  <2>1. a # b
    BY <1>1, LessAtIrreflexive
  <2>2. ~\E j \in Nat : LessAt(b, a, j)
    BY <1>1, LessAtIrreflexive, LessAtTransitive
  <2> QED
    BY <2>1, <2>2, CompareCases DEF Less
<1>2. ASSUME Less(a, b) PROVE \E i \in Nat : LessAt(a, b, i)
  <2>1. BytesCompare(a, b) < 0
    BY <1>2 DEF Less
  <2> QED
    BY <2>1, CompareCases
<1> QED
  BY <1>1, <1>2

LEMMA LessTransitive ==
    ASSUME NEW a \in Data, NEW b \in Data, NEW c \in Data, Less(a, b), Less(b, c)
    PROVE  Less(a, c)
BY LessIsLessAt, LessAtTransitive

\* A comparison is zero for equal messages, and its sign says which one is less.
LEMMA CompareFacts ==
    ASSUME NEW a \in Data, NEW b \in Data
    PROVE  /\ BytesCompare(a, b) \in Int
           /\ BytesCompare(a, b) = 0 <=> a = b
           /\ BytesCompare(a, b) > 0 <=> Less(b, a)
           /\ ~(Less(a, b) /\ Less(b, a)) /\ ~Less(a, a)
<1>1. ~Less(a, a)
  BY LessIsLessAt, LessAtIrreflexive
<1>2. ~(Less(a, b) /\ Less(b, a))
  BY <1>1, LessTransitive
<1>3. a = b => BytesCompare(a, b) = 0
  BY CompareCases, LessAtIrreflexive
<1>4. BytesCompare(a, b) > 0 => Less(b, a)
  BY CompareCases, LessIsLessAt
<1>5. Less(b, a) => BytesCompare(a, b) > 0
  BY CompareCases, <1>1, <1>2 DEF Less
<1> QED
  BY <1>1, <1>2, <1>3, <1>4, <1>5, CompareCases

\* a is on the side dir of b.
Aside(dir, a, b) == IF dir = Left THEN Less(a, b) ELSE Less(b, a)

Sides == {Left, Right}

LEMMA SideFacts ==
    /\ Left \in Sides /\ Right \in Sides /\ Sides = 1 .. 2
    /\ \A d \in Sides : Other(d) \in Sides /\ Other(d) # d /\ Other(Other(d)) = d
    /\ \A d, e \in Sides : e = d \/ e = Other(d)
    /\ Other(Left) = Right /\ Other(Right) = Left
BY DEF Sides, Left, Right, Other

LEMMA AsideFacts ==
    ASSUME NEW d \in Sides, NEW a \in Data, NEW b \in Data
    PROVE  /\ Aside(d, a, b) \in BOOLEAN
           /\ Aside(d, a, b) <=> Aside(Other(d), b, a)
           /\ ~(Aside(d, a, b) /\ Aside(Other(d), a, b))
           /\ ~Aside(d, a, a)
           /\ \A c \in Data : Aside(d, a, b) /\ Aside(d, b, c) => Aside(d, a, c)
<1>1. d = Left \/ d = Right
  BY DEF Sides
<1>2. Left # Right /\ Other(Left) = Right /\ Other(Right) = Left
  BY SideFacts DEF Left, Right
<1>3. /\ Less(a, b) \in BOOLEAN /\ Less(b, a) \in BOOLEAN /\ ~Less(a, a)
      /\ ~(Less(a, b) /\ Less(b, a))
  BY CompareFacts DEF Less
<1>4. CASE d = Left
  <2>1. /\ Aside(d, a, b) = Less(a, b) /\ Aside(Other(d), b, a) = Less(a, b)
        /\ Aside(Other(d), a, b) = Less(b, a) /\ Aside(d, a, a) = Less(a, a)
        /\ \A c : Aside(d, b, c) = Less(b, c) /\ Aside(d, a, c) = Less(a, c)
    BY <1>2, <1>4 DEF Aside
  <2> QED
    BY <1>3, <2>1, LessTransitive
<1>5. CASE d = Right
  <2>1. /\ Aside(d, a, b) = Less(b, a) /\ Aside(Other(d), b, a) = Less(b, a)
        /\ Aside(Other(d), a, b) = Less(a, b) /\ Aside(d, a, a) = Less(a, a)
        /\ \A c : Aside(d, b, c) = Less(c, b) /\ Aside(d, a, c) = Less(c, a)
    BY <1>2, <1>5 DEF Aside
  <2> QED
    BY <1>3, <2>1, LessTransitive
<1> QED
  BY <1>1, <1>4, <1>5

----------------------------------------------------------------------------
(* Trees of n nodes, and what the assignments do to them.                  *)

NodeOf(n) == [data : Data, leafs : [Sides -> 0 .. n], red : BOOLEAN]

Tree(n) == {t \in [root : 0 .. n, nodes : Seq(NodeOf(n))] : Len(t.nodes) = n}

Key(t, i) == t.nodes[i].data

Leaf(t, i, d) == t.nodes[i].leafs[d]

IsRed(t, i) == t.nodes[i].red

LEMMA TreeFacts ==
    ASSUME NEW n \in Nat, NEW t \in Tree(n)
    PROVE  /\ Len(t.nodes) = n /\ t.root \in 0 .. n /\ t.nodes \in Seq(NodeOf(n))
           /\ t = [root |-> t.root, nodes |-> t.nodes]
           /\ \A i \in 1 .. n : /\ t.nodes[i] \in NodeOf(n)
                                /\ Key(t, i) \in Data /\ IsRed(t, i) \in BOOLEAN
                                /\ \A d \in Sides : Leaf(t, i, d) \in 0 .. n
<1>1. /\ Len(t.nodes) = n /\ t.root \in 0 .. n /\ t.nodes \in Seq(NodeOf(n))
      /\ t = [root |-> t.root, nodes |-> t.nodes]
  BY DEF Tree
<1>2. ASSUME NEW i \in 1 .. n
      PROVE  /\ t.nodes[i] \in NodeOf(n)
             /\ Key(t, i) \in Data /\ IsRed(t, i) \in BOOLEAN
             /\ \A d \in Sides : Leaf(t, i, d) \in 0 .. n
  <2>1. t.nodes[i] \in NodeOf(n)
    BY <1>1
  <2> QED
    BY <2>1 DEF NodeOf, Key, IsRed, Leaf
<1> QED
  BY <1>1, <1>2

\* The records that are assigned to.
LEMMA NodesAssigned ==
    ASSUME NEW t, t = [root |-> t.root, nodes |-> t.nodes], NEW v
    PROVE  [t EXCEPT !.nodes = v] = [root |-> t.root, nodes |-> v]
OBVIOUS

LEMMA NodeAssigned ==
    ASSUME NEW t, t = [root |-> t.root, nodes |-> t.nodes], NEW i, NEW v
    PROVE  [t EXCEPT !.nodes[i] = v] = [root |-> t.root, nodes |-> [t.nodes EXCEPT ![i] = v]]
OBVIOUS

LEMMA RecordReplaced ==
    ASSUME NEW n \in Nat, NEW t \in Tree(n), NEW i \in 1 .. n, NEW node \in NodeOf(n)
    PROVE  LET u == [t EXCEPT !.nodes[i] = node]
           IN /\ u \in Tree(n) /\ u.root = t.root
              /\ \A j \in 1 .. n : u.nodes[j] = IF j = i THEN node ELSE t.nodes[j]
<1> DEFINE s == [t.nodes EXCEPT ![i] = node]
           u == [t EXCEPT !.nodes[i] = node]
<1>1. Len(t.nodes) = n /\ t.nodes \in Seq(NodeOf(n)) /\ t.root \in 0 .. n
  BY TreeFacts
<1>2. s \in Seq(NodeOf(n)) /\ Len(s) = n
  BY <1>1, ExceptSeq
<1>3. \A j \in 1 .. n : s[j] = IF j = i THEN node ELSE t.nodes[j]
  BY <1>1
<1>4. u = [root |-> t.root, nodes |-> s]
  <2>1. t = [root |-> t.root, nodes |-> t.nodes]
    BY TreeFacts
  <2> QED
    BY <2>1, NodeAssigned
<1> HIDE DEF s, u
<1>5. u \in Tree(n) /\ u.root = t.root /\ u.nodes = s
  BY <1>1, <1>2, <1>4 DEF Tree
<1> QED
  BY <1>3, <1>5 DEF u

\* u is t except that its node i has the leaf v on side d.
Linked(u, t, n, i, d, v) ==
    /\ u \in Tree(n) /\ u.root = t.root
    /\ \A j \in 1 .. n :
         /\ Key(u, j) = Key(t, j) /\ IsRed(u, j) = IsRed(t, j)
         /\ \A e \in Sides : Leaf(u, j, e) = IF j = i /\ e = d THEN v ELSE Leaf(t, j, e)

LEMMA LinkFacts ==
    ASSUME NEW n \in Nat, NEW t \in Tree(n), NEW i \in 1 .. n, NEW d \in Sides, NEW v \in 0 .. n
    PROVE  Linked(Link(t, i, d, v), t, n, i, d, v)
<1> DEFINE node == [t.nodes[i] EXCEPT !.leafs[d] = v]
           u == [t EXCEPT !.nodes[i] = node]
<1>1. t.nodes[i] \in NodeOf(n)
  BY TreeFacts
<1>2. /\ node \in NodeOf(n) /\ node.data = Key(t, i) /\ node.red = IsRed(t, i)
      /\ \A e \in Sides : node.leafs[e] = IF e = d THEN v ELSE Leaf(t, i, e)
  BY <1>1 DEF NodeOf, Key, IsRed, Leaf
<1>3. Link(t, i, d, v) = u
  BY <1>1 DEF Link, Tree, NodeOf
<1> HIDE DEF node
<1>4. /\ u \in Tree(n) /\ u.root = t.root
      /\ \A j \in 1 .. n : u.nodes[j] = IF j = i THEN node ELSE t.nodes[j]
  BY <1>2, RecordReplaced
<1> HIDE DEF u
<1>5. Linked(u, t, n, i, d, v)
  BY <1>2, <1>4 DEF Linked, Key, IsRed, Leaf
<1> QED
  BY <1>3, <1>5

\* u is t except that its node i is red or not.
Painted(u, t, n, i, red) ==
    /\ u \in Tree(n) /\ u.root = t.root
    /\ \A j \in 1 .. n :
         /\ Key(u, j) = Key(t, j)
         /\ IsRed(u, j) = IF j = i THEN red ELSE IsRed(t, j)
         /\ \A e \in Sides : Leaf(u, j, e) = Leaf(t, j, e)

LEMMA PaintFacts ==
    ASSUME NEW n \in Nat, NEW t \in Tree(n), NEW i \in 1 .. n, NEW red \in BOOLEAN
    PROVE  Painted(Paint(t, i, red), t, n, i, red)
<1> DEFINE node == [t.nodes[i] EXCEPT !.red = red]
           u == [t EXCEPT !.nodes[i] = node]
<1>1. t.nodes[i] \in NodeOf(n)
  BY TreeFacts
<1>2. /\ node \in NodeOf(n) /\ node.data = Key(t, i) /\ node.red = red
      /\ \A e \in Sides : node.leafs[e] = Leaf(t, i, e)
  BY <1>1 DEF NodeOf, Key, IsRed, Leaf
<1>3. Paint(t, i, red) = u
  BY <1>1 DEF Paint, Tree, NodeOf
<1> HIDE DEF node
<1>4. /\ u \in Tree(n) /\ u.root = t.root
      /\ \A j \in 1 .. n : u.nodes[j] = IF j = i THEN node ELSE t.nodes[j]
  BY <1>2, RecordReplaced
<1> HIDE DEF u
<1>5. Painted(u, t, n, i, red)
  BY <1>2, <1>4 DEF Painted, Key, IsRed, Leaf
<1> QED
  BY <1>3, <1>5

LEMMA RootFacts ==
    ASSUME NEW n \in Nat, NEW t \in Tree(n), NEW v \in 0 .. n
    PROVE  LET u == [t EXCEPT !.root = v]
           IN /\ u \in Tree(n) /\ u.root = v
              /\ \A j \in 1 .. n :
                   /\ Key(u, j) = Key(t, j) /\ IsRed(u, j) = IsRed(t, j)
                   /\ \A e \in Sides : Leaf(u, j, e) = Leaf(t, j, e)
<1> DEFINE u == [t EXCEPT !.root = v]
<1>1. u \in Tree(n) /\ u.root = v /\ u.nodes = t.nodes
  BY DEF Tree
<1> HIDE DEF u
<1>2. \A j \in 1 .. n :
         /\ Key(u, j) = Key(t, j) /\ IsRed(u, j) = IsRed(t, j)
         /\ \A e \in Sides : Leaf(u, j, e) = Leaf(t, j, e)
  BY <1>1 DEF Key, IsRed, Leaf
<1> QED
  BY <1>1, <1>2 DEF u

\* u is t with one more node, which is red, holds data and has no leaf yet.
Grown(u, t, n, data) ==
    /\ u \in Tree(n + 1) /\ u.root = t.root
    /\ Key(u, n + 1) = data /\ IsRed(u, n + 1) /\ \A e \in Sides : Leaf(u, n + 1, e) = Nil
    /\ \A j \in 1 .. n :
         /\ Key(u, j) = Key(t, j) /\ IsRed(u, j) = IsRed(t, j)
         /\ \A e \in Sides : Leaf(u, j, e) = Leaf(t, j, e)

LEMMA GrowFacts ==
    ASSUME NEW n \in Nat, NEW t \in Tree(n), NEW data \in Data
    PROVE  Grown([t EXCEPT !.nodes = Append(@, [data |-> data, leafs |-> <<Nil, Nil>>,
                                               red |-> TRUE])], t, n, data)
<1> DEFINE node == [data |-> data, leafs |-> <<Nil, Nil>>, red |-> TRUE]
           s == Append(t.nodes, node)
           u == [t EXCEPT !.nodes = Append(@, node)]
<1>1. /\ Len(t.nodes) = n /\ t.nodes \in Seq(NodeOf(n)) /\ t.root \in 0 .. n
      /\ t = [root |-> t.root, nodes |-> t.nodes]
  BY TreeFacts
<1>2. <<Nil, Nil>> \in [Sides -> 0 .. n + 1] /\ \A e \in Sides : <<Nil, Nil>>[e] = Nil
  BY SideFacts DEF Nil
<1>3. node \in NodeOf(n + 1)
  BY <1>2 DEF NodeOf
<1>4. t.nodes \in Seq(NodeOf(n + 1))
  <2>1. ASSUME NEW x \in NodeOf(n) PROVE x \in NodeOf(n + 1)
    <3>1. \A y \in 0 .. n : y \in 0 .. n + 1
      OBVIOUS
    <3> QED
      BY <3>1 DEF NodeOf
  <2>2. \A i \in 1 .. Len(t.nodes) : t.nodes[i] \in NodeOf(n + 1)
    BY <1>1, <2>1
  <2> QED
    BY <1>1, <2>2
<1> HIDE DEF node
<1>5. /\ s \in Seq(NodeOf(n + 1)) /\ Len(s) = n + 1 /\ s[n + 1] = node
      /\ \A j \in 1 .. n : s[j] = t.nodes[j]
  BY <1>1, <1>3, <1>4
<1>6. u = [root |-> t.root, nodes |-> s]
  <2>1. t = [root |-> t.root, nodes |-> t.nodes]
    BY TreeFacts
  <2> QED
    BY <2>1, NodesAssigned
<1> HIDE DEF s, u
<1>7. u \in Tree(n + 1) /\ u.root = t.root /\ u.nodes = s
  BY <1>1, <1>5, <1>6 DEF Tree
<1>8. Key(u, n + 1) = data /\ IsRed(u, n + 1) /\ \A e \in Sides : Leaf(u, n + 1, e) = Nil
  BY <1>2, <1>5, <1>7 DEF Key, IsRed, Leaf, node
<1>9. Grown(u, t, n, data)
  BY <1>5, <1>7, <1>8 DEF Grown, Key, IsRed, Leaf
<1> QED
  BY <1>9 DEF u, node

----------------------------------------------------------------------------
(* The shape of a search tree: S[i] is the set of the nodes below i, with  *)
(* i itself.                                                               *)

Spans(t, n, S) ==
    /\ S \in [0 .. n -> SUBSET (1 .. n)] /\ S[Nil] = {}
    /\ \A i \in 1 .. n, d \in Sides : S[i] = S[Leaf(t, i, d)] \cup {i} \cup S[Leaf(t, i, Other(d))]
    /\ S[t.root] = 1 .. n

Ordered(t, n, S) ==
    \A i \in 1 .. n, d \in Sides :
        \A j \in S[Leaf(t, i, d)] : Aside(d, Key(t, j), Key(t, i))

Shape(t, n, S) == t \in Tree(n) /\ Spans(t, n, S) /\ Ordered(t, n, S)

LEMMA ShapeFacts ==
    ASSUME NEW n \in Nat, NEW t, NEW S, Shape(t, n, S)
    PROVE  /\ t \in Tree(n) /\ t.root \in 0 .. n /\ S[Nil] = {}
           /\ \A i \in 0 .. n : S[i] \subseteq 1 .. n
           /\ \A i \in 1 .. n :
                /\ i \in S[i] /\ Key(t, i) \in Data
                /\ \A d \in Sides :
                     /\ Leaf(t, i, d) \in 0 .. n
                     /\ S[i] = S[Leaf(t, i, d)] \cup {i} \cup S[Leaf(t, i, Other(d))]
                     /\ i \notin S[Leaf(t, i, d)]
                     /\ S[Leaf(t, i, d)] \cap S[Leaf(t, i, Other(d))] = {}
                     /\ \A j \in S[Leaf(t, i, d)] : Aside(d, Key(t, j), Key(t, i))
<1>1. /\ t \in Tree(n) /\ t.root \in 0 .. n
      /\ \A i \in 1 .. n : /\ Key(t, i) \in Data
                           /\ \A d \in Sides : Leaf(t, i, d) \in 0 .. n
  BY TreeFacts DEF Shape
<1>2. /\ S[Nil] = {} /\ \A i \in 0 .. n : S[i] \subseteq 1 .. n
      /\ \A i \in 1 .. n, d \in Sides :
           S[i] = S[Leaf(t, i, d)] \cup {i} \cup S[Leaf(t, i, Other(d))]
  BY DEF Shape, Spans
<1>3. ASSUME NEW i \in 1 .. n
      PROVE  i \in S[i]
  BY <1>2, SideFacts
<1>4. ASSUME NEW i \in 1 .. n, NEW d \in Sides
      PROVE  /\ \A j \in S[Leaf(t, i, d)] : Aside(d, Key(t, j), Key(t, i))
             /\ i \notin S[Leaf(t, i, d)]
             /\ S[Leaf(t, i, d)] \cap S[Leaf(t, i, Other(d))] = {}
  <2>1. \A e \in Sides : \A j \in S[Leaf(t, i, e)] : Aside(e, Key(t, j), Key(t, i))
    BY DEF Shape, Ordered
  <2>2. Other(d) \in Sides
    BY SideFacts
  <2>3. ~Aside(d, Key(t, i), Key(t, i))
    BY <1>1, AsideFacts
  <2>4. ASSUME NEW j \in S[Leaf(t, i, d)], j \in S[Leaf(t, i, Other(d))] PROVE FALSE
    <3>1. j \in 1 .. n
      BY <1>1, <1>2
    <3>2. Aside(d, Key(t, j), Key(t, i)) /\ Aside(Other(d), Key(t, j), Key(t, i))
      BY <2>1, <2>2, <2>4
    <3> QED
      BY <1>1, <3>1, <3>2, AsideFacts
  <2> QED
    BY <2>1, <2>3, <2>4
<1> QED
  BY <1>1, <1>2, <1>3, <1>4

LEMMA LeafsBelow ==
    ASSUME NEW n \in Nat, NEW t, NEW S, Shape(t, n, S), NEW i \in 1 .. n, NEW d \in Sides
    PROVE  S[Leaf(t, i, d)] \subseteq S[i]
<1>1. S[i] = S[Leaf(t, i, d)] \cup {i} \cup S[Leaf(t, i, Other(d))]
  BY DEF Shape, Spans
<1> QED
  BY <1>1

\* If a node has a property whenever its leafs have it, then every node has it.
Inherited(t, n, T) == \A i \in 1 .. n : (\A d \in Sides : Leaf(t, i, d) \in T) => i \in T

LEMMA TreeInduction ==
    ASSUME NEW n \in Nat, NEW t, NEW S, Shape(t, n, S), NEW T, Nil \in T, Inherited(t, n, T)
    PROVE  \A i \in 0 .. n : i \in T
<1> DEFINE U == {k \in Nat : \A i \in 0 .. n : Cardinality(S[i]) <= k => i \in T}
<1>1. \A i \in 0 .. n : IsFiniteSet(S[i]) /\ Cardinality(S[i]) \in Nat
  <2>1. IsFiniteSet(1 .. n)
    BY FS_Interval
  <2> QED
    BY <2>1, ShapeFacts, FS_Subset, FS_CardinalityType
<1>2. 0 \in U
  <2> SUFFICES ASSUME NEW i \in 0 .. n, Cardinality(S[i]) <= 0 PROVE i \in T
    OBVIOUS
  <2>1. S[i] = {}
    <3>1. Cardinality(S[i]) = 0
      BY <1>1
    <3> QED
      BY <1>1, <3>1, FS_EmptySet
  <2>2. i = Nil
    <3>1. i \notin 1 .. n
      BY <2>1, ShapeFacts
    <3> QED
      BY <3>1 DEF Nil
  <2> QED
    BY <2>2
<1>3. ASSUME NEW k \in U PROVE k + 1 \in U
  <2> SUFFICES ASSUME NEW i \in 0 .. n, Cardinality(S[i]) <= k + 1 PROVE i \in T
    OBVIOUS
  <2>1. CASE i = 0
    BY <2>1 DEF Nil
  <2>2. CASE i \in 1 .. n
    <3>1. ASSUME NEW d \in Sides PROVE Leaf(t, i, d) \in T
      <4> DEFINE l == Leaf(t, i, d)
      <4>1. l \in 0 .. n /\ S[l] \subseteq S[i] \ {i} /\ i \in S[i]
        BY <2>2, ShapeFacts
      <4>2. /\ IsFiniteSet(S[i] \ {i}) /\ Cardinality(S[i] \ {i}) = Cardinality(S[i]) - 1
        BY <1>1, <4>1, FS_RemoveElement
      <4>3. Cardinality(S[l]) <= Cardinality(S[i]) - 1
        BY <4>1, <4>2, FS_Subset
      <4> HIDE DEF l
      <4>4. Cardinality(S[l]) <= k
        BY <1>1, <4>1, <4>3
      <4> QED
        BY <4>1, <4>4 DEF l
    <3> QED
      BY <2>2, <3>1 DEF Inherited
  <2> QED
    BY <2>1, <2>2
<1>4. U \subseteq Nat
  OBVIOUS
<1> HIDE DEF U
<1>5. U = Nat
  BY <1>2, <1>3, <1>4, SetInduction
<1> SUFFICES ASSUME NEW i \in 0 .. n PROVE i \in T
  OBVIOUS
<1>6. Cardinality(S[i]) \in U
  BY <1>1, <1>5
<1>7. Cardinality(S[i]) <= Cardinality(S[i])
  BY <1>1
<1> QED
  BY <1>6, <1>7 DEF U

\* What is below a node has below it only what the node has.
LEMMA Nested ==
    ASSUME NEW n \in Nat, NEW t, NEW S, Shape(t, n, S), NEW i \in 0 .. n, NEW j \in S[i]
    PROVE  S[j] \subseteq S[i]
<1> DEFINE T == {k \in 0 .. n : \A l \in S[k] : S[l] \subseteq S[k]}
<1>1. Nil \in T
  BY ShapeFacts DEF Nil
<1>2. Inherited(t, n, T)
  <2> SUFFICES ASSUME NEW k \in 1 .. n, \A d \in Sides : Leaf(t, k, d) \in T,
                      NEW l \in S[k]
               PROVE  S[l] \subseteq S[k]
    BY DEF Inherited
  <2>1. \A d \in Sides : S[k] = S[Leaf(t, k, d)] \cup {k} \cup S[Leaf(t, k, Other(d))]
    BY ShapeFacts
  <2>2. CASE l = k
    BY <2>2
  <2>3. CASE l # k
    <3>1. PICK d \in Sides : l \in S[Leaf(t, k, d)]
      BY <2>1, <2>3, SideFacts
    <3>2. S[l] \subseteq S[Leaf(t, k, d)]
      BY <3>1
    <3> QED
      BY <2>1, <3>2
  <2> QED
    BY <2>2, <2>3
<1> HIDE DEF T
<1>3. i \in T
  BY <1>1, <1>2, TreeInduction
<1> QED
  BY <1>3 DEF T

\* What is below a node is the node or below one of its leafs.
LEMMA BelowALeaf ==
    ASSUME NEW n \in Nat, NEW t, NEW S, Shape(t, n, S), NEW i \in 1 .. n, NEW j \in S[i]
    PROVE  j = i \/ \E d \in Sides : j \in S[Leaf(t, i, d)]
<1>1. S[i] = S[Leaf(t, i, Left)] \cup {i} \cup S[Leaf(t, i, Other(Left))]
  BY ShapeFacts, SideFacts
<1> QED
  BY <1>1, SideFacts

LEMMA UniqueSide ==
    ASSUME NEW n \in Nat, NEW t, NEW S, Shape(t, n, S), NEW i \in 1 .. n,
           NEW d \in Sides, NEW e \in Sides, NEW j \in S[Leaf(t, i, d)], j \in S[Leaf(t, i, e)]
    PROVE  d = e
BY ShapeFacts, SideFacts

\* A node is the leaf of one node only, on one side.
LEMMA UniqueParent ==
    ASSUME NEW n \in Nat, NEW t, NEW S, Shape(t, n, S), NEW i \in 1 .. n, NEW p \in 1 .. n,
           NEW d \in Sides, NEW e \in Sides, Leaf(t, i, d) # Nil, Leaf(t, i, d) = Leaf(t, p, e)
    PROVE  i = p /\ d = e
<1> DEFINE c == Leaf(t, i, d)
           T == {k \in 0 .. n : i \in S[k] /\ p \in S[k] => i = p}
<1>0. c \in 1 .. n /\ c \in S[c] /\ c = Leaf(t, p, e)
  <2>1. c \in 0 .. n /\ c # 0
    BY ShapeFacts DEF Nil
  <2>2. c \in 1 .. n
    BY <2>1
  <2> HIDE DEF c
  <2> QED
    BY <2>2, ShapeFacts DEF c
<1>1. Nil \in T
  BY ShapeFacts DEF Nil
<1>2. Inherited(t, n, T)
  <2> SUFFICES ASSUME NEW k \in 1 .. n, \A f \in Sides : Leaf(t, k, f) \in T,
                      i \in S[k], p \in S[k], i # p
               PROVE  FALSE
    BY DEF Inherited
  <2>1. \A q \in 1 .. n, f \in Sides : S[Leaf(t, q, f)] \subseteq S[q] /\ q \notin S[Leaf(t, q, f)]
    BY ShapeFacts
  <2>2. c \in S[i] /\ c \in S[p] /\ p \notin S[c] /\ i \notin S[c]
    BY <1>0, <2>1
  <2>3. ASSUME NEW q \in {i, p}, NEW f \in Sides, q \in S[Leaf(t, k, f)]
        PROVE  c \in S[Leaf(t, k, f)]
    <3>1. Leaf(t, k, f) \in 0 .. n
      BY ShapeFacts
    <3>2. S[q] \subseteq S[Leaf(t, k, f)]
      BY <2>3, <3>1, Nested
    <3> QED
      BY <2>2, <2>3, <3>2
  <2>4. CASE k = i
    <3>1. PICK f \in Sides : p \in S[Leaf(t, k, f)]
      BY <2>4, BelowALeaf
    <3>2. c \in S[Leaf(t, k, f)] /\ c \in S[Leaf(t, k, d)]
      BY <1>0, <2>3, <2>4, <3>1
    <3>3. f = d
      BY <3>2, UniqueSide
    <3> QED
      BY <2>2, <2>4, <3>1, <3>3
  <2>5. CASE k = p
    <3>1. PICK f \in Sides : i \in S[Leaf(t, k, f)]
      BY <2>5, BelowALeaf
    <3>2. c \in S[Leaf(t, k, f)] /\ c \in S[Leaf(t, k, e)]
      BY <1>0, <2>3, <2>5, <3>1
    <3>3. f = e
      BY <3>2, UniqueSide
    <3> QED
      BY <1>0, <2>2, <2>5, <3>1, <3>3
  <2>6. CASE k # i /\ k # p
    <3>1. PICK f \in Sides : i \in S[Leaf(t, k, f)]
      BY <2>6, BelowALeaf
    <3>2. PICK g \in Sides : p \in S[Leaf(t, k, g)]
      BY <2>6, BelowALeaf
    <3>3. c \in S[Leaf(t, k, f)] /\ c \in S[Leaf(t, k, g)]
      BY <2>3, <3>1, <3>2
    <3>4. f = g
      BY <3>3, UniqueSide
    <3>5. Leaf(t, k, f) \in T
      OBVIOUS
    <3> QED
      BY <3>1, <3>2, <3>4, <3>5
  <2> QED
    BY <2>4, <2>5, <2>6
<1> HIDE DEF T
<1>3. t.root \in T
  BY <1>1, <1>2, TreeInduction, ShapeFacts
<1>4. S[t.root] = 1 .. n
  BY DEF Shape, Spans
<1>5. i = p
  BY <1>3, <1>4 DEF T
<1>6. c \in S[Leaf(t, i, d)] /\ c \in S[Leaf(t, i, e)]
  BY <1>0, <1>5
<1> QED
  BY <1>5, <1>6, UniqueSide

LEMMA RootIsNoLeaf ==
    ASSUME NEW n \in Nat, NEW t, NEW S, Shape(t, n, S), NEW i \in 1 .. n, NEW d \in Sides
    PROVE  t.root \in 1 .. n /\ Leaf(t, i, d) # t.root
<1>1. S[t.root] = 1 .. n
  BY DEF Shape, Spans
<1>2. i \notin S[Leaf(t, i, d)] /\ t.root \in 0 .. n /\ S[Nil] = {}
  BY ShapeFacts
<1>3. t.root # 0
  BY <1>1, <1>2 DEF Nil
<1> QED
  BY <1>1, <1>2, <1>3

\* Above a leaf, other than itself, is only what is above its parent.
LEMMA AboveALeaf ==
    ASSUME NEW n \in Nat, NEW t, NEW S, Shape(t, n, S), NEW p \in 1 .. n, NEW e \in Sides,
           Leaf(t, p, e) # Nil, NEW j \in 0 .. n, Leaf(t, p, e) \in S[j]
    PROVE  Leaf(t, p, e) = j \/ p \in S[j]
<1> DEFINE c == Leaf(t, p, e)
           T == {k \in 0 .. n : c \in S[k] => c = k \/ p \in S[k]}
<1>1. Nil \in T
  BY ShapeFacts DEF Nil
<1>2. Inherited(t, n, T)
  <2> SUFFICES ASSUME NEW k \in 1 .. n, \A f \in Sides : Leaf(t, k, f) \in T, c \in S[k], c # k
               PROVE  p \in S[k]
    BY DEF Inherited
  <2>1. PICK f \in Sides : c \in S[Leaf(t, k, f)]
    BY BelowALeaf
  <2>2. c = Leaf(t, k, f) \/ p \in S[Leaf(t, k, f)]
    BY <2>1
  <2>3. S[Leaf(t, k, f)] \subseteq S[k] /\ k \in S[k]
    BY ShapeFacts
  <2>4. c = Leaf(t, k, f) => k = p
    BY UniqueParent
  <2> QED
    BY <2>2, <2>3, <2>4
<1> HIDE DEF T
<1>3. j \in T
  BY <1>1, <1>2, TreeInduction
<1> QED
  BY <1>3 DEF T

----------------------------------------------------------------------------
(* A rotation: the leaf y of x on side d takes x's place, and x becomes    *)
(* its leaf.                                                               *)

SameKeys(u, t, n) == \A j \in 1 .. n : Key(u, j) = Key(t, j)

Turned(u, t, n, x, d) ==
    LET y == Leaf(t, x, d)
    IN /\ u \in Tree(n) /\ SameKeys(u, t, n)
       /\ u.root = IF t.root = x THEN y ELSE t.root
       /\ Leaf(u, x, d) = Leaf(t, y, Other(d))
       /\ Leaf(u, y, Other(d)) = x
       /\ \A j \in 1 .. n, e \in Sides :
            ~(j = x /\ e = d) /\ ~(j = y /\ e = Other(d)) =>
                Leaf(u, j, e) = IF Leaf(t, j, e) = x THEN y ELSE Leaf(t, j, e)

TurnedSets(S, t, x, d) ==
    LET y == Leaf(t, x, d)
    IN [S EXCEPT ![y] = S[x], ![x] = {x} \cup S[Leaf(t, x, Other(d))] \cup S[Leaf(t, y, Other(d))]]

\* Which nodes a rotation is about.
LEMMA TurnedNodes ==
    ASSUME NEW n \in Nat, NEW t, NEW S, Shape(t, n, S), NEW x \in 1 .. n, NEW d \in Sides,
           Leaf(t, x, d) # Nil
    PROVE  LET y == Leaf(t, x, d)
               A == Leaf(t, y, d)
               B == Leaf(t, y, Other(d))
               C == Leaf(t, x, Other(d))
           IN /\ y \in 1 .. n /\ A \in 0 .. n /\ B \in 0 .. n /\ C \in 0 .. n
              /\ x # y /\ A \notin {x, y} /\ B \notin {x, y} /\ C \notin {x, y}
<1> DEFINE y == Leaf(t, x, d)
           A == Leaf(t, y, d)
           B == Leaf(t, y, Other(d))
           C == Leaf(t, x, Other(d))
<1>0. Other(d) \in Sides /\ Other(d) # d
  BY SideFacts
<1>1. y \in 0 .. n /\ y # 0 /\ C \in 0 .. n
  BY <1>0, ShapeFacts DEF Nil
<1>2. y \in 1 .. n
  BY <1>1
<1>3. y \in S[y] /\ x \in S[x] /\ x \notin S[y] /\ x \notin S[C]
  <2>1. x \notin S[y] /\ x \notin S[C] /\ x \in S[x]
    BY <1>0, ShapeFacts
  <2> HIDE DEF y, C
  <2> QED
    BY <1>2, <2>1, ShapeFacts
<1>4. C # y
  BY <1>0, UniqueParent
<1>5. /\ A \in 0 .. n /\ B \in 0 .. n /\ S[A] \subseteq S[y] /\ S[B] \subseteq S[y]
      /\ y \notin S[A] /\ y \notin S[B]
  <2> HIDE DEF y
  <2> QED
    BY <1>0, <1>2, ShapeFacts
<1> HIDE DEF y, A, B, C
<1>6. x # y /\ A \notin {x, y} /\ B \notin {x, y} /\ C \notin {x, y}
  BY <1>3, <1>4, <1>5
<1> QED
  BY <1>1, <1>2, <1>5, <1>6 DEF y, A, B, C

\* The leafs afterwards, and what is below them.
LEMMA TurnedLeafs ==
    ASSUME NEW n \in Nat, NEW t, NEW S, Shape(t, n, S), NEW x \in 1 .. n, NEW d \in Sides,
           Leaf(t, x, d) # Nil, NEW u, Turned(u, t, n, x, d)
    PROVE  LET y == Leaf(t, x, d)
               R == TurnedSets(S, t, x, d)
           IN /\ Leaf(u, x, d) = Leaf(t, y, Other(d)) /\ Leaf(u, x, Other(d)) = Leaf(t, x, Other(d))
              /\ Leaf(u, y, d) = Leaf(t, y, d) /\ Leaf(u, y, Other(d)) = x
              /\ R[y] = S[x]
              /\ R[x] = {x} \cup S[Leaf(t, x, Other(d))] \cup S[Leaf(t, y, Other(d))]
              /\ \A j \in 0 .. n : j # x /\ j # y => R[j] = S[j]
              /\ \A j \in 1 .. n, e \in Sides : j # x /\ j # y =>
                    /\ Leaf(u, j, e) \in 0 .. n /\ R[Leaf(u, j, e)] = S[Leaf(t, j, e)]
                    /\ Leaf(u, j, e) = IF Leaf(t, j, e) = x THEN y ELSE Leaf(t, j, e)
                    /\ Leaf(t, j, e) # y
              /\ R \in [0 .. n -> SUBSET (1 .. n)]
<1> DEFINE y == Leaf(t, x, d)
           A == Leaf(t, y, d)
           B == Leaf(t, y, Other(d))
           C == Leaf(t, x, Other(d))
           R == TurnedSets(S, t, x, d)
<1>1. /\ y \in 1 .. n /\ A \in 0 .. n /\ B \in 0 .. n /\ C \in 0 .. n
      /\ x # y /\ A \notin {x, y} /\ B \notin {x, y} /\ C \notin {x, y}
  BY TurnedNodes
<1>2. Other(d) \in Sides /\ Other(d) # d
  BY SideFacts
<1>3. /\ Leaf(u, x, d) = B /\ Leaf(u, y, Other(d)) = x
      /\ \A j \in 1 .. n, e \in Sides :
            ~(j = x /\ e = d) /\ ~(j = y /\ e = Other(d)) =>
                Leaf(u, j, e) = IF Leaf(t, j, e) = x THEN y ELSE Leaf(t, j, e)
  BY DEF Turned
<1>4. \A j \in 1 .. n, e \in Sides : Leaf(t, j, e) = y => j = x
  <2>1. Leaf(t, x, d) # Nil /\ y = Leaf(t, x, d)
    OBVIOUS
  <2> HIDE DEF y
  <2> QED
    BY <2>1, UniqueParent
<1>5. S \in [0 .. n -> SUBSET (1 .. n)]
  BY DEF Shape, Spans
<1>6. /\ R = [S EXCEPT ![y] = S[x], ![x] = {x} \cup S[C] \cup S[B]]
  BY DEF TurnedSets
<1>7. \A j \in 1 .. n, e \in Sides : Leaf(t, j, e) \in 0 .. n
  BY ShapeFacts
<1> HIDE DEF y, A, B, C, R
<1>8. /\ R \in [0 .. n -> SUBSET (1 .. n)] /\ R[y] = S[x] /\ R[x] = {x} \cup S[C] \cup S[B]
      /\ \A j \in 0 .. n : j # x /\ j # y => R[j] = S[j]
  <2>1. S[x] \in SUBSET (1 .. n) /\ {x} \cup S[C] \cup S[B] \in SUBSET (1 .. n) /\ x \in 0 .. n /\ y \in 0 .. n
    BY <1>1, <1>5
  <2> QED
    BY <1>1, <1>5, <1>6, <2>1
<1>9. Leaf(u, x, Other(d)) = C
  BY <1>1, <1>2, <1>3 DEF C
<1>10. Leaf(u, y, d) = A
  BY <1>1, <1>2, <1>3 DEF A
<1>11. ASSUME NEW j \in 1 .. n, NEW e \in Sides, j # x, j # y
       PROVE  /\ Leaf(u, j, e) \in 0 .. n /\ R[Leaf(u, j, e)] = S[Leaf(t, j, e)]
              /\ Leaf(u, j, e) = IF Leaf(t, j, e) = x THEN y ELSE Leaf(t, j, e)
              /\ Leaf(t, j, e) # y
  <2>1. Leaf(u, j, e) = IF Leaf(t, j, e) = x THEN y ELSE Leaf(t, j, e)
    BY <1>3, <1>11
  <2>2. Leaf(t, j, e) # y /\ Leaf(t, j, e) \in 0 .. n /\ y \in 0 .. n
    BY <1>1, <1>4, <1>7, <1>11
  <2> QED
    BY <1>8, <2>1, <2>2
<1> QED
  BY <1>3, <1>8, <1>9, <1>10, <1>11 DEF y, A, B, C, R

\* The tree that was turned is ordered as it was.
LEMMA TurnedShape ==
    ASSUME NEW n \in Nat, NEW t, NEW S, Shape(t, n, S), NEW x \in 1 .. n, NEW d \in Sides,
           Leaf(t, x, d) # Nil, NEW u, Turned(u, t, n, x, d)
    PROVE  Shape(u, n, TurnedSets(S, t, x, d))
<1> DEFINE y == Leaf(t, x, d)
           A == Leaf(t, y, d)
           B == Leaf(t, y, Other(d))
           C == Leaf(t, x, Other(d))
           R == TurnedSets(S, t, x, d)
<1>1. /\ y \in 1 .. n /\ A \in 0 .. n /\ B \in 0 .. n /\ C \in 0 .. n
      /\ x # y /\ A \notin {x, y} /\ B \notin {x, y} /\ C \notin {x, y}
  BY TurnedNodes
<1>2. /\ Leaf(u, x, d) = B /\ Leaf(u, x, Other(d)) = C
      /\ Leaf(u, y, d) = A /\ Leaf(u, y, Other(d)) = x
      /\ R[y] = S[x] /\ R[x] = {x} \cup S[C] \cup S[B]
      /\ \A j \in 0 .. n : j # x /\ j # y => R[j] = S[j]
      /\ \A j \in 1 .. n, e \in Sides : j # x /\ j # y =>
            Leaf(u, j, e) \in 0 .. n /\ R[Leaf(u, j, e)] = S[Leaf(t, j, e)]
      /\ R \in [0 .. n -> SUBSET (1 .. n)]
  BY TurnedLeafs
<1>3. /\ Other(d) \in Sides /\ Other(d) # d /\ Other(Other(d)) = d
      /\ \A e \in Sides : e = d \/ e = Other(d)
  BY SideFacts
<1>4. /\ S[x] = S[y] \cup {x} \cup S[C] /\ S[Nil] = {}
      /\ \A j \in S[y] : Aside(d, Key(t, j), Key(t, x))
      /\ \A j \in S[C] : Aside(Other(d), Key(t, j), Key(t, x))
      /\ S[C] \subseteq 1 .. n /\ Key(t, x) \in Data
      /\ \A j \in 1 .. n : Key(t, j) \in Data
  BY <1>1, <1>3, ShapeFacts
<1>5. /\ S[y] = S[A] \cup {y} \cup S[B]
      /\ \A j \in S[A] : Aside(d, Key(t, j), Key(t, y))
      /\ \A j \in S[B] : Aside(Other(d), Key(t, j), Key(t, y))
      /\ Key(t, y) \in Data
  <2> HIDE DEF y
  <2> QED
    BY <1>1, <1>3, ShapeFacts
<1>6. /\ u \in Tree(n) /\ \A j \in 1 .. n : Key(u, j) = Key(t, j)
      /\ u.root = IF t.root = x THEN y ELSE t.root
  BY DEF Turned, SameKeys
<1>7. /\ S[t.root] = 1 .. n /\ t.root \in 0 .. n
  BY ShapeFacts DEF Shape, Spans
<1>8. t.root # y
  BY RootIsNoLeaf
<1>9. /\ \A j \in 1 .. n, e \in Sides :
            /\ S[j] = S[Leaf(t, j, e)] \cup {j} \cup S[Leaf(t, j, Other(e))]
            /\ \A i \in S[Leaf(t, j, e)] : Aside(e, Key(t, i), Key(t, j)) /\ i \in 1 .. n
  BY ShapeFacts
<1> HIDE DEF y, A, B, C, R
<1>10. R[A] = S[A] /\ R[B] = S[B] /\ R[C] = S[C] /\ R[Nil] = S[Nil]
  BY <1>1, <1>2 DEF Nil
<1>11. R[u.root] = 1 .. n
  BY <1>2, <1>6, <1>7, <1>8
<1>12. ASSUME NEW i \in 1 .. n, NEW e \in Sides
       PROVE  R[i] = R[Leaf(u, i, e)] \cup {i} \cup R[Leaf(u, i, Other(e))]
  <2>1. CASE i = x
    <3>1. R[x] = R[B] \cup {x} \cup R[C]
      BY <1>2, <1>10
    <3>2. R[Leaf(u, x, d)] = R[B] /\ R[Leaf(u, x, Other(d))] = R[C]
      BY <1>2
    <3>3. CASE e = d
      BY <2>1, <3>1, <3>2, <3>3
    <3>4. CASE e = Other(d)
      <4>1. Other(e) = d
        BY <1>3, <3>4
      <4> QED
        BY <2>1, <3>1, <3>2, <3>4, <4>1
    <3> QED
      BY <1>3, <3>3, <3>4
  <2>2. CASE i = y
    <3>1. R[y] = R[A] \cup {y} \cup R[x]
      BY <1>2, <1>4, <1>5, <1>10
    <3>2. R[Leaf(u, y, d)] = R[A] /\ R[Leaf(u, y, Other(d))] = R[x]
      BY <1>2
    <3>3. CASE e = d
      BY <2>2, <3>1, <3>2, <3>3
    <3>4. CASE e = Other(d)
      <4>1. Other(e) = d
        BY <1>3, <3>4
      <4> QED
        BY <2>2, <3>1, <3>2, <3>4, <4>1
    <3> QED
      BY <1>3, <3>3, <3>4
  <2>3. CASE i # x /\ i # y
    <3>1. Other(e) \in Sides
      BY SideFacts
    <3>2. R[i] = S[i] /\ R[Leaf(u, i, e)] = S[Leaf(t, i, e)]
          /\ R[Leaf(u, i, Other(e))] = S[Leaf(t, i, Other(e))]
      BY <1>2, <2>3, <3>1
    <3> QED
      BY <1>9, <3>2
  <2> QED
    BY <2>1, <2>2, <2>3
<1>13. ASSUME NEW i \in 1 .. n, NEW e \in Sides, NEW j \in R[Leaf(u, i, e)]
       PROVE  Aside(e, Key(u, j), Key(u, i))
  <2>0. S[A] \subseteq S[y] /\ S[B] \subseteq S[y] /\ y \in S[y] /\ S[y] \subseteq 1 .. n
    <3>1. S[y] \subseteq 1 .. n
      BY <1>1, ShapeFacts
    <3> QED
      BY <1>5, <3>1
  <2>1. CASE i = x /\ e = d
    <3>1. j \in S[B]
      BY <1>2, <1>10, <1>13, <2>1
    <3>2. j \in S[y] /\ j \in 1 .. n
      BY <2>0, <3>1
    <3> QED
      BY <1>4, <1>6, <2>1, <3>2
  <2>2. CASE i = x /\ e = Other(d)
    <3>1. j \in S[C]
      BY <1>2, <1>10, <1>13, <2>2
    <3>2. j \in 1 .. n
      BY <1>4, <3>1
    <3> QED
      BY <1>4, <1>6, <2>2, <3>1, <3>2
  <2>3. CASE i = y /\ e = d
    <3>1. j \in S[A]
      BY <1>2, <1>10, <1>13, <2>3
    <3>2. j \in 1 .. n
      BY <2>0, <3>1
    <3> QED
      BY <1>1, <1>5, <1>6, <2>3, <3>1, <3>2
  <2>4. CASE i = y /\ e = Other(d)
    <3>1. j \in R[x]
      BY <1>2, <1>13, <2>4
    <3>2. Aside(Other(d), Key(t, x), Key(t, y))
      <4>1. Aside(d, Key(t, y), Key(t, x))
        BY <1>4, <2>0
      <4> QED
        BY <1>4, <1>5, <4>1, AsideFacts
    <3>3. CASE j = x
      BY <1>1, <1>6, <2>4, <3>2, <3>3
    <3>4. CASE j \in S[B]
      <4>1. j \in 1 .. n
        BY <2>0, <3>4
      <4> QED
        BY <1>1, <1>5, <1>6, <2>4, <3>4, <4>1
    <3>5. CASE j \in S[C]
      <4>1. j \in 1 .. n /\ Aside(Other(d), Key(t, j), Key(t, x)) /\ Key(t, j) \in Data
        BY <1>4, <3>5
      <4>2. Aside(Other(d), Key(t, j), Key(t, y))
        BY <1>3, <1>4, <1>5, <3>2, <4>1, AsideFacts
      <4> QED
        BY <1>1, <1>6, <2>4, <4>1, <4>2
    <3> QED
      BY <1>2, <3>1, <3>3, <3>4, <3>5
  <2>5. CASE i # x /\ i # y
    <3>1. j \in S[Leaf(t, i, e)]
      BY <1>2, <1>13, <2>5
    <3> QED
      BY <1>6, <1>9, <3>1
  <2> QED
    BY <1>3, <2>1, <2>2, <2>3, <2>4, <2>5
<1>14. Shape(u, n, R)
  <2>1. R[Nil] = {}
    BY <1>4, <1>10
  <2>2. Spans(u, n, R)
    BY <1>2, <1>11, <1>12, <2>1 DEF Spans
  <2>3. Ordered(u, n, R)
    BY <1>13 DEF Ordered
  <2> QED
    BY <1>6, <2>2, <2>3 DEF Shape
<1> QED
  BY <1>14 DEF R

----------------------------------------------------------------------------
(* The colours: h[i] is the number of black nodes on each way down from i. *)

Heights(t, n, h) ==
    /\ h \in [0 .. n -> Nat] /\ h[Nil] = 0
    /\ \A i \in 1 .. n, d \in Sides :
         h[i] = h[Leaf(t, i, d)] + (IF IsRed(t, i) THEN 0 ELSE 1)

RedLeaf(t, i, d) == Leaf(t, i, d) # Nil /\ IsRed(t, Leaf(t, i, d))

\* Only node i, on its side d, may be red with a red leaf.
ClashOnlyAt(t, n, i, d) ==
    \A j \in 1 .. n, e \in Sides : IsRed(t, j) /\ RedLeaf(t, j, e) => j = i /\ e = d

NoClash(t, n) == \A j \in 1 .. n, e \in Sides : ~(IsRed(t, j) /\ RedLeaf(t, j, e))

SameColours(u, t, n) == \A j \in 1 .. n : IsRed(u, j) = IsRed(t, j)

LEMMA HeightFacts ==
    ASSUME NEW n \in Nat, NEW t \in Tree(n), NEW h, Heights(t, n, h)
    PROVE  /\ h \in [0 .. n -> Nat] /\ h[Nil] = 0
           /\ \A i \in 0 .. n : h[i] \in Nat
           /\ \A i \in 1 .. n, d \in Sides :
                /\ IsRed(t, i) \in BOOLEAN /\ h[Leaf(t, i, d)] \in Nat
                /\ IsRed(t, i) => h[i] = h[Leaf(t, i, d)]
                /\ ~IsRed(t, i) => h[i] = h[Leaf(t, i, d)] + 1
<1>1. /\ h \in [0 .. n -> Nat] /\ h[Nil] = 0
      /\ \A i \in 1 .. n, d \in Sides :
           h[i] = h[Leaf(t, i, d)] + (IF IsRed(t, i) THEN 0 ELSE 1)
  BY DEF Heights
<1>2. \A i \in 1 .. n, d \in Sides :
         IsRed(t, i) \in BOOLEAN /\ Leaf(t, i, d) \in 0 .. n
  BY TreeFacts
<1> QED
  BY <1>1, <1>2

LEMMA RedLeafFacts ==
    ASSUME NEW n \in Nat, NEW t \in Tree(n), NEW i \in 1 .. n, NEW d \in Sides
    PROVE  RedLeaf(t, i, d) \in BOOLEAN /\ (RedLeaf(t, i, d) => Leaf(t, i, d) \in 1 .. n)
<1>1. Leaf(t, i, d) \in 0 .. n
  BY TreeFacts
<1>2. RedLeaf(t, i, d) => Leaf(t, i, d) \in 1 .. n
  BY <1>1 DEF RedLeaf, Nil
<1> QED
  BY <1>2, TreeFacts DEF RedLeaf

\* A red node below a red one is turned up to the outer side: nothing else clashes.
LEMMA TurnInner ==
    ASSUME NEW n \in Nat, NEW t, NEW S, Shape(t, n, S), NEW h, Heights(t, n, h),
           NEW x \in 1 .. n, NEW d \in Sides, Leaf(t, x, d) # Nil,
           ~IsRed(t, x), ~RedLeaf(t, x, Other(d)), IsRed(t, Leaf(t, x, d)),
           RedLeaf(t, Leaf(t, x, d), Other(d)),
           ClashOnlyAt(t, n, Leaf(t, x, d), Other(d)),
           NEW u, Turned(u, t, n, Leaf(t, x, d), Other(d)), SameColours(u, t, n)
    PROVE  LET w == Leaf(t, Leaf(t, x, d), Other(d))
           IN /\ Shape(u, n, TurnedSets(S, t, Leaf(t, x, d), Other(d))) /\ Heights(u, n, h)
              /\ w \in 1 .. n /\ Leaf(u, x, d) = w /\ IsRed(u, w) /\ ~IsRed(u, x)
              /\ ~RedLeaf(u, x, Other(d)) /\ ClashOnlyAt(u, n, w, d)
<1> DEFINE y == Leaf(t, x, d)
           o == Other(d)
           w == Leaf(t, y, o)
           R == TurnedSets(S, t, y, o)
<1>1. o \in Sides /\ o # d /\ Other(o) = d /\ \A e \in Sides : e = d \/ e = o
  BY SideFacts
<1>2. /\ t \in Tree(n) /\ u \in Tree(n)
  BY DEF Shape, Turned
<1>3. y \in 1 .. n
  <2>1. y \in 0 .. n
    BY ShapeFacts
  <2> QED
    BY <2>1 DEF Nil
<1>4. /\ x # y /\ w # x /\ Leaf(t, x, o) # y /\ Leaf(t, x, o) # x
  BY TurnedNodes
<1>5. \A j \in 1 .. n, e \in Sides : Leaf(t, j, e) = y => j = x /\ e = d
  <2>1. Leaf(t, x, d) # Nil /\ y = Leaf(t, x, d)
    OBVIOUS
  <2> HIDE DEF y
  <2> QED
    BY <2>1, UniqueParent
<1>6. /\ ~IsRed(t, x) /\ ~RedLeaf(t, x, o) /\ IsRed(t, y) /\ RedLeaf(t, y, o)
      /\ ClashOnlyAt(t, n, y, o) /\ Turned(u, t, n, y, o) /\ y = Leaf(t, x, d)
  OBVIOUS
<1>7. w # Nil /\ IsRed(t, w)
  BY <1>6 DEF RedLeaf
<1> SUFFICES /\ Shape(u, n, R) /\ Heights(u, n, h)
             /\ w \in 1 .. n /\ Leaf(u, x, d) = w /\ IsRed(u, w) /\ ~IsRed(u, x)
             /\ ~RedLeaf(u, x, o) /\ ClashOnlyAt(u, n, w, d)
  OBVIOUS
<1> HIDE DEF y, o
<1>8. Shape(u, n, R)
  BY <1>1, <1>3, <1>6, <1>7, TurnedShape
<1>9. /\ w \in 1 .. n /\ y # w /\ Leaf(t, w, d) \in 0 .. n
      /\ Leaf(t, w, o) \notin {y, w} /\ Leaf(t, w, d) \notin {y, w} /\ Leaf(t, y, d) \notin {y, w}
  BY <1>1, <1>3, <1>7, TurnedNodes
<1>10. /\ Leaf(u, y, o) = Leaf(t, w, d) /\ Leaf(u, y, d) = Leaf(t, y, d)
       /\ Leaf(u, w, o) = Leaf(t, w, o) /\ Leaf(u, w, d) = y
       /\ \A j \in 1 .. n, e \in Sides : j # y /\ j # w =>
            /\ Leaf(u, j, e) = IF Leaf(t, j, e) = y THEN w ELSE Leaf(t, j, e)
            /\ Leaf(t, j, e) # w
  BY <1>1, <1>3, <1>6, <1>7, TurnedLeafs
<1>11. \A j \in 1 .. n : IsRed(u, j) = IsRed(t, j)
  BY DEF SameColours
<1> HIDE DEF w
<1>12. Leaf(u, x, d) = w /\ IsRed(u, w) /\ ~IsRed(u, x)
  BY <1>1, <1>4, <1>6, <1>7, <1>9, <1>10, <1>11
<1>13. \A j \in 0 .. n : j # Nil => IsRed(u, j) = IsRed(t, j)
  BY <1>11 DEF Nil
<1>14. \A j \in 1 .. n, e \in Sides : Leaf(t, j, e) \in 0 .. n
  BY <1>2, TreeFacts
<1>15. ~RedLeaf(u, x, o)
  <2>1. Leaf(u, x, o) = Leaf(t, x, o)
    BY <1>1, <1>4, <1>9, <1>10
  <2> QED
    BY <1>1, <1>6, <1>13, <1>14, <2>1 DEF RedLeaf
<1>16. ClashOnlyAt(u, n, w, d)
  <2> SUFFICES ASSUME NEW j \in 1 .. n, NEW e \in Sides, IsRed(u, j), RedLeaf(u, j, e),
                      ~(j = w /\ e = d)
               PROVE  FALSE
    BY DEF ClashOnlyAt
  <2>1. ASSUME NEW i \in 1 .. n, NEW f \in Sides, IsRed(t, i), RedLeaf(t, i, f)
        PROVE  i = y /\ f = o
    BY <1>6, <2>1 DEF ClashOnlyAt
  <2>2. CASE j = y /\ e = o
    <3>1. RedLeaf(t, w, d)
      BY <1>9, <1>10, <1>13, <2>2 DEF RedLeaf
    <3> QED
      BY <1>1, <1>7, <1>9, <2>1, <3>1
  <2>3. CASE j = y /\ e = d
    <3>1. RedLeaf(t, y, d)
      BY <1>3, <1>10, <1>13, <1>14, <2>3 DEF RedLeaf
    <3> QED
      BY <1>1, <1>3, <1>6, <2>1, <3>1
  <2>4. CASE j = w
    <3>1. e = o
      BY <1>1, <2>4
    <3>2. RedLeaf(t, w, o)
      BY <1>1, <1>9, <1>10, <1>13, <1>14, <2>4, <3>1 DEF RedLeaf
    <3> QED
      BY <1>1, <1>7, <1>9, <2>1, <3>2
  <2>5. CASE j # y /\ j # w
    <3>1. IsRed(t, j)
      BY <1>11
    <3>2. Leaf(t, j, e) # y
      BY <1>5, <1>6, <3>1
    <3>3. RedLeaf(t, j, e)
      BY <1>10, <1>13, <1>14, <2>5, <3>2 DEF RedLeaf
    <3> QED
      BY <2>1, <2>5, <3>1, <3>3
  <2> QED
    BY <1>1, <2>2, <2>3, <2>4, <2>5
<1>17. Heights(u, n, h)
  <2>1. /\ h \in [0 .. n -> Nat] /\ h[Nil] = 0 /\ \A i \in 0 .. n : h[i] \in Nat
        /\ \A i \in 1 .. n, e \in Sides :
             /\ IsRed(t, i) => h[i] = h[Leaf(t, i, e)]
             /\ h[i] = h[Leaf(t, i, e)] + (IF IsRed(t, i) THEN 0 ELSE 1)
    <3>1. \A i \in 1 .. n, e \in Sides :
            h[i] = h[Leaf(t, i, e)] + (IF IsRed(t, i) THEN 0 ELSE 1)
      BY DEF Heights
    <3> QED
      BY <1>2, <3>1, HeightFacts
  <2>2. /\ h[y] = h[w] /\ h[w] = h[Leaf(t, w, d)] /\ h[w] = h[Leaf(t, w, o)]
        /\ h[y] = h[Leaf(t, y, d)]
    <3>1. w = Leaf(t, y, o)
      BY DEF w
    <3> QED
      BY <1>1, <1>3, <1>6, <1>7, <1>9, <2>1, <3>1
  <2>3. ASSUME NEW i \in 1 .. n, NEW e \in Sides PROVE h[Leaf(u, i, e)] = h[Leaf(t, i, e)]
    <3>1. CASE i = y
      <4>1. CASE e = o
        BY <1>10, <2>1, <2>2, <3>1, <4>1 DEF w
      <4>2. CASE e = d
        BY <1>10, <3>1, <4>2
      <4> QED
        BY <1>1, <4>1, <4>2
    <3>2. CASE i = w
      <4>1. CASE e = d
        BY <1>10, <2>2, <3>2, <4>1
      <4>2. CASE e = o
        BY <1>10, <3>2, <4>2
      <4> QED
        BY <1>1, <4>1, <4>2
    <3>3. CASE i # y /\ i # w
      BY <1>10, <2>2, <3>3
    <3> QED
      BY <3>1, <3>2, <3>3
  <2>4. ASSUME NEW i \in 1 .. n, NEW e \in Sides
        PROVE  h[i] = h[Leaf(u, i, e)] + (IF IsRed(u, i) THEN 0 ELSE 1)
    BY <1>11, <2>1, <2>3
  <2> QED
    BY <2>1, <2>4 DEF Heights
<1> QED
  BY <1>8, <1>9, <1>12, <1>15, <1>16, <1>17

\* A red node below a red one on the outer side: after the turn, with the colours
\* of the two that change places exchanged, nothing clashes.
LEMMA TurnOuter ==
    ASSUME NEW n \in Nat, NEW t, NEW S, Shape(t, n, S), NEW h, Heights(t, n, h),
           NEW x \in 1 .. n, NEW d \in Sides, Leaf(t, x, d) # Nil,
           ~IsRed(t, x), ~RedLeaf(t, x, Other(d)), IsRed(t, Leaf(t, x, d)),
           ClashOnlyAt(t, n, Leaf(t, x, d), d),
           NEW u, Turned(u, t, n, x, d),
           ~IsRed(u, Leaf(t, x, d)), IsRed(u, x),
           \A j \in 1 .. n : j # x /\ j # Leaf(t, x, d) => IsRed(u, j) = IsRed(t, j)
    PROVE  /\ Shape(u, n, TurnedSets(S, t, x, d))
           /\ \E g : Heights(u, n, g)
           /\ NoClash(u, n)
<1> DEFINE y == Leaf(t, x, d)
           o == Other(d)
           g == [h EXCEPT ![x] = h[y], ![y] = h[x]]
<1>1. o \in Sides /\ o # d /\ Other(o) = d /\ \A e \in Sides : e = d \/ e = o
  BY SideFacts
<1>2. /\ t \in Tree(n) /\ u \in Tree(n)
  BY DEF Shape, Turned
<1>3. /\ y \in 1 .. n /\ x # y /\ Leaf(t, y, d) \notin {x, y} /\ Leaf(t, y, o) \notin {x, y}
      /\ Leaf(t, x, o) \notin {x, y}
  BY TurnedNodes
<1>4. /\ Leaf(u, x, d) = Leaf(t, y, o) /\ Leaf(u, x, o) = Leaf(t, x, o)
      /\ Leaf(u, y, d) = Leaf(t, y, d) /\ Leaf(u, y, o) = x
      /\ \A j \in 1 .. n, e \in Sides : j # x /\ j # y =>
            /\ Leaf(u, j, e) = IF Leaf(t, j, e) = x THEN y ELSE Leaf(t, j, e)
            /\ Leaf(t, j, e) # y
  BY TurnedLeafs
<1>5. /\ ~IsRed(t, x) /\ ~RedLeaf(t, x, o) /\ IsRed(t, y) /\ ClashOnlyAt(t, n, y, d)
      /\ ~IsRed(u, y) /\ IsRed(u, x)
      /\ \A j \in 1 .. n : j # x /\ j # y => IsRed(u, j) = IsRed(t, j)
      /\ y = Leaf(t, x, d)
  OBVIOUS
<1>6. Shape(u, n, TurnedSets(S, t, x, d))
  BY TurnedShape
<1> HIDE DEF y, o, g
<1>7. \A j \in 1 .. n, e \in Sides : Leaf(t, j, e) \in 0 .. n
  BY <1>2, TreeFacts
<1>8. \A j \in 0 .. n : j # Nil /\ j # x /\ j # y => IsRed(u, j) = IsRed(t, j)
  BY <1>5 DEF Nil
<1>9. NoClash(u, n)
  <2> SUFFICES ASSUME NEW j \in 1 .. n, NEW e \in Sides, IsRed(u, j), RedLeaf(u, j, e)
               PROVE  FALSE
    BY DEF NoClash
  <2>1. ASSUME NEW i \in 1 .. n, NEW f \in Sides, IsRed(t, i), RedLeaf(t, i, f)
        PROVE  i = y /\ f = d
    BY <1>5, <2>1 DEF ClashOnlyAt
  <2>2. CASE j = y
    BY <1>5, <2>2
  <2>3. CASE j = x /\ e = d
    <3>1. RedLeaf(t, y, o)
      BY <1>1, <1>3, <1>4, <1>7, <1>8, <2>3 DEF RedLeaf
    <3> QED
      BY <1>1, <1>3, <1>5, <2>1, <3>1
  <2>4. CASE j = x /\ e = o
    <3>1. RedLeaf(t, x, o)
      BY <1>1, <1>3, <1>4, <1>7, <1>8, <2>4 DEF RedLeaf
    <3> QED
      BY <1>5, <3>1
  <2>5. CASE j # y /\ j # x
    <3>1. IsRed(t, j)
      BY <1>5, <2>5
    <3>2. Leaf(t, j, e) # x /\ Leaf(t, j, e) # y
      BY <1>4, <1>5, <2>5 DEF RedLeaf
    <3>3. RedLeaf(t, j, e)
      BY <1>4, <1>7, <1>8, <2>5, <3>2 DEF RedLeaf
    <3> QED
      BY <2>1, <2>5, <3>1, <3>3
  <2> QED
    BY <1>1, <2>2, <2>3, <2>4, <2>5
<1>10. Heights(u, n, g)
  <2>1. /\ h \in [0 .. n -> Nat] /\ h[Nil] = 0 /\ \A i \in 0 .. n : h[i] \in Nat
    BY <1>2, HeightFacts
  <2>2. \A i \in 1 .. n, e \in Sides :
          h[i] = h[Leaf(t, i, e)] + (IF IsRed(t, i) THEN 0 ELSE 1)
    BY DEF Heights
  <2>3. /\ h[x] = h[y] + 1 /\ h[x] = h[Leaf(t, x, o)] + 1
        /\ h[y] = h[Leaf(t, y, d)] /\ h[y] = h[Leaf(t, y, o)]
    <3>1. y \in 0 .. n /\ Leaf(t, x, o) \in 0 .. n /\ Leaf(t, y, d) \in 0 .. n /\ Leaf(t, y, o) \in 0 .. n
      BY <1>1, <1>3, <1>7
    <3>2. /\ h[x] = h[Leaf(t, x, d)] + 1 /\ h[x] = h[Leaf(t, x, o)] + 1
      BY <1>1, <1>5, <2>2
    <3>3. /\ h[y] = h[Leaf(t, y, d)] + 0 /\ h[y] = h[Leaf(t, y, o)] + 0
      BY <1>1, <1>3, <1>5, <2>2
    <3> QED
      BY <1>5, <2>1, <3>1, <3>2, <3>3
  <2>4. /\ g \in [0 .. n -> Nat] /\ g[x] = h[y] /\ g[y] = h[x]
        /\ \A i \in 0 .. n : i # x /\ i # y => g[i] = h[i]
    <3>1. x \in 0 .. n /\ y \in 0 .. n /\ h[x] \in Nat /\ h[y] \in Nat
      BY <1>3, <2>1
    <3> QED
      BY <1>3, <2>1, <3>1 DEF g
  <2>5. g[Nil] = 0
    BY <1>3, <2>1, <2>4 DEF Nil
  <2>6. ASSUME NEW i \in 1 .. n, NEW e \in Sides
        PROVE  g[i] = g[Leaf(u, i, e)] + (IF IsRed(u, i) THEN 0 ELSE 1)
    <3>0. /\ Leaf(t, x, o) \in 0 .. n /\ Leaf(t, y, d) \in 0 .. n /\ Leaf(t, y, o) \in 0 .. n
          /\ Leaf(t, i, e) \in 0 .. n /\ h[y] \in Nat /\ h[x] \in Nat
      <4>1. x \in 0 .. n /\ y \in 0 .. n
        BY <1>3
      <4> QED
        BY <1>1, <1>3, <1>7, <2>1, <4>1
    <3>1. CASE i = x
      <4>1. g[Leaf(u, x, d)] = h[y] /\ g[Leaf(u, x, o)] = h[y]
        <5>1. g[Leaf(t, y, o)] = h[Leaf(t, y, o)] /\ g[Leaf(t, x, o)] = h[Leaf(t, x, o)]
          BY <1>3, <2>4, <3>0
        <5>2. Leaf(t, x, o) \in 0 .. n /\ h[Leaf(t, x, o)] \in Nat
          BY <2>1, <3>0
        <5> QED
          BY <1>4, <2>3, <3>0, <5>1, <5>2
      <4>2. g[x] = h[y] + 0
        BY <2>4, <3>0
      <4> QED
        BY <1>1, <1>5, <3>1, <4>1, <4>2
    <3>2. CASE i = y
      <4>1. g[Leaf(u, y, d)] = h[y] /\ g[Leaf(u, y, o)] = h[y]
        BY <1>3, <1>4, <2>3, <2>4, <3>0
      <4> QED
        BY <1>1, <1>5, <2>3, <2>4, <3>2, <4>1
    <3>3. CASE i # x /\ i # y
      <4>1. g[Leaf(u, i, e)] = h[Leaf(t, i, e)]
        BY <1>4, <2>4, <3>0, <3>3
      <4>2. h[i] = h[Leaf(t, i, e)] + (IF IsRed(t, i) THEN 0 ELSE 1) /\ g[i] = h[i]
        BY <2>2, <2>4, <3>3
      <4> QED
        BY <1>5, <3>3, <4>1, <4>2
    <3> QED
      BY <3>1, <3>2, <3>3
  <2> QED
    BY <2>4, <2>5, <2>6 DEF Heights
<1> QED
  BY <1>6, <1>9, <1>10

\* A shape is of the root, the leafs and the keys.
LEMMA ShapeKept ==
    ASSUME NEW n \in Nat, NEW t, NEW S, Shape(t, n, S), NEW u \in Tree(n), u.root = t.root,
           SameKeys(u, t, n), \A j \in 1 .. n, f \in Sides : Leaf(u, j, f) = Leaf(t, j, f)
    PROVE  Shape(u, n, S)
<1>1. Spans(u, n, S)
  BY SideFacts DEF Shape, Spans
<1>2. Ordered(u, n, S)
  <2> SUFFICES ASSUME NEW i \in 1 .. n, NEW f \in Sides, NEW j \in S[Leaf(u, i, f)]
               PROVE  Aside(f, Key(u, j), Key(u, i))
    BY DEF Ordered
  <2>1. Leaf(u, i, f) = Leaf(t, i, f) /\ Leaf(t, i, f) \in 0 .. n
    BY ShapeFacts
  <2>2. j \in 1 .. n
    BY <2>1, ShapeFacts
  <2>3. Key(u, j) = Key(t, j) /\ Key(u, i) = Key(t, i)
    BY <2>2 DEF SameKeys
  <2> QED
    BY <2>1, <2>3, ShapeFacts
<1> QED
  BY <1>1, <1>2 DEF Shape

\* u is t with x red, and y and z black.
Repainted(u, t, n, x, y, z) ==
    /\ u \in Tree(n) /\ u.root = t.root /\ SameKeys(u, t, n)
    /\ \A j \in 1 .. n, f \in Sides : Leaf(u, j, f) = Leaf(t, j, f)
    /\ IsRed(u, x) /\ ~IsRed(u, y) /\ ~IsRed(u, z)
    /\ \A j \in 1 .. n : j \notin {x, y, z} => IsRed(u, j) = IsRed(t, j)

\* Only what has the leaf x may be red with a red leaf.
ClashOnlyAbove(t, n, x) ==
    \A j \in 1 .. n, f \in Sides : IsRed(t, j) /\ RedLeaf(t, j, f) => Leaf(t, j, f) = x

\* A red node below a red one whose sibling is red too: all three change colour
\* with the node above, so that only that one may clash, with its own parent.
LEMMA Recoloured ==
    ASSUME NEW n \in Nat, NEW t, NEW S, Shape(t, n, S), NEW h, Heights(t, n, h),
           NEW x \in 1 .. n, NEW d \in Sides, NEW e \in Sides,
           NEW y, y = Leaf(t, x, d), y # Nil, IsRed(t, y),
           NEW s, s = Leaf(t, x, Other(d)), RedLeaf(t, x, Other(d)),
           ClashOnlyAt(t, n, y, e), NEW u, Repainted(u, t, n, x, y, s)
    PROVE  /\ Shape(u, n, S)
           /\ \E g : Heights(u, n, g)
           /\ ClashOnlyAbove(u, n, x)
           /\ ~IsRed(t, x)
<1> DEFINE g == [h EXCEPT ![y] = h[y] + 1, ![s] = h[s] + 1]
<1>0. /\ Other(d) \in Sides /\ Other(d) # d /\ \A f \in Sides : f = d \/ f = Other(d)
  BY SideFacts
<1>1. t \in Tree(n) /\ Leaf(t, x, Other(d)) # Nil
  BY DEF Shape, RedLeaf
<1>2. /\ y \in 1 .. n /\ s \in 1 .. n
  <2>1. y \in 0 .. n /\ s \in 0 .. n
    BY <1>0, <1>1, TreeFacts
  <2> QED
    BY <1>1, <2>1 DEF Nil
<1>3. x # y /\ x # s /\ y # s
  BY <1>1, TurnedNodes
<1>4. \A j \in 1 .. n, f \in Sides :
        /\ Leaf(t, j, f) = y => j = x /\ f = d
        /\ Leaf(t, j, f) = s => j = x /\ f = Other(d)
  <2>1. Leaf(t, x, d) # Nil /\ y = Leaf(t, x, d) /\ Leaf(t, x, Other(d)) # Nil /\ s = Leaf(t, x, Other(d))
    BY <1>1
  <2> QED
    BY <1>0, <2>1, UniqueParent
<1>5. Shape(u, n, S)
  BY ShapeKept DEF Repainted
<1>6. /\ IsRed(t, y) /\ IsRed(t, s) /\ IsRed(u, x) /\ ~IsRed(u, y) /\ ~IsRed(u, s)
      /\ \A j \in 1 .. n : j \notin {x, y, s} => IsRed(u, j) = IsRed(t, j)
      /\ \A j \in 1 .. n, f \in Sides : Leaf(u, j, f) = Leaf(t, j, f)
      /\ ClashOnlyAt(t, n, y, e) /\ y = Leaf(t, x, d) /\ s = Leaf(t, x, Other(d)) /\ y # Nil
  BY DEF RedLeaf, Repainted
<1> HIDE DEF g
<1>7. ~IsRed(t, x)
  <2>1. RedLeaf(t, x, d)
    BY <1>6 DEF RedLeaf
  <2> QED
    BY <1>3, <1>6, <2>1 DEF ClashOnlyAt
<1>8. ASSUME NEW j \in 1 .. n, NEW f \in Sides, IsRed(u, j), RedLeaf(u, j, f)
      PROVE  Leaf(u, j, f) = x
  <2>1. SUFFICES ASSUME Leaf(u, j, f) # x PROVE FALSE
    OBVIOUS
  <2>2. Leaf(t, j, f) \in 1 .. n
    <3>1. Leaf(t, j, f) \in 0 .. n /\ Leaf(t, j, f) # Nil
      BY <1>1, <1>6, <1>8, TreeFacts DEF RedLeaf
    <3> QED
      BY <3>1 DEF Nil
  <2>3. j # y /\ j # s /\ Leaf(t, j, f) # y /\ Leaf(t, j, f) # s /\ Leaf(t, j, f) # x
    BY <1>6, <1>8, <2>1 DEF RedLeaf
  <2>4. IsRed(t, Leaf(t, j, f)) /\ RedLeaf(t, j, f)
    BY <1>6, <1>8, <2>2, <2>3 DEF RedLeaf
  <2>5. j # x
    BY <1>0, <1>6, <2>3
  <2>6. IsRed(t, j)
    BY <1>6, <1>8, <2>3, <2>5
  <2> QED
    BY <1>6, <2>3, <2>4, <2>6 DEF ClashOnlyAt
<1>9. Heights(u, n, g)
  <2>1. /\ h \in [0 .. n -> Nat] /\ h[Nil] = 0 /\ \A i \in 0 .. n : h[i] \in Nat
    BY <1>1, HeightFacts
  <2>2. \A i \in 1 .. n, f \in Sides :
          h[i] = h[Leaf(t, i, f)] + (IF IsRed(t, i) THEN 0 ELSE 1)
    BY DEF Heights
  <2>3. /\ g \in [0 .. n -> Nat] /\ g[y] = h[y] + 1 /\ g[s] = h[s] + 1
        /\ \A i \in 0 .. n : i # y /\ i # s => g[i] = h[i]
    <3>1. y \in 0 .. n /\ s \in 0 .. n /\ h[y] + 1 \in Nat /\ h[s] + 1 \in Nat
      BY <1>2, <2>1
    <3> QED
      BY <1>3, <2>1, <3>1 DEF g
  <2>4. g[Nil] = 0
    BY <1>2, <2>1, <2>3 DEF Nil
  <2>5. ASSUME NEW i \in 1 .. n, NEW f \in Sides
        PROVE  g[i] = g[Leaf(u, i, f)] + (IF IsRed(u, i) THEN 0 ELSE 1)
    <3>0. Leaf(t, i, f) \in 0 .. n /\ h[Leaf(t, i, f)] \in Nat /\ h[i] \in Nat
      BY <1>1, <2>1, TreeFacts
    <3>1. CASE i = x
      <4>1. h[x] = h[Leaf(t, x, f)] + 1
        BY <1>7, <2>2
      <4>2. g[Leaf(t, x, f)] = h[Leaf(t, x, f)] + 1
        BY <1>0, <1>6, <2>3
      <4>3. g[x] = h[x] + 0 /\ h[x] + 0 = h[x]
        BY <1>3, <2>1, <2>3
      <4> QED
        BY <1>6, <2>1, <3>0, <3>1, <4>1, <4>2, <4>3
    <3>2. CASE i = y \/ i = s
      <4>1. h[i] = h[Leaf(t, i, f)] + 0
        BY <1>6, <2>2, <3>2
      <4>2. Leaf(t, i, f) # y /\ Leaf(t, i, f) # s
        BY <1>3, <1>4, <3>2
      <4>3. g[i] = h[i] + 1 /\ g[Leaf(t, i, f)] = h[Leaf(t, i, f)]
        BY <2>3, <3>0, <3>2, <4>2
      <4> QED
        BY <1>6, <3>0, <3>2, <4>1, <4>3
    <3>3. CASE i \notin {x, y, s}
      <4>1. Leaf(t, i, f) # y /\ Leaf(t, i, f) # s
        BY <1>4, <3>3
      <4>2. g[i] = h[i] /\ g[Leaf(t, i, f)] = h[Leaf(t, i, f)]
        BY <2>3, <3>0, <3>3, <4>1
      <4> QED
        BY <1>6, <2>2, <3>3, <4>2
    <3> QED
      BY <3>1, <3>2, <3>3
  <2> QED
    BY <2>3, <2>4, <2>5 DEF Heights
<1> QED
  BY <1>5, <1>7, <1>8, <1>9 DEF ClashOnlyAbove

----------------------------------------------------------------------------
(* The walk down the tree.                                                 *)

Walks(n) == [p : 0 .. n, found : BOOLEAN, visited : Seq(1 .. n), dirs : Seq(Sides)]

WalkStart(t) == [p |-> t.root, found |-> FALSE, visited |-> << >>, dirs |-> << >>]

Step(t, data, w) ==
    LET dir == IF BytesCompare(data, Key(t, w.p)) > 0 THEN Right ELSE Left
    IN [p |-> Leaf(t, w.p, dir), found |-> FALSE,
        visited |-> Append(w.visited, w.p), dirs |-> Append(w.dirs, dir)]

LEMMA DescendCases ==
    ASSUME NEW t, NEW data, NEW w
    PROVE  Descend(t, data, w) =
             IF w.p = Nil \/ w.found THEN w
             ELSE IF BytesCompare(data, Key(t, w.p)) = 0 THEN [w EXCEPT !.found = TRUE]
             ELSE Step(t, data, w)
BY DEF Descend, Step, Key, Leaf

LEMMA StepFacts ==
    ASSUME NEW n \in Nat, NEW t \in Tree(n), NEW data \in Data, NEW w \in Walks(n), w.p # Nil
    PROVE  /\ w.p \in 1 .. n /\ Step(t, data, w) \in Walks(n)
           /\ [w EXCEPT !.found = TRUE] \in Walks(n)
<1>1. w.p \in 1 .. n /\ w.visited \in Seq(1 .. n) /\ w.dirs \in Seq(Sides)
  BY DEF Walks, Nil
<1> DEFINE dir == IF BytesCompare(data, Key(t, w.p)) > 0 THEN Right ELSE Left
<1>2. dir \in Sides
  BY SideFacts
<1>3. Step(t, data, w) = [p |-> Leaf(t, w.p, dir), found |-> FALSE,
                          visited |-> Append(w.visited, w.p), dirs |-> Append(w.dirs, dir)]
  BY DEF Step
<1> HIDE DEF dir
<1>4. Leaf(t, w.p, dir) \in 0 .. n
  BY <1>1, <1>2, TreeFacts
<1>5. Append(w.visited, w.p) \in Seq(1 .. n) /\ Append(w.dirs, dir) \in Seq(Sides)
  BY <1>1, <1>2, AppendProperties
<1>6. [w EXCEPT !.found = TRUE] \in Walks(n)
  BY DEF Walks
<1> QED
  BY <1>1, <1>3, <1>4, <1>5, <1>6 DEF Walks

LEMMA WalkStartFacts ==
    ASSUME NEW n \in Nat, NEW t \in Tree(n)
    PROVE  WalkStart(t) \in Walks(n)
<1>1. t.root \in 0 .. n
  BY TreeFacts
<1>2. << >> \in Seq(1 .. n) /\ << >> \in Seq(Sides)
  OBVIOUS
<1> QED
  BY <1>1, <1>2 DEF WalkStart, Walks

\* walked[k] is the walk after k rounds.
Walked(walked, t, n, data) ==
    /\ walked[0] = WalkStart(t)
    /\ \A k \in 1 .. n + 1 : walked[k] = Descend(t, data, walked[k - 1])
    /\ Walk(t, data) = walked[n + 1]

LEMMA WalkRuns ==
    ASSUME NEW n \in Nat, NEW t \in Tree(n), NEW data \in Data
    PROVE  \E walked : Walked(walked, t, n, data)
<1> DEFINE body(f) == [k \in 0 .. n + 1 |-> IF k = 0 THEN WalkStart(t)
                                            ELSE Descend(t, data, f[k - 1])]
           u == CHOOSE f : f = body(f)
           step == [w \in Walks(n) |-> Descend(t, data, w)]
<1>1. step \in [Walks(n) -> Walks(n)]
  <2>1. ASSUME NEW w \in Walks(n) PROVE Descend(t, data, w) \in Walks(n)
    BY DescendCases, StepFacts
  <2> QED
    BY <2>1
<1>2. \A w \in Walks(n) : step[w] = Descend(t, data, w)
  OBVIOUS
<1> HIDE DEF step
<1>3. PICK g : Iteration(g, Walks(n), WalkStart(t), step, n + 1)
  <2>1. n + 1 \in Nat
    OBVIOUS
  <2> QED
    BY <1>1, <2>1, Iterates, WalkStartFacts
<1>4. g = body(g)
  <2>1. /\ g \in [0 .. n + 1 -> Walks(n)] /\ g[0] = WalkStart(t)
        /\ \A k \in 1 .. n + 1 : g[k] = step[g[k - 1]]
    BY <1>3 DEF Iteration
  <2>2. ASSUME NEW k \in 0 .. n + 1 PROVE g[k] = body(g)[k]
    <3>1. CASE k = 0
      BY <2>1, <3>1
    <3>2. CASE k # 0
      <4>1. k \in 1 .. n + 1 /\ k - 1 \in 0 .. n + 1
        BY <3>2
      <4>2. g[k] = step[g[k - 1]] /\ g[k - 1] \in Walks(n)
        BY <2>1, <4>1
      <4> QED
        BY <1>2, <3>2, <4>2
    <3> QED
      BY <3>1, <3>2
  <2> QED
    BY <2>1, <2>2
<1>5. u = body(u)
  BY <1>4
<1>6. Walk(t, data) = u[n + 1]
  <2>1. Len(t.nodes) = n
    BY TreeFacts
  <2> QED
    BY <2>1 DEF Walk, WalkStart
<1> HIDE DEF u
<1>7. \A k \in 0 .. n + 1 : u[k] = IF k = 0 THEN WalkStart(t) ELSE Descend(t, data, u[k - 1])
  BY <1>5
<1>8. Walked(u, t, n, data)
  BY <1>6, <1>7 DEF Walked
<1> QED
  BY <1>8

\* The walk goes from a node to its leaf and has come to p.
Path(t, n, w) ==
    /\ w \in Walks(n) /\ Len(w.dirs) = Len(w.visited)
    /\ Len(w.visited) > 0 => w.visited[1] = t.root
    /\ \A j \in 1 .. Len(w.visited) - 1 : Leaf(t, w.visited[j], w.dirs[j]) = w.visited[j + 1]
    /\ w.p = IF Len(w.visited) = 0 THEN t.root
             ELSE Leaf(t, w.visited[Len(w.visited)], w.dirs[Len(w.visited)])

\* Wherever node p is below another one, data belongs on the same side of it.
Belongs(t, n, S, p, data) ==
    \A i \in 1 .. n, d \in Sides : p \in S[Leaf(t, i, d)] => Aside(d, data, Key(t, i))

BelongsBelow(t, n, S, w, data) ==
    Len(w.visited) > 0 =>
        /\ Belongs(t, n, S, w.visited[Len(w.visited)], data)
        /\ Aside(w.dirs[Len(w.visited)], data, Key(t, w.visited[Len(w.visited)]))

Present(t, n, S, p, data) == \A j \in 1 .. n : Key(t, j) = data => j \in S[p]

\* How many steps there may be from node p down.
Rank(t, h, p) == 2 * h[p] + (IF Red(t, p) THEN 1 ELSE 0)

\* After k rounds.
WalkInv(t, n, S, h, data, w, k) ==
    /\ Path(t, n, w)
    /\ w.found => w.p # Nil /\ Key(t, w.p) = data
    /\ ~w.found /\ w.p # Nil => Len(w.visited) = k
    /\ Len(w.visited) + Cardinality(S[w.p]) <= n
    /\ Belongs(t, n, S, w.p, data)
    /\ BelongsBelow(t, n, S, w, data)
    /\ Present(t, n, S, w.p, data)
    /\ Len(w.visited) + Rank(t, h, w.p) <= Rank(t, h, t.root)

LEMMA RankFacts ==
    ASSUME NEW n \in Nat, NEW t \in Tree(n), NEW h, Heights(t, n, h), NoClash(t, n)
    PROVE  /\ \A p \in 0 .. n : Rank(t, h, p) \in Nat /\ Rank(t, h, p) >= 2 * h[p]
           /\ \A p \in 1 .. n, d \in Sides : Rank(t, h, Leaf(t, p, d)) + 1 <= Rank(t, h, p)
<1>1. \A p \in 0 .. n : h[p] \in Nat
  BY HeightFacts
<1>2. ASSUME NEW p \in 0 .. n PROVE Rank(t, h, p) \in Nat /\ Rank(t, h, p) >= 2 * h[p]
  BY <1>1 DEF Rank
<1>3. ASSUME NEW p \in 1 .. n, NEW d \in Sides
      PROVE  Rank(t, h, Leaf(t, p, d)) + 1 <= Rank(t, h, p)
  <2> DEFINE l == Leaf(t, p, d)
  <2>1. /\ h[l] \in Nat /\ h[p] \in Nat /\ IsRed(t, p) \in BOOLEAN
        /\ IsRed(t, p) => h[p] = h[l]
        /\ ~IsRed(t, p) => h[p] = h[l] + 1
    BY <1>1, HeightFacts
  <2>2. Red(t, p) <=> IsRed(t, p)
    BY DEF Red, IsRed, Nil
  <2>3. IsRed(t, p) => ~Red(t, l)
    BY DEF NoClash, RedLeaf, Red, IsRed
  <2> SUFFICES Rank(t, h, l) + 1 <= Rank(t, h, p)
    OBVIOUS
  <2> HIDE DEF l
  <2>4. CASE IsRed(t, p)
    <3>1. Rank(t, h, p) = 2 * h[p] + 1 /\ h[p] = h[l]
      BY <2>1, <2>2, <2>4 DEF Rank
    <3>2. Rank(t, h, l) = 2 * h[l] + 0
      BY <2>3, <2>4 DEF Rank
    <3> QED
      BY <2>1, <3>1, <3>2
  <2>5. CASE ~IsRed(t, p)
    <3>1. Rank(t, h, p) = 2 * h[l] + 2
      BY <2>1, <2>2, <2>5 DEF Rank
    <3>2. Rank(t, h, l) = 2 * h[l] + 1 \/ Rank(t, h, l) = 2 * h[l] + 0
      BY DEF Rank
    <3> QED
      BY <2>1, <3>1, <3>2
  <2> QED
    BY <2>1, <2>4, <2>5
<1> QED
  BY <1>2, <1>3

LEMMA SizeFacts ==
    ASSUME NEW n \in Nat, NEW t, NEW S, Shape(t, n, S)
    PROVE  /\ \A i \in 0 .. n : IsFiniteSet(S[i]) /\ Cardinality(S[i]) \in Nat
           /\ Cardinality(S[t.root]) = n
           /\ \A i \in 1 .. n, d \in Sides : Cardinality(S[Leaf(t, i, d)]) < Cardinality(S[i])
<1>1. IsFiniteSet(1 .. n) /\ Cardinality(1 .. n) = n
  BY FS_Interval
<1>2. \A i \in 0 .. n : IsFiniteSet(S[i]) /\ Cardinality(S[i]) \in Nat
  BY <1>1, ShapeFacts, FS_Subset, FS_CardinalityType
<1>3. Cardinality(S[t.root]) = n
  BY <1>1 DEF Shape, Spans
<1>4. ASSUME NEW i \in 1 .. n, NEW d \in Sides
      PROVE  Cardinality(S[Leaf(t, i, d)]) < Cardinality(S[i])
  <2> DEFINE l == Leaf(t, i, d)
  <2>1. l \in 0 .. n /\ S[l] \subseteq S[i] \ {i} /\ i \in S[i]
    BY ShapeFacts
  <2>2. /\ IsFiniteSet(S[i] \ {i}) /\ Cardinality(S[i] \ {i}) = Cardinality(S[i]) - 1
    <3>1. IsFiniteSet(S[i])
      BY <1>2
    <3> QED
      BY <2>1, <3>1, FS_RemoveElement
  <2>3. Cardinality(S[l]) <= Cardinality(S[i]) - 1
    BY <2>1, <2>2, FS_Subset
  <2> HIDE DEF l
  <2>4. Cardinality(S[l]) < Cardinality(S[i])
    BY <1>2, <2>1, <2>3
  <2> QED
    BY <2>4 DEF l
<1> QED
  BY <1>2, <1>3, <1>4

\* A node's leaf on the side that data is on.
LEMMA BelongsToLeaf ==
    ASSUME NEW n \in Nat, NEW t, NEW S, Shape(t, n, S), NEW data \in Data, NEW p \in 1 .. n,
           NEW d \in Sides, Aside(d, data, Key(t, p)), Belongs(t, n, S, p, data),
           Present(t, n, S, p, data)
    PROVE  Belongs(t, n, S, Leaf(t, p, d), data) /\ Present(t, n, S, Leaf(t, p, d), data)
<1>1. ASSUME NEW i \in 1 .. n, NEW e \in Sides, Leaf(t, p, d) \in S[Leaf(t, i, e)]
      PROVE  Aside(e, data, Key(t, i))
  <2>1. Leaf(t, p, d) # Nil
    <3>1. \A j \in S[Leaf(t, i, e)] : j \in 1 .. n
      BY ShapeFacts
    <3> QED
      BY <1>1, <3>1 DEF Nil
  <2>2. Leaf(t, i, e) \in 0 .. n
    BY ShapeFacts
  <2>3. CASE Leaf(t, p, d) = Leaf(t, i, e)
    <3>1. p = i /\ d = e
      BY <2>1, <2>3, UniqueParent
    <3> QED
      BY <3>1
  <2>4. CASE p \in S[Leaf(t, i, e)]
    BY <2>4 DEF Belongs
  <2> QED
    BY <1>1, <2>1, <2>2, <2>3, <2>4, AboveALeaf
<1>2. ASSUME NEW j \in 1 .. n, Key(t, j) = data
      PROVE  j \in S[Leaf(t, p, d)]
  <2>1. j \in S[p]
    BY <1>2 DEF Present
  <2>2. j # p
    BY <1>2, AsideFacts
  <2>3. PICK e \in Sides : j \in S[Leaf(t, p, e)]
    BY <2>1, <2>2, BelowALeaf
  <2>4. Aside(e, data, Key(t, p))
    BY <1>2, <2>3, ShapeFacts
  <2>5. e = d
    <3>1. Key(t, p) \in Data /\ (e = d \/ e = Other(d))
      BY ShapeFacts, SideFacts
    <3> QED
      BY <2>4, <3>1, AsideFacts
  <2> QED
    BY <2>3, <2>5
<1> QED
  BY <1>1, <1>2 DEF Belongs, Present

\* One round keeps what is known of the walk.
LEMMA DescendKeeps ==
    ASSUME NEW n \in Nat, NEW t, NEW S, Shape(t, n, S), NEW h, Heights(t, n, h), NoClash(t, n),
           NEW data \in Data, NEW w, NEW k \in Nat, WalkInv(t, n, S, h, data, w, k)
    PROVE  WalkInv(t, n, S, h, data, Descend(t, data, w), k + 1)
<1>0. t \in Tree(n) /\ w \in Walks(n)
  BY DEF Shape, WalkInv, Path
<1>1. CASE w.p = Nil \/ w.found
  <2>1. Descend(t, data, w) = w
    BY <1>1, DescendCases
  <2> QED
    BY <1>1, <2>1 DEF WalkInv
<1>2. CASE w.p # Nil /\ ~w.found
  <2>0. /\ w.p \in 1 .. n /\ Step(t, data, w) \in Walks(n)
        /\ [w EXCEPT !.found = TRUE] \in Walks(n) /\ Key(t, w.p) \in Data
    BY <1>0, <1>2, StepFacts, TreeFacts
  <2>1. CASE BytesCompare(data, Key(t, w.p)) = 0
    <3> DEFINE v == [w EXCEPT !.found = TRUE]
    <3>1. Descend(t, data, w) = v
      BY <1>2, <2>1, DescendCases
    <3>2. /\ v \in Walks(n) /\ v.p = w.p /\ v.visited = w.visited /\ v.dirs = w.dirs
          /\ v.found = TRUE
      BY <1>0, <2>0 DEF Walks
    <3>3. Key(t, w.p) = data
      BY <2>0, <2>1, CompareFacts
    <3> HIDE DEF v
    <3>4. Path(t, n, v)
      BY <3>2 DEF WalkInv, Path
    <3>5. WalkInv(t, n, S, h, data, v, k + 1)
      BY <1>2, <3>2, <3>3, <3>4 DEF WalkInv, BelongsBelow
    <3> QED
      BY <3>1, <3>5
  <2>2. CASE BytesCompare(data, Key(t, w.p)) # 0
    <3> DEFINE v == Step(t, data, w)
               d == IF BytesCompare(data, Key(t, w.p)) > 0 THEN Right ELSE Left
               p == w.p
               len == Len(w.visited)
    <3>1. Descend(t, data, w) = v
      BY <1>2, <2>2, DescendCases
    <3>2. v = [p |-> Leaf(t, p, d), found |-> FALSE,
               visited |-> Append(w.visited, p), dirs |-> Append(w.dirs, d)]
      BY DEF Step
    <3>3. d \in Sides
      BY SideFacts
    <3>4. Aside(d, data, Key(t, p))
      <4>1. Left # Right
        BY DEF Left, Right
      <4>2. /\ BytesCompare(data, Key(t, p)) \in Int
            /\ BytesCompare(data, Key(t, p)) > 0 <=> Less(Key(t, p), data)
        BY <2>0, CompareFacts
      <4>3. ~(BytesCompare(data, Key(t, p)) > 0) => Less(data, Key(t, p))
        BY <2>2, <4>2 DEF Less
      <4> QED
        BY <4>1, <4>2, <4>3 DEF Aside
    <3> HIDE DEF d
    <3>5. /\ w.visited \in Seq(1 .. n) /\ w.dirs \in Seq(Sides) /\ len \in Nat
          /\ Len(w.dirs) = len /\ w.found \in BOOLEAN
      BY <1>0 DEF Walks, WalkInv, Path
    <3>6. /\ v.p = Leaf(t, p, d) /\ v.found = FALSE /\ Len(v.visited) = len + 1
          /\ Len(v.dirs) = len + 1 /\ v.visited[len + 1] = p /\ v.dirs[len + 1] = d
          /\ \A j \in 1 .. len : v.visited[j] = w.visited[j] /\ v.dirs[j] = w.dirs[j]
          /\ v \in Walks(n)
      <4>1. /\ v.p = Leaf(t, p, d) /\ v.found = FALSE /\ v.visited = Append(w.visited, p)
            /\ v.dirs = Append(w.dirs, d)
        BY <3>2
      <4>2. /\ Len(Append(w.visited, p)) = len + 1 /\ Append(w.visited, p)[len + 1] = p
            /\ \A j \in 1 .. len : Append(w.visited, p)[j] = w.visited[j]
        BY <2>0, <3>5, AppendProperties
      <4>3. /\ Len(Append(w.dirs, d)) = len + 1 /\ Append(w.dirs, d)[len + 1] = d
            /\ \A j \in 1 .. len : Append(w.dirs, d)[j] = w.dirs[j]
        <5>1. /\ Len(Append(w.dirs, d)) = Len(w.dirs) + 1
              /\ Append(w.dirs, d)[Len(w.dirs) + 1] = d
              /\ \A j \in 1 .. Len(w.dirs) : Append(w.dirs, d)[j] = w.dirs[j]
          BY <3>3, <3>5, AppendProperties
        <5> QED
          BY <3>5, <5>1
      <4> HIDE DEF v
      <4> QED
        BY <2>0, <4>1, <4>2, <4>3 DEF v
    <3>7. /\ len > 0 => w.visited[1] = t.root
          /\ \A j \in 1 .. len - 1 : Leaf(t, w.visited[j], w.dirs[j]) = w.visited[j + 1]
          /\ p = IF len = 0 THEN t.root ELSE Leaf(t, w.visited[len], w.dirs[len])
      BY DEF WalkInv, Path
    <3> HIDE DEF v, len
    <3>8. Path(t, n, v)
      <4>1. v.visited[1] = t.root
        <5>1. CASE len = 0
          BY <3>6, <3>7, <5>1
        <5>2. CASE len # 0
          <6>1. len > 0 /\ 1 \in 1 .. len
            BY <3>5, <5>2
          <6> QED
            BY <3>6, <3>7, <6>1
        <5> QED
          BY <5>1, <5>2
      <4>2. ASSUME NEW j \in 1 .. len PROVE Leaf(t, v.visited[j], v.dirs[j]) = v.visited[j + 1]
        <5>1. CASE j = len
          BY <3>5, <3>6, <3>7, <5>1
        <5>2. CASE j # len
          <6>1. j \in 1 .. len - 1 /\ j + 1 \in 1 .. len
            BY <3>5, <5>2
          <6> QED
            BY <3>6, <3>7, <6>1
        <5> QED
          BY <5>1, <5>2
      <4>3. (len + 1) - 1 = len /\ len + 1 # 0
        BY <3>5
      <4> QED
        BY <3>6, <4>1, <4>2, <4>3 DEF Path
    <3>9. Belongs(t, n, S, v.p, data) /\ Present(t, n, S, v.p, data)
      BY <2>0, <3>3, <3>4, <3>6, BelongsToLeaf DEF WalkInv
    <3>10. BelongsBelow(t, n, S, v, data)
      BY <3>4, <3>6 DEF WalkInv, BelongsBelow
    <3>11. Len(v.visited) = k + 1
      BY <1>2, <3>6 DEF WalkInv, len
    <3>12. Len(v.visited) + Cardinality(S[v.p]) <= n
      <4>1. /\ len + Cardinality(S[p]) <= n
        BY DEF WalkInv, len
      <4>2. /\ Cardinality(S[p]) \in Nat /\ Leaf(t, p, d) \in 0 .. n
            /\ Cardinality(S[Leaf(t, p, d)]) < Cardinality(S[p])
        BY <1>0, <2>0, <3>3, SizeFacts, TreeFacts
      <4>3. Cardinality(S[Leaf(t, p, d)]) \in Nat
        BY <4>2, SizeFacts
      <4> QED
        BY <3>5, <3>6, <4>1, <4>2, <4>3
    <3>13. Len(v.visited) + Rank(t, h, v.p) <= Rank(t, h, t.root)
      <4>1. len + Rank(t, h, p) <= Rank(t, h, t.root)
        BY DEF WalkInv, len
      <4>2. Rank(t, h, Leaf(t, p, d)) + 1 <= Rank(t, h, p)
        BY <1>0, <2>0, <3>3, RankFacts
      <4>3. /\ Rank(t, h, Leaf(t, p, d)) \in Nat /\ Rank(t, h, p) \in Nat
            /\ Rank(t, h, t.root) \in Nat
        <5>1. Leaf(t, p, d) \in 0 .. n /\ t.root \in 0 .. n /\ p \in 0 .. n
          BY <1>0, <2>0, <3>3, TreeFacts
        <5> QED
          BY <1>0, <5>1, RankFacts
      <4> QED
        BY <3>5, <3>6, <4>1, <4>2, <4>3
    <3>14. WalkInv(t, n, S, h, data, v, k + 1)
      BY <3>6, <3>8, <3>9, <3>10, <3>11, <3>12, <3>13 DEF WalkInv
    <3> QED
      BY <3>1, <3>14
  <2> QED
    BY <2>1, <2>2
<1> QED
  BY <1>1, <1>2

LEMMA WalkStartInv ==
    ASSUME NEW n \in Nat, NEW t, NEW S, Shape(t, n, S), NEW h, Heights(t, n, h), NoClash(t, n),
           NEW data \in Data
    PROVE  WalkInv(t, n, S, h, data, WalkStart(t), 0)
<1> DEFINE w == WalkStart(t)
<1>1. t \in Tree(n) /\ w \in Walks(n) /\ t.root \in 0 .. n
  BY WalkStartFacts, TreeFacts DEF Shape
<1>2. /\ w.p = t.root /\ w.found = FALSE /\ w.visited = << >> /\ w.dirs = << >>
      /\ Len(w.visited) = 0 /\ Len(w.dirs) = 0
  BY DEF WalkStart
<1> HIDE DEF w
<1>3. Path(t, n, w)
  BY <1>1, <1>2 DEF Path
<1>4. Belongs(t, n, S, w.p, data)
  <2> SUFFICES ASSUME NEW i \in 1 .. n, NEW d \in Sides, t.root \in S[Leaf(t, i, d)]
               PROVE  FALSE
    BY <1>2 DEF Belongs
  <2>1. t.root \in 1 .. n /\ Leaf(t, i, d) # t.root /\ Leaf(t, i, d) \in 0 .. n
    BY RootIsNoLeaf, ShapeFacts
  <2>2. S[t.root] \subseteq S[Leaf(t, i, d)] /\ S[t.root] = 1 .. n
    BY <2>1, Nested DEF Shape, Spans
  <2>3. i \notin S[Leaf(t, i, d)]
    BY ShapeFacts
  <2> QED
    BY <2>2, <2>3
<1>5. Present(t, n, S, w.p, data)
  BY <1>2 DEF Present, Shape, Spans
<1>6. Cardinality(S[w.p]) = n
  BY <1>2, SizeFacts
<1>7. Rank(t, h, t.root) \in Nat
  BY <1>1, RankFacts
<1> QED
  BY <1>2, <1>3, <1>4, <1>5, <1>6, <1>7 DEF WalkInv, BelongsBelow, w

\* Where the walk ends: at the node that holds data, if there is one, and else
\* where data belongs; and within twice the height of the tree.
LEMMA WalkFacts ==
    ASSUME NEW n \in Nat, NEW t, NEW S, Shape(t, n, S), NEW h, Heights(t, n, h), NoClash(t, n),
           NEW data \in Data
    PROVE  LET w == Walk(t, data)
           IN /\ Path(t, n, w) /\ w.found \in BOOLEAN
              /\ w.found <=> \E j \in 1 .. n : Key(t, j) = data
              /\ ~w.found => w.p = Nil
              /\ BelongsBelow(t, n, S, w, data)
              /\ Len(w.visited) <= Rank(t, h, t.root)
<1>0. t \in Tree(n)
  BY DEF Shape
<1>1. PICK walked : Walked(walked, t, n, data)
  BY <1>0, WalkRuns
<1> DEFINE T == {k \in Nat : WalkInv(t, n, S, h, data, walked[k], k)}
<1>2. 0 \in T
  BY <1>1, WalkStartInv DEF Walked
<1>3. ASSUME NEW k \in 0 .. (n + 1) - 1, k \in T PROVE k + 1 \in T
  <2>1. k + 1 \in 1 .. n + 1 /\ (k + 1) - 1 = k /\ k \in Nat /\ k + 1 \in Nat
    BY <1>3
  <2>2. walked[k + 1] = Descend(t, data, walked[k])
    BY <1>1, <2>1 DEF Walked
  <2>3. WalkInv(t, n, S, h, data, walked[k + 1], k + 1)
    BY <1>3, <2>1, <2>2, DescendKeeps
  <2> QED
    BY <2>1, <2>3
<1> HIDE DEF T
<1>4. n + 1 \in T
  <2>1. n + 1 \in Nat /\ n + 1 \in 0 .. n + 1
    OBVIOUS
  <2>2. \A k \in 0 .. n + 1 : k \in T
    BY <1>2, <1>3, <2>1, HoldsUpTo
  <2> QED
    BY <2>1, <2>2
<1> DEFINE w == Walk(t, data)
<1>5. WalkInv(t, n, S, h, data, w, n + 1)
  BY <1>1, <1>4 DEF T, Walked
<1> HIDE DEF w
<1>6. /\ Path(t, n, w) /\ w \in Walks(n) /\ w.found \in BOOLEAN /\ w.p \in 0 .. n
      /\ Len(w.visited) \in Nat
  BY <1>5 DEF WalkInv, Path, Walks
<1>7. ~w.found => w.p = Nil
  <2> SUFFICES ASSUME ~w.found, w.p # Nil PROVE FALSE
    OBVIOUS
  <2>1. Len(w.visited) = n + 1 /\ Len(w.visited) + Cardinality(S[w.p]) <= n
    BY <1>5 DEF WalkInv
  <2>2. Cardinality(S[w.p]) \in Nat
    BY <1>6, SizeFacts
  <2> QED
    BY <2>1, <2>2
<1>8. w.found => \E j \in 1 .. n : Key(t, j) = data
  <2> SUFFICES ASSUME w.found PROVE \E j \in 1 .. n : Key(t, j) = data
    OBVIOUS
  <2>1. w.p # Nil /\ Key(t, w.p) = data
    BY <1>5 DEF WalkInv
  <2>2. w.p \in 1 .. n
    BY <1>6, <2>1 DEF Nil
  <2> QED
    BY <2>1, <2>2
<1>9. ASSUME NEW j \in 1 .. n, Key(t, j) = data PROVE w.found
  <2>1. j \in S[w.p] /\ S[Nil] = {}
    BY <1>5, <1>9, ShapeFacts DEF WalkInv, Present
  <2> QED
    BY <1>6, <1>7, <2>1
<1>10. Len(w.visited) <= Rank(t, h, t.root)
  <2>1. Len(w.visited) + Rank(t, h, w.p) <= Rank(t, h, t.root)
    BY <1>5 DEF WalkInv
  <2>2. Rank(t, h, w.p) \in Nat /\ Rank(t, h, t.root) \in Nat
    <3>1. t.root \in 0 .. n
      BY <1>0, TreeFacts
    <3> QED
      BY <1>0, <1>6, <3>1, RankFacts
  <2> QED
    BY <1>6, <2>1, <2>2
<1>11. BelongsBelow(t, n, S, w, data)
  BY <1>5 DEF WalkInv
<1> QED
  BY <1>6, <1>7, <1>8, <1>9, <1>10, <1>11 DEF w

----------------------------------------------------------------------------
(* Hanging a node to the walk, and the graft.                              *)

\* The walk is one down from t's root.
Trail(t, n, w) ==
    /\ w.visited \in Seq(1 .. n) /\ w.dirs \in Seq(Sides) /\ Len(w.dirs) = Len(w.visited)
    /\ Len(w.visited) > 0 => w.visited[1] = t.root
    /\ \A j \in 1 .. Len(w.visited) - 1 : Leaf(t, w.visited[j], w.dirs[j]) = w.visited[j + 1]

LEMMA TrailFacts ==
    ASSUME NEW n \in Nat, NEW t, NEW w, Trail(t, n, w)
    PROVE  /\ Len(w.visited) \in Nat
           /\ \A k \in 1 .. Len(w.visited) : w.visited[k] \in 1 .. n /\ w.dirs[k] \in Sides
<1>1. /\ w.visited \in Seq(1 .. n) /\ w.dirs \in Seq(Sides) /\ Len(w.dirs) = Len(w.visited)
  BY DEF Trail
<1>2. Len(w.visited) \in Nat
  BY <1>1
<1>3. ASSUME NEW k \in 1 .. Len(w.visited) PROVE w.visited[k] \in 1 .. n /\ w.dirs[k] \in Sides
  BY <1>1, ElementOfSeq
<1> QED
  BY <1>2, <1>3

\* u is t except that v hangs at the k-th step of the walk.
Hung(u, t, n, w, k, v) ==
    /\ u \in Tree(n) /\ u.root = IF k = 0 THEN v ELSE t.root
    /\ \A j \in 1 .. n :
         /\ Key(u, j) = Key(t, j) /\ IsRed(u, j) = IsRed(t, j)
         /\ \A e \in Sides : Leaf(u, j, e) = IF k > 0 /\ j = w.visited[k] /\ e = w.dirs[k] THEN v
                                             ELSE Leaf(t, j, e)

LEMMA HangFacts ==
    ASSUME NEW n \in Nat, NEW t \in Tree(n), NEW w, NEW k \in Nat, NEW v \in 0 .. n,
           k > 0 => w.visited[k] \in 1 .. n /\ w.dirs[k] \in Sides
    PROVE  Hung(Hang(t, w, k, v), t, n, w, k, v)
<1>1. CASE k = 0
  <2>1. Hang(t, w, k, v) = [t EXCEPT !.root = v]
    BY <1>1 DEF Hang
  <2> DEFINE u == [t EXCEPT !.root = v]
  <2>2. /\ u \in Tree(n) /\ u.root = v
        /\ \A j \in 1 .. n :
             /\ Key(u, j) = Key(t, j) /\ IsRed(u, j) = IsRed(t, j)
             /\ \A e \in Sides : Leaf(u, j, e) = Leaf(t, j, e)
    BY RootFacts
  <2> HIDE DEF u
  <2>3. Hung(u, t, n, w, k, v)
    BY <1>1, <2>2 DEF Hung
  <2> QED
    BY <2>1, <2>3 DEF u
<1>2. CASE k # 0
  <2>1. k > 0 /\ w.visited[k] \in 1 .. n /\ w.dirs[k] \in Sides
    BY <1>2
  <2>2. Hang(t, w, k, v) = Link(t, w.visited[k], w.dirs[k], v)
    BY <2>1 DEF Hang
  <2>3. Linked(Link(t, w.visited[k], w.dirs[k], v), t, n, w.visited[k], w.dirs[k], v)
    BY <2>1, LinkFacts
  <2> QED
    BY <1>2, <2>1, <2>2, <2>3 DEF Linked, Hung
<1> QED
  BY <1>1, <1>2

\* u is t with node n + 1 for data at the end of the walk.
Grafted(u, t, n, w, data) ==
    LET len == Len(w.visited)
    IN /\ u \in Tree(n + 1) /\ u.root = IF len = 0 THEN n + 1 ELSE t.root
       /\ Key(u, n + 1) = data /\ IsRed(u, n + 1) /\ \A e \in Sides : Leaf(u, n + 1, e) = Nil
       /\ \A j \in 1 .. n :
            /\ Key(u, j) = Key(t, j) /\ IsRed(u, j) = IsRed(t, j)
            /\ \A e \in Sides :
                 Leaf(u, j, e) = IF len > 0 /\ j = w.visited[len] /\ e = w.dirs[len] THEN n + 1
                                 ELSE Leaf(t, j, e)

LEMMA PathTrail ==
    ASSUME NEW n \in Nat, NEW t, NEW w, Path(t, n, w)
    PROVE  Trail(t, n, w)
BY DEF Path, Walks, Trail

LEMMA GraftFacts ==
    ASSUME NEW n \in Nat, NEW t \in Tree(n), NEW data \in Data, NEW w, Path(t, n, w)
    PROVE  Grafted(Graft(t, w, data), t, n, w, data)
<1> DEFINE node == [data |-> data, leafs |-> <<Nil, Nil>>, red |-> TRUE]
           grown == [t EXCEPT !.nodes = Append(@, node)]
           len == Len(w.visited)
           u == Hang(grown, w, len, n + 1)
<1>1. Grown(grown, t, n, data)
  BY GrowFacts
<1>2. Graft(t, w, data) = u
  <2>1. Len(t.nodes) = n
    BY TreeFacts
  <2> QED
    BY <2>1 DEF Graft
<1>3. /\ len \in Nat /\ (len > 0 => w.visited[len] \in 1 .. n /\ w.dirs[len] \in Sides)
  BY PathTrail, TrailFacts
<1> HIDE DEF grown, len
<1>4. grown \in Tree(n + 1) /\ n + 1 \in Nat /\ n + 1 \in 0 .. n + 1
  BY <1>1 DEF Grown
<1>5. /\ (len > 0 => w.visited[len] \in 1 .. n + 1 /\ w.dirs[len] \in Sides)
  BY <1>3
<1>6. Hung(u, grown, n + 1, w, len, n + 1)
  BY <1>3, <1>4, <1>5, HangFacts
<1> HIDE DEF u
<1>7. /\ u \in Tree(n + 1) /\ u.root = IF len = 0 THEN n + 1 ELSE grown.root
      /\ \A j \in 1 .. n + 1 :
           /\ Key(u, j) = Key(grown, j) /\ IsRed(u, j) = IsRed(grown, j)
           /\ \A e \in Sides :
                Leaf(u, j, e) = IF len > 0 /\ j = w.visited[len] /\ e = w.dirs[len] THEN n + 1
                                ELSE Leaf(grown, j, e)
  BY <1>6 DEF Hung
<1>8. /\ grown.root = t.root
      /\ Key(grown, n + 1) = data /\ IsRed(grown, n + 1)
      /\ \A e \in Sides : Leaf(grown, n + 1, e) = Nil
      /\ \A j \in 1 .. n :
           /\ Key(grown, j) = Key(t, j) /\ IsRed(grown, j) = IsRed(t, j)
           /\ \A e \in Sides : Leaf(grown, j, e) = Leaf(t, j, e)
  BY <1>1 DEF Grown
<1>9. /\ Key(u, n + 1) = data /\ IsRed(u, n + 1) /\ \A e \in Sides : Leaf(u, n + 1, e) = Nil
  <2>1. n + 1 \in 1 .. n + 1 /\ (len > 0 => w.visited[len] # n + 1)
    BY <1>3
  <2> QED
    BY <1>7, <1>8, <2>1
<1>10. ASSUME NEW j \in 1 .. n
       PROVE  /\ Key(u, j) = Key(t, j) /\ IsRed(u, j) = IsRed(t, j)
              /\ \A e \in Sides :
                   Leaf(u, j, e) = IF len > 0 /\ j = w.visited[len] /\ e = w.dirs[len] THEN n + 1
                                   ELSE Leaf(t, j, e)
  <2>1. j \in 1 .. n + 1
    OBVIOUS
  <2> QED
    BY <1>7, <1>8, <2>1
<1>11. Grafted(u, t, n, w, data)
  BY <1>7, <1>8, <1>9, <1>10 DEF Grafted, len
<1> QED
  BY <1>2, <1>11

\* The node that was grafted is in its place, and may clash with its parent.
LEMMA GraftShape ==
    ASSUME NEW n \in Nat, NEW t, NEW S, Shape(t, n, S), NEW h, Heights(t, n, h), NoClash(t, n),
           ~Red(t, t.root), NEW data \in Data, NEW w, Path(t, n, w), w.p = Nil,
           BelongsBelow(t, n, S, w, data), NEW u, Grafted(u, t, n, w, data)
    PROVE  LET len == Len(w.visited)
           IN /\ \E R : Shape(u, n + 1, R)
              /\ \E g : Heights(u, n + 1, g)
              /\ Trail(u, n + 1, w)
              /\ len = 0 => NoClash(u, n + 1)
              /\ len > 0 => /\ ClashOnlyAt(u, n + 1, w.visited[len], w.dirs[len])
                            /\ RedLeaf(u, w.visited[len], w.dirs[len])
                            /\ ~IsRed(u, u.root)
<1> DEFINE len == Len(w.visited)
           q == w.visited[len]
           e == w.dirs[len]
           z == n + 1
           R == [i \in 0 .. z |-> IF i = z THEN {z}
                                  ELSE IF len > 0 /\ q \in S[i] THEN S[i] \cup {z} ELSE S[i]]
           g == [i \in 0 .. z |-> IF i = z THEN 0 ELSE h[i]]
<1>0. t \in Tree(n) /\ Trail(t, n, w)
  BY PathTrail DEF Shape
<1>1. len \in Nat /\ (len > 0 => q \in 1 .. n /\ e \in Sides)
  BY <1>0, TrailFacts
<1>2. /\ z \notin 0 .. n /\ z \in 1 .. z /\ z # Nil /\ 1 .. z = 1 .. n \cup {z}
      /\ \A i \in 0 .. z : i = z \/ i \in 0 .. n
      /\ \A i \in 1 .. z : i = z \/ i \in 1 .. n
      /\ \A i \in 0 .. n : i \in 0 .. z
      /\ z \in Nat
  BY DEF Nil
<1>3. /\ u \in Tree(z) /\ u.root = IF len = 0 THEN z ELSE t.root
      /\ Key(u, z) = data /\ IsRed(u, z) /\ \A f \in Sides : Leaf(u, z, f) = Nil
      /\ \A j \in 1 .. n :
           /\ Key(u, j) = Key(t, j) /\ IsRed(u, j) = IsRed(t, j)
           /\ \A f \in Sides : Leaf(u, j, f) = IF len > 0 /\ j = q /\ f = e THEN z
                                               ELSE Leaf(t, j, f)
  BY DEF Grafted
<1>4. IF len = 0 THEN t.root = Nil ELSE Leaf(t, q, e) = Nil
  BY DEF Path
<1>5. /\ len > 0 => Belongs(t, n, S, q, data) /\ Aside(e, data, Key(t, q))
  BY DEF BelongsBelow
<1>6. Trail(u, z, w)
  <2>1. w.visited \in Seq(1 .. z)
    <3>1. w.visited \in Seq(1 .. n) /\ 1 .. n \subseteq 1 .. z
      BY <1>0, <1>2 DEF Trail
    <3> QED
      BY <3>1, SeqMonotonic
  <2>2. len > 0 => w.visited[1] = u.root
    BY <1>0, <1>3 DEF Trail
  <2>3. ASSUME NEW j \in 1 .. len - 1 PROVE Leaf(u, w.visited[j], w.dirs[j]) = w.visited[j + 1]
    <3>1. j \in 1 .. len /\ j + 1 \in 1 .. len
      BY <1>1
    <3>2. w.visited[j] \in 1 .. n /\ w.dirs[j] \in Sides /\ w.visited[j + 1] \in 1 .. n
      BY <1>0, <3>1, TrailFacts
    <3>3. Leaf(t, w.visited[j], w.dirs[j]) = w.visited[j + 1]
      BY <1>0 DEF Trail
    <3>4. ~(w.visited[j] = q /\ w.dirs[j] = e)
      BY <1>1, <1>4, <3>1, <3>2, <3>3 DEF Nil
    <3> QED
      BY <1>3, <3>2, <3>3, <3>4
  <2> QED
    BY <1>0, <2>1, <2>2, <2>3 DEF Trail
<1> HIDE DEF len, q, e, z
<1>7. /\ S \in [0 .. n -> SUBSET (1 .. n)] /\ S[Nil] = {} /\ Nil \in 0 .. n
      /\ S[t.root] = 1 .. n /\ t.root \in 0 .. n
      /\ \A i \in 1 .. n, d \in Sides : /\ Leaf(t, i, d) \in 0 .. n /\ Key(t, i) \in Data
                                        /\ i \notin S[Leaf(t, i, d)] /\ i \in S[i]
                                        /\ S[i] = S[Leaf(t, i, d)] \cup {i} \cup S[Leaf(t, i, Other(d))]
                                        /\ \A j \in S[Leaf(t, i, d)] : Aside(d, Key(t, j), Key(t, i))
  BY ShapeFacts DEF Shape, Spans, Nil
<1>8. /\ R[z] = {z}
      /\ \A i \in 0 .. n : R[i] = IF len > 0 /\ q \in S[i] THEN S[i] \cup {z} ELSE S[i]
  BY <1>2
<1>9. R \in [0 .. z -> SUBSET (1 .. z)]
  <2>1. ASSUME NEW i \in 0 .. z PROVE R[i] \in SUBSET (1 .. z)
    BY <1>2, <1>7, <1>8
  <2> QED
    BY <2>1
<1> HIDE DEF R
<1>10. R[Nil] = {}
  BY <1>7, <1>8
<1>11. R[u.root] = 1 .. z
  <2>1. CASE len = 0
    <3>1. 1 .. n = {}
      BY <1>4, <1>7, <2>1
    <3> QED
      BY <1>2, <1>3, <1>8, <2>1, <3>1
  <2>2. CASE len # 0
    <3>1. len > 0 /\ q \in S[t.root]
      BY <1>1, <1>7, <2>2
    <3> QED
      BY <1>2, <1>3, <1>7, <1>8, <2>2, <3>1
  <2> QED
    BY <2>1, <2>2
<1>12. ASSUME NEW i \in 1 .. z, NEW d \in Sides
       PROVE  R[i] = R[Leaf(u, i, d)] \cup {i} \cup R[Leaf(u, i, Other(d))]
  <2>0. Other(d) \in Sides /\ Other(d) # d /\ Other(Other(d)) = d
    BY SideFacts
  <2>1. CASE i = z
    BY <1>3, <1>8, <1>10, <2>0, <2>1
  <2>2. CASE i \in 1 .. n /\ len > 0 /\ i = q
    <3>0. i \in 0 .. n
      BY <2>2
    <3>1. R[i] = S[i] \cup {z}
      BY <1>7, <1>8, <2>2, <3>0
    <3>2. ASSUME NEW f \in Sides
          PROVE  R[Leaf(u, i, f)] = IF f = e THEN {z} ELSE S[Leaf(t, i, f)]
      <4>1. Leaf(t, i, f) \in 0 .. n /\ q \notin S[Leaf(t, i, f)]
        BY <1>7, <2>2
      <4>2. R[Leaf(t, i, f)] = S[Leaf(t, i, f)]
        BY <1>8, <4>1
      <4>3. Leaf(u, i, f) = IF f = e THEN z ELSE Leaf(t, i, f)
        BY <1>3, <2>2
      <4> QED
        BY <1>8, <4>2, <4>3
    <3>3. S[Leaf(t, i, e)] = {}
      BY <1>4, <1>7, <2>2
    <3>4. S[i] = S[Leaf(t, i, d)] \cup {i} \cup S[Leaf(t, i, Other(d))]
      BY <1>7, <2>2
    <3>5. e = d \/ e = Other(d)
      BY <1>1, <2>2, SideFacts
    <3> QED
      BY <2>0, <3>1, <3>2, <3>3, <3>4, <3>5
  <2>3. CASE i \in 1 .. n /\ ~(len > 0 /\ i = q)
    <3>0. i \in 0 .. n
      BY <2>3
    <3>1. S[i] = S[Leaf(t, i, d)] \cup {i} \cup S[Leaf(t, i, Other(d))]
      BY <1>7, <2>3
    <3>2. Leaf(u, i, d) = Leaf(t, i, d) /\ Leaf(u, i, Other(d)) = Leaf(t, i, Other(d))
      BY <1>3, <2>0, <2>3
    <3>3. Leaf(t, i, d) \in 0 .. n /\ Leaf(t, i, Other(d)) \in 0 .. n
      BY <1>7, <2>0, <2>3
    <3> DEFINE l == Leaf(t, i, d)
               r == Leaf(t, i, Other(d))
               more(T) == IF len > 0 /\ q \in T THEN T \cup {z} ELSE T
    <3>4. R[i] = more(S[i]) /\ R[l] = more(S[l]) /\ R[r] = more(S[r])
      BY <1>8, <3>0, <3>3
    <3>5. len > 0 => (q \in S[i] <=> q \in S[l] \/ q \in S[r])
      BY <2>3, <3>1
    <3>6. more(S[i]) = more(S[l]) \cup {i} \cup more(S[r])
      BY <3>1, <3>5
    <3> QED
      BY <3>2, <3>4, <3>6
  <2> QED
    BY <1>2, <2>1, <2>2, <2>3
<1>13. ASSUME NEW i \in 1 .. z, NEW d \in Sides, NEW j \in R[Leaf(u, i, d)]
       PROVE  Aside(d, Key(u, j), Key(u, i))
  <2>1. CASE i = z
    BY <1>3, <1>10, <1>13, <2>1
  <2>2. CASE i \in 1 .. n /\ len > 0 /\ i = q /\ d = e
    <3>1. j = z
      BY <1>3, <1>8, <1>13, <2>2
    <3> QED
      BY <1>3, <1>5, <2>2, <3>1
  <2>3. CASE i \in 1 .. n /\ ~(len > 0 /\ i = q /\ d = e)
    <3>1. Leaf(u, i, d) = Leaf(t, i, d) /\ Leaf(t, i, d) \in 0 .. n
      BY <1>3, <1>7, <2>3
    <3>2. CASE j = z
      <4>1. len > 0 /\ q \in S[Leaf(t, i, d)]
        <5>1. S[Leaf(t, i, d)] \subseteq 1 .. n
          BY <1>7, <3>1
        <5>2. z \notin S[Leaf(t, i, d)]
          <6>1. z \notin 1 .. n
            BY <1>2
          <6> QED
            BY <5>1, <6>1
        <5>3. z \in R[Leaf(t, i, d)]
          BY <1>13, <3>1, <3>2
        <5> QED
          BY <1>8, <3>1, <5>2, <5>3
      <4> QED
        BY <1>3, <1>5, <2>3, <3>2, <4>1 DEF Belongs
    <3>3. CASE j # z
      <4>1. j \in S[Leaf(t, i, d)]
        BY <1>8, <1>13, <3>1, <3>3
      <4>2. j \in 1 .. n
        BY <1>7, <3>1, <4>1
      <4> QED
        BY <1>3, <1>7, <2>3, <4>1, <4>2
    <3> QED
      BY <3>2, <3>3
  <2> QED
    BY <1>2, <2>1, <2>2, <2>3
<1>14. Shape(u, z, R)
  <2>1. Spans(u, z, R)
    BY <1>9, <1>10, <1>11, <1>12 DEF Spans
  <2>2. Ordered(u, z, R)
    BY <1>13 DEF Ordered
  <2> QED
    BY <1>3, <2>1, <2>2 DEF Shape
<1>15. Heights(u, z, g)
  <2>1. h \in [0 .. n -> Nat] /\ h[Nil] = 0
    BY DEF Heights
  <2>2. /\ g \in [0 .. z -> Nat] /\ g[z] = 0 /\ \A i \in 0 .. n : g[i] = h[i]
    <3>1. \A i \in 0 .. z : (IF i = z THEN 0 ELSE h[i]) \in Nat
      BY <1>2, <2>1
    <3> QED
      BY <1>2, <3>1
  <2> HIDE DEF g
  <2>3. g[Nil] = 0
    BY <1>7, <2>1, <2>2
  <2>4. ASSUME NEW i \in 1 .. z, NEW d \in Sides
        PROVE  g[i] = g[Leaf(u, i, d)] + (IF IsRed(u, i) THEN 0 ELSE 1)
    <3>1. CASE i = z
      <4>1. g[i] = 0 /\ g[Leaf(u, i, d)] = 0 /\ IsRed(u, i)
        BY <1>3, <2>2, <2>3, <3>1
      <4> QED
        BY <4>1
    <3>2. CASE i \in 1 .. n
      <4>0. g[i] = h[i]
        BY <2>2, <3>2
      <4>1. g[Leaf(u, i, d)] = h[Leaf(t, i, d)]
        <5>1. CASE len > 0 /\ i = q /\ d = e
          BY <1>3, <1>4, <2>1, <2>2, <3>2, <5>1
        <5>2. CASE ~(len > 0 /\ i = q /\ d = e)
          BY <1>3, <1>7, <2>2, <3>2, <5>2
        <5> QED
          BY <5>1, <5>2
      <4>2. h[i] = h[Leaf(t, i, d)] + (IF IsRed(t, i) THEN 0 ELSE 1)
        BY <3>2 DEF Heights
      <4>3. IsRed(u, i) = IsRed(t, i)
        BY <1>3, <3>2
      <4> QED
        BY <4>0, <4>1, <4>2, <4>3
    <3> QED
      BY <1>2, <3>1, <3>2
  <2> QED
    BY <2>2, <2>3, <2>4 DEF Heights
<1>16. ASSUME NEW j \in 1 .. z, NEW f \in Sides, IsRed(u, j), RedLeaf(u, j, f)
       PROVE  len > 0 /\ j = q /\ f = e
  <2>1. CASE j = z
    BY <1>3, <1>16, <2>1 DEF RedLeaf
  <2>2. CASE j \in 1 .. n /\ ~(len > 0 /\ j = q /\ f = e)
    <3>1. Leaf(u, j, f) = Leaf(t, j, f) /\ Leaf(t, j, f) # Nil /\ Leaf(t, j, f) \in 0 .. n
      BY <1>3, <1>7, <1>16, <2>2 DEF RedLeaf
    <3>2. Leaf(t, j, f) \in 1 .. n
      BY <3>1 DEF Nil
    <3>3. IsRed(t, j) /\ RedLeaf(t, j, f)
      BY <1>3, <1>16, <2>2, <3>1, <3>2 DEF RedLeaf
    <3> QED
      BY <2>2, <3>3 DEF NoClash
  <2> QED
    BY <1>2, <2>1, <2>2
<1>17. len = 0 => NoClash(u, z)
  BY <1>1, <1>16 DEF NoClash
<1>18. ASSUME len > 0
       PROVE  ClashOnlyAt(u, z, q, e) /\ RedLeaf(u, q, e) /\ ~IsRed(u, u.root)
  <2>1. ClashOnlyAt(u, z, q, e)
    BY <1>16 DEF ClashOnlyAt
  <2>2. RedLeaf(u, q, e)
    BY <1>1, <1>2, <1>3, <1>18 DEF RedLeaf
  <2>3. u.root = t.root /\ t.root \in 1 .. n
    <3>1. t.root # Nil
      <4>1. q \in 1 .. n
        BY <1>1, <1>18
      <4> QED
        BY <1>7, <4>1
    <3> QED
      BY <1>1, <1>3, <1>7, <1>18, <3>1 DEF Nil
  <2>4. ~IsRed(t, t.root)
    BY <2>3 DEF Red, IsRed, Nil
  <2> QED
    BY <1>3, <2>1, <2>2, <2>3, <2>4
<1> QED
  BY <1>6, <1>14, <1>15, <1>17, <1>18 DEF len, q, e, z

----------------------------------------------------------------------------
(* The code's rotations.                                                   *)

\* The assignments that put y in x's place.
Rotated(s, w, k, x, y, d) ==
    Hang(Paint(Paint(Link(Link(s, x, d, Leaf(s, y, Other(d))), y, Other(d), x), x, TRUE),
               y, FALSE), w, k - 2, y)

LEMMA RotateCases ==
    ASSUME NEW t, NEW w, NEW k
    PROVE  LET x == w.visited[k - 1]
               outer == w.visited[k]
               d == w.dirs[k - 1]
               inner == Leaf(t, outer, Other(d))
           IN Rotate(t, w, k) =
                IF w.dirs[k] # d
                THEN Rotated(Link(Link(t, outer, Other(d), Leaf(t, inner, d)), inner, d, outer),
                             w, k, x, inner, d)
                ELSE Rotated(t, w, k, x, outer, d)
BY Zenon DEF Rotate, Rotated, Leaf

\* Where the walk w comes to x, k - 1 steps down.
ComesTo(t, n, w, k, x) ==
    /\ k = 2 => t.root = x
    /\ k > 2 => /\ w.visited[k - 2] \in 1 .. n /\ w.dirs[k - 2] \in Sides
                /\ Leaf(t, w.visited[k - 2], w.dirs[k - 2]) = x

\* s is t but for x's leaf on side d.
SameButLeaf(s, t, n, x, d) ==
    /\ s \in Tree(n) /\ s.root = t.root /\ SameKeys(s, t, n) /\ SameColours(s, t, n)
    /\ \A j \in 1 .. n, e \in Sides : ~(j = x /\ e = d) => Leaf(s, j, e) = Leaf(t, j, e)

\* The turn of x, after which x is red and y, in its place, is black.
Raised(u, t, n, x, d, y) ==
    /\ Turned(u, t, n, x, d) /\ ~IsRed(u, y) /\ IsRed(u, x)
    /\ \A j \in 1 .. n : j # x /\ j # y => IsRed(u, j) = IsRed(t, j)

\* They turn a tree t, of which s may differ in the leaf that is assigned first.
LEMMA RotatedTurns ==
    ASSUME NEW n \in Nat, NEW t, NEW S, Shape(t, n, S), NEW x \in 1 .. n, NEW d \in Sides,
           NEW y, y = Leaf(t, x, d), y # Nil, NEW w, NEW k \in Nat, k >= 2,
           ComesTo(t, n, w, k, x), NEW s, SameButLeaf(s, t, n, x, d)
    PROVE  Raised(Rotated(s, w, k, x, y, d), t, n, x, d, y)
<1> DEFINE o == Other(d)
           s1 == Link(s, x, d, Leaf(s, y, o))
           s2 == Link(s1, y, o, x)
           s3 == Paint(s2, x, TRUE)
           s4 == Paint(s3, y, FALSE)
           u == Hang(s4, w, k - 2, y)
<1>0. /\ k = 2 => t.root = x
      /\ k > 2 => /\ w.visited[k - 2] \in 1 .. n /\ w.dirs[k - 2] \in Sides
                  /\ Leaf(t, w.visited[k - 2], w.dirs[k - 2]) = x
      /\ s \in Tree(n) /\ s.root = t.root /\ SameKeys(s, t, n) /\ SameColours(s, t, n)
      /\ \A j \in 1 .. n, e \in Sides : ~(j = x /\ e = d) => Leaf(s, j, e) = Leaf(t, j, e)
  BY DEF ComesTo, SameButLeaf
<1>1. o \in Sides /\ o # d
  BY SideFacts
<1>2. /\ y \in 1 .. n /\ x # y /\ Leaf(t, y, d) \notin {x, y} /\ Leaf(t, y, o) \notin {x, y}
      /\ Leaf(t, x, o) \notin {x, y} /\ Leaf(t, y, o) \in 0 .. n
  BY TurnedNodes
<1>3. Rotated(s, w, k, x, y, d) = u
  BY DEF Rotated
<1>4. /\ \A j \in 1 .. n : Key(s, j) = Key(t, j) /\ IsRed(s, j) = IsRed(t, j)
      /\ \A j \in 1 .. n, e \in Sides : ~(j = x /\ e = d) => Leaf(s, j, e) = Leaf(t, j, e)
  BY <1>0 DEF SameKeys, SameColours
<1>5. y = Leaf(t, x, d) /\ y # Nil
  OBVIOUS
<1> SUFFICES Raised(u, t, n, x, d, y)
  BY <1>3
<1> HIDE DEF o
<1>6. Leaf(s, y, o) = Leaf(t, y, o)
  BY <1>1, <1>2, <1>4
<1>7. Linked(s1, s, n, x, d, Leaf(t, y, o))
  BY <1>0, <1>2, <1>6, LinkFacts
<1> HIDE DEF s1
<1>8. Linked(s2, s1, n, y, o, x)
  <2>1. s1 \in Tree(n) /\ x \in 0 .. n
    BY <1>7 DEF Linked
  <2> QED
    BY <1>1, <1>2, <2>1, LinkFacts
<1> HIDE DEF s2
<1>9. Painted(s3, s2, n, x, TRUE)
  <2>1. s2 \in Tree(n)
    BY <1>8 DEF Linked
  <2> QED
    BY <2>1, PaintFacts
<1> HIDE DEF s3
<1>10. Painted(s4, s3, n, y, FALSE)
  <2>1. s3 \in Tree(n)
    BY <1>9 DEF Painted
  <2> QED
    BY <1>2, <2>1, PaintFacts
<1> HIDE DEF s4
<1>11. Hung(u, s4, n, w, k - 2, y)
  <2>1. /\ k - 2 \in Nat /\ (k - 2 > 0 => k > 2) /\ y \in 0 .. n
    BY <1>2
  <2> QED
    BY <1>0, <1>10, <2>1, HangFacts DEF Painted
<1> HIDE DEF u
<1>12. /\ s4 \in Tree(n) /\ s4.root = t.root
       /\ \A j \in 1 .. n :
            /\ Key(s4, j) = Key(t, j)
            /\ IsRed(s4, j) = IF j = y THEN FALSE ELSE IF j = x THEN TRUE ELSE IsRed(t, j)
            /\ \A e \in Sides : Leaf(s4, j, e) = IF j = y /\ e = o THEN x
                                                 ELSE IF j = x /\ e = d THEN Leaf(t, y, o)
                                                 ELSE Leaf(t, j, e)
  <2>1. /\ s1.root = t.root
        /\ \A j \in 1 .. n :
             /\ Key(s1, j) = Key(t, j) /\ IsRed(s1, j) = IsRed(t, j)
             /\ \A e \in Sides : Leaf(s1, j, e) = IF j = x /\ e = d THEN Leaf(t, y, o)
                                                  ELSE Leaf(t, j, e)
    BY <1>0, <1>4, <1>7 DEF Linked
  <2>2. /\ s2.root = t.root
        /\ \A j \in 1 .. n :
             /\ Key(s2, j) = Key(t, j) /\ IsRed(s2, j) = IsRed(t, j)
             /\ \A e \in Sides : Leaf(s2, j, e) = IF j = y /\ e = o THEN x
                                                  ELSE IF j = x /\ e = d THEN Leaf(t, y, o)
                                                  ELSE Leaf(t, j, e)
    BY <1>8, <2>1 DEF Linked
  <2>3. /\ s3.root = t.root
        /\ \A j \in 1 .. n :
             /\ Key(s3, j) = Key(t, j) /\ IsRed(s3, j) = IF j = x THEN TRUE ELSE IsRed(t, j)
             /\ \A e \in Sides : Leaf(s3, j, e) = Leaf(s2, j, e)
    BY <1>9, <2>2 DEF Painted
  <2>4. /\ s4 \in Tree(n) /\ s4.root = s3.root
        /\ \A j \in 1 .. n :
            /\ Key(s4, j) = Key(s3, j)
            /\ IsRed(s4, j) = IF j = y THEN FALSE ELSE IsRed(s3, j)
            /\ \A e \in Sides : Leaf(s4, j, e) = Leaf(s3, j, e)
    BY <1>10 DEF Painted
  <2>5. ASSUME NEW j \in 1 .. n
        PROVE  /\ Key(s4, j) = Key(t, j)
               /\ IsRed(s4, j) = IF j = y THEN FALSE ELSE IF j = x THEN TRUE ELSE IsRed(t, j)
    BY <2>3, <2>4
  <2>6. ASSUME NEW j \in 1 .. n, NEW e \in Sides
        PROVE  Leaf(s4, j, e) = IF j = y /\ e = o THEN x
                                ELSE IF j = x /\ e = d THEN Leaf(t, y, o) ELSE Leaf(t, j, e)
    <3>1. Leaf(s4, j, e) = Leaf(s2, j, e)
      <4>1. Leaf(s4, j, e) = Leaf(s3, j, e)
        BY <2>4
      <4>2. Leaf(s3, j, e) = Leaf(s2, j, e)
        BY <2>3
      <4> QED
        BY <4>1, <4>2
    <3> QED
      BY <2>2, <3>1
  <2> QED
    BY <2>2, <2>3, <2>4, <2>5, <2>6
<1>13. /\ u \in Tree(n) /\ u.root = IF k = 2 THEN y ELSE t.root
       /\ \A j \in 1 .. n :
            /\ Key(u, j) = Key(t, j)
            /\ IsRed(u, j) = IF j = y THEN FALSE ELSE IF j = x THEN TRUE ELSE IsRed(t, j)
            /\ \A e \in Sides : Leaf(u, j, e) = IF k > 2 /\ j = w.visited[k - 2] /\ e = w.dirs[k - 2]
                                                THEN y ELSE Leaf(s4, j, e)
  <2>1. /\ (k - 2 = 0 <=> k = 2) /\ (k - 2 > 0 <=> k > 2)
    OBVIOUS
  <2>2. /\ u \in Tree(n) /\ u.root = IF k = 2 THEN y ELSE s4.root
        /\ \A j \in 1 .. n :
            /\ Key(u, j) = Key(s4, j) /\ IsRed(u, j) = IsRed(s4, j)
            /\ \A e \in Sides : Leaf(u, j, e) = IF k > 2 /\ j = w.visited[k - 2] /\ e = w.dirs[k - 2]
                                                THEN y ELSE Leaf(s4, j, e)
    BY <1>11, <2>1 DEF Hung
  <2> QED
    BY <1>12, <2>2
<1>14. ASSUME NEW j \in 1 .. n, NEW e \in Sides
       PROVE  (k > 2 /\ j = w.visited[k - 2] /\ e = w.dirs[k - 2]) <=> Leaf(t, j, e) = x
  <2>1. CASE k = 2
    <3>1. Leaf(t, j, e) # x
      BY <1>0, <2>1, RootIsNoLeaf
    <3> QED
      BY <2>1, <3>1
  <2>2. CASE k # 2
    <3>1. k > 2
      BY <2>2
    <3>2. /\ w.visited[k - 2] \in 1 .. n /\ w.dirs[k - 2] \in Sides
          /\ Leaf(t, w.visited[k - 2], w.dirs[k - 2]) = x /\ x # Nil
      BY <1>0, <3>1 DEF Nil
    <3>3. Leaf(t, j, e) = x => j = w.visited[k - 2] /\ e = w.dirs[k - 2]
      <4> SUFFICES ASSUME Leaf(t, j, e) = x PROVE j = w.visited[k - 2] /\ e = w.dirs[k - 2]
        OBVIOUS
      <4>1. Leaf(t, j, e) = Leaf(t, w.visited[k - 2], w.dirs[k - 2]) /\ Leaf(t, j, e) # Nil
        BY <3>2
      <4> QED
        BY <3>2, <4>1, UniqueParent
    <3> QED
      BY <3>1, <3>2, <3>3
  <2> QED
    BY <2>1, <2>2
<1>15. u.root = IF t.root = x THEN y ELSE t.root
  <2>1. CASE k = 2
    BY <1>0, <1>13, <2>1
  <2>2. CASE k # 2
    <3>1. k > 2
      BY <2>2
    <3>2. t.root # x
      BY <1>0, <3>1, RootIsNoLeaf
    <3> QED
      BY <1>13, <2>2, <3>2
  <2> QED
    BY <2>1, <2>2
<1>16. ASSUME NEW j \in 1 .. n, NEW e \in Sides
       PROVE  Leaf(u, j, e) = IF Leaf(t, j, e) = x THEN y ELSE IF j = y /\ e = o THEN x
                              ELSE IF j = x /\ e = d THEN Leaf(t, y, o) ELSE Leaf(t, j, e)
  <2>1. Leaf(s4, j, e) = IF j = y /\ e = o THEN x
                         ELSE IF j = x /\ e = d THEN Leaf(t, y, o) ELSE Leaf(t, j, e)
    BY <1>12
  <2>2. Leaf(u, j, e) = IF k > 2 /\ j = w.visited[k - 2] /\ e = w.dirs[k - 2]
                        THEN y ELSE Leaf(s4, j, e)
    BY <1>13
  <2>3. CASE Leaf(t, j, e) = x
    <3>1. k > 2 /\ j = w.visited[k - 2] /\ e = w.dirs[k - 2]
      BY <1>14, <2>3
    <3> QED
      BY <2>2, <2>3, <3>1
  <2>4. CASE Leaf(t, j, e) # x
    <3>1. ~(k > 2 /\ j = w.visited[k - 2] /\ e = w.dirs[k - 2])
      BY <1>14, <2>4
    <3>2. Leaf(u, j, e) = Leaf(s4, j, e)
      BY <2>2, <3>1
    <3> QED
      BY <2>1, <2>4, <3>2
  <2> QED
    BY <2>3, <2>4
<1>17. Leaf(t, y, o) # x /\ Leaf(t, x, d) # x
  BY <1>2, <1>5
<1>18. Leaf(u, x, d) = Leaf(t, y, o) /\ Leaf(u, y, o) = x
  BY <1>1, <1>2, <1>16, <1>17
<1>19. ASSUME NEW j \in 1 .. n, NEW e \in Sides, ~(j = x /\ e = d), ~(j = y /\ e = o)
       PROVE  Leaf(u, j, e) = IF Leaf(t, j, e) = x THEN y ELSE Leaf(t, j, e)
  BY <1>16, <1>19
<1>20. SameKeys(u, t, n)
  BY <1>13 DEF SameKeys
<1>21. Turned(u, t, n, x, d)
  BY <1>13, <1>15, <1>18, <1>19, <1>20 DEF Turned, o
<1> QED
  BY <1>2, <1>13, <1>21 DEF Raised

\* A red node, its black parent's parent and its uncle that is not red: after the
\* code's rotation nothing clashes.
LEMMA RotateKeeps ==
    ASSUME NEW n \in Nat, NEW t, NEW S, Shape(t, n, S), NEW h, Heights(t, n, h), NEW w,
           Trail(t, n, w), NEW k \in 2 .. Len(w.visited),
           ~IsRed(t, w.visited[k - 1]), ~RedLeaf(t, w.visited[k - 1], Other(w.dirs[k - 1])),
           IsRed(t, w.visited[k]), RedLeaf(t, w.visited[k], w.dirs[k]),
           ClashOnlyAt(t, n, w.visited[k], w.dirs[k])
    PROVE  LET u == Rotate(t, w, k)
           IN /\ u \in Tree(n) /\ SameKeys(u, t, n) /\ NoClash(u, n)
              /\ \E R : Shape(u, n, R)
              /\ \E g : Heights(u, n, g)
<1> DEFINE x == w.visited[k - 1]
           outer == w.visited[k]
           d == w.dirs[k - 1]
           o == Other(d)
           inner == Leaf(t, outer, o)
           u == Rotate(t, w, k)
<1>0. t \in Tree(n)
  BY DEF Shape
<1>1. /\ Len(w.visited) \in Nat /\ k \in Nat /\ k >= 2
      /\ k \in 1 .. Len(w.visited) /\ k - 1 \in 1 .. Len(w.visited)
      /\ k - 1 \in 1 .. Len(w.visited) - 1 /\ (k - 1) + 1 = k
  BY TrailFacts
<1>2. /\ x \in 1 .. n /\ outer \in 1 .. n /\ d \in Sides /\ w.dirs[k] \in Sides
  BY <1>1, TrailFacts
<1>3. Leaf(t, x, d) = outer /\ outer # Nil
  BY <1>1, <1>2 DEF Trail, Nil
<1>4. o \in Sides /\ o # d /\ Other(o) = d /\ \A e \in Sides : e = d \/ e = o
  BY <1>2, SideFacts
<1>5. ComesTo(t, n, w, k, x)
  <2>1. k = 2 => t.root = x
    BY <1>1 DEF Trail
  <2>2. ASSUME k > 2
        PROVE  /\ w.visited[k - 2] \in 1 .. n /\ w.dirs[k - 2] \in Sides
               /\ Leaf(t, w.visited[k - 2], w.dirs[k - 2]) = x
    <3>1. /\ k - 2 \in 1 .. Len(w.visited) /\ k - 2 \in 1 .. Len(w.visited) - 1
          /\ (k - 2) + 1 = k - 1
      BY <1>1, <2>2
    <3> QED
      BY <3>1, TrailFacts DEF Trail
  <2> QED
    BY <2>1, <2>2 DEF ComesTo
<1>7. /\ ~IsRed(t, x) /\ ~RedLeaf(t, x, o) /\ IsRed(t, outer) /\ RedLeaf(t, outer, w.dirs[k])
      /\ ClashOnlyAt(t, n, outer, w.dirs[k])
  OBVIOUS
<1>8. u = IF w.dirs[k] # d
          THEN Rotated(Link(Link(t, outer, o, Leaf(t, inner, d)), inner, d, outer),
                       w, k, x, inner, d)
          ELSE Rotated(t, w, k, x, outer, d)
  BY RotateCases
<1> SUFFICES /\ u \in Tree(n) /\ SameKeys(u, t, n) /\ NoClash(u, n)
             /\ \E R : Shape(u, n, R)
             /\ \E g : Heights(u, n, g)
  OBVIOUS
<1> HIDE DEF x, outer, d, o, inner, u
<1>9. CASE w.dirs[k] = d
  <2>1. u = Rotated(t, w, k, x, outer, d)
    BY <1>8, <1>9
  <2>2. SameButLeaf(t, t, n, x, d)
    BY <1>0 DEF SameButLeaf, SameKeys, SameColours
  <2>6. Raised(u, t, n, x, d, outer)
    BY <1>1, <1>2, <1>3, <1>5, <2>1, <2>2, RotatedTurns
  <2>3. /\ Turned(u, t, n, x, d) /\ ~IsRed(u, outer) /\ IsRed(u, x)
        /\ \A j \in 1 .. n : j # x /\ j # outer => IsRed(u, j) = IsRed(t, j)
    BY <2>6 DEF Raised
  <2>4. ~RedLeaf(t, x, Other(d)) /\ ClashOnlyAt(t, n, outer, d)
    BY <1>7, <1>9 DEF o
  <2>5. /\ Shape(u, n, TurnedSets(S, t, x, d))
        /\ \E g : Heights(u, n, g)
        /\ NoClash(u, n)
    BY <1>2, <1>3, <1>7, <2>3, <2>4, TurnOuter
  <2> QED
    BY <2>3, <2>5 DEF Turned
<1>10. CASE w.dirs[k] # d
  <2> DEFINE s1 == Link(t, outer, o, Leaf(t, inner, d))
             s2 == Link(s1, inner, d, outer)
             t1 == Link(s2, x, d, inner)
  <2>0. w.dirs[k] = o
    BY <1>2, <1>4, <1>10
  <2>1. u = Rotated(s2, w, k, x, inner, d)
    BY <1>8, <1>10
  <2>2. inner # Nil /\ IsRed(t, inner) /\ RedLeaf(t, outer, o)
    BY <1>7, <2>0 DEF RedLeaf, inner
  <2>3. /\ inner \in 1 .. n /\ inner # outer
        /\ Leaf(t, inner, d) \in 0 .. n /\ Leaf(t, inner, d) \notin {outer, inner}
    BY <1>2, <1>4, <2>2, TurnedNodes DEF inner
  <2>4. /\ x # outer /\ inner # x
    BY <1>2, <1>3, TurnedNodes DEF inner, o
  <2>5. Linked(s1, t, n, outer, o, Leaf(t, inner, d))
    BY <1>0, <1>2, <1>4, <2>3, LinkFacts
  <2> HIDE DEF s1
  <2>6. Linked(s2, s1, n, inner, d, outer)
    <3>1. s1 \in Tree(n) /\ outer \in 0 .. n
      BY <1>2, <2>5 DEF Linked
    <3> QED
      BY <1>2, <2>3, <3>1, LinkFacts
  <2> HIDE DEF s2
  <2>7. Linked(t1, s2, n, x, d, inner)
    <3>1. s2 \in Tree(n) /\ inner \in 0 .. n
      BY <2>3, <2>6 DEF Linked
    <3> QED
      BY <1>2, <3>1, LinkFacts
  <2> HIDE DEF t1
  <2>8. /\ s2.root = t.root /\ s2 \in Tree(n) /\ SameKeys(s2, t, n) /\ SameColours(s2, t, n)
        /\ \A j \in 1 .. n, e \in Sides :
             Leaf(s2, j, e) = IF j = inner /\ e = d THEN outer
                              ELSE IF j = outer /\ e = o THEN Leaf(t, inner, d)
                              ELSE Leaf(t, j, e)
    BY <2>5, <2>6 DEF Linked, SameKeys, SameColours
  <2>9. /\ t1.root = t.root /\ t1 \in Tree(n) /\ SameKeys(t1, t, n) /\ SameColours(t1, t, n)
        /\ \A j \in 1 .. n, e \in Sides :
             Leaf(t1, j, e) = IF j = x /\ e = d THEN inner ELSE Leaf(s2, j, e)
        /\ SameKeys(s2, t1, n) /\ SameColours(s2, t1, n)
    BY <2>7, <2>8 DEF Linked, SameKeys, SameColours
  <2>10. Turned(t1, t, n, outer, o)
    <3>1. t.root # outer
      BY <1>2, <1>3, RootIsNoLeaf
    <3>2. Leaf(t1, outer, o) = Leaf(t, inner, d)
      BY <1>2, <1>4, <2>3, <2>4, <2>8, <2>9
    <3>3. Leaf(t1, inner, d) = outer
      BY <1>2, <2>3, <2>4, <2>8, <2>9
    <3>4. ASSUME NEW j \in 1 .. n, NEW e \in Sides, ~(j = outer /\ e = o), ~(j = inner /\ e = d)
          PROVE  Leaf(t1, j, e) = IF Leaf(t, j, e) = outer THEN inner ELSE Leaf(t, j, e)
      <4>1. Leaf(t, j, e) = outer => j = x /\ e = d
        BY <1>2, <1>3, UniqueParent
      <4>2. Leaf(t1, j, e) = IF j = x /\ e = d THEN inner ELSE Leaf(t, j, e)
        BY <2>8, <2>9, <3>4
      <4> QED
        BY <1>3, <4>1, <4>2
    <3> QED
      BY <1>4, <2>9, <3>1, <3>2, <3>3, <3>4 DEF Turned, inner
  <2>11. ~RedLeaf(t, x, Other(d)) /\ ClashOnlyAt(t, n, outer, o) /\ o = Other(d)
    BY <1>7, <2>0 DEF o
  <2>12. /\ Shape(t1, n, TurnedSets(S, t, outer, o)) /\ Heights(t1, n, h)
         /\ Leaf(t1, x, d) = inner /\ IsRed(t1, inner) /\ ~IsRed(t1, x)
         /\ ~RedLeaf(t1, x, Other(d)) /\ ClashOnlyAt(t1, n, inner, d)
    <3>1. LET w2 == Leaf(t, Leaf(t, x, d), Other(d))
          IN /\ Shape(t1, n, TurnedSets(S, t, Leaf(t, x, d), Other(d))) /\ Heights(t1, n, h)
             /\ w2 \in 1 .. n /\ Leaf(t1, x, d) = w2 /\ IsRed(t1, w2) /\ ~IsRed(t1, x)
             /\ ~RedLeaf(t1, x, Other(d)) /\ ClashOnlyAt(t1, n, w2, d)
      BY <1>2, <1>3, <1>7, <2>2, <2>9, <2>10, <2>11, TurnInner
    <3> QED
      BY <1>3, <2>11, <3>1 DEF inner
  <2>13. k > 2 => /\ w.visited[k - 2] \in 1 .. n /\ w.dirs[k - 2] \in Sides
                  /\ Leaf(t1, w.visited[k - 2], w.dirs[k - 2]) = x
    <3> SUFFICES ASSUME k > 2
                 PROVE  /\ w.visited[k - 2] \in 1 .. n /\ w.dirs[k - 2] \in Sides
                        /\ Leaf(t1, w.visited[k - 2], w.dirs[k - 2]) = x
      OBVIOUS
    <3> DEFINE p == w.visited[k - 2]
               f == w.dirs[k - 2]
    <3>1. p \in 1 .. n /\ f \in Sides /\ Leaf(t, p, f) = x
      BY <1>5 DEF ComesTo
    <3> HIDE DEF p, f
    <3>2. ~(p = outer /\ f = o)
      BY <2>4, <3>1 DEF inner
    <3>3. ~(p = x /\ f = d)
      BY <1>3, <2>4, <3>1
    <3>4. ~(p = inner /\ f = d)
      <4> SUFFICES ASSUME p = inner, f = d PROVE FALSE
        OBVIOUS
      <4>1. S[x] \subseteq S[inner] /\ S[inner] \subseteq S[outer]
        <5>1. S[Leaf(t, inner, d)] \subseteq S[inner]
          BY <1>2, <2>3, LeafsBelow
        <5>2. S[Leaf(t, outer, o)] \subseteq S[outer]
          BY <1>2, <1>4, LeafsBelow
        <5> QED
          BY <3>1, <5>1, <5>2 DEF inner
      <4>2. x \in S[x] /\ x \notin S[outer]
        BY <1>2, <1>3, ShapeFacts
      <4> QED
        BY <4>1, <4>2
    <3>5. Leaf(t1, p, f) = x
      BY <2>8, <2>9, <3>1, <3>2, <3>3, <3>4
    <3> QED
      BY <3>1, <3>5 DEF p, f
  <2>14. ComesTo(t1, n, w, k, x)
    BY <1>5, <2>9, <2>13 DEF ComesTo
  <2>15. SameButLeaf(s2, t1, n, x, d)
    BY <2>8, <2>9 DEF SameButLeaf
  <2>19. Raised(u, t1, n, x, d, inner)
    <3> DEFINE R == TurnedSets(S, t, outer, o)
    <3>1. Shape(t1, n, R) /\ inner = Leaf(t1, x, d) /\ inner # Nil
      BY <2>2, <2>12
    <3> HIDE DEF R
    <3> QED
      BY <1>1, <1>2, <2>1, <2>14, <2>15, <3>1, RotatedTurns
  <2>16. /\ Turned(u, t1, n, x, d) /\ ~IsRed(u, inner) /\ IsRed(u, x)
         /\ \A j \in 1 .. n : j # x /\ j # inner => IsRed(u, j) = IsRed(t1, j)
    BY <2>19 DEF Raised
  <2>17. /\ \E R : Shape(u, n, R)
         /\ \E g : Heights(u, n, g)
         /\ NoClash(u, n)
    <3> DEFINE R == TurnedSets(S, t, outer, o)
    <3>1. Shape(t1, n, R) /\ Leaf(t1, x, d) = inner /\ inner # Nil
      BY <2>2, <2>12
    <3> HIDE DEF R
    <3>2. /\ Shape(u, n, TurnedSets(R, t1, x, d))
          /\ \E g : Heights(u, n, g)
          /\ NoClash(u, n)
      BY <1>2, <2>12, <2>16, <3>1, TurnOuter
    <3> QED
      BY <3>2
  <2>18. u \in Tree(n) /\ SameKeys(u, t, n)
    BY <2>9, <2>16 DEF Turned, SameKeys
  <2> QED
    BY <2>17, <2>18
<1> QED
  BY <1>9, <1>10

----------------------------------------------------------------------------
(* The climb back up.                                                      *)

\* The k-th node of the walk, and no other, may be red with a red leaf.
Clashing(t, n, w, k) ==
    /\ Trail(t, n, w)
    /\ ClashOnlyAt(t, n, w.visited[k], w.dirs[k]) /\ RedLeaf(t, w.visited[k], w.dirs[k])
    /\ ~IsRed(t, t.root)

\* What the climb keeps: k steps down the walk is where it still has to look.
Climbing(t, k, n, w, t0) ==
    /\ t \in Tree(n) /\ SameKeys(t, t0, n) /\ k \in 0 .. Len(w.visited)
    /\ (\E S : Shape(t, n, S)) /\ (\E h : Heights(t, n, h))
    /\ k = 0 => NoClash(t, n)
    /\ k > 0 => Clashing(t, n, w, k)

LEMMA ClimbCases ==
    ASSUME NEW s, NEW w
    PROVE  LET y == w.visited[s.k]
               x == w.visited[s.k - 1]
               o == Other(w.dirs[s.k - 1])
           IN Climb(s, w) =
                IF s.k < 2 \/ ~Red(s.t, y) THEN [s EXCEPT !.k = 0]
                ELSE IF RedLeaf(s.t, x, o)
                THEN [t |-> Paint(Paint(Paint(s.t, x, TRUE), y, FALSE), Leaf(s.t, x, o), FALSE),
                      k |-> s.k - 2]
                ELSE [t |-> Rotate(s.t, w, s.k), k |-> 0]
BY DEF Climb, RedLeaf, Red, IsRed, Leaf

\* The three nodes that change colour when the uncle is red.
LEMMA RepaintFacts ==
    ASSUME NEW n \in Nat, NEW t \in Tree(n), NEW x \in 1 .. n, NEW y \in 1 .. n,
           NEW z \in 1 .. n, x # y, x # z
    PROVE  Repainted(Paint(Paint(Paint(t, x, TRUE), y, FALSE), z, FALSE), t, n, x, y, z)
<1> DEFINE u1 == Paint(t, x, TRUE)
           u2 == Paint(u1, y, FALSE)
           u == Paint(u2, z, FALSE)
<1>1. Painted(u1, t, n, x, TRUE)
  BY PaintFacts
<1> HIDE DEF u1
<1>2. Painted(u2, u1, n, y, FALSE)
  <2>1. u1 \in Tree(n)
    BY <1>1 DEF Painted
  <2> QED
    BY <2>1, PaintFacts
<1> HIDE DEF u2
<1>3. Painted(u, u2, n, z, FALSE)
  <2>1. u2 \in Tree(n)
    BY <1>2 DEF Painted
  <2> QED
    BY <2>1, PaintFacts
<1> HIDE DEF u
<1>4. u \in Tree(n) /\ u.root = t.root
  BY <1>1, <1>2, <1>3 DEF Painted
<1>5. ASSUME NEW j \in 1 .. n
      PROVE  /\ Key(u, j) = Key(t, j)
             /\ IsRed(u, j) = IF j = z THEN FALSE ELSE IF j = y THEN FALSE
                              ELSE IF j = x THEN TRUE ELSE IsRed(t, j)
  BY <1>1, <1>2, <1>3 DEF Painted
<1>6. ASSUME NEW j \in 1 .. n, NEW f \in Sides
      PROVE  Leaf(u, j, f) = Leaf(t, j, f)
  <2>1. Leaf(u, j, f) = Leaf(u2, j, f)
    BY <1>3 DEF Painted
  <2>2. Leaf(u2, j, f) = Leaf(u1, j, f)
    BY <1>2 DEF Painted
  <2>3. Leaf(u1, j, f) = Leaf(t, j, f)
    BY <1>1 DEF Painted
  <2> QED
    BY <2>1, <2>2, <2>3
<1>7. SameKeys(u, t, n)
  BY <1>5 DEF SameKeys
<1>8. IsRed(u, x) /\ ~IsRed(u, y) /\ ~IsRed(u, z)
  BY <1>5
<1>9. \A j \in 1 .. n : j \notin {x, y, z} => IsRed(u, j) = IsRed(t, j)
  BY <1>5
<1>10. Repainted(u, t, n, x, y, z)
  BY <1>4, <1>6, <1>7, <1>8, <1>9 DEF Repainted
<1> QED
  BY <1>10 DEF u, u2, u1

\* A node that may clash and is not red does not.
LEMMA BlackClashesNot ==
    ASSUME NEW n \in Nat, NEW t, NEW y, NEW e, ClashOnlyAt(t, n, y, e), ~IsRed(t, y)
    PROVE  NoClash(t, n)
BY DEF ClashOnlyAt, NoClash

\* With a red uncle the climb goes on two steps further up.
LEMMA UncleRed ==
    ASSUME NEW n \in Nat, NEW t, NEW t0, NEW w, NEW k \in Nat, k >= 2, Climbing(t, k, n, w, t0),
           NEW x, x = w.visited[k - 1], NEW y, y = w.visited[k], NEW z,
           z = Leaf(t, x, Other(w.dirs[k - 1])),
           IsRed(t, y), RedLeaf(t, x, Other(w.dirs[k - 1]))
    PROVE  Climbing(Paint(Paint(Paint(t, x, TRUE), y, FALSE), z, FALSE), k - 2, n, w, t0)
<1> DEFINE d == w.dirs[k - 1]
           e == w.dirs[k]
           u == Paint(Paint(Paint(t, x, TRUE), y, FALSE), z, FALSE)
<1>1. /\ t \in Tree(n) /\ SameKeys(t, t0, n) /\ k \in 0 .. Len(w.visited)
      /\ Trail(t, n, w) /\ ClashOnlyAt(t, n, y, e) /\ ~IsRed(t, t.root)
  BY DEF Climbing, Clashing
<1>2. PICK S : Shape(t, n, S)
  BY DEF Climbing
<1>3. PICK h : Heights(t, n, h)
  BY DEF Climbing
<1>4. /\ Len(w.visited) \in Nat /\ k \in 1 .. Len(w.visited) /\ k - 1 \in 1 .. Len(w.visited)
      /\ k - 1 \in 1 .. Len(w.visited) - 1 /\ (k - 1) + 1 = k
  BY <1>1, TrailFacts
<1>5. x \in 1 .. n /\ y \in 1 .. n /\ d \in Sides /\ e \in Sides
  BY <1>1, <1>4, TrailFacts
<1>6. Leaf(t, x, d) = y
  BY <1>1, <1>4 DEF Trail
<1>7. Other(d) \in Sides /\ z = Leaf(t, x, Other(d)) /\ z \in 1 .. n
  <2>1. Other(d) \in Sides
    BY <1>5, SideFacts
  <2>2. Leaf(t, x, Other(d)) \in 1 .. n
    BY <1>1, <1>5, <2>1, RedLeafFacts
  <2> QED
    BY <2>1, <2>2
<1>8. x # y /\ x # z /\ y # Nil
  BY <1>2, <1>5, <1>6, <1>7, TurnedNodes DEF Nil
<1>9. /\ u \in Tree(n) /\ u.root = t.root /\ SameKeys(u, t, n)
      /\ \A j \in 1 .. n, f \in Sides : Leaf(u, j, f) = Leaf(t, j, f)
      /\ IsRed(u, x) /\ ~IsRed(u, y) /\ ~IsRed(u, z)
      /\ \A j \in 1 .. n : j \notin {x, y, z} => IsRed(u, j) = IsRed(t, j)
  <2>1. Repainted(u, t, n, x, y, z)
    BY <1>1, <1>5, <1>7, <1>8, RepaintFacts
  <2> QED
    BY <2>1 DEF Repainted
<1>10. RedLeaf(t, x, Other(d)) /\ IsRed(t, y)
  OBVIOUS
<1> SUFFICES Climbing(u, k - 2, n, w, t0)
  OBVIOUS
<1> HIDE DEF u, d, e
<1>11. /\ Shape(u, n, S)
       /\ \E g : Heights(u, n, g)
       /\ \A j \in 1 .. n, f \in Sides : IsRed(u, j) /\ RedLeaf(u, j, f) => Leaf(u, j, f) = x
  <2>1. /\ Shape(u, n, S)
        /\ \E g : Heights(u, n, g)
        /\ ClashOnlyAbove(u, n, x)
    <3>1. Repainted(u, t, n, x, y, z) /\ y = Leaf(t, x, d) /\ z # Nil
      BY <1>6, <1>7, <1>9 DEF Repainted, Nil
    <3> QED
      BY <1>1, <1>2, <1>3, <1>5, <1>7, <1>8, <1>10, <3>1, Recoloured
  <2> QED
    BY <2>1 DEF ClashOnlyAbove
<1>12. Trail(u, n, w)
  <2>1. ASSUME NEW j \in 1 .. Len(w.visited) - 1
        PROVE  Leaf(u, w.visited[j], w.dirs[j]) = w.visited[j + 1]
    <3>1. w.visited[j] \in 1 .. n /\ w.dirs[j] \in Sides
      BY <1>1, <1>4, TrailFacts
    <3> QED
      BY <1>1, <1>9, <3>1 DEF Trail
  <2> QED
    BY <1>1, <1>9, <2>1 DEF Trail
<1>13. SameKeys(u, t0, n)
  BY <1>1, <1>9 DEF SameKeys
<1>14. k - 2 \in 0 .. Len(w.visited)
  BY <1>4
<1>15. CASE k = 2
  <2>1. x = t.root
    BY <1>1, <1>4, <1>15 DEF Trail
  <2>2. NoClash(u, n)
    <3> SUFFICES ASSUME NEW j \in 1 .. n, NEW f \in Sides, IsRed(u, j), RedLeaf(u, j, f)
                 PROVE  FALSE
      BY DEF NoClash
    <3>1. Leaf(u, j, f) = u.root
      BY <1>9, <1>11, <2>1
    <3> QED
      BY <1>11, <3>1, RootIsNoLeaf
  <2> QED
    BY <1>9, <1>11, <1>13, <1>14, <1>15, <2>2 DEF Climbing
<1>16. CASE k # 2
  <2> DEFINE p == w.visited[k - 2]
             f == w.dirs[k - 2]
  <2>1. /\ k - 2 \in 1 .. Len(w.visited) /\ k - 2 \in 1 .. Len(w.visited) - 1
        /\ (k - 2) + 1 = k - 1 /\ k - 2 # 0
    BY <1>4, <1>16
  <2>2. p \in 1 .. n /\ f \in Sides
    BY <1>1, <2>1, TrailFacts
  <2>3. Leaf(u, p, f) = x
    BY <1>12, <2>1 DEF Trail
  <2> HIDE DEF p, f
  <2>4. RedLeaf(u, p, f)
    BY <1>5, <1>9, <2>3 DEF RedLeaf, Nil
  <2>5. ClashOnlyAt(u, n, p, f)
    <3> SUFFICES ASSUME NEW j \in 1 .. n, NEW g \in Sides, IsRed(u, j), RedLeaf(u, j, g)
                 PROVE  j = p /\ g = f
      BY DEF ClashOnlyAt
    <3>1. Leaf(u, j, g) = Leaf(u, p, f) /\ Leaf(u, j, g) # Nil
      BY <1>5, <1>11, <2>3 DEF Nil
    <3> QED
      BY <1>11, <2>2, <3>1, UniqueParent
  <2>6. ~IsRed(u, u.root)
    <3>1. /\ t.root \in 1 .. n
          /\ \A j \in 1 .. n, g \in Sides : Leaf(t, j, g) # t.root
      BY <1>2, <1>5, RootIsNoLeaf
    <3>2. t.root \notin {x, y, z}
      <4>1. Leaf(t, p, f) = x
        BY <1>9, <2>2, <2>3
      <4> QED
        BY <1>5, <1>6, <1>7, <2>2, <3>1, <4>1
    <3> QED
      BY <1>1, <1>9, <3>1, <3>2
  <2>7. Clashing(u, n, w, k - 2)
    BY <1>12, <2>4, <2>5, <2>6 DEF Clashing, p, f
  <2> QED
    BY <1>9, <1>11, <1>13, <1>14, <2>1, <2>7 DEF Climbing
<1> QED
  BY <1>15, <1>16

\* A round of the climb: it ends, or goes on further up.
LEMMA ClimbKeeps ==
    ASSUME NEW n \in Nat, NEW t0, NEW w, NEW T, NEW s \in [t : T, k : Nat],
           Climbing(s.t, s.k, n, w, t0)
    PROVE  LET r == Climb(s, w)
           IN /\ r = [t |-> r.t, k |-> r.k] /\ r.k \in Nat /\ Climbing(r.t, r.k, n, w, t0)
              /\ r.k = 0 \/ r.k + 1 <= s.k
<1> DEFINE t == s.t
           k == s.k
           y == w.visited[k]
           x == w.visited[k - 1]
           o == Other(w.dirs[k - 1])
           e == w.dirs[k]
           r == Climb(s, w)
<1>0. k \in Nat /\ [s EXCEPT !.k = 0] = [t |-> t, k |-> 0]
  OBVIOUS
<1>1. /\ Climbing(t, k, n, w, t0) /\ t \in Tree(n) /\ SameKeys(t, t0, n)
      /\ k \in 0 .. Len(w.visited)
      /\ k = 0 => NoClash(t, n)
      /\ k > 0 => Clashing(t, n, w, k)
  BY DEF Climbing
<1>2. PICK S : Shape(t, n, S)
  BY DEF Climbing
<1>3. PICK h : Heights(t, n, h)
  BY DEF Climbing
<1>4. r = IF k < 2 \/ ~Red(t, y) THEN [t |-> t, k |-> 0]
          ELSE IF RedLeaf(t, x, o)
          THEN [t |-> Paint(Paint(Paint(t, x, TRUE), y, FALSE), Leaf(t, x, o), FALSE), k |-> k - 2]
          ELSE [t |-> Rotate(t, w, k), k |-> 0]
  BY <1>0, ClimbCases
<1> SUFFICES /\ r = [t |-> r.t, k |-> r.k] /\ r.k \in Nat /\ Climbing(r.t, r.k, n, w, t0)
             /\ r.k = 0 \/ r.k + 1 <= k
  OBVIOUS
<1> HIDE DEF t, k, r
<1>5. ASSUME k > 0
      PROVE  /\ Trail(t, n, w) /\ ClashOnlyAt(t, n, y, e) /\ RedLeaf(t, y, e)
             /\ ~IsRed(t, t.root) /\ y \in 1 .. n /\ e \in Sides /\ Len(w.visited) \in Nat
  <2>1. /\ Trail(t, n, w) /\ ClashOnlyAt(t, n, y, e) /\ RedLeaf(t, y, e) /\ ~IsRed(t, t.root)
    BY <1>1, <1>5 DEF Clashing
  <2>2. Len(w.visited) \in Nat /\ k \in 1 .. Len(w.visited)
    BY <1>0, <1>1, <1>5, <2>1, TrailFacts
  <2> QED
    BY <2>1, <2>2, TrailFacts
<1>6. CASE k < 2 \/ ~Red(t, y)
  <2>1. r = [t |-> t, k |-> 0]
    BY <1>4, <1>6
  <2>2. NoClash(t, n)
    <3>1. CASE k = 0
      BY <1>1, <3>1
    <3>2. CASE k > 0
      <4>1. ~IsRed(t, y)
        <5>1. CASE k < 2
          <6>1. k = 1 /\ Len(w.visited) > 0
            BY <1>0, <1>1, <1>5, <3>2, <5>1
          <6> QED
            BY <1>5, <3>2, <6>1 DEF Trail
        <5>2. CASE ~Red(t, y)
          BY <1>5, <3>2, <5>2 DEF Red, IsRed, Nil
        <5> QED
          BY <1>6, <5>1, <5>2
      <4> QED
        BY <1>5, <3>2, <4>1, BlackClashesNot
    <3> QED
      BY <1>0, <3>1, <3>2
  <2>3. 0 \in 0 .. Len(w.visited)
    BY <1>0, <1>1
  <2>4. r.t = t /\ r.k = 0
    BY <2>1
  <2>5. Climbing(t, 0, n, w, t0)
    BY <1>1, <1>2, <1>3, <2>2, <2>3 DEF Climbing
  <2> QED
    BY <2>1, <2>4, <2>5
<1>7. CASE ~(k < 2 \/ ~Red(t, y))
  <2>1. k >= 2 /\ k > 0 /\ IsRed(t, y) /\ y # Nil
    BY <1>0, <1>7 DEF Red, IsRed
  <2>2. CASE RedLeaf(t, x, o)
    <3>1. r = [t |-> Paint(Paint(Paint(t, x, TRUE), y, FALSE), Leaf(t, x, o), FALSE),
               k |-> k - 2]
      BY <1>4, <1>7, <2>2
    <3>2. Climbing(Paint(Paint(Paint(t, x, TRUE), y, FALSE), Leaf(t, x, o), FALSE),
                   k - 2, n, w, t0)
      BY <1>0, <1>1, <2>1, <2>2, UncleRed
    <3>3. k - 2 \in Nat /\ (k - 2) + 1 <= k
      BY <1>0, <2>1
    <3> QED
      BY <3>1, <3>2, <3>3
  <2>3. CASE ~RedLeaf(t, x, o)
    <3> DEFINE u == Rotate(t, w, k)
    <3>1. r = [t |-> u, k |-> 0]
      BY <1>4, <1>7, <2>3
    <3>2. /\ k \in 2 .. Len(w.visited) /\ k - 1 \in 1 .. Len(w.visited)
          /\ k - 1 \in 1 .. Len(w.visited) - 1 /\ (k - 1) + 1 = k /\ 0 \in 0 .. Len(w.visited)
      BY <1>0, <1>1, <1>5, <2>1
    <3>3. Trail(t, n, w)
      BY <1>5, <2>1
    <3>4. x \in 1 .. n /\ w.dirs[k - 1] \in Sides /\ Leaf(t, x, w.dirs[k - 1]) = y
      BY <3>2, <3>3, TrailFacts DEF Trail
    <3>5. ~IsRed(t, x)
      <4>1. RedLeaf(t, x, w.dirs[k - 1])
        BY <2>1, <3>4 DEF RedLeaf
      <4>2. x # y
        BY <1>2, <2>1, <3>4, TurnedNodes
      <4> QED
        BY <1>5, <2>1, <3>4, <4>1, <4>2 DEF ClashOnlyAt
    <3>6. /\ u \in Tree(n) /\ SameKeys(u, t, n) /\ NoClash(u, n)
          /\ \E R : Shape(u, n, R)
          /\ \E g : Heights(u, n, g)
      BY <1>2, <1>3, <1>5, <2>1, <2>3, <3>2, <3>3, <3>5, RotateKeeps
    <3> HIDE DEF u
    <3>7. SameKeys(u, t0, n)
      BY <1>1, <3>6 DEF SameKeys
    <3>8. Climbing(u, 0, n, w, t0)
      BY <3>2, <3>6, <3>7 DEF Climbing
    <3> QED
      BY <3>1, <3>8
  <2> QED
    BY <2>2, <2>3
<1> QED
  BY <1>6, <1>7

----------------------------------------------------------------------------
(* An insertion.                                                           *)

\* climbed[m] is the climb after m rounds.
Climbed(climbed, t, data, w) ==
    /\ climbed[0] = [t |-> Graft(t, w, data), k |-> Len(w.visited)]
    /\ \A m \in 1 .. Len(w.visited) : climbed[m] = Climb(climbed[m - 1], w)
    /\ Insert(t, data) =
         IF w.found THEN [new |-> FALSE, tree |-> t]
         ELSE LET balanced == climbed[Len(w.visited)].t
              IN [new |-> TRUE, tree |-> Paint(balanced, balanced.root, FALSE)]

\* The rounds of a climb through trees of n nodes.
Rounds(n, w, t0) == {s \in [t : Tree(n), k : Nat] : Climbing(s.t, s.k, n, w, t0)}

LEMMA RoundKeeps ==
    ASSUME NEW n \in Nat, NEW t0, NEW w, NEW s \in Rounds(n, w, t0)
    PROVE  LET r == Climb(s, w)
           IN r \in Rounds(n, w, t0) /\ (r.k = 0 \/ r.k + 1 <= s.k)
<1>1. s \in [t : Tree(n), k : Nat] /\ Climbing(s.t, s.k, n, w, t0)
  BY DEF Rounds
<1> DEFINE r == Climb(s, w)
<1>2. /\ r = [t |-> r.t, k |-> r.k] /\ r.k \in Nat /\ Climbing(r.t, r.k, n, w, t0)
      /\ r.k = 0 \/ r.k + 1 <= s.k
  BY <1>1, ClimbKeeps
<1> SUFFICES r \in Rounds(n, w, t0) /\ (r.k = 0 \/ r.k + 1 <= s.k)
  OBVIOUS
<1> HIDE DEF r
<1>3. r.t \in Tree(n)
  BY <1>2 DEF Climbing
<1>4. r \in [t : Tree(n), k : Nat]
  BY <1>2, <1>3
<1> QED
  BY <1>2, <1>4 DEF Rounds

LEMMA ClimbRuns ==
    ASSUME NEW n \in Nat, NEW t, NEW data, NEW w, w = Walk(t, data), Len(w.visited) \in Nat,
           NEW g, g = Graft(t, w, data), Climbing(g, Len(w.visited), n, w, g)
    PROVE  \E climbed : /\ Climbed(climbed, t, data, w)
                        /\ \A m \in 0 .. Len(w.visited) : climbed[m] \in Rounds(n, w, g)
<1> DEFINE depth == Len(w.visited)
           start == [t |-> g, k |-> depth]
           C == Rounds(n, w, g)
           body(f) == [m \in 0 .. depth |-> IF m = 0 THEN start ELSE Climb(f[m - 1], w)]
           u == CHOOSE f : f = body(f)
           step == [s \in C |-> Climb(s, w)]
<1>0. start \in C
  <2>1. g \in Tree(n)
    BY DEF Climbing
  <2> QED
    BY <2>1 DEF Rounds
<1>1. step \in [C -> C]
  <2>1. ASSUME NEW s \in C PROVE Climb(s, w) \in C
    BY RoundKeeps
  <2> QED
    BY <2>1
<1>2. \A s \in C : step[s] = Climb(s, w)
  OBVIOUS
<1>3. Insert(t, data) =
        IF w.found THEN [new |-> FALSE, tree |-> t]
        ELSE [new |-> TRUE, tree |-> Paint(u[depth].t, u[depth].t.root, FALSE)]
  BY Zenon DEF Insert
<1>4. depth \in Nat
  OBVIOUS
<1> HIDE DEF step, C, depth
<1>5. PICK f : Iteration(f, C, start, step, depth)
  BY <1>0, <1>1, <1>4, Iterates
<1>6. f = body(f)
  <2>1. /\ f \in [0 .. depth -> C] /\ f[0] = start
        /\ \A m \in 1 .. depth : f[m] = step[f[m - 1]]
    BY <1>5 DEF Iteration
  <2> HIDE DEF start
  <2>2. ASSUME NEW m \in 0 .. depth PROVE f[m] = body(f)[m]
    <3>1. CASE m = 0
      BY <2>1, <3>1
    <3>2. CASE m # 0
      <4>1. m \in 1 .. depth /\ m - 1 \in 0 .. depth
        BY <1>4, <3>2
      <4>2. f[m] = step[f[m - 1]] /\ f[m - 1] \in C
        BY <2>1, <4>1
      <4> QED
        BY <1>2, <3>2, <4>2
    <3> QED
      BY <3>1, <3>2
  <2> QED
    BY <2>1, <2>2
<1>7. u = body(u)
  BY <1>6
<1> HIDE DEF u, start
<1>8. u[0] = start /\ \A m \in 1 .. depth : u[m] = Climb(u[m - 1], w)
  BY <1>4, <1>7
<1>9. \A m \in 0 .. depth : u[m] \in C
  <2> DEFINE T == {m \in Nat : u[m] \in C}
  <2>1. 0 \in T
    BY <1>0, <1>8
  <2>2. ASSUME NEW m \in 0 .. depth - 1, m \in T PROVE m + 1 \in T
    <3>1. m + 1 \in 1 .. depth /\ (m + 1) - 1 = m /\ u[m] \in C
      BY <1>4, <2>2
    <3>2. u[m + 1] = Climb(u[m], w)
      BY <1>8, <3>1
    <3>3. Climb(u[m], w) \in C
      BY <3>1, RoundKeeps DEF C
    <3> QED
      BY <3>1, <3>2, <3>3
  <2> HIDE DEF T
  <2>3. \A m \in 0 .. depth : m \in T
    BY <1>4, <2>1, <2>2, HoldsUpTo
  <2> QED
    BY <2>3 DEF T
<1>10. Climbed(u, t, data, w)
  BY <1>3, <1>8 DEF Climbed, depth, start
<1> QED
  BY <1>9, <1>10 DEF C, depth

\* A red-black tree of n nodes.
WellFormed(t, n) ==
    /\ t \in Tree(n)
    /\ (\E S : Shape(t, n, S)) /\ (\E h : Heights(t, n, h))
    /\ NoClash(t, n) /\ ~Red(t, t.root)

\* The root can always be black.
LEMMA RootPainted ==
    ASSUME NEW n \in Nat, n > 0, NEW t, NEW S, Shape(t, n, S), NEW h, Heights(t, n, h),
           NoClash(t, n)
    PROVE  LET u == Paint(t, t.root, FALSE)
           IN WellFormed(u, n) /\ SameKeys(u, t, n)
<1> DEFINE x == t.root
           u == Paint(t, x, FALSE)
           g == [h EXCEPT ![x] = h[x] + (IF IsRed(t, x) THEN 1 ELSE 0)]
<1>1. t \in Tree(n) /\ 1 \in 1 .. n
  BY DEF Shape
<1>2. x \in 1 .. n /\ \A i \in 1 .. n, d \in Sides : Leaf(t, i, d) # x
  <2>1. x \in 1 .. n
    BY <1>1, SideFacts, RootIsNoLeaf
  <2> QED
    BY <2>1, RootIsNoLeaf
<1>3. Painted(u, t, n, x, FALSE)
  BY <1>1, <1>2, PaintFacts
<1> SUFFICES WellFormed(u, n) /\ SameKeys(u, t, n)
  OBVIOUS
<1> HIDE DEF u, x
<1>4. /\ u \in Tree(n) /\ u.root = t.root /\ u.root = x
      /\ \A j \in 1 .. n :
           /\ Key(u, j) = Key(t, j)
           /\ IsRed(u, j) = IF j = x THEN FALSE ELSE IsRed(t, j)
           /\ \A e \in Sides : Leaf(u, j, e) = Leaf(t, j, e)
  BY <1>3 DEF Painted, x
<1>5. SameKeys(u, t, n)
  BY <1>4 DEF SameKeys
<1>6. Shape(u, n, S)
  BY <1>4, <1>5, ShapeKept
<1>7. NoClash(u, n)
  <2> SUFFICES ASSUME NEW j \in 1 .. n, NEW e \in Sides, IsRed(u, j), RedLeaf(u, j, e)
               PROVE  FALSE
    BY DEF NoClash
  <2>1. Leaf(u, j, e) \in 1 .. n
    BY <1>4, RedLeafFacts
  <2>2. IsRed(t, j) /\ RedLeaf(t, j, e)
    BY <1>4, <2>1 DEF RedLeaf
  <2> QED
    BY <2>2 DEF NoClash
<1>8. Heights(u, n, g)
  <2>1. h \in [0 .. n -> Nat] /\ h[Nil] = 0 /\ \A i \in 0 .. n : h[i] \in Nat
    BY <1>1, HeightFacts
  <2>2. \A i \in 1 .. n, d \in Sides :
          h[i] = h[Leaf(t, i, d)] + (IF IsRed(t, i) THEN 0 ELSE 1)
    BY DEF Heights
  <2>3. x \in 0 .. n /\ x # Nil /\ Nil \in 0 .. n
    BY <1>2 DEF Nil
  <2>4. /\ g \in [0 .. n -> Nat] /\ g[x] = h[x] + (IF IsRed(t, x) THEN 1 ELSE 0)
        /\ \A i \in 0 .. n : i # x => g[i] = h[i]
    BY <2>1, <2>3
  <2> HIDE DEF g
  <2>5. ASSUME NEW i \in 1 .. n, NEW d \in Sides
        PROVE  g[i] = g[Leaf(u, i, d)] + (IF IsRed(u, i) THEN 0 ELSE 1)
    <3>1. Leaf(t, i, d) \in 0 .. n /\ Leaf(t, i, d) # x /\ Leaf(u, i, d) = Leaf(t, i, d)
      BY <1>1, <1>2, <1>4, TreeFacts
    <3>2. g[Leaf(u, i, d)] = h[Leaf(t, i, d)] /\ h[Leaf(t, i, d)] \in Nat
      BY <2>1, <2>4, <3>1
    <3>3. CASE i = x
      <4>1. ~IsRed(u, i) /\ IsRed(t, x) \in BOOLEAN
        BY <1>1, <1>2, <1>4, <3>3, TreeFacts
      <4>2. h[x] = h[Leaf(t, i, d)] + (IF IsRed(t, x) THEN 0 ELSE 1)
        BY <2>2, <3>3
      <4> QED
        BY <2>4, <3>2, <3>3, <4>1, <4>2
    <3>4. CASE i # x
      <4>1. g[i] = h[i]
        BY <2>4, <3>4
      <4>2. IsRed(u, i) = IsRed(t, i)
        BY <1>4, <3>4
      <4>3. h[i] = h[Leaf(t, i, d)] + (IF IsRed(t, i) THEN 0 ELSE 1)
        BY <2>2
      <4> QED
        BY <3>2, <4>1, <4>2, <4>3
    <3> QED
      BY <3>3, <3>4
  <2>6. g[Nil] = 0
    BY <2>1, <2>3, <2>4
  <2> QED
    BY <2>4, <2>5, <2>6 DEF Heights
<1>9. ~Red(u, u.root)
  <2>1. ~IsRed(u, x)
    BY <1>2, <1>4
  <2> QED
    BY <1>4, <2>1 DEF Red, IsRed
<1> HIDE DEF g
<1> QED
  BY <1>4, <1>5, <1>6, <1>7, <1>8, <1>9 DEF WellFormed

\* A message that is not in the tree is put into it; nothing else changes.
LEMMA InsertFacts ==
    ASSUME NEW n \in Nat, NEW t, WellFormed(t, n), NEW data \in Data
    PROVE  LET r == Insert(t, data)
           IN /\ r.new \in BOOLEAN /\ (r.new <=> ~\E j \in 1 .. n : Key(t, j) = data)
              /\ ~r.new => r.tree = t
              /\ r.new => /\ WellFormed(r.tree, n + 1) /\ SameKeys(r.tree, t, n)
                          /\ Key(r.tree, n + 1) = data
<1> DEFINE w == Walk(t, data)
           depth == Len(w.visited)
           g == Graft(t, w, data)
           r == Insert(t, data)
           z == n + 1
<1>1. t \in Tree(n) /\ NoClash(t, n) /\ ~Red(t, t.root)
  BY DEF WellFormed
<1>2. PICK S : Shape(t, n, S)
  BY DEF WellFormed
<1>3. PICK h : Heights(t, n, h)
  BY DEF WellFormed
<1>4. /\ Path(t, n, w) /\ w.found \in BOOLEAN
      /\ w.found <=> \E j \in 1 .. n : Key(t, j) = data
      /\ ~w.found => w.p = Nil
      /\ BelongsBelow(t, n, S, w, data)
  BY <1>1, <1>2, <1>3, WalkFacts
<1>5. CASE w.found
  <2>1. r = [new |-> FALSE, tree |-> t]
    BY <1>5 DEF Insert
  <2> HIDE DEF r, w
  <2>2. r.new = FALSE /\ r.tree = t
    BY <2>1
  <2>3. /\ r.new \in BOOLEAN /\ (r.new <=> ~\E j \in 1 .. n : Key(t, j) = data)
        /\ ~r.new => r.tree = t
        /\ r.new => /\ WellFormed(r.tree, n + 1) /\ SameKeys(r.tree, t, n)
                    /\ Key(r.tree, n + 1) = data
    BY <1>4, <1>5, <2>2
  <2> QED
    BY <2>3 DEF r
<1>6. CASE ~w.found
  <2>0. depth \in Nat /\ z \in Nat /\ z > 0
    BY <1>4, PathTrail, TrailFacts
  <2>1. Grafted(g, t, n, w, data)
    BY <1>1, <1>4, GraftFacts
  <2> HIDE DEF w, g, r
  <2>2. /\ \E R : Shape(g, z, R)
        /\ \E f : Heights(g, z, f)
        /\ Trail(g, z, w)
        /\ depth = 0 => NoClash(g, z)
        /\ depth > 0 => /\ ClashOnlyAt(g, z, w.visited[depth], w.dirs[depth])
                        /\ RedLeaf(g, w.visited[depth], w.dirs[depth])
                        /\ ~IsRed(g, g.root)
    BY <1>1, <1>2, <1>3, <1>4, <1>6, <2>1, GraftShape
  <2>3. /\ g \in Tree(z) /\ Key(g, z) = data /\ SameKeys(g, t, n)
    BY <2>1 DEF Grafted, SameKeys
  <2>4. Climbing(g, depth, z, w, g)
    <3>1. depth \in 0 .. depth /\ SameKeys(g, g, z)
      BY <2>0 DEF SameKeys
    <3> HIDE DEF z
    <3> QED
      BY <2>2, <2>3, <3>1 DEF Climbing, Clashing
  <2>5. PICK climbed : /\ Climbed(climbed, t, data, w)
                       /\ \A m \in 0 .. depth : climbed[m] \in Rounds(z, w, g)
    BY <2>0, <2>4, ClimbRuns DEF w, g
  <2> DEFINE T == {m \in Nat : climbed[m].k = 0 \/ climbed[m].k + m <= depth}
             b == climbed[depth].t
  <2>6. 0 \in T
    BY <2>0, <2>5 DEF Climbed
  <2>7. ASSUME NEW m \in 0 .. depth - 1, m \in T PROVE m + 1 \in T
    <3>1. m + 1 \in 1 .. depth /\ (m + 1) - 1 = m /\ m \in 0 .. depth /\ m \in Nat
      BY <2>0
    <3>2. climbed[m + 1] = Climb(climbed[m], w)
      BY <2>5, <3>1 DEF Climbed
    <3>3. climbed[m] \in Rounds(z, w, g)
      BY <2>5, <3>1
    <3>4. /\ climbed[m + 1] \in Rounds(z, w, g)
          /\ climbed[m + 1].k = 0 \/ climbed[m + 1].k + 1 <= climbed[m].k
      BY <2>0, <3>2, <3>3, RoundKeeps
    <3>5. climbed[m].k \in Nat /\ climbed[m + 1].k \in Nat
      BY <3>3, <3>4 DEF Rounds
    <3>6. CASE climbed[m].k = 0
      BY <3>1, <3>4, <3>5, <3>6
    <3>7. CASE climbed[m].k + m <= depth
      <4>1. ASSUME NEW a \in Nat, NEW c \in Nat, a + m <= depth, c + 1 <= a
            PROVE  c + (m + 1) <= depth
        BY <2>0, <3>1, <4>1
      <4>2. climbed[m + 1].k = 0 \/ climbed[m + 1].k + (m + 1) <= depth
        BY <3>4, <3>5, <3>7, <4>1
      <4> QED
        BY <3>1, <4>2
    <3> QED
      BY <2>7, <3>6, <3>7
  <2> HIDE DEF T
  <2>8. \A m \in 0 .. depth : m \in T
    BY <2>0, <2>6, <2>7, HoldsUpTo
  <2>9. Climbing(b, 0, z, w, g)
    <3>1. depth \in T /\ climbed[depth] \in Rounds(z, w, g)
      BY <2>0, <2>5, <2>8
    <3>2. climbed[depth].k \in Nat /\ Climbing(b, climbed[depth].k, z, w, g)
      BY <3>1 DEF Rounds
    <3>3. climbed[depth].k = 0
      BY <2>0, <3>1, <3>2 DEF T
    <3> QED
      BY <3>2, <3>3
  <2>10. r = [new |-> TRUE, tree |-> Paint(b, b.root, FALSE)]
    BY <1>6, <2>5 DEF Climbed, r
  <2> HIDE DEF b, depth
  <2>11. /\ NoClash(b, z) /\ SameKeys(b, g, z)
         /\ \E R : Shape(b, z, R)
         /\ \E f : Heights(b, z, f)
    BY <2>9 DEF Climbing
  <2>12. WellFormed(r.tree, z) /\ SameKeys(r.tree, b, z) /\ r.new = TRUE
    BY <2>0, <2>10, <2>11, RootPainted
  <2>13. SameKeys(r.tree, t, n) /\ Key(r.tree, z) = data
    <3>1. z \in 1 .. z /\ \A j \in 1 .. n : j \in 1 .. z
      BY <2>0
    <3> HIDE DEF z
    <3> QED
      BY <2>3, <2>11, <2>12, <3>1 DEF SameKeys
  <2>14. /\ r.new \in BOOLEAN /\ (r.new <=> ~\E j \in 1 .. n : Key(t, j) = data)
         /\ ~r.new => r.tree = t
         /\ r.new => /\ WellFormed(r.tree, n + 1) /\ SameKeys(r.tree, t, n)
                     /\ Key(r.tree, n + 1) = data
    BY <1>4, <1>6, <2>12, <2>13
  <2> QED
    BY <2>14 DEF r
<1> QED
  BY <1>4, <1>5, <1>6

----------------------------------------------------------------------------
(* The list of the messages below a node.                                  *)

Sorted(s) == \A i \in 2 .. Len(s) : Less(s[i - 1], s[i])

\* u is a list, then a message, then another list.
Spliced(u, l, x, r) ==
    /\ u \in Seq(Data) /\ Len(u) = Len(l) + 1 + Len(r)
    /\ \A i \in 1 .. Len(u) : u[i] = IF i <= Len(l) THEN l[i]
                                     ELSE IF i = Len(l) + 1 THEN x ELSE r[i - Len(l) - 1]

LEMMA JoinFacts ==
    ASSUME NEW l \in Seq(Data), NEW x \in Data, NEW r \in Seq(Data)
    PROVE  Spliced(l \o <<x>> \o r, l, x, r)
<1> DEFINE m == l \o <<x>>
           u == m \o r
<1>0. Len(l) \in Nat /\ Len(r) \in Nat
  OBVIOUS
<1>1. <<x>> \in Seq(Data) /\ Len(<<x>>) = 1 /\ <<x>>[1] = x
  OBVIOUS
<1>2. /\ m \in Seq(Data) /\ Len(m) = Len(l) + 1
      /\ \A i \in 1 .. Len(l) + 1 : m[i] = IF i <= Len(l) THEN l[i] ELSE <<x>>[i - Len(l)]
  BY <1>1, ConcatProperties
<1> HIDE DEF m
<1>3. /\ u \in Seq(Data) /\ Len(u) = Len(m) + Len(r)
      /\ \A i \in 1 .. Len(m) + Len(r) : u[i] = IF i <= Len(m) THEN m[i] ELSE r[i - Len(m)]
  <2>1. m \in Seq(Data)
    BY <1>2
  <2> QED
    BY <2>1, ConcatProperties
<1> HIDE DEF u
<1>4. Len(u) = Len(l) + 1 + Len(r)
  BY <1>0, <1>2, <1>3
<1>5. ASSUME NEW i \in 1 .. Len(u)
      PROVE  u[i] = IF i <= Len(l) THEN l[i]
                    ELSE IF i = Len(l) + 1 THEN x ELSE r[i - Len(l) - 1]
  <2>1. CASE i <= Len(l) + 1
    <3>1. u[i] = m[i] /\ i \in 1 .. Len(l) + 1
      BY <1>0, <1>2, <1>3, <1>4, <2>1
    <3>2. CASE i <= Len(l)
      BY <1>2, <3>1, <3>2
    <3>3. CASE i = Len(l) + 1
      <4>1. ~(i <= Len(l)) /\ i - Len(l) = 1
        BY <1>0, <3>3
      <4> QED
        BY <1>1, <1>2, <3>1, <3>3, <4>1
    <3> QED
      BY <1>0, <2>1, <3>2, <3>3
  <2>2. CASE ~(i <= Len(l) + 1)
    <3>1. i - Len(m) = i - Len(l) - 1 /\ ~(i <= Len(m)) /\ ~(i <= Len(l)) /\ i # Len(l) + 1
      BY <1>0, <1>2, <2>2
    <3> QED
      BY <1>2, <1>3, <1>4, <3>1
  <2> QED
    BY <2>1, <2>2
<1>6. Spliced(u, l, x, r)
  BY <1>3, <1>4, <1>5 DEF Spliced
<1> QED
  BY <1>6 DEF u, m

\* s lists the keys of the nodes in U, in order.
ListsKeys(s, t, U) ==
    /\ s \in Seq(Data) /\ Sorted(s)
    /\ \A i \in 1 .. Len(s) : \E j \in U : s[i] = Key(t, j)
    /\ \A j \in U : \E i \in 1 .. Len(s) : s[i] = Key(t, j)

LEMMA JoinLists ==
    ASSUME NEW t, NEW A, NEW B, NEW l, ListsKeys(l, t, A), NEW r, ListsKeys(r, t, B),
           NEW i, Key(t, i) \in Data, \A j \in A : Less(Key(t, j), Key(t, i)),
           \A j \in B : Less(Key(t, i), Key(t, j))
    PROVE  ListsKeys(l \o <<Key(t, i)>> \o r, t, A \cup {i} \cup B)
<1> DEFINE x == Key(t, i)
           u == l \o <<x>> \o r
           a == Len(l)
           b == Len(r)
<1>1. /\ l \in Seq(Data) /\ Sorted(l)
      /\ \A k \in 1 .. Len(l) : \E j \in A : l[k] = Key(t, j)
      /\ \A j \in A : \E k \in 1 .. Len(l) : l[k] = Key(t, j)
  BY DEF ListsKeys
<1>2. /\ r \in Seq(Data) /\ Sorted(r)
      /\ \A k \in 1 .. Len(r) : \E j \in B : r[k] = Key(t, j)
      /\ \A j \in B : \E k \in 1 .. Len(r) : r[k] = Key(t, j)
  BY DEF ListsKeys
<1>3. Spliced(u, l, x, r)
  BY <1>1, <1>2, JoinFacts
<1> SUFFICES ListsKeys(u, t, A \cup {i} \cup B)
  OBVIOUS
<1> HIDE DEF u
<1>4. a \in Nat /\ b \in Nat
  BY <1>1, <1>2
<1>5. u \in Seq(Data) /\ Len(u) = a + 1 + b
  BY <1>3 DEF Spliced
<1>6. /\ \A k \in 1 .. a : u[k] = l[k]
      /\ u[a + 1] = x
      /\ \A k \in 1 .. b : u[a + 1 + k] = r[k]
  <2>1. \A k \in 1 .. Len(u) : u[k] = IF k <= a THEN l[k] ELSE IF k = a + 1 THEN x ELSE r[k - a - 1]
    BY <1>3 DEF Spliced
  <2> HIDE DEF a, b
  <2>2. ASSUME NEW k \in 1 .. a PROVE u[k] = l[k]
    <3>1. k \in 1 .. Len(u) /\ k <= a
      BY <1>4, <1>5
    <3> QED
      BY <2>1, <3>1
  <2>3. u[a + 1] = x
    <3>1. a + 1 \in 1 .. Len(u) /\ ~(a + 1 <= a)
      BY <1>4, <1>5
    <3> QED
      BY <2>1, <3>1
  <2>4. ASSUME NEW k \in 1 .. b PROVE u[a + 1 + k] = r[k]
    <3>1. /\ a + 1 + k \in 1 .. Len(u) /\ ~(a + 1 + k <= a) /\ a + 1 + k # a + 1
          /\ (a + 1 + k) - a - 1 = k
      BY <1>4, <1>5
    <3> QED
      BY <2>1, <3>1
  <2> QED
    BY <2>2, <2>3, <2>4
<1>7. \A k \in 1 .. a + 1 + b : k \in 1 .. a \/ k = a + 1 \/ \E m \in 1 .. b : k = a + 1 + m
  <2> HIDE DEF a, b
  <2> TAKE k \in 1 .. a + 1 + b
  <2>1. CASE k > a + 1
    <3>1. k - a - 1 \in 1 .. b /\ k = a + 1 + (k - a - 1)
      BY <1>4, <2>1
    <3> QED
      BY <3>1
  <2>2. CASE ~(k > a + 1)
    BY <1>4, <2>2
  <2> QED
    BY <2>1, <2>2
<1>8. \A k \in 1 .. a : Less(l[k], x)
  BY <1>1
<1>9. \A k \in 1 .. b : Less(x, r[k])
  BY <1>2
<1>10. Sorted(u)
  <2>0. /\ \A k \in 2 .. a : Less(l[k - 1], l[k])
        /\ \A k \in 2 .. b : Less(r[k - 1], r[k])
    BY <1>1, <1>2 DEF Sorted
  <2> HIDE DEF a, b, x
  <2> SUFFICES ASSUME NEW k \in 2 .. Len(u) PROVE Less(u[k - 1], u[k])
    BY DEF Sorted
  <2>1. k \in 1 .. a + 1 + b /\ k - 1 \in Nat /\ k - 1 >= 1
    BY <1>4, <1>5
  <2>2. CASE k \in 1 .. a
    <3>1. k \in 2 .. a /\ k - 1 \in 1 .. a
      BY <1>4, <2>1, <2>2
    <3>2. u[k - 1] = l[k - 1] /\ u[k] = l[k]
      BY <1>6, <2>2, <3>1
    <3> QED
      BY <2>0, <3>1, <3>2
  <2>3. CASE k = a + 1
    <3>1. k - 1 \in 1 .. a
      BY <1>4, <2>1, <2>3
    <3>2. u[k - 1] = l[k - 1] /\ u[k] = x
      BY <1>6, <2>3, <3>1
    <3> QED
      BY <1>8, <3>1, <3>2
  <2>4. CASE \E m \in 1 .. b : k = a + 1 + m
    <3>1. PICK m \in 1 .. b : k = a + 1 + m
      BY <2>4
    <3>2. u[k] = r[m]
      BY <1>6, <3>1
    <3>3. CASE m = 1
      <4>1. k - 1 = a + 1
        BY <1>4, <3>1, <3>3
      <4>2. u[k - 1] = x
        BY <1>6, <4>1
      <4> QED
        BY <1>9, <3>2, <4>2
    <3>4. CASE m # 1
      <4>1. m \in 2 .. b /\ m - 1 \in 1 .. b /\ k - 1 = a + 1 + (m - 1)
        BY <1>4, <3>1, <3>4
      <4>2. u[k - 1] = r[m - 1]
        BY <1>6, <4>1
      <4> QED
        BY <2>0, <3>2, <4>1, <4>2
    <3> QED
      BY <3>3, <3>4
  <2> QED
    BY <1>7, <2>1, <2>2, <2>3, <2>4
<1>11. ASSUME NEW k \in 1 .. Len(u)
       PROVE  \E j \in A \cup {i} \cup B : u[k] = Key(t, j)
  <2>1. CASE k \in 1 .. a
    <3>1. u[k] = l[k]
      BY <1>6, <2>1
    <3> QED
      BY <1>1, <2>1, <3>1
  <2>2. CASE k = a + 1
    BY <1>6, <2>2
  <2>3. CASE \E m \in 1 .. b : k = a + 1 + m
    <3>1. PICK m \in 1 .. b : k = a + 1 + m
      BY <2>3
    <3>2. u[k] = r[m]
      BY <1>6, <3>1
    <3> QED
      BY <1>2, <3>2
  <2> QED
    BY <1>5, <1>7, <2>1, <2>2, <2>3
<1>12. ASSUME NEW j \in A \cup {i} \cup B
       PROVE  \E k \in 1 .. Len(u) : u[k] = Key(t, j)
  <2>1. CASE j \in A
    <3>1. PICK k \in 1 .. a : l[k] = Key(t, j)
      BY <1>1, <2>1
    <3>2. k \in 1 .. Len(u)
      BY <1>4, <1>5
    <3> QED
      BY <1>6, <3>1, <3>2
  <2>2. CASE j = i
    <3>1. a + 1 \in 1 .. Len(u)
      BY <1>4, <1>5
    <3> QED
      BY <1>6, <2>2, <3>1
  <2>3. CASE j \in B
    <3>1. PICK k \in 1 .. b : r[k] = Key(t, j)
      BY <1>2, <2>3
    <3>2. a + 1 + k \in 1 .. Len(u)
      BY <1>4, <1>5
    <3> QED
      BY <1>6, <3>1, <3>2
  <2> QED
    BY <2>1, <2>2, <2>3
<1> QED
  BY <1>5, <1>10, <1>11, <1>12 DEF ListsKeys

\* What Below says of no node, and of a node by what f says of its leafs.
NoneBelow == [data |-> << >>, blacks |-> {0}]

JoinBelow(t, f, i) ==
    [data |-> f[Leaf(t, i, Left)].data \o <<Key(t, i)>> \o f[Leaf(t, i, Right)].data,
     blacks |-> {b + (IF IsRed(t, i) THEN 0 ELSE 1) :
                   b \in f[Leaf(t, i, Left)].blacks \cup f[Leaf(t, i, Right)].blacks}]

Listings(n) == [0 .. n -> [data : Seq(Data), blacks : SUBSET Nat]]

\* below[k] is the listing of nodes at most k deep.
Listing(below, n) ==
    /\ Below(n) = below[n]
    /\ \A i \in 0 .. n : below[0][i] = NoneBelow
    /\ \A k \in 1 .. n : \A i \in 0 .. n :
         below[k][i] = IF i = Nil THEN NoneBelow ELSE JoinBelow(tree, below[k - 1], i)

LEMMA JoinBelowType ==
    ASSUME NEW n \in Nat, NEW t \in Tree(n), NEW f \in Listings(n), NEW i \in 1 .. n
    PROVE  JoinBelow(t, f, i) \in [data : Seq(Data), blacks : SUBSET Nat]
<1> DEFINE l == f[Leaf(t, i, Left)]
           r == f[Leaf(t, i, Right)]
           c == IF IsRed(t, i) THEN 0 ELSE 1
<1>1. Leaf(t, i, Left) \in 0 .. n /\ Leaf(t, i, Right) \in 0 .. n /\ Key(t, i) \in Data
  BY TreeFacts, SideFacts
<1>2. l \in [data : Seq(Data), blacks : SUBSET Nat] /\ r \in [data : Seq(Data), blacks : SUBSET Nat]
  BY <1>1 DEF Listings
<1>3. c \in Nat
  OBVIOUS
<1> HIDE DEF l, r, c
<1>4. l.data \in Seq(Data) /\ r.data \in Seq(Data) /\ l.blacks \subseteq Nat /\ r.blacks \subseteq Nat
  BY <1>2
<1>5. l.data \o <<Key(t, i)>> \o r.data \in Seq(Data)
  BY <1>1, <1>4, JoinFacts DEF Spliced
<1>6. {b + c : b \in l.blacks \cup r.blacks} \in SUBSET Nat
  BY <1>3, <1>4
<1>7. JoinBelow(t, f, i) = [data |-> l.data \o <<Key(t, i)>> \o r.data,
                            blacks |-> {b + c : b \in l.blacks \cup r.blacks}]
  BY DEF JoinBelow, l, r, c
<1> QED
  BY <1>5, <1>6, <1>7

LEMMA BelowRuns ==
    ASSUME NEW n \in Nat, tree \in Tree(n)
    PROVE  \E below : Listing(below, n)
<1> DEFINE start == [i \in 0 .. n |-> NoneBelow]
           next(f) == [i \in 0 .. n |-> IF i = Nil THEN NoneBelow ELSE JoinBelow(tree, f, i)]
           body(f) == [k \in 0 .. n |-> [i \in 0 .. n |-> IF i = Nil \/ k = 0 THEN NoneBelow
                                                          ELSE JoinBelow(tree, f[k - 1], i)]]
           u == CHOOSE f : f = body(f)
           step == [f \in Listings(n) |-> next(f)]
<1>1. NoneBelow \in [data : Seq(Data), blacks : SUBSET Nat]
  BY DEF NoneBelow
<1>2. start \in Listings(n)
  BY <1>1 DEF Listings
<1>3. step \in [Listings(n) -> Listings(n)]
  <2>1. ASSUME NEW f \in Listings(n) PROVE next(f) \in Listings(n)
    <3>1. ASSUME NEW i \in 0 .. n
          PROVE  (IF i = Nil THEN NoneBelow ELSE JoinBelow(tree, f, i))
                   \in [data : Seq(Data), blacks : SUBSET Nat]
      <4>1. CASE i = Nil
        BY <1>1, <4>1
      <4>2. CASE i # Nil
        <5>1. i \in 1 .. n
          BY <4>2 DEF Nil
        <5> QED
          BY <4>2, <5>1, JoinBelowType
      <4> QED
        BY <4>1, <4>2
    <3> QED
      BY <3>1 DEF Listings
  <2> QED
    BY <2>1
<1>4. \A f \in Listings(n) : step[f] = next(f)
  OBVIOUS
<1>5. Below(n) = u[n]
  <2>1. Len(tree.nodes) = n
    BY TreeFacts
  <2> QED
    BY <2>1, Zenon DEF Below, JoinBelow, NoneBelow, Leaf, Key, IsRed
<1> HIDE DEF step, start
<1>6. PICK g : Iteration(g, Listings(n), start, step, n)
  BY <1>2, <1>3, Iterates
<1>7. g = body(g)
  <2>1. /\ g \in [0 .. n -> Listings(n)] /\ g[0] = start
        /\ \A k \in 1 .. n : g[k] = step[g[k - 1]]
    BY <1>6 DEF Iteration
  <2>2. ASSUME NEW k \in 0 .. n PROVE g[k] = body(g)[k]
    <3>1. CASE k = 0
      BY <2>1, <3>1 DEF start
    <3>2. CASE k # 0
      <4>1. k \in 1 .. n /\ k - 1 \in 0 .. n
        BY <3>2
      <4>2. g[k] = step[g[k - 1]] /\ g[k - 1] \in Listings(n)
        BY <2>1, <4>1
      <4>3. g[k] = next(g[k - 1])
        BY <1>4, <4>2
      <4> QED
        BY <3>2, <4>3
    <3> QED
      BY <3>1, <3>2
  <2> QED
    BY <2>1, <2>2
<1>8. u = body(u)
  BY <1>7
<1> HIDE DEF u
<1>9. \A k \in 0 .. n : \A i \in 0 .. n :
        u[k][i] = IF i = Nil \/ k = 0 THEN NoneBelow ELSE JoinBelow(tree, u[k - 1], i)
  <2> TAKE k \in 0 .. n
  <2>1. u[k] = [i \in 0 .. n |-> IF i = Nil \/ k = 0 THEN NoneBelow
                                ELSE JoinBelow(tree, u[k - 1], i)]
    <3>1. u[k] = body(u)[k]
      BY <1>8
    <3> QED
      BY <3>1, Zenon
  <2> QED
    BY <2>1, Zenon
<1>10. Listing(u, n)
  <2>1. 0 \in 0 .. n /\ \A k \in 1 .. n : k \in 0 .. n /\ k # 0
    OBVIOUS
  <2> QED
    BY <1>5, <1>9, <2>1 DEF Listing
<1> QED
  BY <1>10

\* The listing of a node is of what is below it, and the black nodes on each way
\* down are as many.
Listed(r, t, S, h, i) == ListsKeys(r.data, t, S[i]) /\ r.blacks = {h[i]}

LEMMA NoneListed ==
    ASSUME NEW n, NEW t, NEW S, Shape(t, n, S), NEW h, Heights(t, n, h)
    PROVE  Listed(NoneBelow, t, S, h, Nil)
<1>1. S[Nil] = {} /\ h[Nil] = 0
  BY DEF Shape, Spans, Heights
<1>2. NoneBelow.data = << >> /\ NoneBelow.blacks = {0}
  BY DEF NoneBelow
<1>3. << >> \in Seq(Data) /\ Len(<< >>) = 0 /\ 1 .. 0 = {} /\ 2 .. 0 = {}
  OBVIOUS
<1>4. ListsKeys(<< >>, t, {})
  BY <1>3 DEF ListsKeys, Sorted
<1> QED
  BY <1>1, <1>2, <1>4 DEF Listed

LEMMA JoinListed ==
    ASSUME NEW n \in Nat, NEW t, NEW S, Shape(t, n, S), NEW h, Heights(t, n, h), NEW i \in 1 .. n,
           NEW f, \A d \in Sides : Listed(f[Leaf(t, i, d)], t, S, h, Leaf(t, i, d))
    PROVE  Listed(JoinBelow(t, f, i), t, S, h, i)
<1> DEFINE l == f[Leaf(t, i, Left)]
           r == f[Leaf(t, i, Right)]
           c == IF IsRed(t, i) THEN 0 ELSE 1
<1>1. JoinBelow(t, f, i) = [data |-> l.data \o <<Key(t, i)>> \o r.data,
                            blacks |-> {b + c : b \in l.blacks \cup r.blacks}]
  BY DEF JoinBelow
<1>2. /\ Listed(l, t, S, h, Leaf(t, i, Left))
      /\ Listed(r, t, S, h, Leaf(t, i, Right))
  BY SideFacts
<1>3. /\ h[i] = h[Leaf(t, i, Left)] + c
      /\ h[i] = h[Leaf(t, i, Right)] + c
  BY SideFacts DEF Heights
<1>4. /\ S[i] = S[Leaf(t, i, Left)] \cup {i} \cup S[Leaf(t, i, Right)] /\ Key(t, i) \in Data
      /\ \A j \in S[Leaf(t, i, Left)] : Less(Key(t, j), Key(t, i))
      /\ \A j \in S[Leaf(t, i, Right)] : Less(Key(t, i), Key(t, j))
  <2>1. Left \in Sides /\ Right \in Sides /\ Other(Left) = Right /\ Right # Left
    BY SideFacts DEF Left, Right
  <2> QED
    BY <2>1, ShapeFacts DEF Aside
<1> HIDE DEF l, r, c
<1>5. ListsKeys(l.data \o <<Key(t, i)>> \o r.data, t, S[i])
  BY <1>2, <1>4, JoinLists DEF Listed
<1>6. {b + c : b \in l.blacks \cup r.blacks} = {h[i]}
  <2>1. l.blacks = {h[Leaf(t, i, Left)]} /\ r.blacks = {h[Leaf(t, i, Right)]}
    BY <1>2 DEF Listed
  <2> QED
    BY <1>3, <2>1
<1>7. /\ JoinBelow(t, f, i).data = l.data \o <<Key(t, i)>> \o r.data
      /\ JoinBelow(t, f, i).blacks = {b + c : b \in l.blacks \cup r.blacks}
  <2> DEFINE A == l.data \o <<Key(t, i)>> \o r.data
             B == {b + c : b \in l.blacks \cup r.blacks}
  <2>1. JoinBelow(t, f, i) = [data |-> A, blacks |-> B]
    BY <1>1
  <2> HIDE DEF A, B
  <2>2. JoinBelow(t, f, i).data = A /\ JoinBelow(t, f, i).blacks = B
    BY <2>1
  <2> QED
    BY <2>2 DEF A, B
<1> QED
  BY <1>5, <1>6, <1>7 DEF Listed

\* Below lists the tree.
LEMMA BelowFacts ==
    ASSUME NEW n \in Nat, NEW S, Shape(tree, n, S), NEW h, Heights(tree, n, h)
    PROVE  Listed(Below(n)[tree.root], tree, S, h, tree.root)
<1>1. tree \in Tree(n) /\ tree.root \in 0 .. n
  BY ShapeFacts
<1>2. PICK below : Listing(below, n)
  BY <1>1, BelowRuns
<1> DEFINE Lists(k, i) == Cardinality(S[i]) <= k => Listed(below[k][i], tree, S, h, i)
           T == {k \in Nat : \A i \in 0 .. n : Lists(k, i)}
<1>3. 0 \in T
  <2>1. ASSUME NEW i \in 0 .. n, Cardinality(S[i]) <= 0
        PROVE  Listed(below[0][i], tree, S, h, i)
    <3>1. i = Nil
      <4> SUFFICES ASSUME i # Nil PROVE FALSE
        OBVIOUS
      <4>1. i \in 1 .. n
        BY DEF Nil
      <4>2. Left \in Sides /\ Leaf(tree, i, Left) \in 0 .. n
        BY <4>1, SideFacts, ShapeFacts
      <4>3. /\ Cardinality(S[Leaf(tree, i, Left)]) \in Nat
            /\ Cardinality(S[Leaf(tree, i, Left)]) < Cardinality(S[i])
            /\ Cardinality(S[i]) \in Nat
        BY <4>1, <4>2, SizeFacts
      <4> QED
        BY <2>1, <4>3
    <3>2. below[0][i] = NoneBelow
      BY <1>2 DEF Listing
    <3> QED
      BY <3>1, <3>2, NoneListed
  <2> QED
    BY <2>1
<1>4. ASSUME NEW k \in 0 .. n - 1, k \in T PROVE k + 1 \in T
  <2>0. k \in Nat /\ k + 1 \in 1 .. n /\ (k + 1) - 1 = k
    OBVIOUS
  <2>1. ASSUME NEW i \in 0 .. n, Cardinality(S[i]) <= k + 1
        PROVE  Listed(below[k + 1][i], tree, S, h, i)
    <3>1. below[k + 1][i] = IF i = Nil THEN NoneBelow ELSE JoinBelow(tree, below[k], i)
      BY <1>2, <2>0 DEF Listing
    <3>2. CASE i = Nil
      BY <3>1, <3>2, NoneListed
    <3>3. CASE i # Nil
      <4>1. i \in 1 .. n
        BY <3>3 DEF Nil
      <4>2. ASSUME NEW d \in Sides
            PROVE  Listed(below[k][Leaf(tree, i, d)], tree, S, h, Leaf(tree, i, d))
        <5>1. Leaf(tree, i, d) \in 0 .. n
          BY <4>1, ShapeFacts
        <5>2. /\ Cardinality(S[Leaf(tree, i, d)]) \in Nat
              /\ Cardinality(S[Leaf(tree, i, d)]) < Cardinality(S[i])
              /\ Cardinality(S[i]) \in Nat
          BY <4>1, <5>1, SizeFacts
        <5>3. Cardinality(S[Leaf(tree, i, d)]) <= k
          BY <2>0, <2>1, <5>2
        <5> QED
          BY <1>4, <5>1, <5>3
      <4>3. Listed(JoinBelow(tree, below[k], i), tree, S, h, i)
        BY <4>1, <4>2, JoinListed
      <4> QED
        BY <3>1, <3>3, <4>3
    <3> QED
      BY <3>2, <3>3
  <2> QED
    BY <2>0, <2>1
<1> HIDE DEF T
<1>5. \A k \in 0 .. n : k \in T
  BY <1>3, <1>4, HoldsUpTo
<1>6. n \in T /\ Cardinality(S[tree.root]) = n
  BY <1>5, SizeFacts
<1>7. Lists(n, tree.root)
  BY <1>1, <1>6 DEF T
<1>8. Listed(below[n][tree.root], tree, S, h, tree.root)
  BY <1>6, <1>7
<1> QED
  BY <1>2, <1>8 DEF Listing

----------------------------------------------------------------------------
(* The tree and the messages that were accepted.                           *)

\* Below a node with h black ones on each way down are at least 2^h - 1 nodes.
LEMMA SizeOfHeight ==
    ASSUME NEW n \in Nat, NEW t, NEW S, Shape(t, n, S), NEW h, Heights(t, n, h)
    PROVE  TwoTo(h[t.root]) <= n + 1
<1>0. t \in Tree(n) /\ t.root \in 0 .. n /\ S[Nil] = {}
  BY ShapeFacts
<1>1. /\ \A i \in 0 .. n : h[i] \in Nat
      /\ h[Nil] = 0
  BY <1>0, HeightFacts
<1>2. /\ \A i \in 0 .. n : IsFiniteSet(S[i]) /\ Cardinality(S[i]) \in Nat
      /\ Cardinality(S[t.root]) = n
  BY SizeFacts
<1> DEFINE T == {i \in 0 .. n : TwoTo(h[i]) <= Cardinality(S[i]) + 1}
<1>3. Nil \in T
  <2>1. Cardinality(S[Nil]) = 0 /\ Nil \in 0 .. n
    BY <1>0, FS_EmptySet DEF Nil
  <2> QED
    BY <1>1, <2>1, TwoToFacts
<1>4. Inherited(t, n, T)
  <2> SUFFICES ASSUME NEW i \in 1 .. n, \A d \in Sides : Leaf(t, i, d) \in T
               PROVE  TwoTo(h[i]) <= Cardinality(S[i]) + 1
    BY DEF Inherited
  <2> DEFINE l == Leaf(t, i, Left)
             r == Leaf(t, i, Right)
             a == Cardinality(S[l])
             b == Cardinality(S[r])
  <2>1. Left \in Sides /\ Right \in Sides /\ Other(Left) = Right
    BY SideFacts
  <2>2. /\ l \in 0 .. n /\ r \in 0 .. n /\ i \notin S[l] /\ i \notin S[r]
        /\ S[i] = S[l] \cup {i} \cup S[r] /\ S[l] \cap S[r] = {}
    BY <2>1, ShapeFacts
  <2>3. TwoTo(h[l]) <= a + 1 /\ TwoTo(h[r]) <= b + 1
    BY <2>1
  <2> HIDE DEF l, r, T
  <2>4. IsFiniteSet(S[l]) /\ IsFiniteSet(S[r]) /\ a \in Nat /\ b \in Nat
    BY <1>2, <2>2
  <2>5. Cardinality(S[i]) = a + 1 + b
    <3> DEFINE U == S[l] \cup S[r]
    <3>1. IsFiniteSet(U) /\ Cardinality(U) = a + b - Cardinality(S[l] \cap S[r])
      BY <2>4, FS_Union
    <3>2. Cardinality(S[l] \cap S[r]) = 0
      BY <2>2, FS_EmptySet
    <3>3. i \notin U /\ S[i] = U \cup {i}
      BY <2>2
    <3> HIDE DEF U
    <3>4. Cardinality(U \cup {i}) = Cardinality(U) + 1
      BY <3>1, <3>3, FS_AddElement
    <3> QED
      BY <2>4, <3>1, <3>2, <3>3, <3>4
  <2>6. /\ IsRed(t, i) \in BOOLEAN /\ h[l] \in Nat /\ h[r] \in Nat /\ h[i] \in Nat
        /\ IsRed(t, i) => h[i] = h[l] /\ h[i] = h[r]
        /\ ~IsRed(t, i) => h[i] = h[l] + 1 /\ h[i] = h[r] + 1
    BY <1>0, <1>1, <2>1, HeightFacts DEF l, r
  <2> HIDE DEF a, b
  <2>7. CASE IsRed(t, i)
    BY <2>3, <2>4, <2>5, <2>6, <2>7, TwoToFacts
  <2>8. CASE ~IsRed(t, i)
    <3>1. h[l] = h[r] /\ TwoTo(h[i]) = 2 * TwoTo(h[l]) /\ TwoTo(h[l]) \in Nat
      <4>1. TwoTo(h[l] + 1) = 2 * TwoTo(h[l]) /\ TwoTo(h[l]) \in Nat
        BY <2>6, TwoToFacts
      <4>2. h[i] = h[l] + 1 /\ h[l] = h[r]
        BY <2>6, <2>8
      <4> QED
        BY <4>1, <4>2
    <3> QED
      BY <2>3, <2>4, <2>5, <3>1
  <2> QED
    BY <2>6, <2>7, <2>8
<1> HIDE DEF T
<1>5. t.root \in T
  BY <1>0, <1>3, <1>4, TreeInduction
<1> QED
  BY <1>2, <1>5 DEF T

\* A walk is no longer than twice the logarithm of the size.
LEMMA WalkLength ==
    ASSUME NEW n \in Nat, NEW t, WellFormed(t, n), NEW data \in Data
    PROVE  TwoTo(Len(Walk(t, data).visited)) <= (n + 1) * (n + 1)
<1>1. t \in Tree(n) /\ NoClash(t, n) /\ ~Red(t, t.root)
  BY DEF WellFormed
<1>2. PICK S : Shape(t, n, S)
  BY DEF WellFormed
<1>3. PICK h : Heights(t, n, h)
  BY DEF WellFormed
<1> DEFINE len == Len(Walk(t, data).visited)
           b == h[t.root]
<1>4. Path(t, n, Walk(t, data)) /\ len <= Rank(t, h, t.root)
  BY <1>1, <1>2, <1>3, WalkFacts
<1>5. len \in Nat
  BY <1>4, PathTrail, TrailFacts
<1>6. b \in Nat /\ Rank(t, h, t.root) = 2 * b
  BY <1>1, TreeFacts, HeightFacts, <1>3 DEF Rank
<1>7. TwoTo(b) <= n + 1 /\ TwoTo(b) \in Nat
  BY <1>2, <1>3, <1>6, SizeOfHeight, TwoToFacts
<1> HIDE DEF len, b
<1>8. TwoTo(len) <= TwoTo(b) * TwoTo(b)
  <2>1. TwoTo(len) <= TwoTo(2 * b)
    BY <1>4, <1>5, <1>6, TwoToGrows
  <2> QED
    BY <1>6, <2>1, TwoToDouble
<1>9. TwoTo(b) * TwoTo(b) <= (n + 1) * (n + 1)
  <2>1. ASSUME NEW x \in Nat, NEW y \in Nat, x <= y PROVE x * x <= y * y
    <3>1. PICK e \in Nat : y = x + e
      <4>1. y - x \in Nat /\ y = x + (y - x)
        BY <2>1
      <4> QED
        BY <4>1
    <3>2. y * y = x * x + (2 * (x * e) + e * e)
      BY <3>1
    <3>3. x * x \in Nat /\ x * e \in Nat /\ e * e \in Nat
      OBVIOUS
    <3> QED
      BY <3>2, <3>3
  <2> QED
    BY <1>7, <2>1
<1>10. TwoTo(len) \in Nat /\ TwoTo(b) * TwoTo(b) \in Nat /\ (n + 1) * (n + 1) \in Nat
  BY <1>5, <1>7, TwoToFacts
<1> QED
  BY <1>8, <1>9, <1>10 DEF len

\* The tree is well formed and holds the accepted messages.
TreeInv ==
    LET n == Len(tree.nodes)
    IN WellFormed(tree, n) /\ inserted = {Key(tree, i) : i \in 1 .. n}

\* What blst_uniq_test is given is bytes.
LEMMA MessagesAreData == \A m \in Messages : m \in Data
BY MessagesAssumption DEF Data, Byte

\* blst_uniq_init makes the empty tree, which is well formed.
LEMMA TreeInvInit == UniqInit => TreeInv
<1> SUFFICES ASSUME UniqInit PROVE TreeInv
  OBVIOUS
<1>1. tree = [root |-> Nil, nodes |-> << >>] /\ inserted = {}
  BY DEF UniqInit
<1>2. Len(tree.nodes) = 0 /\ tree.root = 0 /\ 1 .. 0 = {} /\ 0 .. 0 = {0}
  BY <1>1 DEF Nil
<1>3. tree \in Tree(0)
  <2>1. << >> \in Seq(NodeOf(0))
    OBVIOUS
  <2> QED
    BY <1>1, <1>2, <2>1 DEF Tree
<1>4. Shape(tree, 0, [i \in 0 .. 0 |-> {}])
  <2> DEFINE S == [i \in 0 .. 0 |-> {}]
  <2>1. S \in [0 .. 0 -> SUBSET (1 .. 0)] /\ S[0] = {}
    OBVIOUS
  <2> HIDE DEF S
  <2> QED
    BY <1>2, <1>3, <2>1 DEF Shape, Spans, Ordered, Nil
<1>5. Heights(tree, 0, [i \in 0 .. 0 |-> 0])
  <2> DEFINE h == [i \in 0 .. 0 |-> 0]
  <2>1. h \in [0 .. 0 -> Nat] /\ h[0] = 0
    OBVIOUS
  <2> HIDE DEF h
  <2> QED
    BY <1>2, <2>1 DEF Heights, Nil
<1>6. NoClash(tree, 0) /\ ~Red(tree, tree.root)
  BY <1>2 DEF NoClash, Red, Nil
<1>7. WellFormed(tree, 0)
  BY <1>3, <1>4, <1>5, <1>6 DEF WellFormed
<1>8. {Key(tree, i) : i \in 1 .. 0} = {}
  BY <1>2
<1> QED
  BY <1>1, <1>2, <1>7, <1>8 DEF TreeInv

\* blst_uniq_test keeps it so, whether it accepts the message or refuses it.
LEMMA TreeInvNext == TreeInv /\ [UniqTest]_treeVars => TreeInv'
<1> SUFFICES ASSUME TreeInv, [UniqTest]_treeVars PROVE TreeInv'
  OBVIOUS
<1> DEFINE n == Len(tree.nodes)
<1>1. WellFormed(tree, n) /\ inserted = {Key(tree, i) : i \in 1 .. n}
  BY DEF TreeInv
<1>2. n \in Nat
  <2>1. tree \in Tree(n)
    BY <1>1 DEF WellFormed
  <2>2. tree.nodes \in Seq(NodeOf(n))
    BY <2>1 DEF Tree
  <2> HIDE DEF n
  <2>3. Len(tree.nodes) \in Nat
    BY <2>2
  <2> QED
    BY <2>3 DEF n
<1> HIDE DEF n
<1>3. CASE UniqTest
  <2>1. PICK m \in Messages : LET answer == Insert(tree, m)
                              IN /\ tree' = answer.tree
                                 /\ inserted' = IF answer.new THEN inserted \cup {m} ELSE inserted
    BY <1>3 DEF UniqTest
  <2> DEFINE r == Insert(tree, m)
  <2>2. /\ tree' = r.tree
        /\ inserted' = IF r.new THEN inserted \cup {m} ELSE inserted
    BY <2>1
  <2>3. m \in Data
    BY MessagesAreData
  <2>4. /\ r.new \in BOOLEAN
        /\ ~r.new => r.tree = tree
        /\ r.new => WellFormed(r.tree, n + 1) /\ SameKeys(r.tree, tree, n) /\ Key(r.tree, n + 1) = m
    BY <1>1, <1>2, <2>3, InsertFacts
  <2> HIDE DEF r
  <2>5. CASE ~r.new
    <3>1. tree' = tree /\ inserted' = inserted
      BY <2>2, <2>4, <2>5
    <3> QED
      BY <3>1 DEF TreeInv, WellFormed
  <2>6. CASE r.new
    <3>1. WellFormed(tree', n + 1) /\ SameKeys(tree', tree, n) /\ Key(tree', n + 1) = m
      BY <2>2, <2>4, <2>6
    <3>2. Len(tree'.nodes) = n + 1
      BY <3>1 DEF WellFormed, Tree
    <3>3. inserted' = {Key(tree', i) : i \in 1 .. n + 1}
      <4>1. inserted' = {Key(tree, i) : i \in 1 .. n} \cup {m}
        BY <1>1, <2>2, <2>6
      <4>2. \A i \in 1 .. n : Key(tree', i) = Key(tree, i)
        BY <3>1 DEF SameKeys
      <4>3. Key(tree', n + 1) = m
        BY <3>1
      <4>4. ASSUME NEW x \in inserted' PROVE x \in {Key(tree', i) : i \in 1 .. n + 1}
        <5>1. CASE x = m
          <6>1. n + 1 \in 1 .. n + 1
            BY <1>2
          <6> QED
            BY <4>3, <5>1, <6>1
        <5>2. CASE x # m
          <6>1. PICK i \in 1 .. n : x = Key(tree, i)
            BY <4>1, <4>4, <5>2
          <6>2. i \in 1 .. n + 1 /\ x = Key(tree', i)
            BY <1>2, <4>2, <6>1
          <6> QED
            BY <6>2
        <5> QED
          BY <5>1, <5>2
      <4>5. ASSUME NEW i \in 1 .. n + 1 PROVE Key(tree', i) \in inserted'
        <5>1. CASE i = n + 1
          BY <4>1, <4>3, <5>1
        <5>2. CASE i # n + 1
          <6>1. i \in 1 .. n
            BY <1>2, <5>2
          <6> QED
            BY <4>1, <4>2, <6>1
        <5> QED
          BY <5>1, <5>2
      <4> QED
        BY <4>4, <4>5
    <3> QED
      BY <3>1, <3>2, <3>3 DEF TreeInv
  <2> QED
    BY <2>4, <2>5, <2>6
<1>4. CASE UNCHANGED treeVars
  BY <1>4 DEF treeVars, TreeInv, WellFormed
<1> QED
  BY <1>3, <1>4

\* A well formed tree gives the right answers, is in order and is balanced.
LEMMA TreeInvHolds == TreeInv => UniquenessHolds
<1> SUFFICES ASSUME TreeInv PROVE UniquenessHolds
  OBVIOUS
<1> DEFINE n == Len(tree.nodes)
           all == Below(n)[tree.root]
<1>1. WellFormed(tree, n) /\ inserted = {Key(tree, i) : i \in 1 .. n}
  BY DEF TreeInv
<1>2. n \in Nat
  <2>1. tree \in Tree(n)
    BY <1>1 DEF WellFormed
  <2>2. tree.nodes \in Seq(NodeOf(n))
    BY <2>1 DEF Tree
  <2> HIDE DEF n
  <2>3. Len(tree.nodes) \in Nat
    BY <2>2
  <2> QED
    BY <2>3 DEF n
<1>3. tree \in Tree(n) /\ NoClash(tree, n) /\ ~Red(tree, tree.root)
  BY <1>1 DEF WellFormed
<1>4. PICK S : Shape(tree, n, S)
  BY <1>1 DEF WellFormed
<1>5. PICK h : Heights(tree, n, h)
  BY <1>1 DEF WellFormed
<1>6. DOMAIN tree.nodes = 1 .. n
  <2>1. tree.nodes \in Seq(NodeOf(n))
    BY <1>3 DEF Tree
  <2> QED
    BY <2>1
<1> HIDE DEF n
<1>7. Listed(all, tree, S, h, tree.root)
  BY <1>2, <1>4, <1>5, BelowFacts
<1>8. S[tree.root] = 1 .. n
  BY <1>4 DEF Shape, Spans
<1> HIDE DEF all
<1>9. /\ all.data \in Seq(Data) /\ Sorted(all.data)
      /\ \A i \in 1 .. Len(all.data) : \E j \in 1 .. n : all.data[i] = Key(tree, j)
      /\ \A j \in 1 .. n : \E i \in 1 .. Len(all.data) : all.data[i] = Key(tree, j)
      /\ all.blacks = {h[tree.root]}
  BY <1>7, <1>8 DEF Listed, ListsKeys
<1>10. ASSUME NEW m \in Messages PROVE Insert(tree, m).new <=> m \notin inserted
  <2>1. m \in Data
    BY MessagesAreData
  <2>2. Insert(tree, m).new <=> ~\E j \in 1 .. n : Key(tree, j) = m
    BY <1>1, <1>2, <2>1, InsertFacts
  <2> QED
    BY <1>1, <2>2
<1>11. {all.data[i] : i \in DOMAIN all.data} = inserted
  <2>1. DOMAIN all.data = 1 .. Len(all.data)
    BY <1>9
  <2>2. ASSUME NEW i \in 1 .. Len(all.data) PROVE all.data[i] \in inserted
    BY <1>1, <1>9
  <2>3. ASSUME NEW x \in inserted PROVE \E i \in 1 .. Len(all.data) : x = all.data[i]
    <3>1. PICK j \in 1 .. n : x = Key(tree, j)
      BY <1>1
    <3> QED
      BY <1>9, <3>1
  <2> QED
    BY <2>1, <2>2, <2>3
<1>12. \A i \in 2 .. Len(all.data) : BytesCompare(all.data[i - 1], all.data[i]) < 0
  BY <1>9 DEF Sorted, Less
<1>13. Cardinality(all.blacks) = 1
  BY <1>9, FS_Singleton
<1>14. ASSUME NEW node \in DOMAIN tree.nodes, Red(tree, node), NEW dir \in {Left, Right}
       PROVE  ~Red(tree, tree.nodes[node].leafs[dir])
  <2>1. node \in 1 .. n /\ dir \in Sides /\ IsRed(tree, node)
    BY <1>6, <1>14 DEF Sides, Red, IsRed
  <2>2. ~RedLeaf(tree, node, dir)
    BY <1>3, <2>1 DEF NoClash
  <2> QED
    BY <2>2 DEF RedLeaf, Red, IsRed, Leaf
<1>15. ASSUME NEW m \in Messages
       PROVE  TwoTo(Len(Walk(tree, m).visited)) <= (n + 1) * (n + 1)
  BY <1>1, <1>2, MessagesAreData, WalkLength
<1> QED
  BY <1>3, <1>10, <1>11, <1>12, <1>13, <1>14, <1>15 DEF UniquenessHolds, n, all

\* Whatever the messages and the order they come in, the tree holds those that
\* were accepted, in order and once each, refuses exactly those, and stays
\* balanced: rb_tree_insert keeps the red-black tree's rules.
THEOREM UniquenessAlways == UniqSpec => []UniquenessHolds
<1>1. UniqInit => TreeInv
  BY TreeInvInit
<1>2. TreeInv /\ [UniqTest]_treeVars => TreeInv'
  BY TreeInvNext
<1>3. TreeInv => UniquenessHolds
  BY TreeInvHolds
<1> QED
  BY <1>1, <1>2, <1>3, PTL DEF UniqSpec

----------------------------------------------------------------------------
(* The sizes of the arrays.                                                *)

\* A tree with less than 2^b nodes is walked in at most 2 * b steps, so that the
\* walk of up to 2^32 - 1 nodes fits the 8 * sizeof(void *) entries of the code.
WalksFit ==
    \A b \in Nat, m \in Messages :
        Len(tree.nodes) < TwoTo(b) => Len(Walk(tree, m).visited) <= 2 * b

\* There is a node for each accepted message and no other, so that the nodes fit
\* what blst_uniq_sizeof asks for.
NodesFit ==
    /\ inserted \subseteq Messages
    /\ Len(tree.nodes) = Cardinality(inserted)
    /\ Len(tree.nodes) <= Cardinality(Messages)

LEMMA SizeIsNat == TreeInv => Len(tree.nodes) \in Nat /\ WellFormed(tree, Len(tree.nodes))
<1> SUFFICES ASSUME TreeInv
             PROVE  Len(tree.nodes) \in Nat /\ WellFormed(tree, Len(tree.nodes))
  OBVIOUS
<1> DEFINE n == Len(tree.nodes)
<1>1. WellFormed(tree, n)
  BY DEF TreeInv
<1>2. tree.nodes \in Seq(NodeOf(n))
  BY <1>1 DEF WellFormed, Tree
<1> HIDE DEF n
<1>3. Len(tree.nodes) \in Nat
  BY <1>2
<1> QED
  BY <1>1, <1>3 DEF n

\* The walk is within twice the height, and a tree of that height has 2^h - 1 nodes.
LEMMA WalksFollow == TreeInv => WalksFit
<1> SUFFICES ASSUME TreeInv, NEW b \in Nat, NEW m \in Messages, Len(tree.nodes) < TwoTo(b)
             PROVE  Len(Walk(tree, m).visited) <= 2 * b
  BY DEF WalksFit
<1> DEFINE n == Len(tree.nodes)
           len == Len(Walk(tree, m).visited)
<1>1. n \in Nat /\ WellFormed(tree, n) /\ n < TwoTo(b)
  BY SizeIsNat
<1> HIDE DEF n
<1>2. tree \in Tree(n) /\ NoClash(tree, n) /\ ~Red(tree, tree.root) /\ m \in Data
  BY <1>1, MessagesAreData DEF WellFormed
<1>3. PICK S : Shape(tree, n, S)
  BY <1>1 DEF WellFormed
<1>4. PICK h : Heights(tree, n, h)
  BY <1>1 DEF WellFormed
<1> DEFINE a == h[tree.root]
<1>5. Path(tree, n, Walk(tree, m)) /\ len <= Rank(tree, h, tree.root)
  BY <1>1, <1>2, <1>3, <1>4, WalkFacts
<1>6. a \in Nat /\ Rank(tree, h, tree.root) = 2 * a
  BY <1>1, <1>2, <1>4, TreeFacts, HeightFacts DEF Rank
<1>7. TwoTo(a) <= n + 1
  BY <1>1, <1>3, <1>4, SizeOfHeight
<1>8. len \in Nat
  BY <1>5, PathTrail, TrailFacts
<1> HIDE DEF len, a
<1>9. a <= b
  <2> SUFFICES ASSUME b + 1 <= a PROVE FALSE
    BY <1>6
  <2>1. TwoTo(b + 1) <= TwoTo(a)
    BY <1>6, TwoToGrows
  <2>2. TwoTo(b + 1) = 2 * TwoTo(b) /\ TwoTo(b) \in Nat \ {0}
    BY TwoToFacts
  <2>3. TwoTo(a) \in Nat
    BY <1>6, TwoToFacts
  <2> QED
    BY <1>1, <1>7, <2>1, <2>2, <2>3
<1> QED
  BY <1>5, <1>6, <1>8, <1>9 DEF len

LEMMA NodesFitInit == UniqInit => NodesFit
<1> SUFFICES ASSUME UniqInit PROVE NodesFit
  OBVIOUS
<1>1. Len(tree.nodes) = 0 /\ inserted = {}
  BY DEF UniqInit
<1>2. Cardinality({}) = 0 /\ Cardinality(Messages) \in Nat
  BY MessagesAssumption, FS_EmptySet, FS_CardinalityType
<1> QED
  BY <1>1, <1>2 DEF NodesFit

LEMMA NodesFitNext == TreeInv /\ TreeInv' /\ NodesFit /\ [UniqTest]_treeVars => NodesFit'
<1> SUFFICES ASSUME TreeInv, TreeInv', NodesFit, [UniqTest]_treeVars PROVE NodesFit'
  OBVIOUS
<1> DEFINE n == Len(tree.nodes)
<1>1. n \in Nat /\ WellFormed(tree, n) /\ inserted = {Key(tree, i) : i \in 1 .. n}
  BY SizeIsNat DEF TreeInv
<1>2. n = Cardinality(inserted) /\ inserted \subseteq Messages
  BY DEF NodesFit
<1>3. inserted' \subseteq Messages /\ Len(tree'.nodes) = Cardinality(inserted')
  <2>1. CASE UniqTest
    <3>1. PICK m \in Messages : LET answer == Insert(tree, m)
                                IN /\ tree' = answer.tree
                                   /\ inserted' = IF answer.new THEN inserted \cup {m}
                                                  ELSE inserted
      BY <2>1 DEF UniqTest
    <3> DEFINE r == Insert(tree, m)
    <3>2. /\ tree' = r.tree
          /\ inserted' = IF r.new THEN inserted \cup {m} ELSE inserted
      BY <3>1
    <3> HIDE DEF n
    <3>3. m \in Data
      BY MessagesAreData
    <3>4. /\ r.new \in BOOLEAN /\ (r.new <=> ~\E j \in 1 .. n : Key(tree, j) = m)
          /\ ~r.new => r.tree = tree
          /\ r.new => WellFormed(r.tree, n + 1)
      BY <1>1, <3>3, InsertFacts
    <3> HIDE DEF r
    <3>5. CASE ~r.new
      BY <1>2, <3>2, <3>4, <3>5 DEF n
    <3>6. CASE r.new
      <4>1. m \notin inserted /\ inserted' = inserted \cup {m}
        BY <1>1, <3>2, <3>4, <3>6
      <4>2. Len(tree'.nodes) = n + 1
        BY <3>2, <3>4, <3>6 DEF WellFormed, Tree
      <4>3. IsFiniteSet(inserted)
        BY <1>2, MessagesAssumption, FS_Subset
      <4>4. Cardinality(inserted \cup {m}) = Cardinality(inserted) + 1
        BY <4>1, <4>3, FS_AddElement
      <4> QED
        BY <1>2, <4>1, <4>2, <4>4
    <3> QED
      BY <3>4, <3>5, <3>6
  <2>2. CASE UNCHANGED treeVars
    BY <1>2, <2>2 DEF treeVars
  <2> QED
    BY <2>1, <2>2
<1>4. Cardinality(inserted') <= Cardinality(Messages)
  BY <1>3, MessagesAssumption, FS_Subset
<1> QED
  BY <1>3, <1>4 DEF NodesFit

\* The walk is within the arrays nodes and dirs of rb_tree_insert, which it does
\* not check.
THEOREM WalksFitAlways == UniqSpec => []WalksFit
<1>1. UniqInit => TreeInv
  BY TreeInvInit
<1>2. TreeInv /\ [UniqTest]_treeVars => TreeInv'
  BY TreeInvNext
<1>3. TreeInv => WalksFit
  BY WalksFollow
<1> QED
  BY <1>1, <1>2, <1>3, PTL DEF UniqSpec

\* The nodes are within the array that blst_uniq_sizeof is for, which the code
\* does not check either: a message that is refused takes no node.
THEOREM NodesFitAlways == UniqSpec => []NodesFit
<1>1. UniqInit => TreeInv /\ NodesFit
  BY TreeInvInit, NodesFitInit
<1>2. TreeInv /\ [UniqTest]_treeVars => TreeInv'
  BY TreeInvNext
<1>3. TreeInv /\ TreeInv' /\ NodesFit /\ [UniqTest]_treeVars => NodesFit'
  BY NodesFitNext
<1> QED
  BY <1>1, <1>2, <1>3, PTL DEF UniqSpec
=============================================================================
