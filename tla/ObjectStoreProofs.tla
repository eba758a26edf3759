------------------------- MODULE ObjectStoreProofs -------------------------
(***************************************************************************)
(* Theorems about ObjectStore, for any keys, contents, sizes, thresholds   *)
(* and number of levels, through failed writes, crashes and restarts.      *)
(*                                                                         *)
(* The inductive invariant has four parts.  TypeInv: types, and rows that  *)
(* their numbers tell apart.  OrderInv: the tables fall in level and rise  *)
(* in age along the list.  StoreInv: every file the log can leave is       *)
(* carried out in full or outgrows a memtable, a replay finds what the     *)
(* tree holds, and all contents in log, tree and buffer were once held.    *)
(* ImportInv: what an import has left to write leads to the snapshot.      *)
(***************************************************************************)
EXTENDS ObjectStore, FiniteSetTheorems, WellFoundedInduction, TLAPS

\* A set of positions that is not empty has a first one.
LEMMA FirstExists ==
    ASSUME NEW P, P \subseteq Nat, P # {}
    PROVE  LET x == CHOOSE i \in P : \A j \in P : i <= j
           IN x \in P /\ \A j \in P : x <= j
<1>1. PICK x \in P : \A y \in P : ~(<<y, x>> \in OpToRel(<, Nat))
  BY NatLessThanWellFounded, WFMin
<1>2. ASSUME NEW y \in P PROVE x <= y
  <2>1. ~(y < x)
    BY <1>1 DEF OpToRel
  <2> QED
    BY <2>1
<1> QED
  BY <1>2

\* A set of numbers below a bound that is not empty has a last one.
LEMMA LastExists ==
    ASSUME NEW P, P \subseteq Nat, P # {}, NEW b \in Nat, \A j \in P : j <= b
    PROVE  \E i \in P : \A j \in P : j <= i
<1> DEFINE bounds == {n \in Nat : \A j \in P : j <= n}
           u == CHOOSE i \in bounds : \A j \in bounds : i <= j
<1>1. bounds \subseteq Nat /\ b \in bounds
  OBVIOUS
<1>2. u \in bounds /\ \A j \in bounds : u <= j
  <2> HIDE DEF bounds
  <2> QED
    BY <1>1, FirstExists
<1>3. u \in Nat /\ \A j \in P : j <= u
  BY <1>2
<1>4. ASSUME u \notin P PROVE FALSE
  <2>1. PICK j \in P : TRUE
    OBVIOUS
  <2>2. u - 1 \in Nat
    BY <1>3, <1>4, <2>1
  <2>3. \A i \in P : i <= u - 1
    BY <1>3, <1>4
  <2>4. u <= u - 1
    <3>1. u - 1 \in bounds
      BY <2>2, <2>3
    <3> HIDE DEF u, bounds
    <3> QED
      BY <1>2, <3>1
  <2> QED
    BY <1>3, <2>4
<1> QED
  BY <1>3, <1>4

\* Max of such a set is its last member.
LEMMA MaxFacts ==
    ASSUME NEW P, P \subseteq Nat, P # {}, NEW b \in Nat, \A j \in P : j <= b
    PROVE  Max(P) \in P /\ \A j \in P : j <= Max(P)
<1>1. PICK i \in P : \A j \in P : i >= j
  BY LastExists
<1> QED
  BY <1>1 DEF Max

----------------------------------------------------------------------------
(* Members of a sequence at some positions.                                *)

\* p counts the positions T in their order, and its values are the ones Kept takes.
Counts(p, s, T) ==
    /\ p \in [1 .. Cardinality(T) -> T]
    /\ \A n \in 1 .. Cardinality(T) : Kept(s, T)[n] = s[p[n]]
    /\ \A m, n \in 1 .. Cardinality(T) : m < n => p[m] < p[n]
    /\ \A i \in T : \E n \in 1 .. Cardinality(T) : p[n] = i

\* The positions come in order and each once.
LEMMA KeptFacts ==
    ASSUME NEW S, NEW s \in Seq(S), NEW T, T \subseteq 1 .. Len(s)
    PROVE  /\ IsFiniteSet(T) /\ Cardinality(T) \in Nat
           /\ Kept(s, T) \in Seq(S) /\ Len(Kept(s, T)) = Cardinality(T)
           /\ \E p : Counts(p, s, T)
<1> DEFINE N == Cardinality(T)
           upto(i) == {j \in T : j <= i}
           rank == [i \in T |-> Cardinality(upto(i))]
           p == [n \in 1 .. N |-> CHOOSE i \in T : Cardinality({j \in T : j <= i}) = n]
<1>0. \A i \in T : i \in Nat /\ s[i] \in S
  OBVIOUS
<1>1. IsFiniteSet(T) /\ N \in Nat
  <2>1. IsFiniteSet(1 .. Len(s))
    BY FS_Interval
  <2> QED
    BY <2>1, FS_Subset, FS_CardinalityType
<1>2. ASSUME NEW i \in T
      PROVE  rank[i] \in 1 .. N /\ IsFiniteSet(upto(i)) /\ i \in upto(i)
  <2>1. i \in upto(i) /\ upto(i) \in SUBSET T
    OBVIOUS
  <2>2. IsFiniteSet(upto(i)) /\ Cardinality(upto(i)) <= N
    BY <1>1, <2>1, FS_Subset
  <2>3. Cardinality(upto(i)) \in Nat /\ Cardinality(upto(i)) # 0
    BY <2>1, <2>2, FS_CardinalityType, FS_EmptySet
  <2> QED
    BY <1>1, <2>1, <2>2, <2>3
<1>3. ASSUME NEW i \in T, NEW j \in T, i < j PROVE rank[i] < rank[j]
  <2>1. upto(i) \in SUBSET upto(j) /\ j \notin upto(i) /\ j \in upto(j)
    <3>1. /\ i \in Nat /\ j \in Nat /\ \A h \in T : h \in Nat
          /\ ~(j <= i) /\ j <= j
      BY <1>0, <1>3
    <3>2. \A h \in T : h <= i => h <= j
      BY <1>3, <3>1
    <3> QED
      BY <3>1, <3>2
  <2>2. /\ Cardinality(upto(i)) <= Cardinality(upto(j))
        /\ Cardinality(upto(j)) # Cardinality(upto(i))
    BY <1>2, <2>1, FS_Subset
  <2>3. rank[i] = Cardinality(upto(i)) /\ rank[j] = Cardinality(upto(j))
    OBVIOUS
  <2> HIDE DEF rank, upto
  <2>4. rank[i] \in Nat /\ rank[j] \in Nat
    BY <1>1, <1>2
  <2> QED
    BY <2>2, <2>3, <2>4
<1>4. rank \in Injection(T, 1 .. N)
  <2>1. rank \in [T -> 1 .. N]
    <3>1. \A i \in T : Cardinality(upto(i)) \in 1 .. N
      BY <1>2
    <3> QED
      BY <3>1
  <2>2. \A i \in T : rank[i] \in Int
    <3> HIDE DEF rank
    <3> QED
      BY <1>1, <2>1
  <2>3. ASSUME NEW i \in T, NEW j \in T, rank[i] = rank[j] PROVE i = j
    <3> HIDE DEF rank
    <3>1. ~(i < j) /\ ~(j < i)
      BY <1>3, <2>2, <2>3
    <3> QED
      BY <3>1
  <2> HIDE DEF rank
  <2> QED
    BY <2>1, <2>3 DEF Injection, IsInjective
<1>5. rank \in Surjection(T, 1 .. N)
  <2>1. IsFiniteSet(1 .. N) /\ Cardinality(1 .. N) = N
    BY <1>1, FS_Interval
  <2> HIDE DEF rank
  <2> QED
    BY <1>4, <2>1, FS_Injection
<1>6. ASSUME NEW n \in 1 .. N PROVE p[n] \in T /\ rank[p[n]] = n
  <2>1. PICK i \in T : rank[i] = n
    <3> HIDE DEF rank
    <3> QED
      BY <1>5 DEF Surjection
  <2>2. Cardinality({j \in T : j <= i}) = n
    BY <2>1
  <2> QED
    BY <2>2
<1>7. p \in [1 .. N -> T]
  BY <1>6
<1>8. Kept(s, T) = [n \in 1 .. N |-> s[p[n]]]
  BY DEF Kept
<1> HIDE DEF p, rank
<1>9. Kept(s, T) \in Seq(S) /\ Len(Kept(s, T)) = N
  <2>1. \A n \in 1 .. N : s[p[n]] \in S
    BY <1>0, <1>6
  <2> HIDE DEF N
  <2>2. [n \in 1 .. N |-> s[p[n]]] \in [1 .. N -> S]
    BY <2>1
  <2> QED
    BY <1>1, <1>8, <2>2
<1>10. ASSUME NEW m \in 1 .. N, NEW n \in 1 .. N, m < n PROVE p[m] < p[n]
  <2>1. p[m] \in Nat /\ p[n] \in Nat /\ p[m] \in T /\ p[n] \in T
    BY <1>0, <1>6
  <2>2. rank[p[m]] = m /\ rank[p[n]] = n
    BY <1>6
  <2>3. ~(p[n] < p[m]) /\ p[m] # p[n]
    <3>1. n \in Nat /\ m \in Nat
      BY <1>1
    <3> QED
      BY <1>3, <1>10, <2>1, <2>2, <3>1
  <2> QED
    BY <2>1, <2>3
<1>11. ASSUME NEW i \in T PROVE \E n \in 1 .. N : p[n] = i
  <2>1. rank[i] \in 1 .. N
    BY <1>2
  <2>2. p[rank[i]] \in T /\ rank[p[rank[i]]] = rank[i]
    BY <1>6, <2>1
  <2>3. p[rank[i]] = i
    BY <1>4, <2>2 DEF Injection, IsInjective
  <2> QED
    BY <2>1, <2>3
<1>12. Counts(p, s, T)
  BY <1>7, <1>8, <1>10, <1>11 DEF Counts
<1> QED
  BY <1>1, <1>9, <1>12

----------------------------------------------------------------------------
(* The size of a set of rows.                                              *)

LEMMA SizeFacts ==
    ASSUME NEW rows, IsFiniteSet(rows)
    PROVE  /\ Size(rows) \in Nat
           /\ Size({}) = 0
           /\ \A r : r \notin rows =>
                /\ IsFiniteSet(rows \cup {r})
                /\ Size(rows \cup {r}) = Size(rows) + EntrySize(r.content)
           /\ \A c : EntrySize(c) \in Nat \ {0}
<1> DEFINE stones(s) == {r \in s : r.content = None}
<1>1. TombstoneSize \in Nat \ {0} /\ ValueSize \in Nat \ {0}
  BY SizeAssumption
<1>2. ASSUME NEW s, IsFiniteSet(s)
      PROVE  /\ IsFiniteSet(stones(s)) /\ IsFiniteSet(s \ stones(s))
             /\ Cardinality(stones(s)) \in Nat /\ Cardinality(s \ stones(s)) \in Nat
             /\ Size(s) = Cardinality(stones(s)) * TombstoneSize
                            + Cardinality(s \ stones(s)) * ValueSize
  <2>1. stones(s) \in SUBSET s /\ s \ stones(s) \in SUBSET s
    OBVIOUS
  <2>2. IsFiniteSet(stones(s)) /\ IsFiniteSet(s \ stones(s))
    BY <1>2, <2>1, FS_Subset
  <2> QED
    BY <2>2, FS_CardinalityType DEF Size
<1>3. ASSUME NEW s, IsFiniteSet(s) PROVE Size(s) \in Nat
  <2> DEFINE a == Cardinality(stones(s))
             b == Cardinality(s \ stones(s))
  <2>1. a \in Nat /\ b \in Nat /\ Size(s) = a * TombstoneSize + b * ValueSize
    BY <1>2, <1>3
  <2> HIDE DEF a, b
  <2>2. a * TombstoneSize \in Nat /\ b * ValueSize \in Nat
    BY <1>1, <2>1
  <2> QED
    BY <2>1, <2>2
<1>4. Size({}) = 0
  <2>1. stones({}) = {} /\ {} \ stones({}) = {}
    OBVIOUS
  <2>2. Cardinality({}) = 0 /\ IsFiniteSet({})
    BY FS_EmptySet
  <2>3. Size({}) = Cardinality(stones({})) * TombstoneSize
                     + Cardinality({} \ stones({})) * ValueSize
    BY <1>2, <2>2
  <2>4. 0 * TombstoneSize + 0 * ValueSize = 0
    BY <1>1
  <2> QED
    BY <2>1, <2>2, <2>3, <2>4
<1>5. ASSUME NEW r, r \notin rows
      PROVE  /\ IsFiniteSet(rows \cup {r})
             /\ Size(rows \cup {r}) = Size(rows) + EntrySize(r.content)
  <2> DEFINE more == rows \cup {r}
             a == Cardinality(stones(rows))
             b == Cardinality(rows \ stones(rows))
  <2>1. IsFiniteSet(more)
    BY FS_AddElement
  <2>2. /\ a \in Nat /\ b \in Nat /\ IsFiniteSet(stones(rows)) /\ IsFiniteSet(rows \ stones(rows))
        /\ Size(rows) = a * TombstoneSize + b * ValueSize
    BY <1>2
  <2>3. Size(more) = Cardinality(stones(more)) * TombstoneSize
                       + Cardinality(more \ stones(more)) * ValueSize
    <3> HIDE DEF more
    <3> QED
      BY <1>2, <2>1
  <2>4. CASE r.content = None
    <3>1. /\ stones(more) = stones(rows) \cup {r} /\ r \notin stones(rows)
          /\ more \ stones(more) = rows \ stones(rows)
      BY <1>5, <2>4
    <3>2. Cardinality(stones(rows) \cup {r}) = a + 1
      BY <2>2, <3>1, FS_AddElement
    <3> HIDE DEF more, a, b
    <3>3. Size(more) = (a + 1) * TombstoneSize + b * ValueSize
      BY <2>3, <3>1, <3>2 DEF b
    <3>4. (a + 1) * TombstoneSize = a * TombstoneSize + TombstoneSize
      BY <1>1, <2>2
    <3>5. a * TombstoneSize \in Nat /\ b * ValueSize \in Nat
      BY <1>1, <2>2
    <3>6. Size(more) = Size(rows) + TombstoneSize
      BY <1>1, <2>2, <3>3, <3>4, <3>5
    <3> QED
      BY <2>1, <2>4, <3>6 DEF more, EntrySize
  <2>5. CASE r.content # None
    <3>1. /\ more \ stones(more) = (rows \ stones(rows)) \cup {r}
          /\ r \notin rows \ stones(rows)
          /\ stones(more) = stones(rows)
      BY <1>5, <2>5
    <3>2. Cardinality((rows \ stones(rows)) \cup {r}) = b + 1
      BY <2>2, <3>1, FS_AddElement
    <3> HIDE DEF more, a, b
    <3>3. Size(more) = a * TombstoneSize + (b + 1) * ValueSize
      BY <2>3, <3>1, <3>2 DEF a
    <3>4. (b + 1) * ValueSize = b * ValueSize + ValueSize
      BY <1>1, <2>2
    <3>5. a * TombstoneSize \in Nat /\ b * ValueSize \in Nat
      BY <1>1, <2>2
    <3>6. Size(more) = Size(rows) + ValueSize
      BY <1>1, <2>2, <3>3, <3>4, <3>5
    <3> QED
      BY <2>1, <2>5, <3>6 DEF more, EntrySize
  <2> QED
    BY <2>4, <2>5
<1>6. \A c : EntrySize(c) \in Nat \ {0}
  BY <1>1 DEF EntrySize
<1> QED
  BY <1>3, <1>4, <1>5, <1>6

----------------------------------------------------------------------------
(* The newest of some rows, whose numbers tell them apart.                 *)

Told(rows, b) ==
    /\ b \in Nat
    /\ \A r \in rows : r.seq \in Nat /\ r.seq < b
    /\ \A q, r \in rows : q.seq = r.seq => q = r

LEMMA NewestFacts ==
    ASSUME NEW rows, NEW b, Told(rows, b), rows # {}
    PROVE  /\ Newest(rows) \in rows
           /\ \A r \in rows : r.seq <= Newest(rows).seq
           /\ \A r \in rows : (\A q \in rows : q.seq <= r.seq) => r = Newest(rows)
<1> DEFINE seqs == {r.seq : r \in rows}
<1>1. seqs \subseteq Nat /\ seqs # {} /\ b \in Nat /\ \A j \in seqs : j <= b
  BY DEF Told
<1>2. PICK i \in seqs : \A j \in seqs : j <= i
  <2> HIDE DEF seqs
  <2> QED
    BY <1>1, LastExists
<1>3. PICK n \in rows : n.seq = i
  BY <1>2
<1>4. \A q \in rows : q.seq <= n.seq
  BY <1>2, <1>3
<1>5. Newest(rows) \in rows /\ \A q \in rows : q.seq <= Newest(rows).seq
  BY <1>4 DEF Newest
<1>6. ASSUME NEW r \in rows, \A q \in rows : q.seq <= r.seq PROVE r = Newest(rows)
  <2>1. r.seq <= Newest(rows).seq /\ Newest(rows).seq <= r.seq
    BY <1>5, <1>6
  <2>2. r.seq \in Nat /\ Newest(rows).seq \in Nat
    BY <1>5 DEF Told
  <2> QED
    BY <1>5, <2>1, <2>2 DEF Told
<1> QED
  BY <1>5, <1>6

LEMMA ToldPart ==
    ASSUME NEW rows, NEW b, Told(rows, b), NEW part, part \subseteq rows
    PROVE  Told(part, b)
BY DEF Told

\* Rows told apart by their numbers are finitely many.
LEMMA ToldFinite ==
    ASSUME NEW rows, NEW b, Told(rows, b)
    PROVE  IsFiniteSet(rows)
<1> DEFINE f == [r \in rows |-> r.seq]
<1>1. IsFiniteSet(0 .. b)
  BY FS_Interval DEF Told
<1>2. f \in Injection(rows, 0 .. b)
  BY DEF Told, Injection, IsInjective
<1> QED
  <2> HIDE DEF f
  <2> QED
    BY <1>1, <1>2, FS_Injection

\* A later row is the newest of its key, and of no other.
LEMMA RowAdded ==
    ASSUME NEW rows, NEW b, Told(rows, b), NEW row, row.seq \in Nat, NEW c,
           row.seq < c, c \in Nat, \A r \in rows : r.seq < row.seq
    PROVE  /\ Told(rows \cup {row}, c)
           /\ row \notin rows
           /\ \A k : ContentIn(RowsOf(rows \cup {row}, k)) =
                IF k = row.key THEN row.content ELSE ContentIn(RowsOf(rows, k))
<1> DEFINE more == rows \cup {row}
<1>1. Told(more, c)
  BY DEF Told
<1>2. row \notin rows
  BY DEF Told
<1>3. ASSUME NEW k, k # row.key
      PROVE  RowsOf(more, k) = RowsOf(rows, k)
  BY <1>3 DEF RowsOf
<1>4. ContentIn(RowsOf(more, row.key)) = row.content
  <2> DEFINE mine == RowsOf(more, row.key)
  <2>1. row \in mine /\ mine \subseteq more
    BY DEF RowsOf
  <2>2. \A q \in mine : q.seq <= row.seq
    BY DEF RowsOf, Told
  <2> HIDE DEF mine, more
  <2>3. row = Newest(mine)
    BY <1>1, <2>1, <2>2, ToldPart, NewestFacts
  <2> QED
    BY <2>1, <2>3 DEF ContentIn, mine
<1> QED
  BY <1>1, <1>2, <1>3, <1>4

----------------------------------------------------------------------------
(* Files that continue one another.                                        *)

Continues(f, h) == Len(f) <= Len(h) /\ \A i \in 1..Len(f) : h[i] = f[i]

LEMMA ContinuesFacts ==
    ASSUME NEW S, NEW f \in Seq(S), NEW g \in Seq(S), NEW h \in Seq(S)
    PROVE  /\ Continues(f, f)
           /\ Continues(f, f \o g)
           /\ Continues(f, g) /\ Continues(g, h) => Continues(f, h)
           /\ Continues(f, g) => IsPrefix(f, g)
<1>1. Len(f) \in Nat /\ Len(g) \in Nat /\ Len(h) \in Nat
  OBVIOUS
<1>2. Continues(f, f)
  BY <1>1 DEF Continues
<1>3. Continues(f, f \o g)
  BY <1>1 DEF Continues
<1>4. Continues(f, g) /\ Continues(g, h) => Continues(f, h)
  BY <1>1 DEF Continues
<1>5. ASSUME Continues(f, g) PROVE IsPrefix(f, g)
  <2> DEFINE n == Len(f)
             a == SubSeq(f, 1, n)
             b == SubSeq(g, 1, n)
  <2>1. n <= Len(g) /\ \A i \in 1..n : g[i] = f[i]
    BY <1>5 DEF Continues
  <2>2. /\ a \in Seq(S) /\ Len(a) = n /\ \A i \in 1..n : a[i] = f[i]
        /\ b \in Seq(S) /\ Len(b) = n /\ \A i \in 1..n : b[i] = g[i]
    BY <1>1, <2>1
  <2> HIDE DEF a, b
  <2>3. a = b
    BY <1>1, <2>1, <2>2
  <2> QED
    BY <2>1, <2>3 DEF IsPrefix, a, b
<1> QED
  BY <1>2, <1>3, <1>4, <1>5

\* The intact part of a file ends before its first damage, or never.
LEMMA IntactFacts ==
    ASSUME NEW S, NEW f \in Seq(S)
    PROVE  /\ Intact(f) \in Seq(S) /\ Continues(Intact(f), f)
           /\ \A i \in 1..Len(Intact(f)) : f[i] # Damage
           /\ Len(Intact(f)) < Len(f) => f[Len(Intact(f)) + 1] = Damage
<1> DEFINE bad == {i \in DOMAIN f : f[i] = Damage}
           x == CHOOSE i \in bad : \A j \in bad : i <= j
<1>1. DOMAIN f = 1..Len(f) /\ Len(f) \in Nat
  OBVIOUS
<1>2. CASE bad = {}
  <2>1. Intact(f) = f
    BY <1>2 DEF Intact
  <2> QED
    BY <1>1, <1>2, <2>1 DEF Continues
<1>3. CASE bad # {}
  <2>1. x \in bad /\ \A j \in bad : x <= j
    <3>1. bad \subseteq Nat
      BY <1>1
    <3> QED
      BY <1>3, <3>1, FirstExists
  <2>2. Intact(f) = SubSeq(f, 1, x - 1)
    BY <1>3 DEF Intact
  <2>3. x \in 1..Len(f) /\ f[x] = Damage /\ \A j \in 1..Len(f) : f[j] = Damage => x <= j
    BY <1>1, <2>1
  <2> HIDE DEF x, bad
  <2>4. /\ Intact(f) \in Seq(S) /\ Len(Intact(f)) = x - 1
        /\ \A i \in 1..x - 1 : Intact(f)[i] = f[i]
    BY <1>1, <2>2, <2>3
  <2>5. \A i \in 1..x - 1 : i \in 1..Len(f) /\ ~(x <= i)
    BY <1>1, <2>3
  <2>6. Len(Intact(f)) + 1 = x /\ Len(Intact(f)) <= Len(f)
    BY <1>1, <2>3, <2>4
  <2> QED
    BY <2>3, <2>4, <2>5, <2>6 DEF Continues
<1> QED
  BY <1>2, <1>3

\* Whatever is written behind a file, what was intact stays intact.
LEMMA IntactContinues ==
    ASSUME NEW S, NEW f \in Seq(S), NEW h \in Seq(S), Continues(f, h)
    PROVE  Continues(Intact(f), Intact(h))
<1> DEFINE a == Intact(f)
           b == Intact(h)
<1>1. /\ a \in Seq(S) /\ Continues(a, f) /\ \A i \in 1..Len(a) : f[i] # Damage
      /\ b \in Seq(S) /\ Continues(b, h)
      /\ Len(b) < Len(h) => h[Len(b) + 1] = Damage
  BY IntactFacts
<1> HIDE DEF a, b
<1>2. /\ Len(a) \in Nat /\ Len(b) \in Nat /\ Len(f) \in Nat /\ Len(h) \in Nat
      /\ Len(a) <= Len(f) /\ Len(b) <= Len(h) /\ Len(f) <= Len(h)
  BY <1>1 DEF Continues
<1>3. Len(a) <= Len(b)
  <2> SUFFICES ASSUME ~(Len(a) <= Len(b)) PROVE FALSE
    OBVIOUS
  <2>1. Len(b) + 1 \in 1..Len(a) /\ Len(b) + 1 \in 1..Len(f) /\ Len(b) < Len(h)
    BY <1>2
  <2> QED
    BY <1>1, <2>1 DEF Continues
<1>4. ASSUME NEW i \in 1..Len(a) PROVE b[i] = a[i]
  <2>1. i \in 1..Len(b) /\ i \in 1..Len(f)
    BY <1>2, <1>3
  <2> QED
    BY <1>1, <2>1 DEF Continues
<1> QED
  BY <1>3, <1>4 DEF Continues, a, b

----------------------------------------------------------------------------
(* Logs and trees.                                                         *)

LogOK(S, log) ==
    /\ log = [file |-> log.file, buffer |-> log.buffer, gap |-> log.gap]
    /\ log.file \in Seq(S) /\ log.buffer \in Seq(S)

\* Writing buffered records continues the file.
LEMMA WrittenContinues ==
    ASSUME NEW S, Damage \in S, NEW log, LogOK(S, log), NEW n \in 0..Len(log.buffer)
    PROVE  /\ Written(log, n) \in Seq(S) /\ Continues(log.file, Written(log, n))
           /\ Written(log, n) \o <<Damage>> \in Seq(S)
           /\ Continues(log.file, Written(log, n) \o <<Damage>>)
<1> DEFINE hole == IF log.gap /\ n > 0 THEN <<Damage>> ELSE << >>
           part == SubSeq(log.buffer, 1, n)
           w == Written(log, n)
<1>1. hole \in Seq(S) /\ <<Damage>> \in Seq(S)
  OBVIOUS
<1>2. part \in Seq(S)
  BY DEF LogOK
<1>3. log.file \in Seq(S)
  BY DEF LogOK
<1>4. w = (log.file \o hole) \o part
  BY DEF Written
<1> HIDE DEF hole, part, w
<1>5. /\ log.file \o hole \in Seq(S) /\ w \in Seq(S)
  BY <1>1, <1>2, <1>3, <1>4
<1>6. Continues(log.file, w)
  <2> DEFINE filled == log.file \o hole
  <2>1. filled \in Seq(S) /\ w = filled \o part
    BY <1>4, <1>5
  <2>2. Continues(log.file, filled)
    BY <1>1, <1>3, ContinuesFacts
  <2> HIDE DEF filled
  <2>3. Continues(filled, w)
    BY <1>2, <2>1, ContinuesFacts
  <2> QED
    BY <1>3, <1>5, <2>1, <2>2, <2>3, ContinuesFacts
<1>7. w \o <<Damage>> \in Seq(S)
  BY <1>1, <1>5
<1>8. Continues(log.file, w \o <<Damage>>)
  BY <1>1, <1>3, <1>5, <1>6, <1>7, ContinuesFacts
<1> QED
  BY <1>5, <1>6, <1>7, <1>8 DEF w

\* A log is its three fields.
LEMMA LogFields ==
    ASSUME NEW log, log = [file |-> log.file, buffer |-> log.buffer, gap |-> log.gap],
           NEW b, NEW g
    PROVE  /\ [log EXCEPT !.buffer = b] = [file |-> log.file, buffer |-> b, gap |-> log.gap]
           /\ [log EXCEPT !.buffer = b, !.gap = g]
                  = [file |-> log.file, buffer |-> b, gap |-> g]
<1>1. DOMAIN log = {"file", "buffer", "gap"}
  OBVIOUS
<1>2. [log EXCEPT !.buffer = b] = [file |-> log.file, buffer |-> b, gap |-> log.gap]
  BY <1>1
<1>3. [log EXCEPT !.buffer = b, !.gap = g]
         = [file |-> log.file, buffer |-> b, gap |-> g]
  <2> DEFINE mid == [log EXCEPT !.buffer = b]
  <2>1. [log EXCEPT !.buffer = b, !.gap = g] = [mid EXCEPT !.gap = g]
    BY Zenon
  <2>2. mid = [file |-> log.file, buffer |-> b, gap |-> log.gap]
    BY <1>2
  <2> HIDE DEF mid
  <2>3. DOMAIN mid = {"file", "buffer", "gap"}
    BY <2>2
  <2>4. [mid EXCEPT !.gap = g] = [file |-> log.file, buffer |-> b, gap |-> g]
    BY <2>2, <2>3
  <2> QED
    BY <2>1, <2>4
<1> QED
  BY <1>2, <1>3

LEMMA FlushContinues ==
    ASSUME NEW S, Damage \in S, NEW log, LogOK(S, log), NEW succeeds
    PROVE  /\ LogOK(S, FlushAsync(log, succeeds))
           /\ Continues(log.file, FlushAsync(log, succeeds).file)
<1>1. /\ log.file \in Seq(S) /\ log.buffer \in Seq(S) /\ << >> \in Seq(S)
      /\ Len(log.buffer) \in 0..Len(log.buffer)
  BY DEF LogOK
<1>2. Continues(log.file, log.file)
  BY <1>1, ContinuesFacts
<1>3. CASE log.buffer = << >>
  BY <1>2, <1>3 DEF FlushAsync
<1>4. CASE log.buffer # << >> /\ succeeds
  <2> DEFINE w == Written(log, Len(log.buffer))
  <2>1. w \in Seq(S) /\ Continues(log.file, w)
    BY <1>1, WrittenContinues
  <2>2. FlushAsync(log, succeeds) = [file |-> w, buffer |-> << >>, gap |-> FALSE]
    BY <1>4 DEF FlushAsync
  <2> HIDE DEF w
  <2> QED
    BY <1>1, <2>1, <2>2 DEF LogOK
<1>5. CASE log.buffer # << >> /\ ~succeeds
  <2>1. FlushAsync(log, succeeds) = [log EXCEPT !.buffer = << >>, !.gap = TRUE]
    BY <1>5 DEF FlushAsync
  <2>2. FlushAsync(log, succeeds) = [file |-> log.file, buffer |-> << >>, gap |-> TRUE]
    BY <2>1, LogFields DEF LogOK
  <2> QED
    BY <1>1, <1>2, <2>2 DEF LogOK
<1> QED
  BY <1>3, <1>4, <1>5

----------------------------------------------------------------------------
(* Trees and what a mutation makes of them.                                *)

Change == [key : Key, content : Content]

Record == [key : Key, content : Content, applied : BOOLEAN]

Logs == [file : Seq(Record \cup {Damage}), buffer : Seq(Record), gap : BOOLEAN]

Tables == [level : 0 .. MaxLevels - 1, name : TableName, rows : SUBSET Row,
           reopened : BOOLEAN]

Trees == [log : Logs, mem : SUBSET Row, tables : Seq(Tables), sequence : 0 .. MaxSequence,
          leftovers : SUBSET TableName]

\* Rows have numbers of their own, all issued, and a memtable fits its size.
Sound(t) ==
    /\ t \in Trees
    /\ Size(t.mem) <= MemtableSize
    /\ \A i \in 1 .. Len(t.tables) : t.tables[i].rows # {}
    /\ Told(AllRows(t), t.sequence)
    /\ Len(t.log.buffer) < FlushThreshold

LEMMA SoundFacts ==
    ASSUME NEW t \in Trees
    PROVE  /\ t.log \in Logs /\ t.mem \subseteq Row /\ t.tables \in Seq(Tables)
           /\ t.sequence \in 0 .. MaxSequence /\ t.sequence \in Nat
           /\ t.leftovers \subseteq TableName
           /\ Len(t.tables) \in Nat /\ DOMAIN t.tables = 1 .. Len(t.tables)
           /\ t.mem \subseteq AllRows(t) /\ AllRows(t) \subseteq Row
           /\ \A i \in 1 .. Len(t.tables) :
                /\ t.tables[i] \in Tables
                /\ t.tables[i].rows \subseteq AllRows(t)
           /\ \A r \in AllRows(t) :
                r \in t.mem \/ \E i \in 1 .. Len(t.tables) : r \in t.tables[i].rows
<1>1. /\ t.log \in Logs /\ t.mem \subseteq Row /\ t.tables \in Seq(Tables)
      /\ t.sequence \in 0 .. MaxSequence /\ t.leftovers \subseteq TableName
  BY DEF Trees
<1>2. t.sequence \in Nat
  BY <1>1, SizeAssumption
<1>3. /\ Len(t.tables) \in Nat /\ DOMAIN t.tables = 1 .. Len(t.tables)
      /\ \A i \in 1 .. Len(t.tables) : t.tables[i] \in Tables
  BY <1>1
<1>4. \A i \in 1 .. Len(t.tables) : t.tables[i].rows \subseteq Row
  BY <1>3 DEF Tables
<1>5. AllRows(t) = t.mem \cup UNION {t.tables[i].rows : i \in 1 .. Len(t.tables)}
  BY <1>3 DEF AllRows, Range
<1>6. \A i \in 1 .. Len(t.tables) : t.tables[i].rows \subseteq AllRows(t)
  BY <1>5
<1>7. AllRows(t) \subseteq Row
  BY <1>1, <1>4, <1>5
<1>8. \A r \in AllRows(t) :
          r \in t.mem \/ \E i \in 1 .. Len(t.tables) : r \in t.tables[i].rows
  BY <1>5
<1> QED
  BY <1>1, <1>2, <1>3, <1>5, <1>6, <1>7, <1>8

\* A record has been logged, in the buffer or with the buffer in the file.
Logged(log, r, new) ==
    \/ /\ new = [file |-> log.file, buffer |-> Append(log.buffer, r), gap |-> log.gap]
       /\ Len(log.buffer) + 1 < FlushThreshold
    \/ LET whole == [file |-> log.file, buffer |-> Append(log.buffer, r), gap |-> log.gap]
       IN new = [file |-> Written(whole, Len(log.buffer) + 1), buffer |-> << >>, gap |-> FALSE]

Lost(log) == [file |-> log.file, buffer |-> << >>, gap |-> TRUE]

LEMMA AppendCases ==
    ASSUME NEW log \in Logs, NEW r \in Record, NEW succeeds
    PROVE  LET a == AppendRecord(log, r, succeeds)
           IN /\ a.log \in Logs /\ Len(a.log.buffer) < FlushThreshold
              /\ a.ok => Logged(log, r, a.log)
              /\ ~a.ok => ~succeeds /\ a.log = Lost(log)
<1> DEFINE S == Record \cup {Damage}
           a == AppendRecord(log, r, succeeds)
           buffered == [log EXCEPT !.buffer = Append(log.buffer, r)]
           whole == [file |-> log.file, buffer |-> Append(log.buffer, r), gap |-> log.gap]
           w == Written(whole, Len(whole.buffer))
<1>1. /\ log = [file |-> log.file, buffer |-> log.buffer, gap |-> log.gap]
      /\ log.file \in Seq(S) /\ log.buffer \in Seq(Record) /\ log.gap \in BOOLEAN
  BY DEF Logs
<1>2. buffered = whole
  BY <1>1, LogFields
<1>3. /\ Append(log.buffer, r) \in Seq(Record) /\ Len(log.buffer) \in Nat
      /\ Len(Append(log.buffer, r)) = Len(log.buffer) + 1
      /\ Append(log.buffer, r) # << >> /\ << >> \in Seq(Record) /\ Len(<< >>) = 0
      /\ Append(log.buffer, r) \in Seq(S)
  BY <1>1
<1> HIDE DEF S
<1>4. /\ whole.file = log.file /\ whole.buffer = Append(log.buffer, r) /\ whole.gap = log.gap
      /\ Len(whole.buffer) \in 0 .. Len(whole.buffer)
      /\ whole = [file |-> whole.file, buffer |-> whole.buffer, gap |-> whole.gap]
  BY <1>3
<1>5. w \in Seq(S)
  <2>1. Damage \in S
    BY DEF S
  <2>2. LogOK(S, whole)
    BY <1>1, <1>3 DEF LogOK
  <2> HIDE DEF whole
  <2> QED
    BY <1>4, <2>1, <2>2, WrittenContinues
<1>6. /\ a.log = IF Full(whole) THEN FlushAsync(whole, succeeds) ELSE whole
      /\ a.ok = (succeeds \/ ~Full(whole))
  <2> HIDE DEF whole
  <2>1. a = [log |-> IF Full(whole) THEN FlushAsync(whole, succeeds) ELSE whole,
             ok |-> succeeds \/ ~Full(whole)]
    BY <1>2, Zenon DEF AppendRecord
  <2> HIDE DEF a
  <2> QED
    BY <2>1, Zenon
<1>7. FlushThreshold \in Nat \ {0} /\ (Full(whole) <=> Len(log.buffer) + 1 >= FlushThreshold)
  BY <1>3, <1>4, ThresholdAssumption DEF Full
<1> HIDE DEF a
<1>8. CASE ~Full(whole)
  <2>1. a.log = whole
    BY <1>6, <1>8, Zenon
  <2>2. a.ok
    BY <1>6, <1>8, Zenon
  <2>3. Len(log.buffer) + 1 < FlushThreshold
    BY <1>3, <1>7, <1>8
  <2>4. whole \in Logs
    BY <1>1, <1>3 DEF Logs, S
  <2>5. Logged(log, r, a.log)
    BY <2>1, <2>3 DEF Logged
  <2>6. Len(a.log.buffer) < FlushThreshold
    BY <1>3, <1>4, <2>1, <2>3
  <2> QED
    BY <2>1, <2>2, <2>4, <2>5, <2>6 DEF a
<1>9. CASE Full(whole) /\ succeeds
  <2>1. a.log = FlushAsync(whole, succeeds)
    BY <1>6, <1>9, Zenon
  <2>2. a.ok
    BY <1>6, <1>9, Zenon
  <2>3. FlushAsync(whole, succeeds) = [file |-> w, buffer |-> << >>, gap |-> FALSE]
    BY <1>3, <1>4, <1>9, Zenon DEF FlushAsync
  <2>4. [file |-> w, buffer |-> << >>, gap |-> FALSE] \in Logs
    BY <1>3, <1>5 DEF Logs, S
  <2>5. w = Written(whole, Len(log.buffer) + 1)
    BY <1>3, <1>4
  <2>6. Logged(log, r, a.log)
    BY <2>1, <2>3, <2>5, Zenon DEF Logged
  <2>7. Len(a.log.buffer) < FlushThreshold
    BY <1>3, <1>7, <2>1, <2>3
  <2> QED
    BY <2>1, <2>2, <2>3, <2>4, <2>6, <2>7 DEF a
<1>10. CASE Full(whole) /\ ~succeeds
  <2>1. a.log = FlushAsync(whole, succeeds)
    BY <1>6, <1>10, Zenon
  <2>2. ~a.ok
    BY <1>6, <1>10, Zenon
  <2>3. FlushAsync(whole, succeeds) = [whole EXCEPT !.buffer = << >>, !.gap = TRUE]
    BY <1>3, <1>4, <1>10, Zenon DEF FlushAsync
  <2>4. [whole EXCEPT !.buffer = << >>, !.gap = TRUE] = Lost(log)
    <3> HIDE DEF whole
    <3>1. [whole EXCEPT !.buffer = << >>, !.gap = TRUE]
            = [file |-> whole.file, buffer |-> << >>, gap |-> TRUE]
      BY <1>4, LogFields, Zenon
    <3> QED
      BY <1>4, <3>1 DEF Lost
  <2>5. Lost(log) \in Logs /\ Len(Lost(log).buffer) < FlushThreshold
    BY <1>1, <1>3, <1>7 DEF Logs, S, Lost
  <2> QED
    BY <1>10, <2>1, <2>2, <2>3, <2>4, <2>5 DEF a
<1> QED
  BY <1>8, <1>9, <1>10

----------------------------------------------------------------------------
(* Mutations, field by field.                                              *)

\* A row has come into a tree: into the memtable, or with it into a table.
Inserted(t, row, n) ==
    \/ n.mem = t.mem \cup {row} /\ n.tables = t.tables
    \/ /\ n.mem = {}
       /\ \E x \in Tables : /\ x.level = 0 /\ x.rows = t.mem \cup {row}
                            /\ n.tables = Append(t.tables, x)

\* How a mutation may end, field by field.
Outcome(t, k, content, fault, n, end) ==
    \/ end = "overflow" /\ n = t
    \/ /\ end = "io" /\ fault = "wal" /\ n.log = Lost(t.log)
       /\ n.mem = t.mem /\ n.tables = t.tables /\ n.sequence = t.sequence
    \/ /\ end = "full" /\ ~Fits(t.mem, content)
       /\ Logged(t.log, [key |-> k, content |-> content, applied |-> FALSE], n.log)
       /\ n.mem = t.mem /\ n.tables = t.tables /\ n.sequence = t.sequence + 1
    \/ /\ end \in {"ok", "io"} /\ (end = "io" => fault = "table") /\ Fits(t.mem, content)
       /\ Logged(t.log, [key |-> k, content |-> content, applied |-> TRUE], n.log)
       /\ Inserted(t, [key |-> k, content |-> content, seq |-> t.sequence], n)
       /\ n.sequence = t.sequence + 1

\* Flushing a memtable that a row has just come into.
LEMMA FlushCases ==
    ASSUME NEW t \in Trees, NEW row, NEW fault, NEW inserted \in Trees,
           inserted.mem = t.mem \cup {row}, inserted.tables = t.tables
    PROVE  LET done == FlushMemtable(inserted, fault)
           IN /\ done.tree \in Trees
              /\ done.end \in {"ok", "io"} /\ (done.end = "io" => fault = "table")
              /\ done.tree.log = inserted.log /\ done.tree.sequence = inserted.sequence
              /\ Inserted(t, row, done.tree)
<1> DEFINE table == Table(0, inserted, inserted.mem)
           written == [inserted EXCEPT !.tables = Append(inserted.tables, table), !.mem = {},
                                       !.leftovers = inserted.leftovers \ {table.name}]
           failed == [inserted EXCEPT !.leftovers = inserted.leftovers \ {table.name}]
<1>1. table \in Tables /\ table.level = 0 /\ table.rows = t.mem \cup {row}
  <2>1. 0 \in 0 .. MaxLevels - 1 /\ inserted.sequence \in 0 .. MaxSequence
    BY SizeAssumption DEF Trees
  <2>2. <<0, inserted.sequence>> \in TableName
    BY <2>1 DEF TableName
  <2>3. inserted.mem \subseteq Row
    BY DEF Trees
  <2> DEFINE again == <<0, inserted.sequence>> \in inserted.leftovers
  <2>4. again \in BOOLEAN
    OBVIOUS
  <2>5. table = [level |-> 0, name |-> <<0, inserted.sequence>>, rows |-> inserted.mem,
                 reopened |-> again]
    BY DEF Table
  <2> HIDE DEF again, table
  <2> QED
    BY <2>1, <2>2, <2>3, <2>4, <2>5 DEF Tables
<1> HIDE DEF table
<1>2. /\ {} \in SUBSET Row /\ Append(inserted.tables, table) \in Seq(Tables)
      /\ inserted.leftovers \ {table.name} \in SUBSET TableName
  BY <1>1 DEF Trees
<1>3. written \in Trees
  BY <1>2 DEF Trees
<1>4. failed \in Trees
  BY <1>2 DEF Trees
<1>5. /\ written.log = inserted.log /\ written.mem = {}
      /\ written.tables = Append(inserted.tables, table)
      /\ written.sequence = inserted.sequence
  BY DEF Trees
<1>6. /\ failed.log = inserted.log /\ failed.mem = inserted.mem
      /\ failed.tables = inserted.tables /\ failed.sequence = inserted.sequence
  BY DEF Trees
<1> DEFINE done == FlushMemtable(inserted, fault)
<1> HIDE DEF written, failed, done
<1>7. CASE fault = "table"
  <2>1. done = [tree |-> failed, end |-> "io"]
    BY <1>7, Zenon DEF FlushMemtable, table, failed, done
  <2>2. done.tree = failed /\ done.end = "io"
    BY ONLY <2>1
  <2> QED
    BY <1>4, <1>6, <1>7, <2>2 DEF Inserted, done
<1>8. CASE fault # "table"
  <2>1. done = [tree |-> written, end |-> "ok"]
    BY <1>8, Zenon DEF FlushMemtable, table, written, done
  <2>2. done.tree = written /\ done.end = "ok"
    BY ONLY <2>1
  <2> QED
    BY <1>1, <1>3, <1>5, <2>2 DEF Inserted, done
<1> QED
  BY <1>7, <1>8

LEMMA MutateCases ==
    ASSUME NEW t, Sound(t), NEW k \in Key, NEW content \in Content, NEW fault \in WriteFaults
    PROVE  LET done == Mutate(t, k, content, fault)
           IN /\ done.tree \in Trees /\ Len(done.tree.log.buffer) < FlushThreshold
              /\ Outcome(t, k, content, fault, done.tree, done.end)
<1> DEFINE done == Mutate(t, k, content, fault)
           room == Fits(t.mem, content)
           r == [key |-> k, content |-> content, applied |-> room]
           a == AppendRecord(t.log, r, fault # "wal")
           numbered == [t EXCEPT !.log = a.log, !.sequence = t.sequence + 1]
           row == [key |-> k, content |-> content, seq |-> t.sequence]
           inserted == [numbered EXCEPT !.mem = numbered.mem \cup {row}]
<1>1. t \in Trees /\ t.log \in Logs /\ t.mem \subseteq Row /\ t.sequence \in 0 .. MaxSequence
  BY SoundFacts DEF Sound
<1>2. r \in Record
  <2>1. room \in BOOLEAN
    BY DEF Fits
  <2> HIDE DEF room
  <2> QED
    BY <2>1 DEF Record
<1>3. /\ a.log \in Logs /\ Len(a.log.buffer) < FlushThreshold
      /\ a.ok => Logged(t.log, r, a.log)
      /\ ~a.ok => fault = "wal" /\ a.log = Lost(t.log)
  <2>1. a.log \in Logs /\ Len(a.log.buffer) < FlushThreshold
    BY <1>1, <1>2, AppendCases
  <2>2. a.ok => Logged(t.log, r, a.log)
    BY <1>1, <1>2, AppendCases
  <2>3. ~a.ok => ~(fault # "wal") /\ a.log = Lost(t.log)
    BY <1>1, <1>2, AppendCases
  <2> QED
    BY <2>1, <2>2, <2>3
<1>4. done = IF t.sequence = MaxSequence THEN [tree |-> t, end |-> "overflow"]
             ELSE IF ~a.ok THEN [tree |-> [t EXCEPT !.log = a.log], end |-> "io"]
             ELSE IF ~room THEN [tree |-> numbered, end |-> "full"]
             ELSE IF Size(inserted.mem) >= MemtableSize THEN FlushMemtable(inserted, fault)
             ELSE [tree |-> inserted, end |-> "ok"]
  BY Zenon DEF Mutate
<1> HIDE DEF a
<1>5. /\ numbered.log = a.log /\ numbered.mem = t.mem /\ numbered.tables = t.tables
      /\ numbered.sequence = t.sequence + 1 /\ numbered.leftovers = t.leftovers
      /\ [t EXCEPT !.log = a.log].log = a.log /\ [t EXCEPT !.log = a.log].mem = t.mem
      /\ [t EXCEPT !.log = a.log].tables = t.tables
      /\ [t EXCEPT !.log = a.log].sequence = t.sequence
  BY <1>1 DEF Trees
<1>6. /\ t.tables \in Seq(Tables) /\ t.leftovers \subseteq TableName
  BY <1>1, SoundFacts
<1> HIDE DEF done, room
<1>7. CASE t.sequence = MaxSequence
  <2>1. done = [tree |-> t, end |-> "overflow"]
    BY <1>4, <1>7, Zenon
  <2> QED
    BY <1>1, <2>1 DEF done, Outcome, Sound
<1>8. CASE t.sequence # MaxSequence /\ ~a.ok
  <2>1. done = [tree |-> [t EXCEPT !.log = a.log], end |-> "io"]
    BY <1>4, <1>8, Zenon
  <2>2. [t EXCEPT !.log = a.log] \in Trees
    BY <1>1, <1>3 DEF Trees
  <2>3. fault = "wal" /\ a.log = Lost(t.log)
    BY <1>3, <1>8, Zenon
  <2> QED
    <3>1. done.tree = [t EXCEPT !.log = a.log] /\ done.end = "io"
      BY ONLY <2>1
    <3>2. Outcome(t, k, content, fault, done.tree, done.end)
      BY <1>5, <2>3, <3>1 DEF Outcome
    <3> QED
      BY <1>3, <1>5, <2>2, <3>1, <3>2 DEF done
<1>9. ASSUME t.sequence # MaxSequence
      PROVE  t.sequence + 1 \in 0 .. MaxSequence /\ numbered \in Trees /\ row \in Row
  <2>1. t.sequence + 1 \in 0 .. MaxSequence
    BY <1>1, <1>9, SizeAssumption
  <2> QED
    BY <1>1, <1>3, <2>1 DEF Trees, Row
<1> HIDE DEF numbered, inserted
<1>10. CASE t.sequence # MaxSequence /\ a.ok /\ ~room
  <2>1. done = [tree |-> numbered, end |-> "full"]
    BY <1>4, <1>10, Zenon
  <2>2. Logged(t.log, r, a.log)
    BY <1>3, <1>10, Zenon
  <2>3. r = [key |-> k, content |-> content, applied |-> FALSE]
    <3>1. room = FALSE
      BY <1>10 DEF room, Fits
    <3> QED
      BY <3>1, Zenon
  <2>4. Logged(t.log, [key |-> k, content |-> content, applied |-> FALSE], a.log)
    BY <2>2, <2>3, Zenon
  <2> HIDE DEF r
  <2>5. Outcome(t, k, content, fault, numbered, "full")
    BY <1>5, <1>10, <2>4 DEF Outcome, room
  <2>6. done.tree = numbered /\ done.end = "full" /\ numbered.log = a.log
    BY <1>5, <2>1
  <2> QED
    BY <1>3, <1>9, <1>10, <2>5, <2>6 DEF done
<1>11. CASE t.sequence # MaxSequence /\ a.ok /\ room
  <2>1. Logged(t.log, r, a.log)
    BY <1>3, <1>11, Zenon
  <2>2. r = [key |-> k, content |-> content, applied |-> TRUE]
    BY <1>11, Zenon
  <2>3. Logged(t.log, [key |-> k, content |-> content, applied |-> TRUE], a.log)
    BY <2>1, <2>2, Zenon
  <2> HIDE DEF r
  <2>4. /\ inserted \in Trees /\ inserted.log = a.log /\ inserted.mem = t.mem \cup {row}
        /\ inserted.tables = t.tables /\ inserted.sequence = t.sequence + 1
    <3> HIDE DEF row
    <3>1. numbered \in Trees /\ row \in Row
      BY <1>9, <1>11
    <3>2. numbered.mem \cup {row} \in SUBSET Row
      BY <3>1 DEF Trees
    <3>3. /\ inserted.log = numbered.log /\ inserted.mem = numbered.mem \cup {row}
          /\ inserted.tables = numbered.tables /\ inserted.sequence = numbered.sequence
      BY <3>1 DEF Trees, inserted
    <3>4. inserted \in Trees
      BY <3>1, <3>2 DEF Trees, inserted
    <3> QED
      BY <1>5, <3>3, <3>4
  <2>6. /\ done.tree \in Trees
        /\ done.end \in {"ok", "io"} /\ (done.end = "io" => fault = "table")
        /\ done.tree.log = a.log /\ done.tree.sequence = t.sequence + 1
        /\ Inserted(t, row, done.tree)
    <3> HIDE DEF row, inserted
    <3>1. CASE Size(inserted.mem) >= MemtableSize
      <4>1. done = FlushMemtable(inserted, fault)
        BY <1>4, <1>11, <3>1, Zenon
      <4>2. inserted \in Trees /\ inserted.mem = t.mem \cup {row} /\ inserted.tables = t.tables
        BY <2>4
      <4> DEFINE d == FlushMemtable(inserted, fault)
      <4>3. /\ d.tree \in Trees
            /\ d.end \in {"ok", "io"} /\ (d.end = "io" => fault = "table")
            /\ d.tree.log = inserted.log /\ d.tree.sequence = inserted.sequence
            /\ Inserted(t, row, d.tree)
        BY <1>1, <4>2, FlushCases
      <4> QED
        BY <2>4, <4>1, <4>3
    <3>2. CASE ~(Size(inserted.mem) >= MemtableSize)
      <4>1. done = [tree |-> inserted, end |-> "ok"]
        BY <1>4, <1>11, <3>2, Zenon
      <4>2. done.tree = inserted /\ done.end = "ok"
        BY ONLY <4>1
      <4> QED
        BY <2>4, <4>2 DEF Inserted
    <3> QED
      BY <3>1, <3>2
  <2>7. Outcome(t, k, content, fault, done.tree, done.end)
    BY <1>11, <2>3, <2>6 DEF Outcome, room
  <2> QED
    BY <1>3, <2>6, <2>7 DEF done
<1> QED
  BY <1>7, <1>8, <1>10, <1>11

----------------------------------------------------------------------------
(* The order of the tables.                                                *)

\* Every row of one set is older than every row of another.
Before(older, newer) == \A q \in older, r \in newer : q.seq < r.seq

\* The tables fall in level and rise in age along the list, the memtable last.
Ordered(t) ==
    /\ \A i, j \in 1 .. Len(t.tables) : i < j =>
          /\ t.tables[j].level <= t.tables[i].level
          /\ Before(t.tables[i].rows, t.tables[j].rows)
    /\ \A i \in 1 .. Len(t.tables) : Before(t.tables[i].rows, t.mem)

LEMMA RowsAppended ==
    ASSUME NEW t \in Trees, NEW n \in Trees, NEW x \in Tables, n.tables = Append(t.tables, x)
    PROVE  /\ Len(n.tables) = Len(t.tables) + 1 /\ Len(t.tables) \in Nat
           /\ n.tables[Len(t.tables) + 1] = x
           /\ \A i \in 1 .. Len(t.tables) : n.tables[i] = t.tables[i]
           /\ AllRows(n) = n.mem \cup x.rows \cup UNION {y.rows : y \in Range(t.tables)}
<1>1. t.tables \in Seq(Tables)
  BY SoundFacts
<1>2. /\ Len(n.tables) = Len(t.tables) + 1 /\ Len(t.tables) \in Nat
      /\ n.tables[Len(t.tables) + 1] = x
      /\ \A i \in 1 .. Len(t.tables) : n.tables[i] = t.tables[i]
  BY <1>1
<1>3. Range(n.tables) = Range(t.tables) \cup {x}
  BY <1>1, <1>2 DEF Range
<1> QED
  BY <1>2, <1>3 DEF AllRows

LEMMA InsertedFacts ==
    ASSUME NEW t, Sound(t), NEW n \in Trees, NEW k, NEW content,
           NEW row, row = [key |-> k, content |-> content, seq |-> t.sequence],
           Inserted(t, row, n), n.sequence = t.sequence + 1, Fits(t.mem, content)
    PROVE  /\ Told(AllRows(n), n.sequence)
           /\ Size(n.mem) <= MemtableSize /\ Size(n.mem) <= Size(t.mem) + EntrySize(content)
           /\ \A i \in 1 .. Len(n.tables) : n.tables[i].rows # {}
           /\ \A r \in AllRows(n) : r = row \/ r \in AllRows(t)
           /\ \A j : Latest(n, j) = IF j = k THEN content ELSE Latest(t, j)
           /\ Ordered(t) => Ordered(n)
           /\ \A l \in Nat \ {0} : AtLevel(n, l) = AtLevel(t, l)
<1>1. /\ t \in Trees /\ Size(t.mem) <= MemtableSize /\ Told(AllRows(t), t.sequence)
      /\ \A i \in 1 .. Len(t.tables) : t.tables[i].rows # {}
      /\ t.sequence \in Nat /\ t.sequence + 1 \in Nat /\ t.mem \subseteq AllRows(t)
      /\ n.sequence \in Nat
  BY SoundFacts DEF Sound
<1>2. row.seq = t.sequence /\ row.key = k /\ row.content = content
  OBVIOUS
<1>3. \A r \in AllRows(t) : r.seq < row.seq
  BY <1>1, <1>2 DEF Told
<1>4. AllRows(n) = AllRows(t) \cup {row}
  <2>1. CASE n.mem = t.mem \cup {row} /\ n.tables = t.tables
    BY <2>1 DEF AllRows
  <2>2. ASSUME NEW x \in Tables, n.mem = {}, x.rows = t.mem \cup {row},
               n.tables = Append(t.tables, x)
        PROVE  AllRows(n) = AllRows(t) \cup {row}
    <3>1. AllRows(n) = n.mem \cup x.rows \cup UNION {y.rows : y \in Range(t.tables)}
      BY <1>1, <2>2, RowsAppended
    <3> QED
      BY <2>2, <3>1 DEF AllRows
  <2> QED
    BY <2>1, <2>2 DEF Inserted
<1>5. /\ Told(AllRows(n), n.sequence)
      /\ \A j : Latest(n, j) = IF j = k THEN content ELSE Latest(t, j)
  <2> DEFINE rows == AllRows(t)
             b == t.sequence
             c == n.sequence
  <2>1. /\ Told(rows, b) /\ row.seq \in Nat /\ row.seq < c /\ c \in Nat
        /\ \A r \in rows : r.seq < row.seq
    BY <1>1, <1>2, <1>3
  <2> HIDE DEF rows, b, c
  <2>2. /\ Told(rows \cup {row}, c)
        /\ \A j : ContentIn(RowsOf(rows \cup {row}, j)) =
                IF j = row.key THEN row.content ELSE ContentIn(RowsOf(rows, j))
    BY ONLY <2>1, RowAdded
  <2> QED
    BY <1>2, <1>4, <2>2 DEF Latest, rows, c
<1>6. /\ IsFiniteSet(t.mem) /\ row \notin t.mem /\ Size(t.mem) \in Nat
      /\ IsFiniteSet(t.mem \cup {row})
      /\ Size(t.mem \cup {row}) = Size(t.mem) + EntrySize(content)
      /\ EntrySize(content) \in Nat \ {0} /\ Size({}) = 0
  <2>1. Told(t.mem, t.sequence)
    BY <1>1, ToldPart
  <2>2. IsFiniteSet(t.mem)
    BY <2>1, ToldFinite
  <2>3. row \notin t.mem
    BY <1>1, <1>2, <1>3
  <2> QED
    BY <1>2, <2>2, <2>3, SizeFacts
<1>7. /\ Size(n.mem) <= MemtableSize /\ Size(n.mem) <= Size(t.mem) + EntrySize(content)
  <2>1. MemtableSize \in Nat /\ Size(t.mem) + EntrySize(content) <= MemtableSize
    BY SizeAssumption DEF Fits
  <2>2. CASE n.mem = {}
    BY <1>6, <2>1, <2>2
  <2>3. CASE n.mem = t.mem \cup {row}
    BY <1>6, <2>1, <2>3
  <2> QED
    BY <2>2, <2>3 DEF Inserted
<1>8. ASSUME n.mem = t.mem \cup {row}, n.tables = t.tables
      PROVE  /\ \A i \in 1 .. Len(n.tables) : n.tables[i].rows # {}
             /\ Ordered(t) => Ordered(n)
             /\ \A l \in Nat \ {0} : AtLevel(n, l) = AtLevel(t, l)
  <2>1. \A l \in Nat \ {0} : AtLevel(n, l) = AtLevel(t, l)
    BY <1>8 DEF AtLevel
  <2>2. \A i \in 1 .. Len(t.tables) : t.tables[i].rows \subseteq AllRows(t)
    BY <1>1, SoundFacts
  <2>3. ASSUME Ordered(t) PROVE Ordered(n)
    BY <1>2, <1>3, <1>8, <2>2, <2>3 DEF Ordered, Before
  <2> QED
    BY <1>1, <1>8, <2>1, <2>3
<1>9. ASSUME NEW x \in Tables, n.mem = {}, x.level = 0, x.rows = t.mem \cup {row},
             n.tables = Append(t.tables, x)
      PROVE  /\ \A i \in 1 .. Len(n.tables) : n.tables[i].rows # {}
             /\ Ordered(t) => Ordered(n)
             /\ \A l \in Nat \ {0} : AtLevel(n, l) = AtLevel(t, l)
  <2> DEFINE m == Len(t.tables)
  <2>1. /\ Len(n.tables) = m + 1 /\ m \in Nat /\ n.tables[m + 1] = x
        /\ \A i \in 1 .. m : n.tables[i] = t.tables[i]
    BY <1>1, <1>9, RowsAppended
  <2>2. /\ DOMAIN n.tables = 1 .. m + 1 /\ DOMAIN t.tables = 1 .. m
        /\ \A i \in 1 .. m : t.tables[i].rows \subseteq AllRows(t) /\ t.tables[i] \in Tables
    BY <1>1, <2>1, SoundFacts
  <2> HIDE DEF m
  <2>3. \A i \in 1 .. m + 1 : i \in 1 .. m \/ i = m + 1
    BY <2>1
  <2>4. \A l \in Nat \ {0} : AtLevel(n, l) = AtLevel(t, l)
    BY <1>9, <2>1, <2>2, <2>3 DEF AtLevel
  <2>5. ASSUME Ordered(t) PROVE Ordered(n)
    <3>1. ASSUME NEW i \in 1 .. m + 1, NEW j \in 1 .. m + 1, i < j
          PROVE  /\ n.tables[j].level <= n.tables[i].level
                 /\ Before(n.tables[i].rows, n.tables[j].rows)
      <4>1. CASE j \in 1 .. m
        <5>1. i \in 1 .. m
          BY <2>1, <3>1, <4>1
        <5> QED
          BY <2>1, <2>5, <3>1, <4>1, <5>1 DEF Ordered, m
      <4>2. CASE j = m + 1
        <5>1. i \in 1 .. m
          BY <2>1, <3>1, <4>2
        <5>2. n.tables[i].level \in 0 .. MaxLevels - 1 /\ n.tables[j].level = 0
          BY <1>9, <2>1, <2>2, <4>2, <5>1 DEF Tables
        <5>3. Before(t.tables[i].rows, t.mem \cup {row})
          BY <1>2, <1>3, <2>2, <2>5, <5>1 DEF Ordered, Before, m
        <5>4. n.tables[j].level <= n.tables[i].level
          <6> HIDE DEF m
          <6> QED
            BY <5>2, SizeAssumption
        <5>5. n.tables[i].rows = t.tables[i].rows /\ n.tables[j].rows = t.mem \cup {row}
          BY <1>9, <2>1, <4>2, <5>1
        <5> QED
          BY <5>3, <5>4, <5>5
      <4> QED
        BY <2>3, <4>1, <4>2
    <3>2. \A i \in 1 .. m + 1 : Before(n.tables[i].rows, n.mem)
      BY <1>9 DEF Before
    <3> QED
      BY <2>1, <3>1, <3>2 DEF Ordered
  <2>6. \A i \in 1 .. m + 1 : n.tables[i].rows # {}
    BY <1>1, <1>9, <2>1, <2>3 DEF m
  <2> QED
    BY <2>1, <2>4, <2>5, <2>6
<1> QED
  <2>1. /\ \A i \in 1 .. Len(n.tables) : n.tables[i].rows # {}
        /\ Ordered(t) => Ordered(n)
        /\ \A l \in Nat \ {0} : AtLevel(n, l) = AtLevel(t, l)
    BY <1>8, <1>9 DEF Inserted
  <2> QED
    BY <1>4, <1>5, <1>7, <2>1

----------------------------------------------------------------------------
(* Compaction.                                                             *)

\* A level has been merged into a table of the next.
Compacted(t, lvl, n) ==
    /\ AtLevel(t, lvl) # {} /\ lvl + 1 < MaxLevels
    /\ n.log = t.log /\ n.mem = t.mem /\ n.sequence = t.sequence + 1
    /\ \E x \in Tables : /\ x.level = lvl + 1 /\ x.rows = Merged(t, lvl)
                         /\ n.tables = Append(Others(t, lvl), x)

\* How the compaction of a level may end.
Compaction(t, lvl, n, end) ==
    \/ n = t
    \/ /\ end = "io" /\ n.log = t.log /\ n.mem = t.mem /\ n.tables = t.tables
       /\ n.sequence = t.sequence + 1
    \/ end = "ok" /\ Compacted(t, lvl, n)

\* p tells where the tables of the other levels were, in their order.
Skips(p, t, lvl) ==
    LET o == Others(t, lvl)
    IN /\ p \in [1 .. Len(o) -> 1 .. Len(t.tables)]
       /\ \A i \in 1 .. Len(o) : o[i] = t.tables[p[i]] /\ t.tables[p[i]].level # lvl
       /\ \A i, j \in 1 .. Len(o) : i < j => p[i] < p[j]
       /\ \A i \in 1 .. Len(t.tables) :
            t.tables[i].level # lvl => \E j \in 1 .. Len(o) : p[j] = i

LEMMA OthersFacts ==
    ASSUME NEW t \in Trees, NEW lvl
    PROVE  /\ Others(t, lvl) \in Seq(Tables) /\ Len(Others(t, lvl)) \in Nat
           /\ \E p : Skips(p, t, lvl)
<1> DEFINE T == DOMAIN t.tables \ AtLevel(t, lvl)
           s == t.tables
<1>1. s \in Seq(Tables) /\ DOMAIN s = 1 .. Len(s)
  BY SoundFacts
<1>2. T \subseteq 1 .. Len(s) /\ \A i \in 1 .. Len(s) : i \in T <=> s[i].level # lvl
  BY <1>1 DEF AtLevel
<1>3. Others(t, lvl) = Kept(s, T)
  BY DEF Others
<1> HIDE DEF T, s
<1>4. /\ Cardinality(T) \in Nat /\ Kept(s, T) \in Seq(Tables)
      /\ Len(Kept(s, T)) = Cardinality(T) /\ \E p : Counts(p, s, T)
  BY <1>1, <1>2, KeptFacts
<1>5. PICK p : Counts(p, s, T)
  BY <1>4
<1>6. p \in [1 .. Cardinality(T) -> 1 .. Len(s)] /\ \A i \in 1 .. Cardinality(T) : p[i] \in T
  BY <1>2, <1>5 DEF Counts
<1> QED
  <2> DEFINE N == Cardinality(T)
             o == Others(t, lvl)
  <2>1. \A i \in 1 .. N : s[p[i]].level # lvl
    BY <1>2, <1>6
  <2>2. /\ o \in Seq(Tables) /\ Len(o) = N /\ N \in Nat /\ p \in [1 .. N -> 1 .. Len(s)]
        /\ \A i \in 1 .. N : o[i] = s[p[i]]
        /\ \A i, j \in 1 .. N : i < j => p[i] < p[j]
    BY <1>3, <1>4, <1>5, <1>6 DEF Counts
  <2>3. \A i \in 1 .. Len(s) : s[i].level # lvl => \E j \in 1 .. N : p[j] = i
    BY <1>2, <1>5 DEF Counts
  <2>4. /\ p \in [1 .. Len(o) -> 1 .. Len(s)]
        /\ \A i \in 1 .. Len(o) : o[i] = s[p[i]] /\ s[p[i]].level # lvl
        /\ \A i, j \in 1 .. Len(o) : i < j => p[i] < p[j]
        /\ \A i \in 1 .. Len(s) : s[i].level # lvl => \E j \in 1 .. Len(o) : p[j] = i
    <3> HIDE DEF N, o
    <3> QED
      BY <2>1, <2>2, <2>3
  <2>5. Skips(p, t, lvl)
    <3> HIDE DEF N
    <3> QED
      BY <2>4 DEF s, Skips
  <2>6. o \in Seq(Tables) /\ Len(o) \in Nat
    <3> HIDE DEF N, o
    <3> QED
      BY <2>2
  <2> QED
    BY <2>5, <2>6

LEMMA CompactCases ==
    ASSUME NEW t, Sound(t), NEW lvl \in 0 .. MaxLevels - 1, NEW fault
    PROVE  LET done == Compact(t, lvl, fault)
           IN /\ done.tree \in Trees
              /\ Compaction(t, lvl, done.tree, done.end)
              /\ done.end = "ok" => done.tree = t \/ Compacted(t, lvl, done.tree)
              /\ done.end = "ok" /\ AtLevel(t, lvl) # {} /\ lvl + 1 < MaxLevels
                    => Compacted(t, lvl, done.tree)
              /\ done.end \in {"ok", "io", "overflow"} /\ (done.end = "io" => fault # "none")
<1> DEFINE table == Table(lvl + 1, t, Merged(t, lvl))
           failed == [t EXCEPT !.sequence = t.sequence + 1,
                               !.leftovers = t.leftovers \cup {table.name}]
           moved == [t EXCEPT !.sequence = t.sequence + 1,
                              !.tables = Append(Others(t, lvl), table),
                              !.leftovers = t.leftovers \ {table.name}]
           done == Compact(t, lvl, fault)
           nothing == AtLevel(t, lvl) = {} \/ lvl + 1 >= MaxLevels
<1>1. t \in Trees /\ t.sequence \in 0 .. MaxSequence /\ t.leftovers \subseteq TableName
  BY SoundFacts DEF Sound
<1>2. MaxLevels \in Nat /\ MaxSequence \in Nat /\ lvl \in Nat
  BY SizeAssumption
<1>3. done = IF nothing THEN [tree |-> t, end |-> "ok"]
             ELSE IF fault = "compact_read" THEN [tree |-> t, end |-> "io"]
             ELSE IF t.sequence = MaxSequence THEN [tree |-> t, end |-> "overflow"]
             ELSE IF fault = "compact_write" THEN [tree |-> failed, end |-> "io"]
             ELSE [tree |-> moved, end |-> "ok"]
  BY Zenon DEF Compact
<1> HIDE DEF done, failed, moved
<1>6. CASE nothing
  <2>1. done = [tree |-> t, end |-> "ok"]
    BY <1>3, <1>6, Zenon
  <2>2. done.tree = t /\ done.end = "ok"
    BY ONLY <2>1
  <2> QED
    BY <1>1, <1>2, <1>6, <2>2 DEF Compaction, done
<1>7. CASE ~nothing /\ fault = "compact_read"
  <2>1. done = [tree |-> t, end |-> "io"]
    BY <1>3, <1>7, Zenon
  <2>2. done.tree = t /\ done.end = "io"
    BY ONLY <2>1
  <2> QED
    BY <1>1, <1>7, <2>2 DEF Compaction, done
<1>8. CASE ~nothing /\ fault # "compact_read" /\ t.sequence = MaxSequence
  <2>1. done = [tree |-> t, end |-> "overflow"]
    BY <1>3, <1>8, Zenon
  <2>2. done.tree = t /\ done.end = "overflow"
    BY ONLY <2>1
  <2> QED
    BY <1>1, <2>2 DEF Compaction, done
<1>9. ASSUME ~nothing, t.sequence # MaxSequence
      PROVE  /\ t.sequence + 1 \in 0 .. MaxSequence /\ AtLevel(t, lvl) # {}
             /\ lvl + 1 \in 0 .. MaxLevels - 1 /\ lvl + 1 < MaxLevels
             /\ table.name \in TableName
             /\ table \in Tables /\ table.level = lvl + 1 /\ table.rows = Merged(t, lvl)
  <2>1. t.sequence + 1 \in 0 .. MaxSequence
    BY <1>1, <1>2, <1>9
  <2>2. lvl + 1 \in 0 .. MaxLevels - 1 /\ lvl + 1 < MaxLevels /\ AtLevel(t, lvl) # {}
    BY <1>2, <1>9
  <2>3. <<lvl + 1, t.sequence>> \in TableName
    BY <1>1, <2>2 DEF TableName
  <2>4. Merged(t, lvl) \subseteq Row
    <3>1. \A i \in AtLevel(t, lvl) : t.tables[i].rows \subseteq Row
      BY <1>1, SoundFacts DEF AtLevel, Tables
    <3> QED
      BY <3>1 DEF Merged
  <2> DEFINE again == <<lvl + 1, t.sequence>> \in t.leftovers
  <2>5. again \in BOOLEAN
    OBVIOUS
  <2>6. table = [level |-> lvl + 1, name |-> <<lvl + 1, t.sequence>>,
                 rows |-> Merged(t, lvl), reopened |-> again]
    BY DEF Table
  <2> HIDE DEF again, table
  <2> QED
    BY <2>1, <2>2, <2>3, <2>4, <2>5, <2>6 DEF Tables
<1> HIDE DEF table
<1>10. CASE ~nothing /\ fault = "compact_write" /\ t.sequence # MaxSequence
  <2>1. done = [tree |-> failed, end |-> "io"]
    BY <1>3, <1>10, Zenon
  <2>2. done.tree = failed /\ done.end = "io"
    BY ONLY <2>1
  <2>3. t.leftovers \cup {table.name} \in SUBSET TableName
    BY <1>1, <1>9, <1>10
  <2>4. failed \in Trees
    BY <1>1, <1>9, <1>10, <2>3 DEF Trees, failed
  <2>5. /\ failed.log = t.log /\ failed.mem = t.mem /\ failed.tables = t.tables
        /\ failed.sequence = t.sequence + 1
    BY <1>1 DEF Trees, failed
  <2> QED
    BY <1>10, <2>2, <2>4, <2>5 DEF Compaction, done
<1>11. CASE ~nothing /\ fault # "compact_read" /\ fault # "compact_write"
            /\ t.sequence # MaxSequence
  <2>1. done = [tree |-> moved, end |-> "ok"]
    BY <1>3, <1>11, Zenon
  <2>2. done.tree = moved /\ done.end = "ok"
    BY ONLY <2>1
  <2>3. Append(Others(t, lvl), table) \in Seq(Tables)
    <3>1. Others(t, lvl) \in Seq(Tables)
      BY <1>1, OthersFacts
    <3> QED
      BY <1>9, <1>11, <3>1
  <2>4. t.leftovers \ {table.name} \in SUBSET TableName
    BY <1>1
  <2>5. moved \in Trees
    BY <1>1, <1>9, <1>11, <2>3, <2>4 DEF Trees, moved
  <2>6. /\ moved.log = t.log /\ moved.mem = t.mem
        /\ moved.tables = Append(Others(t, lvl), table)
        /\ moved.sequence = t.sequence + 1
    BY <1>1 DEF Trees, moved
  <2>7. Compacted(t, lvl, moved)
    BY <1>9, <1>11, <2>6 DEF Compacted
  <2> QED
    BY <2>2, <2>5, <2>7 DEF Compaction, done
<1> QED
  BY <1>6, <1>7, <1>8, <1>10, <1>11

\* Compaction keeps the newest row of every key.
LEMMA CompactedRows ==
    ASSUME NEW t, Sound(t), NEW lvl, NEW n \in Trees, Compacted(t, lvl, n)
    PROVE  /\ AllRows(n) \subseteq AllRows(t)
           /\ \A k : Latest(n, k) = Latest(t, k)
           /\ \A i \in 1 .. Len(n.tables) : n.tables[i].rows # {}
<1> DEFINE o == Others(t, lvl)
           rows == UNION {t.tables[i].rows : i \in AtLevel(t, lvl)}
<1>1. /\ t \in Trees /\ Told(AllRows(t), t.sequence)
      /\ \A i \in 1 .. Len(t.tables) : t.tables[i].rows # {}
  BY DEF Sound
<1>2. PICK x \in Tables : x.rows = Merged(t, lvl) /\ n.tables = Append(o, x)
  BY DEF Compacted
<1>3. /\ AtLevel(t, lvl) # {} /\ n.mem = t.mem
      /\ AtLevel(t, lvl) = {i \in 1 .. Len(t.tables) : t.tables[i].level = lvl}
  BY <1>1, SoundFacts DEF Compacted, AtLevel
<1>4. PICK p : Skips(p, t, lvl)
  BY <1>1, OthersFacts
<1>5. o \in Seq(Tables) /\ Len(o) \in Nat
  BY <1>1, OthersFacts
<1>6. /\ \A i \in 1 .. Len(o) : p[i] \in 1 .. Len(t.tables) /\ o[i] = t.tables[p[i]]
      /\ \A i \in 1 .. Len(t.tables) :
            t.tables[i].level # lvl => \E j \in 1 .. Len(o) : o[j] = t.tables[i]
  BY <1>4 DEF Skips
<1> HIDE DEF o
<1>7. /\ Len(n.tables) = Len(o) + 1 /\ n.tables[Len(o) + 1] = x
      /\ \A i \in 1 .. Len(o) : n.tables[i] = o[i]
      /\ \A i \in 1 .. Len(n.tables) : i \in 1 .. Len(o) \/ i = Len(o) + 1
  BY <1>2, <1>5
<1>8. /\ rows \subseteq AllRows(t) /\ Merged(t, lvl) \subseteq rows
      /\ \A r \in rows : r = Newest(RowsOf(rows, r.key)) => r \in Merged(t, lvl)
  BY <1>1, <1>3, SoundFacts DEF Merged
<1>9. AllRows(n) \subseteq AllRows(t)
  <2>1. ASSUME NEW r \in AllRows(n) PROVE r \in AllRows(t)
    <3>1. r \in n.mem \/ \E i \in 1 .. Len(n.tables) : r \in n.tables[i].rows
      BY SoundFacts
    <3>2. CASE r \in n.mem
      BY <1>1, <1>3, <3>2, SoundFacts
    <3>3. ASSUME NEW i \in 1 .. Len(n.tables), r \in n.tables[i].rows PROVE r \in AllRows(t)
      <4>1. CASE i \in 1 .. Len(o)
        <5>1. p[i] \in 1 .. Len(t.tables) /\ n.tables[i] = t.tables[p[i]]
          BY <1>6, <1>7, <4>1
        <5> QED
          BY <1>1, <3>3, <5>1, SoundFacts
      <4>2. CASE i = Len(o) + 1
        BY <1>2, <1>7, <1>8, <3>3, <4>2
      <4> QED
        BY <1>7, <4>1, <4>2
    <3> QED
      BY <3>1, <3>2, <3>3
  <2> QED
    BY <2>1
<1>10. ASSUME NEW k, NEW r \in RowsOf(rows, k)
       PROVE  Newest(RowsOf(rows, k)) \in RowsOf(rows, k)
              /\ Newest(RowsOf(rows, k)) \in Merged(t, lvl)
              /\ \A q \in RowsOf(rows, k) : q.seq <= Newest(RowsOf(rows, k)).seq
  <2> DEFINE mine == RowsOf(rows, k)
  <2>1. mine \subseteq AllRows(t) /\ mine \subseteq rows /\ \A q \in mine : q.key = k
    BY <1>8 DEF RowsOf
  <2>2. Told(mine, t.sequence) /\ mine # {}
    BY <1>1, <1>10, <2>1, ToldPart
  <2> HIDE DEF mine, rows
  <2>3. Newest(mine) \in mine /\ \A q \in mine : q.seq <= Newest(mine).seq
    BY <2>2, NewestFacts
  <2>4. Newest(mine) \in Merged(t, lvl)
    <3>1. Newest(mine).key = k /\ Newest(mine) \in rows
      BY <2>1, <2>3
    <3> QED
      BY <1>8, <3>1 DEF mine
  <2> QED
    BY <2>3, <2>4 DEF mine
<1>11. ASSUME NEW k PROVE Latest(n, k) = Latest(t, k)
  <2> DEFINE old == RowsOf(AllRows(t), k)
             new == RowsOf(AllRows(n), k)
  <2>1. new \subseteq old /\ old \subseteq AllRows(t) /\ new \subseteq AllRows(n)
    BY <1>9 DEF RowsOf
  <2>2. Told(old, t.sequence) /\ Told(new, t.sequence)
    BY <1>1, <1>9, <2>1, ToldPart
  <2>3. CASE old = {}
    BY <2>1, <2>3 DEF Latest, ContentIn
  <2>4. CASE old # {}
    <3> DEFINE top == Newest(old)
    <3> HIDE DEF old, new
    <3>1. top \in old /\ \A q \in old : q.seq <= top.seq
      BY <2>2, <2>4, NewestFacts
    <3>2. top \in AllRows(n)
      <4>1. top \in t.mem \/ \E i \in 1 .. Len(t.tables) : top \in t.tables[i].rows
        BY <1>1, <2>1, <3>1, SoundFacts
      <4>2. CASE top \in t.mem
        BY <1>3, <4>2, SoundFacts
      <4>3. ASSUME NEW i \in 1 .. Len(t.tables), top \in t.tables[i].rows,
                   t.tables[i].level # lvl
            PROVE  top \in AllRows(n)
        <5>1. PICK j \in 1 .. Len(o) : o[j] = t.tables[i]
          BY <1>6, <4>3
        <5>2. j \in 1 .. Len(n.tables) /\ top \in n.tables[j].rows
          BY <1>5, <1>7, <4>3, <5>1
        <5> QED
          BY <5>2, SoundFacts
      <4>4. ASSUME NEW i \in 1 .. Len(t.tables), top \in t.tables[i].rows,
                   t.tables[i].level = lvl
            PROVE  top \in AllRows(n)
        <5>1. top \in rows /\ top.key = k
          BY <1>3, <3>1, <4>4 DEF old, RowsOf
        <5> DEFINE mine == RowsOf(rows, k)
        <5>2. top \in mine
          BY <5>1 DEF RowsOf
        <5>3. mine \subseteq old
          BY <1>8 DEF RowsOf, old
        <5>4. /\ Newest(mine) \in mine /\ Newest(mine) \in Merged(t, lvl)
              /\ \A q \in mine : q.seq <= Newest(mine).seq
          <6> HIDE DEF rows
          <6> QED
            BY <1>10, <5>2
        <5> HIDE DEF mine, rows, top
        <5>5. Newest(mine).seq = top.seq
          <6>1. Newest(mine) \in old /\ Newest(mine).seq <= top.seq /\ top.seq <= Newest(mine).seq
            BY <3>1, <5>2, <5>3, <5>4
          <6>2. Newest(mine).seq \in Nat /\ top.seq \in Nat
            BY <2>2, <3>1, <6>1 DEF Told
          <6> QED
            BY <6>1, <6>2
        <5>6. Newest(mine) = top
          BY <2>2, <3>1, <5>3, <5>4, <5>5 DEF Told
        <5>7. Len(o) + 1 \in 1 .. Len(n.tables)
          BY <1>5, <1>7
        <5> QED
          BY <1>2, <1>7, <5>4, <5>6, <5>7, SoundFacts
      <4> QED
        BY <4>1, <4>2, <4>3, <4>4
    <3>3. top \in new
      BY <3>1, <3>2 DEF new, old, RowsOf
    <3>4. \A q \in new : q.seq <= top.seq
      BY <2>1, <3>1
    <3> HIDE DEF top
    <3>5. top = Newest(new)
      BY <2>2, <3>3, <3>4, NewestFacts
    <3> QED
      BY <2>4, <3>3, <3>5 DEF Latest, ContentIn, new, old, top
  <2> QED
    BY <2>3, <2>4
<1>12. \A i \in 1 .. Len(n.tables) : n.tables[i].rows # {}
  <2>1. x.rows # {}
    <3>1. PICK i \in AtLevel(t, lvl) : TRUE
      BY <1>3
    <3>2. PICK r \in t.tables[i].rows : TRUE
      BY <1>1, <1>3, <3>1
    <3>3. r \in RowsOf(rows, r.key)
      BY <3>1, <3>2 DEF RowsOf
    <3> HIDE DEF rows
    <3>4. Newest(RowsOf(rows, r.key)) \in Merged(t, lvl)
      BY <1>10, <3>3
    <3> QED
      BY <1>2, <3>4
  <2>2. ASSUME NEW i \in 1 .. Len(o) PROVE n.tables[i].rows # {}
    <3>1. p[i] \in 1 .. Len(t.tables) /\ n.tables[i] = t.tables[p[i]]
      BY <1>6, <1>7
    <3> QED
      BY <1>1, <3>1
  <2> QED
    BY <1>7, <2>1, <2>2
<1> QED
  BY <1>9, <1>11, <1>12

\* Compaction of a level below which there is nothing keeps the order.
LEMMA CompactedOrder ==
    ASSUME NEW t, Sound(t), NEW lvl \in Nat, NEW n \in Trees, Compacted(t, lvl, n),
           Ordered(t), \A m \in 0 .. lvl - 1 : AtLevel(t, m) = {}
    PROVE  /\ Ordered(n)
           /\ \A m \in 0 .. lvl : AtLevel(n, m) = {}
           /\ \A l \in Nat : l # lvl + 1 =>
                Cardinality(AtLevel(n, l)) <= Cardinality(AtLevel(t, l))
<1> DEFINE o == Others(t, lvl)
           N == Len(o)
<1>1. /\ t \in Trees /\ Len(t.tables) \in Nat /\ DOMAIN t.tables = 1 .. Len(t.tables)
      /\ DOMAIN n.tables = 1 .. Len(n.tables)
      /\ \A i \in 1 .. Len(t.tables) : t.tables[i].level \in Nat
  <2>1. t \in Trees
    BY DEF Sound
  <2>2. \A i \in 1 .. Len(t.tables) : t.tables[i].level \in Nat
    BY <2>1, SoundFacts, SizeAssumption DEF Tables
  <2> QED
    BY <2>1, <2>2, SoundFacts
<1>2. PICK x \in Tables : /\ x.level = lvl + 1 /\ x.rows = Merged(t, lvl)
                          /\ n.tables = Append(o, x)
  BY DEF Compacted
<1>3. PICK p : Skips(p, t, lvl)
  BY <1>1, OthersFacts
<1>4. o \in Seq(Tables) /\ N \in Nat
  BY <1>1, OthersFacts
<1>5. /\ \A i \in 1 .. N : /\ p[i] \in 1 .. Len(t.tables) /\ o[i] = t.tables[p[i]]
                           /\ t.tables[p[i]].level # lvl
      /\ \A i, j \in 1 .. N : i < j => p[i] < p[j]
      /\ p \in [1 .. N -> 1 .. Len(t.tables)]
  BY <1>3 DEF Skips
<1> HIDE DEF o
<1>6. /\ Len(n.tables) = N + 1 /\ n.tables[N + 1] = x /\ n.mem = t.mem
      /\ \A i \in 1 .. N : n.tables[i] = t.tables[p[i]]
  BY <1>2, <1>4, <1>5 DEF Compacted
<1> HIDE DEF N
<1>7. \A i \in 1 .. N + 1 : i \in 1 .. N \/ i = N + 1
  BY <1>4 DEF N
<1>8. N \in Nat
  BY <1>4
<1>9. ASSUME NEW i \in 1 .. N
      PROVE  n.tables[i].level \in Nat /\ n.tables[i].level > lvl
  <2>1. n.tables[i] = t.tables[p[i]] /\ p[i] \in 1 .. Len(t.tables)
        /\ t.tables[p[i]].level # lvl
    BY <1>5, <1>6
  <2>2. t.tables[p[i]].level \notin 0 .. lvl - 1
    <3>1. \A m \in 0 .. lvl - 1 : p[i] \notin AtLevel(t, m)
      OBVIOUS
    <3> QED
      BY <1>1, <2>1, <3>1 DEF AtLevel
  <2> QED
    BY <1>1, <2>1, <2>2
<1>10. ASSUME NEW i \in 1 .. N
       PROVE  Before(n.tables[i].rows, x.rows)
  <2>1. ASSUME NEW r \in x.rows PROVE \E j \in 1 .. Len(t.tables) :
                r \in t.tables[j].rows /\ t.tables[j].level = lvl
    BY <1>1, <1>2 DEF Merged, AtLevel
  <2>2. ASSUME NEW j \in 1 .. Len(t.tables), t.tables[j].level = lvl
        PROVE  Before(n.tables[i].rows, t.tables[j].rows)
    <3>1. n.tables[i] = t.tables[p[i]] /\ p[i] \in 1 .. Len(t.tables)
      BY <1>5, <1>6
    <3>2. t.tables[p[i]].level > lvl
      BY <1>9, <3>1
    <3>3. ~(j < p[i]) /\ j # p[i]
      <4>1. j < p[i] => t.tables[p[i]].level <= t.tables[j].level
        BY <3>1 DEF Ordered
      <4>2. t.tables[p[i]].level \in Nat
        BY <1>1, <3>1
      <4> QED
        BY <2>2, <3>2, <4>1, <4>2
    <3>4. p[i] < j
      BY <1>1, <3>1, <3>3
    <3> QED
      BY <3>1, <3>4 DEF Ordered
  <2> QED
    BY <2>1, <2>2 DEF Before
<1>11. Ordered(n)
  <2>1. ASSUME NEW i \in 1 .. N + 1, NEW j \in 1 .. N + 1, i < j
        PROVE  /\ n.tables[j].level <= n.tables[i].level
               /\ Before(n.tables[i].rows, n.tables[j].rows)
    <3>1. i \in 1 .. N
      BY <1>8, <2>1
    <3>2. CASE j \in 1 .. N
      <4>1. /\ n.tables[i] = t.tables[p[i]] /\ n.tables[j] = t.tables[p[j]] /\ p[i] < p[j]
            /\ p[i] \in 1 .. Len(t.tables) /\ p[j] \in 1 .. Len(t.tables)
        BY <1>5, <1>6, <2>1, <3>1, <3>2
      <4> QED
        BY <4>1 DEF Ordered
    <3>3. CASE j = N + 1
      <4>1. n.tables[i].level \in Nat /\ n.tables[i].level > lvl
        BY <1>9, <3>1
      <4>2. n.tables[j] = x /\ x.level = lvl + 1
        BY <1>2, <1>6, <3>3
      <4> QED
        BY <1>10, <3>1, <4>1, <4>2
    <3> QED
      BY <1>7, <3>2, <3>3
  <2>2. \A i \in 1 .. Len(t.tables) : Before(t.tables[i].rows, t.mem)
    BY DEF Ordered
  <2>3. ASSUME NEW i \in 1 .. N + 1 PROVE Before(n.tables[i].rows, n.mem)
    <3>1. CASE i \in 1 .. N
      BY <1>5, <1>6, <2>2, <3>1
    <3>2. CASE i = N + 1
      <4>1. ASSUME NEW r \in x.rows PROVE \E j \in 1 .. Len(t.tables) : r \in t.tables[j].rows
        BY <1>1, <1>2 DEF Merged, AtLevel
      <4> QED
        BY <1>6, <2>2, <3>2, <4>1 DEF Before
    <3> QED
      BY <1>7, <3>1, <3>2
  <2> QED
    BY <1>6, <2>1, <2>3 DEF Ordered
<1>12. ASSUME NEW m \in 0 .. lvl PROVE AtLevel(n, m) = {}
  <2>1. ASSUME NEW i \in 1 .. N + 1 PROVE n.tables[i].level # m
    <3>1. CASE i \in 1 .. N
      BY <1>9, <3>1
    <3>2. CASE i = N + 1
      BY <1>2, <1>6, <3>2
    <3> QED
      BY <1>7, <3>1, <3>2
  <2> QED
    BY <1>1, <1>6, <2>1 DEF AtLevel
<1>13. ASSUME NEW l \in Nat, l # lvl + 1
       PROVE  Cardinality(AtLevel(n, l)) <= Cardinality(AtLevel(t, l))
  <2> DEFINE f == [i \in AtLevel(n, l) |-> p[i]]
  <2>1. AtLevel(n, l) \subseteq 1 .. N
    BY <1>1, <1>2, <1>6, <1>7, <1>13 DEF AtLevel
  <2>2. f \in [AtLevel(n, l) -> AtLevel(t, l)]
    <3>1. \A i \in AtLevel(n, l) : p[i] \in AtLevel(t, l)
      BY <1>1, <1>5, <1>6, <2>1 DEF AtLevel
    <3> QED
      BY <3>1
  <2>3. ASSUME NEW i \in AtLevel(n, l), NEW j \in AtLevel(n, l), f[i] = f[j] PROVE i = j
    <3>1. /\ i \in 1 .. N /\ j \in 1 .. N /\ p[i] = p[j]
          /\ p[i] \in 1 .. Len(t.tables) /\ p[j] \in 1 .. Len(t.tables)
      BY <1>5, <2>1, <2>3
    <3>2. ~(i < j) /\ ~(j < i)
      BY <1>1, <1>5, <3>1
    <3> QED
      BY <1>8, <3>1, <3>2
  <2>4. f \in Injection(AtLevel(n, l), AtLevel(t, l))
    <3> HIDE DEF f
    <3> QED
      BY <2>2, <2>3 DEF Injection, IsInjective
  <2>5. IsFiniteSet(AtLevel(t, l))
    <3>1. IsFiniteSet(1 .. Len(t.tables))
      <4>1. 1 \in Int /\ Len(t.tables) \in Int
        BY <1>1
      <4> QED
        BY ONLY <4>1, FS_Interval
    <3>2. AtLevel(t, l) \subseteq 1 .. Len(t.tables)
      BY <1>1 DEF AtLevel
    <3> QED
      BY <3>1, <3>2, FS_Subset
  <2> HIDE DEF f
  <2> QED
    BY <2>4, <2>5, FS_Injection
<1> QED
  BY <1>11, <1>12, <1>13

----------------------------------------------------------------------------
(* The files that a log can leave.                                         *)

Entry == Record \cup {Damage}

\* The file that a log leaves when everything buffered reaches it, and all
\* the files that it can leave without a half-written record.
All(log) == Written(log, Len(log.buffer))

Images(log) == {Written(log, n) : n \in 0 .. Len(log.buffer)}

LEMMA DamageFacts ==
    ASSUME NEW f \in Seq(Entry)
    PROVE  /\ Damage \notin Record
           /\ Undamaged(f) <=> f \in Seq(Record)
           /\ Undamaged(f) <=> \A i \in 1 .. Len(f) : f[i] # Damage
           /\ Undamaged(f) => Intact(f) = f
<1>1. Damage \notin Record
  <2>1. DOMAIN Damage = {"op"}
    BY DEF Damage
  <2>2. \A r \in Record : DOMAIN r = {"key", "content", "applied"}
    BY DEF Record
  <2> QED
    BY <2>1, <2>2
<1>2. /\ Intact(f) \in Seq(Entry) /\ Continues(Intact(f), f)
      /\ \A i \in 1 .. Len(Intact(f)) : f[i] # Damage
      /\ Len(Intact(f)) < Len(f) => f[Len(Intact(f)) + 1] = Damage
  BY IntactFacts
<1>3. Undamaged(f) => \A i \in 1 .. Len(f) : f[i] # Damage
  BY <1>2 DEF Undamaged
<1>4. ASSUME \A i \in 1 .. Len(f) : f[i] # Damage PROVE Undamaged(f)
  <2>1. {i \in DOMAIN f : f[i] = Damage} = {}
    BY <1>4
  <2> QED
    BY <2>1 DEF Undamaged, Intact
<1>5. f \in Seq(Record) <=> \A i \in 1 .. Len(f) : f[i] # Damage
  <2>1. \A i \in 1 .. Len(f) : f[i] \in Entry
    OBVIOUS
  <2>2. ASSUME \A i \in 1 .. Len(f) : f[i] # Damage PROVE f \in Seq(Record)
    BY <2>1, <2>2 DEF Entry
  <2> QED
    BY <1>1, <2>2
<1> QED
  BY <1>1, <1>3, <1>4, <1>5 DEF Undamaged

LEMMA ImageFacts ==
    ASSUME NEW log \in Logs
    PROVE  /\ log.file \in Seq(Entry) /\ log.buffer \in Seq(Record) /\ log.gap \in BOOLEAN
           /\ Len(log.buffer) \in Nat
           /\ \A n \in 0 .. Len(log.buffer) :
                Written(log, n) \in Seq(Entry) /\ Written(log, n) \o <<Damage>> \in Seq(Entry)
           /\ Images(log) \subseteq Seq(Entry)
           /\ Written(log, 0) = log.file /\ log.file \in Images(log)
           /\ All(log) \in Images(log)
<1>1. /\ log.file \in Seq(Entry) /\ log.buffer \in Seq(Record) /\ log.gap \in BOOLEAN
      /\ log = [file |-> log.file, buffer |-> log.buffer, gap |-> log.gap]
  BY DEF Logs, Entry
<1>2. Len(log.buffer) \in Nat /\ 0 \in 0 .. Len(log.buffer)
      /\ Len(log.buffer) \in 0 .. Len(log.buffer)
  BY <1>1
<1>3. LogOK(Entry, log) /\ Damage \in Entry
  <2>1. log.buffer \in Seq(Entry)
    BY <1>1 DEF Entry
  <2> QED
    BY <1>1, <2>1 DEF LogOK, Entry
<1>4. \A n \in 0 .. Len(log.buffer) :
        Written(log, n) \in Seq(Entry) /\ Written(log, n) \o <<Damage>> \in Seq(Entry)
  BY <1>3, WrittenContinues
<1>5. Written(log, 0) = log.file
  <2> DEFINE hole == IF log.gap /\ 0 > 0 THEN <<Damage>> ELSE << >>
             part == SubSeq(log.buffer, 1, 0)
  <2>1. Written(log, 0) = (log.file \o hole) \o part
    BY DEF Written
  <2>2. hole = << >>
    OBVIOUS
  <2>3. part = << >>
    BY <1>1
  <2> HIDE DEF hole, part
  <2> QED
    BY <1>1, <2>1, <2>2, <2>3
<1> QED
  BY <1>1, <1>2, <1>4, <1>5 DEF Images, All

\* A log with one record more in its buffer.
Whole(log, r) == [file |-> log.file, buffer |-> Append(log.buffer, r), gap |-> log.gap]

LEMMA WholeFacts ==
    ASSUME NEW log \in Logs, NEW r \in Record
    PROVE  /\ Whole(log, r) \in Logs
           /\ Len(Whole(log, r).buffer) = Len(log.buffer) + 1
           /\ Images(Whole(log, r)) = Images(log) \cup {All(Whole(log, r))}
           /\ log.gap => ~Undamaged(All(Whole(log, r)))
           /\ ~log.gap => All(Whole(log, r)) = Append(All(log), r)
<1> DEFINE b == log.buffer
           N == Len(log.buffer)
           whole == Whole(log, r)
<1>1. /\ log.file \in Seq(Entry) /\ b \in Seq(Record) /\ log.gap \in BOOLEAN /\ N \in Nat
  BY ImageFacts
<1>2. /\ whole.file = log.file /\ whole.buffer = Append(b, r) /\ whole.gap = log.gap
      /\ Append(b, r) \in Seq(Record) /\ Len(Append(b, r)) = N + 1
  BY <1>1 DEF Whole
<1>3. whole \in Logs
  BY <1>1, <1>2 DEF Logs, Whole, Entry
<1> HIDE DEF whole
<1>4. ASSUME NEW n \in 0 .. N PROVE Written(whole, n) = Written(log, n)
  <2>1. SubSeq(Append(b, r), 1, n) = SubSeq(b, 1, n)
    <3>1. n \in Nat /\ n <= N
      BY <1>1
    <3>2. /\ SubSeq(Append(b, r), 1, n) \in Seq(Record) /\ Len(SubSeq(Append(b, r), 1, n)) = n
          /\ SubSeq(b, 1, n) \in Seq(Record) /\ Len(SubSeq(b, 1, n)) = n
          /\ \A i \in 1 .. n : SubSeq(Append(b, r), 1, n)[i] = SubSeq(b, 1, n)[i]
      BY <1>1, <1>2, <3>1
    <3> DEFINE x == SubSeq(Append(b, r), 1, n)
               y == SubSeq(b, 1, n)
    <3> HIDE DEF x, y, b, N
    <3>3. x \in Seq(Record) /\ y \in Seq(Record) /\ Len(x) = Len(y)
          /\ \A i \in 1 .. Len(x) : x[i] = y[i]
      BY <3>2 DEF x, y
    <3>4. x = y
      BY <3>3
    <3> QED
      BY <3>4 DEF x, y
  <2> QED
    BY <1>2, <2>1 DEF Written
<1>5. Images(whole) = Images(log) \cup {All(whole)}
  <2>1. \A n : n \in 0 .. N + 1 <=> n \in 0 .. N \/ n = N + 1
    BY <1>1
  <2>2. Images(whole) = {Written(whole, n) : n \in 0 .. N + 1} /\ All(whole) = Written(whole, N + 1)
    BY <1>2 DEF Images, All
  <2> HIDE DEF N
  <2>3. Images(log) = {Written(whole, n) : n \in 0 .. N}
    BY <1>4 DEF Images, N
  <2> QED
    BY <2>1, <2>2, <2>3
<1>6. ASSUME log.gap PROVE ~Undamaged(All(whole))
  <2>1. N + 1 > 0 /\ SubSeq(Append(b, r), 1, N + 1) \in Seq(Entry)
    BY <1>1, <1>2 DEF Entry
  <2> DEFINE part == SubSeq(Append(b, r), 1, N + 1)
             head == log.file \o <<Damage>>
  <2>2. All(whole) = head \o part
    BY <1>2, <1>6, <2>1 DEF All, Written
  <2>3. /\ head \in Seq(Entry) /\ head[Len(log.file) + 1] = Damage
        /\ Len(head) = Len(log.file) + 1 /\ Len(log.file) \in Nat
    BY <1>1 DEF Entry
  <2> HIDE DEF head, part
  <2>4. /\ All(whole) \in Seq(Entry) /\ All(whole)[Len(log.file) + 1] = Damage
        /\ Len(log.file) + 1 \in 1 .. Len(All(whole))
    BY <2>1, <2>2, <2>3 DEF part
  <2> QED
    BY <2>4, DamageFacts
<1>7. ASSUME ~log.gap PROVE All(whole) = Append(All(log), r)
  <2>1. SubSeq(Append(b, r), 1, N + 1) = Append(b, r) /\ SubSeq(b, 1, N) = b
    BY <1>1, <1>2
  <2>2. All(whole) = (log.file \o << >>) \o Append(b, r)
    BY <1>2, <1>7, <2>1 DEF All, Written
  <2>3. All(log) = (log.file \o << >>) \o b
    BY <1>1, <1>7, <2>1 DEF All, Written
  <2>4. log.file \o << >> = log.file
    BY <1>1
  <2>5. log.file \o Append(b, r) = Append(log.file \o b, r)
    <3> DEFINE f == log.file
    <3>1. f \in Seq(Entry) /\ b \in Seq(Entry) /\ r \in Entry
      BY <1>1 DEF Entry
    <3> HIDE DEF f, b
    <3> DEFINE x == f \o Append(b, r)
               y == Append(f \o b, r)
    <3>2. /\ x \in Seq(Entry) /\ y \in Seq(Entry) /\ Len(f) \in Nat /\ Len(b) \in Nat
          /\ Len(x) = Len(f) + (Len(b) + 1) /\ Len(y) = (Len(f) + Len(b)) + 1
      BY <3>1
    <3>3. \A i \in 1 .. Len(f) + Len(b) + 1 : x[i] = y[i]
      BY <3>1
    <3>4. Len(x) = Len(y) /\ \A i \in 1 .. Len(x) : x[i] = y[i]
      BY <3>2, <3>3
    <3> HIDE DEF x, y
    <3>5. x = y
      BY <3>2, <3>4
    <3> QED
      BY <3>5 DEF x, y, f
  <2> QED
    BY <2>2, <2>3, <2>4, <2>5
<1> QED
  BY <1>2, <1>3, <1>5, <1>6, <1>7 DEF whole

LEMMA ReopenedFacts ==
    ASSUME NEW f \in Seq(Entry)
    PROVE  /\ Reopened(f) \in Logs /\ Reopened(f).buffer = << >> /\ ~Reopened(f).gap
           /\ Reopened(f).file = f
           /\ Reopened(f) = [file |-> f, buffer |-> << >>, gap |-> FALSE]
           /\ Images(Reopened(f)) = {f} /\ All(Reopened(f)) = f
<1>1. Reopened(f) = [file |-> f, buffer |-> << >>, gap |-> FALSE]
  <2> DEFINE e == EmptyLog
  <2>1. e = [file |-> << >>, buffer |-> << >>, gap |-> FALSE]
    BY DEF EmptyLog
  <2>2. DOMAIN e = {"file", "buffer", "gap"} /\ e.buffer = << >> /\ e.gap = FALSE
    BY <2>1
  <2>3. Reopened(f) = [e EXCEPT !.file = f]
    BY DEF Reopened
  <2> HIDE DEF e
  <2> QED
    BY <2>2, <2>3
<1>2. /\ Reopened(f) \in Logs /\ Reopened(f).buffer = << >> /\ ~Reopened(f).gap
      /\ Reopened(f).file = f /\ Len(Reopened(f).buffer) = 0
  BY <1>1 DEF Logs, Entry
<1>3. Written(Reopened(f), 0) = f
  BY <1>2, ImageFacts
<1>4. 0 .. 0 = {0}
  OBVIOUS
<1> QED
  BY <1>1, <1>2, <1>3, <1>4 DEF Images, All

LEMMA LoggedImages ==
    ASSUME NEW log \in Logs, NEW r \in Record, NEW new, Logged(log, r, new)
    PROVE  /\ \A f \in Images(new) : f \in Images(log) \/ f = All(new)
           /\ log.gap => ~Undamaged(All(new))
           /\ ~log.gap => ~new.gap /\ All(new) = Append(All(log), r)
<1> DEFINE whole == Whole(log, r)
<1>1. /\ whole \in Logs /\ Len(whole.buffer) = Len(log.buffer) + 1 /\ whole.gap = log.gap
      /\ Images(whole) = Images(log) \cup {All(whole)}
      /\ log.gap => ~Undamaged(All(whole))
      /\ ~log.gap => All(whole) = Append(All(log), r)
  BY WholeFacts DEF Whole
<1>2. CASE new = whole
  BY <1>1, <1>2
<1>3. CASE new = [file |-> All(whole), buffer |-> << >>, gap |-> FALSE]
  <2>1. All(whole) \in Seq(Entry)
    BY <1>1, ImageFacts
  <2>2. new = Reopened(All(whole))
    BY <1>3, <2>1, ReopenedFacts
  <2>3. Images(new) = {All(whole)} /\ All(new) = All(whole) /\ ~new.gap
    BY <2>1, <2>2, ReopenedFacts
  <2> QED
    BY <1>1, <2>3
<1> QED
  <2>1. new = whole \/ new = [file |-> Written(whole, Len(log.buffer) + 1), buffer |-> << >>,
                              gap |-> FALSE]
    BY DEF Logged, Whole
  <2>2. Written(whole, Len(log.buffer) + 1) = All(whole)
    BY <1>1 DEF All
  <2> QED
    BY <1>2, <1>3, <2>1, <2>2

LEMMA LostImages ==
    ASSUME NEW log \in Logs
    PROVE  Images(Lost(log)) \subseteq Images(log) /\ Lost(log).gap /\ Lost(log) \in Logs
<1>1. Lost(log) \in Logs /\ Lost(log).file = log.file /\ Lost(log).buffer = << >> /\ Lost(log).gap
  BY DEF Lost, Logs
<1>2. Images(Lost(log)) = {log.file}
  <2>1. Written(Lost(log), 0) = log.file
    BY <1>1, ImageFacts
  <2>2. Len(Lost(log).buffer) = 0 /\ 0 .. 0 = {0}
    BY <1>1
  <2> QED
    BY <2>1, <2>2 DEF Images
<1> QED
  BY <1>1, <1>2, ImageFacts

\* What a crash or a shutdown leaves is damaged or an image.
LEMMA LeftImages ==
    ASSUME NEW log \in Logs
    PROVE  /\ \A f \in CrashFiles(log) :
                f \in Seq(Entry) /\ (f \in Images(log) \/ ~Undamaged(f))
           /\ \A succeeds :
                LET f == FlushAsync(log, succeeds).file
                IN f \in Seq(Entry) /\ f \in Images(log)
<1>1. /\ \A n \in 0 .. Len(log.buffer) :
                Written(log, n) \in Seq(Entry) /\ Written(log, n) \o <<Damage>> \in Seq(Entry)
      /\ Len(log.buffer) \in Nat /\ log.file \in Images(log) /\ All(log) \in Images(log)
      /\ Images(log) \subseteq Seq(Entry)
  BY ImageFacts
<1>2. ASSUME NEW f \in CrashFiles(log)
      PROVE  f \in Seq(Entry) /\ (f \in Images(log) \/ ~Undamaged(f))
  <2>1. CASE f \in Images(log)
    BY <1>1, <2>1
  <2>2. ASSUME NEW n \in 0 .. Len(log.buffer) - 1, f = Written(log, n) \o <<Damage>>
        PROVE  f \in Seq(Entry) /\ ~Undamaged(f)
    <3>1. n \in 0 .. Len(log.buffer)
      BY <1>1
    <3> DEFINE w == Written(log, n)
    <3>2. w \in Seq(Entry) /\ f \in Seq(Entry) /\ f = w \o <<Damage>>
      BY <1>1, <2>2, <3>1
    <3> HIDE DEF w
    <3>3. Len(f) = Len(w) + 1 /\ Len(w) + 1 \in 1 .. Len(f) /\ f[Len(w) + 1] = Damage
      BY <3>2
    <3> QED
      BY <3>2, <3>3, DamageFacts
  <2> QED
    BY <2>1, <2>2 DEF CrashFiles, Images
<1>3. ASSUME NEW succeeds
      PROVE  FlushAsync(log, succeeds).file \in Images(log)
  <2>1. FlushAsync(log, succeeds) = log
          \/ FlushAsync(log, succeeds) = [file |-> All(log), buffer |-> << >>, gap |-> FALSE]
          \/ FlushAsync(log, succeeds) = [log EXCEPT !.buffer = << >>, !.gap = TRUE]
    BY Zenon DEF FlushAsync, All
  <2>2. [log EXCEPT !.buffer = << >>, !.gap = TRUE].file = log.file
    BY DEF Logs
  <2>3. CASE FlushAsync(log, succeeds) = log
    BY <1>1, <2>3
  <2>4. CASE FlushAsync(log, succeeds) = [file |-> All(log), buffer |-> << >>, gap |-> FALSE]
    <3>1. FlushAsync(log, succeeds).file = All(log)
      BY ONLY <2>4
    <3> QED
      BY <1>1, <3>1
  <2>5. CASE FlushAsync(log, succeeds) = [log EXCEPT !.buffer = << >>, !.gap = TRUE]
    <3>1. FlushAsync(log, succeeds).file = log.file
      BY ONLY <2>2, <2>5
    <3> QED
      BY <1>1, <3>1
  <2> QED
    BY <2>1, <2>3, <2>4, <2>5, Zenon
<1> QED
  BY <1>1, <1>2, <1>3

\* Every record of a file has been carried out; a replay of it outgrows the memtable.
Clean(f) == \A i \in DOMAIN f : f[i].applied

Heavy(f) == Size(Replayed(f)) > MemtableSize

LEMMA ReplayedFacts ==
    ASSUME NEW f \in Seq(Record)
    PROVE  /\ Told(Replayed(f), Len(f)) /\ IsFiniteSet(Replayed(f)) /\ Size(Replayed(f)) \in Nat
           /\ \A q \in Replayed(f) : \E i \in 1 .. Len(f) :
                q.key = f[i].key /\ q.content = f[i].content /\ q.seq = i - 1
           /\ Replayed(f) \subseteq [key : Key, content : Content, seq : 0 .. Len(f) - 1]
<1>1. DOMAIN f = 1 .. Len(f) /\ Len(f) \in Nat /\ \A i \in 1 .. Len(f) : f[i] \in Record
  OBVIOUS
<1>2. \A i \in 1 .. Len(f) : f[i].key \in Key /\ f[i].content \in Content
  BY <1>1 DEF Record
<1>3. \A q \in Replayed(f) : \E i \in 1 .. Len(f) :
          q = [key |-> f[i].key, content |-> f[i].content, seq |-> i - 1]
  BY <1>1 DEF Replayed
<1>4. \A q \in Replayed(f) : \E i \in 1 .. Len(f) :
          q.key = f[i].key /\ q.content = f[i].content /\ q.seq = i - 1
  BY <1>3
<1>5. Told(Replayed(f), Len(f))
  <2>1. ASSUME NEW q \in Replayed(f) PROVE q.seq \in Nat /\ q.seq < Len(f)
    BY <1>1, <1>4
  <2>2. ASSUME NEW q \in Replayed(f), NEW r \in Replayed(f), q.seq = r.seq PROVE q = r
    <3>1. PICK i \in 1 .. Len(f) : q = [key |-> f[i].key, content |-> f[i].content, seq |-> i - 1]
      BY <1>3
    <3>2. PICK j \in 1 .. Len(f) : r = [key |-> f[j].key, content |-> f[j].content, seq |-> j - 1]
      BY <1>3
    <3>3. i - 1 = j - 1
      BY <2>2, <3>1, <3>2
    <3>4. i = j
      BY <1>1, <3>3
    <3> QED
      BY <3>1, <3>2, <3>4
  <2> QED
    BY <1>1, <2>1, <2>2 DEF Told
<1>6. IsFiniteSet(Replayed(f)) /\ Size(Replayed(f)) \in Nat
  BY <1>5, ToldFinite, SizeFacts
<1>7. Replayed(f) \subseteq [key : Key, content : Content, seq : 0 .. Len(f) - 1]
  BY <1>1, <1>2, <1>3
<1> QED
  BY <1>4, <1>5, <1>6, <1>7

\* One more record is one more row, newer than the others.
LEMMA ReplayedAppend ==
    ASSUME NEW f \in Seq(Record), NEW r \in Record
    PROVE  /\ Append(f, r) \in Seq(Record) /\ Len(Append(f, r)) = Len(f) + 1
           /\ \A i \in 1 .. Len(f) : Append(f, r)[i] = f[i]
           /\ Append(f, r)[Len(f) + 1] = r
           /\ Size(Replayed(Append(f, r))) = Size(Replayed(f)) + EntrySize(r.content)
           /\ \A k : ContentIn(RowsOf(Replayed(Append(f, r)), k)) =
                IF k = r.key THEN r.content ELSE ContentIn(RowsOf(Replayed(f), k))
           /\ Clean(Append(f, r)) <=> Clean(f) /\ r.applied
<1> DEFINE g == Append(f, r)
           row == [key |-> r.key, content |-> r.content, seq |-> Len(f)]
           rows == Replayed(f)
           N == Len(f)
<1>1. /\ g \in Seq(Record) /\ Len(g) = N + 1 /\ g[N + 1] = r /\ \A i \in 1 .. N : g[i] = f[i]
      /\ N \in Nat /\ DOMAIN f = 1 .. N /\ DOMAIN g = 1 .. N + 1
  OBVIOUS
<1>2. \A i : i \in 1 .. N + 1 <=> i \in 1 .. N \/ i = N + 1
  BY <1>1
<1>3. row.key = r.key /\ row.content = r.content /\ row.seq = N
  OBVIOUS
<1> HIDE DEF g
<1>4. Replayed(g) = rows \cup {row}
  <2> DEFINE image(h, i) == [key |-> h[i].key, content |-> h[i].content, seq |-> i - 1]
  <2>1. Replayed(g) = {image(g, i) : i \in 1 .. N + 1} /\ rows = {image(f, i) : i \in 1 .. N}
    BY <1>1 DEF Replayed
  <2>2. \A i \in 1 .. N : image(g, i) = image(f, i)
    BY <1>1
  <2>3. image(g, N + 1) = row
    BY <1>1
  <2> HIDE DEF image, row, rows, N
  <2> QED
    BY <1>2, <2>1, <2>2, <2>3
<1>5. Told(rows, N) /\ IsFiniteSet(rows)
  BY ReplayedFacts
<1>6. /\ row.seq \in Nat /\ N + 1 \in Nat /\ row.seq < N + 1
      /\ \A q \in rows : q.seq < row.seq
  BY <1>1, <1>3, <1>5 DEF Told
<1> DEFINE c == N + 1
<1> HIDE DEF rows, N, row, c
<1>7. /\ row \notin rows
      /\ \A k : ContentIn(RowsOf(rows \cup {row}, k)) =
                IF k = row.key THEN row.content ELSE ContentIn(RowsOf(rows, k))
  <2>1. c \in Nat /\ row.seq < c
    BY <1>6 DEF c
  <2> QED
    BY <1>5, <1>6, <2>1, RowAdded
<1>8. Size(rows \cup {row}) = Size(rows) + EntrySize(row.content)
  BY <1>5, <1>7, SizeFacts
<1>9. Clean(g) <=> Clean(f) /\ r.applied
  BY <1>1, <1>2 DEF Clean
<1> QED
  BY <1>1, <1>3, <1>4, <1>7, <1>8, <1>9 DEF g, rows, N

----------------------------------------------------------------------------
(* What a log and a tree have to do with each other.                       *)

\* A file that can be left without damage is carried out in full, or is one
\* that no memtable has room for; and what it carries out was once held.
LogInv(log, h) ==
    \A f \in Images(log) : Undamaged(f) =>
        /\ Clean(f) \/ Heavy(f)
        /\ \A i \in DOMAIN f : f[i].applied => f[i].content \in h[f[i].key]

\* While nothing is lost, a replay weighs at least as much as the memtable,
\* and gives the same contents if all of it has been carried out.
UpInv(t) ==
    ~t.log.gap /\ Undamaged(All(t.log)) =>
        /\ Size(t.mem) <= Size(Replayed(All(t.log)))
        /\ Clean(All(t.log)) =>
             \A k \in Key : ContentIn(RowsOf(Replayed(All(t.log)), k)) = Latest(t, k)

RowsHeld(t, h) == \A r \in AllRows(t) : r.content \in h[r.key]

Changed(t, k, content, n) ==
    \A j : Latest(n, j) = IF j = k THEN content ELSE Latest(t, j)

Unchanged(t, n) == \A j : Latest(n, j) = Latest(t, j)

\* A mutation that ends well changes the content of its key; one that does
\* not may have done so.
LEMMA MutateFacts ==
    ASSUME NEW t, Sound(t), NEW k \in Key, NEW content \in Content, NEW fault \in WriteFaults,
           NEW n, NEW end, n = Mutate(t, k, content, fault).tree,
           end = Mutate(t, k, content, fault).end
    PROVE  /\ Sound(n) /\ Outcome(t, k, content, fault, n, end)
           /\ end \in {"ok", "io", "full", "overflow"} /\ (end = "io" => fault # "none")
           /\ end = "ok" => Changed(t, k, content, n)
           /\ Changed(t, k, content, n) \/ Unchanged(t, n)
           /\ Ordered(t) => Ordered(n)
           /\ \A l \in Nat \ {0} : AtLevel(n, l) = AtLevel(t, l)
<1>1. /\ n \in Trees /\ Len(n.log.buffer) < FlushThreshold
      /\ Outcome(t, k, content, fault, n, end)
  BY MutateCases
<1>2. t \in Trees
  BY DEF Sound
<1>3. end \in {"ok", "io", "full", "overflow"} /\ (end = "io" => fault # "none")
  BY <1>1 DEF Outcome
<1>4. CASE end = "overflow" /\ n = t
  BY <1>1, <1>3, <1>4 DEF Unchanged
<1>5. ASSUME n.mem = t.mem, n.tables = t.tables,
             n.sequence = t.sequence \/ n.sequence = t.sequence + 1, end # "ok"
      PROVE  /\ Sound(n) /\ Unchanged(t, n) /\ (Ordered(t) => Ordered(n))
             /\ \A l \in Nat \ {0} : AtLevel(n, l) = AtLevel(t, l)
  <2>1. AllRows(n) = AllRows(t)
    BY <1>5 DEF AllRows
  <2>2. Told(AllRows(t), t.sequence) /\ n.sequence \in Nat
    BY <1>1, SoundFacts DEF Sound
  <2>3. Told(AllRows(n), n.sequence)
    BY <1>5, <2>1, <2>2 DEF Told
  <2>4. Sound(n)
    BY <1>1, <1>5, <2>3 DEF Sound
  <2>5. Unchanged(t, n)
    BY <2>1 DEF Unchanged, Latest
  <2>6. Ordered(t) => Ordered(n)
    BY <1>5 DEF Ordered
  <2>7. \A l \in Nat \ {0} : AtLevel(n, l) = AtLevel(t, l)
    BY <1>5 DEF AtLevel
  <2> QED
    BY <2>4, <2>5, <2>6, <2>7
<1>6. ASSUME Inserted(t, [key |-> k, content |-> content, seq |-> t.sequence], n),
             n.sequence = t.sequence + 1, Fits(t.mem, content)
      PROVE  /\ Sound(n) /\ Changed(t, k, content, n) /\ (Ordered(t) => Ordered(n))
             /\ \A l \in Nat \ {0} : AtLevel(n, l) = AtLevel(t, l)
  <2>1. /\ Told(AllRows(n), n.sequence)
        /\ Size(n.mem) <= MemtableSize
        /\ \A i \in 1 .. Len(n.tables) : n.tables[i].rows # {}
        /\ \A j : Latest(n, j) = IF j = k THEN content ELSE Latest(t, j)
        /\ Ordered(t) => Ordered(n)
        /\ \A l \in Nat \ {0} : AtLevel(n, l) = AtLevel(t, l)
    BY <1>1, <1>6, InsertedFacts
  <2> QED
    BY <1>1, <2>1 DEF Sound, Changed
<1> QED
  BY <1>1, <1>3, <1>4, <1>5, <1>6 DEF Outcome

\* Logging keeps what a log and a tree have to do with each other.
LEMMA MutateKeeps ==
    ASSUME NEW t, Sound(t), NEW k \in Key, NEW content \in Content, NEW fault \in WriteFaults,
           NEW n, NEW end, Outcome(t, k, content, fault, n, end), Sound(n),
           Changed(t, k, content, n) \/ Unchanged(t, n),
           NEW g, NEW h, LogInv(t.log, g), UpInv(t), RowsHeld(t, g),
           \A j \in Key : g[j] \subseteq h[j], Changed(t, k, content, n) => content \in h[k]
    PROVE  LogInv(n.log, h) /\ UpInv(n) /\ RowsHeld(n, h)
<1>1. /\ t \in Trees /\ n \in Trees /\ t.log \in Logs /\ n.log \in Logs
      /\ AllRows(t) \subseteq Row /\ t.sequence \in Nat
  BY SoundFacts DEF Sound
<1>2. /\ Images(t.log) \subseteq Seq(Entry) /\ Images(n.log) \subseteq Seq(Entry)
      /\ All(t.log) \in Images(t.log) /\ All(n.log) \in Images(n.log)
  BY <1>1, ImageFacts
<1>3. RowsHeld(t, h)
  <2>1. \A r \in AllRows(t) : r.key \in Key
    BY <1>1 DEF Row
  <2> QED
    BY <2>1 DEF RowsHeld
<1>4. ASSUME NEW f \in Images(t.log), Undamaged(f)
      PROVE  /\ f \in Seq(Record) /\ (Clean(f) \/ Heavy(f))
             /\ \A i \in DOMAIN f : f[i].applied => f[i].content \in h[f[i].key]
  <2>1. f \in Seq(Record)
    BY <1>2, <1>4, DamageFacts
  <2>2. \A i \in DOMAIN f : f[i].key \in Key
    <3>1. \A i \in DOMAIN f : f[i] \in Record
      BY <2>1
    <3> QED
      BY <3>1 DEF Record
  <2> QED
    BY <1>4, <2>1, <2>2 DEF LogInv
<1>5. ASSUME n.mem = t.mem, n.tables = t.tables
      PROVE  AllRows(n) = AllRows(t) /\ RowsHeld(n, h) /\ \A j : Latest(n, j) = Latest(t, j)
  <2>1. AllRows(n) = AllRows(t)
    BY <1>5 DEF AllRows
  <2> QED
    BY <1>3, <2>1 DEF RowsHeld, Latest
<1>6. ASSUME NEW f \in Images(n.log), f \in Images(t.log), Undamaged(f)
      PROVE  /\ Clean(f) \/ Heavy(f)
             /\ \A i \in DOMAIN f : f[i].applied => f[i].content \in h[f[i].key]
  BY <1>4, <1>6
<1>7. CASE n = t
  BY <1>3, <1>6, <1>7 DEF LogInv
<1>8. CASE n.log = Lost(t.log) /\ n.mem = t.mem /\ n.tables = t.tables
  <2>1. Images(n.log) \subseteq Images(t.log) /\ n.log.gap
    BY <1>1, <1>8, LostImages
  <2> QED
    BY <1>5, <1>6, <1>8, <2>1 DEF LogInv, UpInv
<1>9. ASSUME NEW applied \in BOOLEAN,
             Logged(t.log, [key |-> k, content |-> content, applied |-> applied], n.log),
             Size(n.mem) <= Size(t.mem) + EntrySize(content),
             applied => Changed(t, k, content, n),
             ~applied => ~Fits(t.mem, content)
      PROVE  LogInv(n.log, h) /\ UpInv(n)
  <2> DEFINE r == [key |-> k, content |-> content, applied |-> applied]
             old == All(t.log)
             new == All(n.log)
  <2>1. r \in Record /\ r.key = k /\ r.content = content /\ r.applied = applied
    BY DEF Record
  <2>2. Logged(t.log, r, n.log)
    BY <1>9
  <2> HIDE DEF r
  <2>3. /\ \A f \in Images(n.log) : f \in Images(t.log) \/ f = new
        /\ t.log.gap => ~Undamaged(new)
        /\ ~t.log.gap => ~n.log.gap /\ new = Append(old, r)
    BY <1>1, <2>1, <2>2, LoggedImages
  <2> HIDE DEF old, new
  <2>4. new \in Seq(Entry) /\ new \in Images(n.log) /\ old \in Seq(Entry) /\ old \in Images(t.log)
    BY <1>2 DEF old, new
  <2>5. ASSUME Undamaged(new)
        PROVE  /\ ~t.log.gap /\ new = Append(old, r) /\ Undamaged(old) /\ old \in Seq(Record)
               /\ Size(t.mem) <= Size(Replayed(old))
    <3>1. ~t.log.gap /\ new = Append(old, r) /\ new \in Seq(Record)
      BY <2>3, <2>4, <2>5, DamageFacts
    <3>2. old \in Seq(Record)
      <4>1. Len(old) \in Nat /\ Len(new) = Len(old) + 1 /\ \A i \in 1 .. Len(old) : new[i] = old[i]
        BY <2>4, <3>1
      <4>2. \A i \in 1 .. Len(old) : old[i] \in Record
        BY <3>1, <4>1
      <4> QED
        BY <2>4, <4>1, <4>2
    <3>3. Undamaged(old)
      BY <2>4, <3>2, DamageFacts
    <3> QED
      BY <3>1, <3>2, <3>3 DEF UpInv, old
  <2>6. ASSUME Undamaged(new)
        PROVE  /\ Len(new) = Len(old) + 1 /\ Len(old) \in Nat
               /\ DOMAIN new = 1 .. Len(new) /\ DOMAIN old = 1 .. Len(old)
               /\ \A i \in 1 .. Len(old) : new[i] = old[i]
               /\ new[Len(old) + 1] = r
               /\ Size(Replayed(new)) = Size(Replayed(old)) + EntrySize(content)
               /\ \A j : ContentIn(RowsOf(Replayed(new), j)) =
                    IF j = k THEN content ELSE ContentIn(RowsOf(Replayed(old), j))
               /\ Clean(new) <=> Clean(old) /\ applied
               /\ Size(Replayed(old)) \in Nat
    <3>1. old \in Seq(Record) /\ new = Append(old, r)
      BY <2>5, <2>6
    <3>2. /\ new \in Seq(Record) /\ Len(new) = Len(old) + 1
          /\ \A i \in 1 .. Len(old) : new[i] = old[i]
          /\ new[Len(old) + 1] = r
          /\ Size(Replayed(new)) = Size(Replayed(old)) + EntrySize(r.content)
          /\ \A j : ContentIn(RowsOf(Replayed(new), j)) =
                IF j = r.key THEN r.content ELSE ContentIn(RowsOf(Replayed(old), j))
          /\ Clean(new) <=> Clean(old) /\ r.applied
      BY <2>1, <3>1, ReplayedAppend
    <3>3. Size(Replayed(old)) \in Nat /\ Len(old) \in Nat
      BY <3>1, ReplayedFacts
    <3>4. DOMAIN new = 1 .. Len(new) /\ DOMAIN old = 1 .. Len(old)
      BY <3>1, <3>2
    <3> QED
      BY <2>1, <3>2, <3>3, <3>4
  <2>7. /\ IsFiniteSet(t.mem) /\ Size(t.mem) \in Nat /\ IsFiniteSet(n.mem) /\ Size(n.mem) \in Nat
        /\ EntrySize(content) \in Nat \ {0} /\ MemtableSize \in Nat
    <3>1. Told(t.mem, t.sequence) /\ Told(n.mem, n.sequence)
      BY <1>1, SoundFacts, ToldPart DEF Sound
    <3>2. IsFiniteSet(t.mem) /\ IsFiniteSet(n.mem)
      BY <3>1, ToldFinite
    <3> QED
      BY <3>2, SizeFacts, SizeAssumption
  <2>8. ASSUME Undamaged(new) PROVE Clean(new) \/ Heavy(new)
    <3>1. CASE applied /\ Clean(old)
      BY <2>6, <2>8, <3>1
    <3>2. CASE ~applied
      <4>1. Size(t.mem) + EntrySize(content) > MemtableSize
        BY <1>9, <2>7, <3>2 DEF Fits
      <4> QED
        BY <2>5, <2>6, <2>7, <2>8, <4>1 DEF Heavy
    <3>3. CASE ~Clean(old)
      <4>1. Heavy(old)
        BY <1>4, <2>4, <2>5, <2>8, <3>3
      <4> QED
        BY <2>6, <2>7, <2>8, <4>1 DEF Heavy
    <3> QED
      BY <3>1, <3>2, <3>3
  <2>9. ASSUME Undamaged(new), NEW i \in DOMAIN new, new[i].applied
        PROVE  new[i].content \in h[new[i].key]
    <3>1. CASE i \in 1 .. Len(old)
      BY <1>4, <2>4, <2>5, <2>6, <2>9, <3>1
    <3>2. CASE i = Len(old) + 1
      BY <1>9, <2>1, <2>6, <2>9, <3>2
    <3> QED
      BY <2>6, <2>9, <3>1, <3>2
  <2>10. LogInv(n.log, h)
    <3>1. ASSUME NEW f \in Images(n.log), Undamaged(f)
          PROVE  /\ Clean(f) \/ Heavy(f)
                 /\ \A i \in DOMAIN f : f[i].applied => f[i].content \in h[f[i].key]
      <4>1. CASE f \in Images(t.log)
        BY <1>6, <3>1, <4>1
      <4>2. CASE f = new
        BY <2>8, <2>9, <3>1, <4>2
      <4> QED
        BY <2>3, <4>1, <4>2
    <3> QED
      BY <3>1 DEF LogInv
  <2>11. UpInv(n)
    <3>1. ASSUME Undamaged(new)
          PROVE  Size(n.mem) <= Size(Replayed(new))
      BY <1>9, <2>5, <2>6, <2>7, <3>1
    <3>2. ASSUME Undamaged(new), Clean(new), NEW j \in Key
          PROVE  ContentIn(RowsOf(Replayed(new), j)) = Latest(n, j)
      <4>1. applied /\ Clean(old)
        BY <2>6, <3>2
      <4>2. Latest(n, j) = IF j = k THEN content ELSE Latest(t, j)
        BY <1>9, <4>1 DEF Changed
      <4>3. ContentIn(RowsOf(Replayed(old), j)) = Latest(t, j)
        BY <2>5, <3>2, <4>1 DEF UpInv, old
      <4>4. ContentIn(RowsOf(Replayed(new), j)) =
                IF j = k THEN content ELSE ContentIn(RowsOf(Replayed(old), j))
        BY <2>6, <3>2
      <4> QED
        BY <4>2, <4>3, <4>4
    <3> QED
      BY <3>1, <3>2 DEF UpInv, new
  <2> QED
    BY <2>10, <2>11
<1>10. CASE /\ ~Fits(t.mem, content)
            /\ Logged(t.log, [key |-> k, content |-> content, applied |-> FALSE], n.log)
            /\ n.mem = t.mem /\ n.tables = t.tables
  <2>1. Size(n.mem) <= Size(t.mem) + EntrySize(content)
    <3>1. Told(t.mem, t.sequence)
      BY <1>1, SoundFacts, ToldPart DEF Sound
    <3>2. Size(t.mem) \in Nat /\ EntrySize(content) \in Nat
      BY <3>1, ToldFinite, SizeFacts
    <3> QED
      BY <1>10, <3>2
  <2> QED
    BY <1>5, <1>9, <1>10, <2>1
<1>11. ASSUME Fits(t.mem, content),
              Logged(t.log, [key |-> k, content |-> content, applied |-> TRUE], n.log),
              Inserted(t, [key |-> k, content |-> content, seq |-> t.sequence], n),
              n.sequence = t.sequence + 1
       PROVE  LogInv(n.log, h) /\ UpInv(n) /\ RowsHeld(n, h)
  <2> DEFINE row == [key |-> k, content |-> content, seq |-> t.sequence]
  <2>1. /\ Size(n.mem) <= Size(t.mem) + EntrySize(content)
        /\ \A r \in AllRows(n) : r = row \/ r \in AllRows(t)
        /\ \A j : Latest(n, j) = IF j = k THEN content ELSE Latest(t, j)
    BY <1>1, <1>11, InsertedFacts
  <2>2. Changed(t, k, content, n) /\ content \in h[k]
    BY <2>1 DEF Changed
  <2>3. RowsHeld(n, h)
    <3>1. row.key = k /\ row.content = content
      OBVIOUS
    <3> HIDE DEF row
    <3> QED
      BY <1>3, <2>1, <2>2, <3>1 DEF RowsHeld
  <2>4. LogInv(n.log, h) /\ UpInv(n)
    BY <1>9, <1>11, <2>1, <2>2
  <2> QED
    BY <2>3, <2>4
<1> QED
  BY <1>7, <1>5, <1>8, <1>10, <1>11 DEF Outcome

----------------------------------------------------------------------------
(* Buffers: the newest copy of a key hides what is below.                  *)

Over(b, k, below) ==
    LET copies == {i \in DOMAIN b : b[i].key = k}
    IN IF copies = {} THEN below ELSE b[Max(copies)].content

LEMMA OverFacts ==
    ASSUME NEW b \in Seq(Change), NEW k
    PROVE  \/ /\ \A i \in 1 .. Len(b) : b[i].key # k
              /\ \A x : Over(b, k, x) = x
           \/ \E i \in 1 .. Len(b) :
                /\ b[i].key = k /\ \A j \in 1 .. Len(b) : b[j].key = k => j <= i
                /\ \A x : Over(b, k, x) = b[i].content
<1> DEFINE copies == {i \in DOMAIN b : b[i].key = k}
<1>1. DOMAIN b = 1 .. Len(b) /\ Len(b) \in Nat
  OBVIOUS
<1>2. CASE copies = {}
  <2>1. \A x : Over(b, k, x) = x
    BY <1>2 DEF Over
  <2> QED
    BY <1>1, <1>2, <2>1
<1>3. CASE copies # {}
  <2>1. copies \subseteq Nat /\ \A j \in copies : j <= Len(b)
    BY <1>1
  <2>2. Max(copies) \in copies /\ \A j \in copies : j <= Max(copies)
    <3> HIDE DEF copies
    <3> QED
      BY <1>1, <1>3, <2>1, MaxFacts
  <2>3. \A x : Over(b, k, x) = b[Max(copies)].content
    BY <1>3 DEF Over
  <2> QED
    BY <1>1, <2>2, <2>3
<1> QED
  BY <1>2, <1>3

\* The last copy of a key, wherever it is known to be, is what is found.
LEMMA OverLast ==
    ASSUME NEW b \in Seq(Change), NEW i \in 1 .. Len(b), NEW x,
           \A j \in 1 .. Len(b) : b[j].key = b[i].key => j <= i
    PROVE  Over(b, b[i].key, x) = b[i].content
<1> DEFINE k == b[i].key
<1>1. PICK m \in 1 .. Len(b) : /\ b[m].key = k /\ \A j \in 1 .. Len(b) : b[j].key = k => j <= m
                               /\ \A y : Over(b, k, y) = b[m].content
  BY OverFacts
<1>2. m = i
  <2>1. m <= i /\ i <= m
    BY <1>1
  <2> QED
    BY <2>1
<1> QED
  BY <1>1, <1>2

LEMMA OverNone ==
    ASSUME NEW b \in Seq(Change), NEW k, \A i \in 1 .. Len(b) : b[i].key # k, NEW x
    PROVE  Over(b, k, x) = x
BY OverFacts

LEMMA OverAppend ==
    ASSUME NEW b \in Seq(Change), NEW e \in Change, NEW k, NEW x
    PROVE  Over(Append(b, e), k, x) = IF k = e.key THEN e.content ELSE Over(b, k, x)
<1> DEFINE c == Append(b, e)
           N == Len(b)
<1>1. /\ c \in Seq(Change) /\ Len(c) = N + 1 /\ N \in Nat /\ c[N + 1] = e
      /\ \A i \in 1 .. N : c[i] = b[i]
      /\ \A i \in 1 .. N + 1 : i \in 1 .. N \/ i = N + 1
  OBVIOUS
<1> HIDE DEF c
<1>2. CASE k = e.key
  <2>1. N + 1 \in 1 .. Len(c) /\ \A j \in 1 .. Len(c) : j <= N + 1
    BY <1>1
  <2>2. Over(c, c[N + 1].key, x) = c[N + 1].content
    BY <1>1, <2>1, OverLast
  <2> QED
    BY <1>1, <1>2, <2>2 DEF c
<1>3. CASE k # e.key /\ \A i \in 1 .. N : b[i].key # k
  <2>1. \A i \in 1 .. Len(c) : c[i].key # k
    BY <1>1, <1>3
  <2>2. Over(c, k, x) = x /\ Over(b, k, x) = x
    BY <1>1, <1>3, <2>1, OverNone
  <2> QED
    BY <1>3, <2>2 DEF c
<1>4. ASSUME k # e.key, NEW i \in 1 .. N, b[i].key = k,
             \A j \in 1 .. N : b[j].key = k => j <= i, Over(b, k, x) = b[i].content
      PROVE  Over(c, k, x) = Over(b, k, x)
  <2>1. i \in 1 .. Len(c) /\ c[i] = b[i] /\ \A j \in 1 .. Len(c) : c[j].key = c[i].key => j <= i
    BY <1>1, <1>4
  <2>2. Over(c, c[i].key, x) = c[i].content
    BY <1>1, <2>1, OverLast
  <2> QED
    BY <1>4, <2>1, <2>2
<1> QED
  <2>1. \/ \A i \in 1 .. N : b[i].key # k
        \/ \E i \in 1 .. N : /\ b[i].key = k /\ \A j \in 1 .. N : b[j].key = k => j <= i
                             /\ Over(b, k, x) = b[i].content
    BY OverFacts
  <2> QED
    BY <1>2, <1>3, <1>4, <2>1 DEF c

LEMMA OverHead ==
    ASSUME NEW b \in Seq(Change), b # << >>, NEW k, NEW x
    PROVE  /\ Tail(b) \in Seq(Change) /\ Head(b) \in Change
           /\ Over(b, k, x) =
                Over(Tail(b), k, IF k = Head(b).key THEN Head(b).content ELSE x)
           /\ k = Head(b).key => \A y : Over(b, k, x) = Over(b, k, y)
<1> DEFINE c == Tail(b)
           N == Len(b)
           y == IF k = Head(b).key THEN Head(b).content ELSE x
<1>1. /\ c \in Seq(Change) /\ Len(c) = N - 1 /\ N \in Nat /\ N > 0 /\ Head(b) = b[1]
      /\ Head(b) \in Change
      /\ \A i \in 1 .. N - 1 : c[i] = b[i + 1] /\ i + 1 \in 1 .. N
      /\ \A i \in 1 .. N : i = 1 \/ i - 1 \in 1 .. N - 1
  OBVIOUS
<1>2. \A i \in 1 .. N : i # 1 => c[i - 1] = b[i]
  <2>1. ASSUME NEW i \in 1 .. N, i # 1 PROVE c[i - 1] = b[i]
    <3>1. i - 1 \in 1 .. N - 1 /\ (i - 1) + 1 = i
      BY <1>1, <2>1
    <3> HIDE DEF c
    <3>2. c[i - 1] = b[(i - 1) + 1]
      BY <1>1, <3>1
    <3> QED
      BY <3>1, <3>2
  <2> QED
    BY <2>1
<1> HIDE DEF c, y
<1>3. ASSUME \A i \in 1 .. Len(c) : c[i].key # k
      PROVE  Over(b, k, x) = Over(c, k, y)
  <2>1. Over(c, k, y) = y
    BY <1>1, <1>3, OverNone
  <2>2. ASSUME NEW i \in 1 .. N, b[i].key = k PROVE i = 1
    BY <1>1, <1>2, <1>3, <2>2
  <2>3. CASE Head(b).key = k
    <3>1. 1 \in 1 .. N /\ \A j \in 1 .. N : b[j].key = b[1].key => j <= 1
      BY <1>1, <2>2, <2>3
    <3>2. Over(b, b[1].key, x) = b[1].content
      BY <3>1, OverLast
    <3> QED
      BY <1>1, <2>1, <2>3, <3>2 DEF y
  <2>4. CASE Head(b).key # k
    <3>1. \A i \in 1 .. N : b[i].key # k
      BY <1>1, <2>2, <2>4
    <3>2. Over(b, k, x) = x
      BY <3>1, OverNone
    <3> QED
      BY <2>1, <2>4, <3>2 DEF y
  <2> QED
    BY <2>3, <2>4
<1>4. ASSUME NEW i \in 1 .. Len(c), c[i].key = k,
             \A j \in 1 .. Len(c) : c[j].key = k => j <= i, Over(c, k, y) = c[i].content
      PROVE  Over(b, k, x) = Over(c, k, y)
  <2>1. i + 1 \in 1 .. N /\ b[i + 1] = c[i] /\ i \in Nat
    BY <1>1, <1>4
  <2>2. ASSUME NEW j \in 1 .. N, b[j].key = b[i + 1].key PROVE j <= i + 1
    <3>1. CASE j = 1
      BY <2>1, <3>1
    <3>2. CASE j # 1
      <4>1. j - 1 \in 1 .. Len(c) /\ c[j - 1].key = k
        BY <1>1, <1>2, <1>4, <2>1, <2>2, <3>2
      <4>2. j - 1 <= i
        BY <1>4, <4>1
      <4> QED
        BY <2>1, <4>2
    <3> QED
      BY <3>1, <3>2
  <2>3. Over(b, b[i + 1].key, x) = b[i + 1].content
    BY <2>1, <2>2, OverLast
  <2> QED
    BY <1>4, <2>1, <2>3
<1>5. Over(b, k, x) = Over(c, k, y)
  <2>1. CASE \A i \in 1 .. Len(c) : c[i].key # k
    BY <1>3, <2>1
  <2>2. CASE ~(\A i \in 1 .. Len(c) : c[i].key # k)
    <3>1. PICK i \in 1 .. Len(c) :
            /\ c[i].key = k /\ \A j \in 1 .. Len(c) : c[j].key = k => j <= i
            /\ \A z : Over(c, k, z) = c[i].content
      <4>1. c \in Seq(Change)
        BY <1>1
      <4> HIDE DEF c
      <4> QED
        BY <4>1, <2>2, OverFacts
    <3> QED
      BY <1>4, <3>1
  <2> QED
    BY <2>1, <2>2
<1>6. ASSUME k = Head(b).key, NEW z PROVE Over(b, k, x) = Over(b, k, z)
  <2>1. ~(\A i \in 1 .. Len(b) : b[i].key # k)
    <3>1. 1 \in 1 .. Len(b)
      BY <1>1
    <3> QED
      BY <1>1, <1>6, <3>1
  <2> QED
    BY <2>1, OverFacts
<1> QED
  BY <1>1, <1>5, <1>6 DEF c, y

\* Without the copies of a key the others are found as before.
Without(b, k) == Kept(b, {i \in DOMAIN b : b[i].key # k})

LEMMA OverKept ==
    ASSUME NEW b \in Seq(Change), NEW k
    PROVE  LET c == Without(b, k)
           IN /\ c \in Seq(Change)
              /\ \A i \in 1 .. Len(c) : c[i].key # k
              /\ \A i \in 1 .. Len(c) : \E m \in 1 .. Len(b) : c[i] = b[m]
              /\ \A j, x : Over(c, j, x) = IF j = k THEN x ELSE Over(b, j, x)
<1> DEFINE T == {i \in DOMAIN b : b[i].key # k}
           c == Kept(b, T)
           N == Cardinality(T)
<1>1. T \subseteq 1 .. Len(b) /\ Len(b) \in Nat
      /\ \A i \in 1 .. Len(b) : i \in T <=> b[i].key # k
  OBVIOUS
<1> HIDE DEF T
<1>2. N \in Nat /\ c \in Seq(Change) /\ Len(c) = N /\ \E p : Counts(p, b, T)
  BY <1>1, KeptFacts
<1>3. PICK p : Counts(p, b, T)
  BY <1>2
<1>4. /\ \A i \in 1 .. N : /\ p[i] \in T /\ p[i] \in 1 .. Len(b) /\ c[i] = b[p[i]]
      /\ \A h, i \in 1 .. N : h < i => p[h] < p[i]
      /\ \A i \in T : \E n \in 1 .. N : p[n] = i
  <2>1. p \in [1 .. N -> T]
    BY <1>3 DEF Counts
  <2>2. \A i \in 1 .. N : p[i] \in T /\ p[i] \in 1 .. Len(b)
    BY <1>1, <2>1
  <2> QED
    BY <1>3, <2>2 DEF Counts
<1> HIDE DEF c, N
<1>5. /\ \A i \in 1 .. Len(c) : c[i].key # k
      /\ \A i \in 1 .. Len(c) : \E m \in 1 .. Len(b) : c[i] = b[m]
  <2>1. ASSUME NEW i \in 1 .. Len(c)
        PROVE  c[i].key # k /\ \E m \in 1 .. Len(b) : c[i] = b[m]
    <3>1. p[i] \in T /\ p[i] \in 1 .. Len(b) /\ c[i] = b[p[i]]
      BY <1>2, <1>4
    <3>2. b[p[i]].key # k
      BY <1>1, <3>1
    <3> QED
      BY <3>1, <3>2
  <2> QED
    BY <2>1
<1>8. ASSUME NEW j, NEW x, j # k, NEW i \in 1 .. Len(b), b[i].key = j,
             \A m \in 1 .. Len(b) : b[m].key = j => m <= i, Over(b, j, x) = b[i].content
      PROVE  Over(c, j, x) = Over(b, j, x)
  <2>1. PICK n \in 1 .. N : p[n] = i
    BY <1>1, <1>4, <1>8
  <2>2. n \in 1 .. Len(c) /\ c[n] = b[i]
    BY <1>2, <1>4, <2>1
  <2>3. ASSUME NEW m \in 1 .. Len(c), c[m].key = c[n].key PROVE m <= n
    <3>1. m \in 1 .. N /\ n \in 1 .. N /\ N \in Nat
      BY <1>2
    <3>2. p[m] \in 1 .. Len(b) /\ b[p[m]].key = j
      BY <1>4, <1>8, <2>2, <2>3, <3>1
    <3>3. p[m] <= i
      BY <1>8, <3>2
    <3>4. ~(n < m)
      <4>1. n < m => i < p[m]
        BY <1>4, <2>1, <3>1
      <4>2. p[m] \in Nat /\ i \in Nat
        BY <1>1, <3>2
      <4> QED
        BY <3>3, <4>1, <4>2
    <3> QED
      BY <3>1, <3>4
  <2>4. Over(c, c[n].key, x) = c[n].content
    BY <1>2, <2>2, <2>3, OverLast
  <2> QED
    BY <1>8, <2>2, <2>4
<1>10. ASSUME NEW j, NEW x PROVE Over(c, j, x) = IF j = k THEN x ELSE Over(b, j, x)
  <2>1. CASE j = k
    BY <1>2, <1>5, <2>1, OverNone
  <2>2. CASE j # k
    <3>1. Over(c, j, x) = Over(b, j, x)
      <4>1. CASE \A i \in 1 .. Len(b) : b[i].key # j
        <5>1. \A i \in 1 .. Len(c) : c[i].key # j
          BY <1>5, <4>1
        <5>2. Over(c, j, x) = x
          BY <1>2, <5>1, OverNone
        <5>3. Over(b, j, x) = x
          BY <4>1, OverNone
        <5> QED
          BY <5>2, <5>3
      <4>2. CASE ~(\A i \in 1 .. Len(b) : b[i].key # j)
        <5>1. PICK i \in 1 .. Len(b) :
                /\ b[i].key = j /\ \A m \in 1 .. Len(b) : b[m].key = j => m <= i
                /\ \A z : Over(b, j, z) = b[i].content
          BY <4>2, OverFacts
        <5> QED
          BY <1>8, <2>2, <5>1
      <4> QED
        BY <4>1, <4>2
    <3> QED
      BY <2>2, <3>1
  <2> QED
    BY <2>1, <2>2
<1> QED
  BY <1>2, <1>5, <1>10 DEF c, T, Without

----------------------------------------------------------------------------
(* Lists of changes that lead to given contents.                           *)

\* Carried out from contents d on, the list gives every key its goal.
Leads(list, d, goal) ==
    \A k \in Key :
        /\ (\A i \in 1 .. Len(list) : list[i].key # k) => d[k] = goal[k]
        /\ \A i \in 1 .. Len(list) :
             list[i].key = k /\ (\A j \in 1 .. Len(list) : list[j].key = k => j <= i)
                => list[i].content = goal[k]

Contents(t) == [k \in Key |-> Latest(t, k)]

LEMMA LeadsOn ==
    ASSUME NEW list \in Seq(Change), list # << >>, NEW d, NEW e, NEW goal, Leads(list, d, goal),
           \A k \in Key : e[k] = IF k = Head(list).key THEN Head(list).content ELSE d[k]
    PROVE  Leads(Tail(list), e, goal)
<1> DEFINE c == Tail(list)
           N == Len(list)
<1>1. /\ c \in Seq(Change) /\ Len(c) = N - 1 /\ N \in Nat /\ N > 0 /\ Head(list) = list[1]
      /\ \A i \in 1 .. N - 1 : c[i] = list[i + 1] /\ i + 1 \in 1 .. N
      /\ \A i \in 1 .. N : i = 1 \/ i - 1 \in 1 .. N - 1
  OBVIOUS
<1>2. ASSUME NEW i \in 1 .. N, i # 1 PROVE c[i - 1] = list[i] /\ i - 1 \in 1 .. N - 1
  <2>1. i - 1 \in 1 .. N - 1 /\ (i - 1) + 1 = i
    BY <1>1, <1>2
  <2> HIDE DEF c
  <2>2. c[i - 1] = list[(i - 1) + 1]
    BY <1>1, <2>1
  <2> QED
    BY <2>1, <2>2
<1> HIDE DEF c
<1>3. ASSUME NEW k \in Key, \A i \in 1 .. Len(c) : c[i].key # k PROVE e[k] = goal[k]
  <2>1. \A i \in 1 .. N : i # 1 => list[i].key # k
    BY <1>1, <1>2, <1>3
  <2>2. CASE list[1].key = k
    <3>1. 1 \in 1 .. N /\ \A j \in 1 .. N : list[j].key = k => j <= 1
      BY <1>1, <2>1
    <3>2. list[1].content = goal[k]
      BY <2>2, <3>1 DEF Leads
    <3> QED
      BY <1>1, <2>2, <3>2
  <2>3. CASE list[1].key # k
    <3>1. \A i \in 1 .. N : list[i].key # k
      BY <1>1, <2>1, <2>3
    <3>2. d[k] = goal[k]
      BY <3>1 DEF Leads
    <3> QED
      BY <1>1, <2>3, <3>2
  <2> QED
    BY <2>2, <2>3
<1>4. ASSUME NEW k \in Key, NEW i \in 1 .. Len(c), c[i].key = k,
             \A j \in 1 .. Len(c) : c[j].key = k => j <= i
      PROVE  c[i].content = goal[k]
  <2>1. i + 1 \in 1 .. N /\ list[i + 1] = c[i] /\ i \in Nat
    BY <1>1, <1>4
  <2>2. ASSUME NEW j \in 1 .. N, list[j].key = k PROVE j <= i + 1
    <3>1. CASE j = 1
      BY <2>1, <3>1
    <3>2. CASE j # 1
      <4>1. j - 1 \in 1 .. Len(c) /\ c[j - 1].key = k
        BY <1>1, <1>2, <2>2, <3>2
      <4>2. j - 1 <= i
        BY <1>4, <4>1
      <4> QED
        BY <2>1, <4>2
    <3> QED
      BY <3>1, <3>2
  <2>3. list[i + 1].content = goal[k]
    BY <1>4, <2>1, <2>2 DEF Leads
  <2> QED
    BY <2>1, <2>3
<1> QED
  BY <1>3, <1>4 DEF Leads, c

\* A finite set as a sequence of all its members.
LEMMA SetToSeqFacts ==
    ASSUME NEW S, IsFiniteSet(S)
    PROVE  /\ SetToSeq(S) \in Seq(S) /\ Len(SetToSeq(S)) \in Nat
           /\ \A x \in S : \E i \in 1 .. Len(SetToSeq(S)) : SetToSeq(S)[i] = x
<1> DEFINE N == Cardinality(S)
           s == SetToSeq(S)
<1>1. N \in Nat /\ ExistsBijection(1 .. N, S)
  BY FS_CardinalityType
<1>2. \E f \in [1 .. N -> S] : IsInjective(f)
  BY <1>1 DEF ExistsBijection, Bijection, Injection
<1>3. s \in [1 .. N -> S] /\ IsInjective(s)
  BY <1>2 DEF SetToSeq
<1> HIDE DEF s, N
<1>4. s \in Seq(S) /\ Len(s) = N /\ DOMAIN s = 1 .. N
  BY <1>1, <1>3
<1>5. s \in Surjection(1 .. N, S)
  <2>1. s \in Injection(1 .. N, S)
    BY <1>3 DEF Injection
  <2>2. 1 \in Int /\ N \in Int
    BY <1>1
  <2>3. IsFiniteSet(1 .. N) /\ Cardinality(1 .. N) = N
    BY <1>1, <2>2, FS_Interval
  <2> QED
    BY <2>1, <2>3, FS_Injection DEF N
<1> QED
  BY <1>1, <1>4, <1>5 DEF Surjection, s

----------------------------------------------------------------------------
(* The list that replaces the store.                                       *)

\* Only finitely many keys have a content.
LEMMA LiveFinite ==
    ASSUME NEW t, Sound(t)
    PROVE  IsFiniteSet({k \in Key : Latest(t, k) # None})
<1> DEFINE keys == {r.key : r \in AllRows(t)}
           live == {k \in Key : Latest(t, k) # None}
<1>1. IsFiniteSet(AllRows(t))
  <2>1. Told(AllRows(t), t.sequence)
    BY DEF Sound
  <2> QED
    BY <2>1, ToldFinite
<1>2. IsFiniteSet(keys)
  <2> DEFINE rows == AllRows(t)
             f == [r \in rows |-> r.key]
  <2> HIDE DEF rows
  <2>1. f \in Surjection(rows, keys)
    BY DEF Surjection, rows
  <2> HIDE DEF f, keys
  <2> QED
    BY <1>1, <2>1, FS_Surjection DEF rows
<1>3. live \subseteq keys
  <2>1. ASSUME NEW k \in live PROVE k \in keys
    <3>1. RowsOf(AllRows(t), k) # {}
      BY DEF Latest, ContentIn
    <3> QED
      BY <3>1 DEF RowsOf
  <2> QED
    BY <2>1
<1> HIDE DEF live, keys
<1> QED
  BY <1>2, <1>3, FS_Subset DEF live

LEMMA LeadsFrom ==
    ASSUME NEW t, Sound(t), NEW goal \in [Key -> Content],
           IsFiniteSet({k \in Key : goal[k] # None})
    PROVE  LET live == SetToSeq({k \in Key : Latest(t, k) # None})
               put == SetToSeq({k \in Key : goal[k] # None})
               list == [i \in DOMAIN live |-> [key |-> live[i], content |-> None]]
                         \o [i \in DOMAIN put |-> [key |-> put[i], content |-> goal[put[i]]]]
           IN list \in Seq(Change) /\ Leads(list, Contents(t), goal)
<1> DEFINE L == {k \in Key : Latest(t, k) # None}
           P == {k \in Key : goal[k] # None}
           live == SetToSeq(L)
           put == SetToSeq(P)
           a == [i \in DOMAIN live |-> [key |-> live[i], content |-> None]]
           b == [i \in DOMAIN put |-> [key |-> put[i], content |-> goal[put[i]]]]
           list == a \o b
<1>1. /\ live \in Seq(L) /\ Len(live) \in Nat
      /\ \A x \in L : \E i \in 1 .. Len(live) : live[i] = x
  <2>1. IsFiniteSet(L)
    BY LiveFinite
  <2> HIDE DEF L
  <2> QED
    BY <2>1, SetToSeqFacts
<1>2. /\ put \in Seq(P) /\ Len(put) \in Nat
      /\ \A x \in P : \E i \in 1 .. Len(put) : put[i] = x
  <2> HIDE DEF P
  <2> QED
    BY SetToSeqFacts DEF P
<1> HIDE DEF live, put
<1>3. /\ None \in Content
      /\ \A i \in 1 .. Len(live) : live[i] \in Key
      /\ \A i \in 1 .. Len(put) : put[i] \in Key /\ goal[put[i]] # None /\ goal[put[i]] \in Content
  <2>1. \A i \in 1 .. Len(live) : live[i] \in L
    BY <1>1
  <2>2. \A i \in 1 .. Len(put) : put[i] \in P
    BY <1>2
  <2> QED
    BY <2>1, <2>2 DEF Content
<1>4. /\ a \in Seq(Change) /\ Len(a) = Len(live)
      /\ \A i \in 1 .. Len(live) : a[i].key = live[i] /\ a[i].content = None
  <2>1. DOMAIN live = 1 .. Len(live)
    BY <1>1
  <2>2. a = [i \in 1 .. Len(live) |-> [key |-> live[i], content |-> None]]
    BY <2>1
  <2>3. \A i \in 1 .. Len(live) : [key |-> live[i], content |-> None] \in Change
    BY <1>3 DEF Change
  <2>4. a \in Seq(Change) /\ Len(a) = Len(live)
    BY <1>1, <2>2, <2>3
  <2> QED
    BY <2>2, <2>4
<1>5. /\ b \in Seq(Change) /\ Len(b) = Len(put)
      /\ \A i \in 1 .. Len(put) : b[i].key = put[i] /\ b[i].content = goal[put[i]]
  <2>1. DOMAIN put = 1 .. Len(put)
    BY <1>2
  <2>2. b = [i \in 1 .. Len(put) |-> [key |-> put[i], content |-> goal[put[i]]]]
    BY <2>1
  <2>3. \A i \in 1 .. Len(put) : [key |-> put[i], content |-> goal[put[i]]] \in Change
    BY <1>3 DEF Change
  <2>4. b \in Seq(Change) /\ Len(b) = Len(put)
    BY <1>2, <2>2, <2>3
  <2> QED
    BY <2>2, <2>4
<1> HIDE DEF a, b
<1>6. /\ list \in Seq(Change) /\ Len(list) = Len(live) + Len(put)
      /\ \A i \in 1 .. Len(live) : i \in 1 .. Len(list) /\ list[i] = a[i]
      /\ \A i \in 1 .. Len(put) : Len(live) + i \in 1 .. Len(list) /\ list[Len(live) + i] = b[i]
      /\ \A i \in 1 .. Len(list) : i \in 1 .. Len(live) \/ i - Len(live) \in 1 .. Len(put)
  <2> DEFINE m == Len(live)
             n == Len(put)
  <2>1. /\ a \in Seq(Change) /\ b \in Seq(Change) /\ Len(a) = m /\ Len(b) = n
        /\ m \in Nat /\ n \in Nat
    BY <1>1, <1>2, <1>4, <1>5
  <2> HIDE DEF m, n
  <2>2. /\ list \in Seq(Change) /\ Len(list) = m + n
        /\ \A i \in 1 .. m + n : list[i] = IF i <= m THEN a[i] ELSE b[i - m]
    BY <2>1
  <2> HIDE DEF list
  <2>3. ASSUME NEW i \in 1 .. m PROVE i \in 1 .. Len(list) /\ list[i] = a[i]
    BY <2>1, <2>2
  <2>4. ASSUME NEW i \in 1 .. n PROVE m + i \in 1 .. Len(list) /\ list[m + i] = b[i]
    <3>1. m + i \in 1 .. m + n /\ ~(m + i <= m) /\ (m + i) - m = i
      BY <2>1
    <3>2. list[m + i] = b[(m + i) - m]
      BY <2>2, <3>1
    <3> QED
      BY <2>2, <3>1, <3>2
  <2>5. ASSUME NEW i \in 1 .. Len(list) PROVE i \in 1 .. m \/ i - m \in 1 .. n
    BY <2>1, <2>2
  <2> QED
    BY <2>2, <2>3, <2>4, <2>5 DEF m, n
<1> HIDE DEF list
<1>7. ASSUME NEW k \in Key, \A i \in 1 .. Len(list) : list[i].key # k
      PROVE  Latest(t, k) = goal[k]
  <2>1. k \notin L
    BY <1>1, <1>4, <1>6, <1>7
  <2>2. k \notin P
    <3> SUFFICES ASSUME k \in P PROVE FALSE
      OBVIOUS
    <3>1. PICK j \in 1 .. Len(put) : put[j] = k
      BY <1>2
    <3>2. Len(live) + j \in 1 .. Len(list) /\ list[Len(live) + j].key = k
      BY <1>5, <1>6, <3>1
    <3> QED
      BY <1>7, <3>2
  <2> QED
    BY <2>1, <2>2
<1>8. ASSUME NEW k \in Key, NEW i \in 1 .. Len(list), list[i].key = k,
             \A j \in 1 .. Len(list) : list[j].key = k => j <= i
      PROVE  list[i].content = goal[k]
  <2>1. CASE i - Len(live) \in 1 .. Len(put)
    <3>1. Len(live) + (i - Len(live)) = i
      BY <1>1, <1>6
    <3>2. list[i] = b[i - Len(live)]
      BY <1>6, <2>1, <3>1
    <3> QED
      BY <1>5, <1>8, <2>1, <3>2
  <2>2. CASE i \in 1 .. Len(live)
    <3>1. k \notin P
      <4> SUFFICES ASSUME k \in P PROVE FALSE
        OBVIOUS
      <4>1. PICK j \in 1 .. Len(put) : put[j] = k
        BY <1>2
      <4>2. Len(live) + j \in 1 .. Len(list) /\ list[Len(live) + j].key = k
        BY <1>5, <1>6, <4>1
      <4>3. Len(live) + j <= i
        BY <1>8, <4>2
      <4> QED
        BY <1>1, <2>2, <4>1, <4>3
    <3>2. list[i].content = None
      BY <1>4, <1>6, <2>2
    <3> QED
      BY <3>1, <3>2
  <2> QED
    BY <1>6, <2>1, <2>2
<1>9. Leads(list, Contents(t), goal)
  BY <1>7, <1>8 DEF Leads, Contents
<1> QED
  BY <1>6, <1>9 DEF list, a, b, live, put

----------------------------------------------------------------------------
(* One level of a compaction, and what get finds.                          *)

Crowded(t, lvl) == Cardinality(AtLevel(t, lvl)) > CompactAbove

LEMMA CrowdedFacts ==
    ASSUME NEW t \in Trees, NEW l
    PROVE  /\ Cardinality(AtLevel(t, l)) \in Nat /\ CompactAbove \in Nat
           /\ Crowded(t, l) => AtLevel(t, l) # {}
<1>1. AtLevel(t, l) \subseteq 1 .. Len(t.tables) /\ Len(t.tables) \in Nat
  BY SoundFacts DEF AtLevel
<1>2. IsFiniteSet(1 .. Len(t.tables))
  <2>1. 1 \in Int /\ Len(t.tables) \in Int
    BY <1>1
  <2> QED
    BY ONLY <2>1, FS_Interval
<1>3. IsFiniteSet(AtLevel(t, l))
  BY <1>1, <1>2, FS_Subset
<1>4. Cardinality(AtLevel(t, l)) \in Nat
  BY <1>3, FS_CardinalityType
<1>5. Cardinality({}) = 0 /\ CompactAbove \in Nat
  BY FS_EmptySet, SizeAssumption
<1> QED
  BY <1>4, <1>5 DEF Crowded

LEMMA CompactFacts ==
    ASSUME NEW t, Sound(t), NEW lvl \in 0 .. MaxLevels - 1, NEW fault, NEW n, NEW end,
           n = CompactIfCrowded(t, lvl, fault).tree,
           end = CompactIfCrowded(t, lvl, fault).end
    PROVE  /\ Sound(n) /\ n.log = t.log /\ n.mem = t.mem
           /\ AllRows(n) \subseteq AllRows(t) /\ \A k : Latest(n, k) = Latest(t, k)
           /\ end \in {"ok", "io", "overflow"} /\ (end = "io" => fault # "none")
           /\ end = "ok" => \/ n = t /\ ~(Crowded(t, lvl) /\ lvl + 1 < MaxLevels)
                            \/ Compacted(t, lvl, n) /\ Crowded(t, lvl)
<1> DEFINE done == Compact(t, lvl, fault)
<1>1. t \in Trees /\ Told(AllRows(t), t.sequence) /\ t.sequence \in Nat
      /\ Len(t.log.buffer) < FlushThreshold
      /\ \A i \in 1 .. Len(t.tables) : t.tables[i].rows # {}
  BY SoundFacts DEF Sound
<1>2. CASE ~Crowded(t, lvl)
  <2>1. CompactIfCrowded(t, lvl, fault) = [tree |-> t, end |-> "ok"]
    BY <1>2, Zenon DEF CompactIfCrowded, Crowded
  <2>2. n = t /\ end = "ok"
    BY <2>1
  <2> QED
    BY <1>2, <2>2
<1>3. CASE Crowded(t, lvl)
  <2>1. CompactIfCrowded(t, lvl, fault) = done
    BY <1>3, Zenon DEF CompactIfCrowded, Crowded
  <2>2. n = done.tree /\ end = done.end
    BY <2>1
  <2>3. AtLevel(t, lvl) # {}
    BY <1>1, <1>3, CrowdedFacts
  <2>4. /\ n \in Trees /\ Compaction(t, lvl, n, end)
        /\ end = "ok" => n = t \/ Compacted(t, lvl, n)
        /\ end = "ok" /\ lvl + 1 < MaxLevels => Compacted(t, lvl, n)
        /\ end \in {"ok", "io", "overflow"} /\ (end = "io" => fault # "none")
    BY <2>2, <2>3, CompactCases
  <2>5. /\ n.log = t.log /\ n.mem = t.mem /\ n.sequence \in {t.sequence, t.sequence + 1}
        /\ AllRows(n) \subseteq AllRows(t) /\ \A k : Latest(n, k) = Latest(t, k)
        /\ \A i \in 1 .. Len(n.tables) : n.tables[i].rows # {}
    <3>1. CASE n = t
      BY <1>1, <3>1
    <3>2. CASE n.log = t.log /\ n.mem = t.mem /\ n.tables = t.tables /\ n.sequence = t.sequence + 1
      <4>1. AllRows(n) = AllRows(t)
        BY <3>2 DEF AllRows
      <4> QED
        BY <1>1, <3>2, <4>1 DEF Latest
    <3>3. CASE Compacted(t, lvl, n)
      <4>1. /\ AllRows(n) \subseteq AllRows(t) /\ \A k : Latest(n, k) = Latest(t, k)
            /\ \A i \in 1 .. Len(n.tables) : n.tables[i].rows # {}
        BY <2>4, <3>3, CompactedRows
      <4> QED
        BY <3>3, <4>1 DEF Compacted
    <3> QED
      BY <2>4, <3>1, <3>2, <3>3 DEF Compaction
  <2>6. Told(AllRows(n), n.sequence)
    <3>1. n.sequence \in Nat /\ t.sequence <= n.sequence
      BY <1>1, <2>5
    <3> QED
      BY <1>1, <2>5, <3>1 DEF Told
  <2>7. Sound(n)
    BY <1>1, <2>4, <2>5, <2>6 DEF Sound
  <2> QED
    BY <1>3, <2>4, <2>5, <2>7
<1> QED
  BY <1>2, <1>3

\* In a list in which everything later is newer, the first hit is the newest.
LEMMA LookupLatest ==
    ASSUME NEW t, Sound(t), Ordered(t), NEW k, RowsOf(AllRows(t), k) # {}
    PROVE  Newest(RowsOf(AllRows(t), k)) \in Lookup(t, k)
<1> DEFINE of == RowsOf(AllRows(t), k)
           mine == RowsOf(t.mem, k)
           having == {i \in DOMAIN t.tables : RowsOf(t.tables[i].rows, k) # {}}
           top == Newest(of)
<1>1. /\ t \in Trees /\ Told(AllRows(t), t.sequence)
      /\ DOMAIN t.tables = 1 .. Len(t.tables) /\ Len(t.tables) \in Nat
      /\ t.mem \subseteq AllRows(t)
      /\ \A i \in 1 .. Len(t.tables) : t.tables[i].rows \subseteq AllRows(t)
      /\ \A r \in AllRows(t) :
                r \in t.mem \/ \E i \in 1 .. Len(t.tables) : r \in t.tables[i].rows
  BY SoundFacts DEF Sound
<1>2. Told(of, t.sequence)
  BY <1>1, ToldPart DEF RowsOf
<1>3. top \in of /\ \A r \in of : r.seq <= top.seq
  <2> HIDE DEF of
  <2> QED
    BY <1>2, NewestFacts DEF of
<1>4. \A r \in of : r.seq \in Nat /\ r \in AllRows(t) /\ r.key = k
  BY <1>2 DEF Told, RowsOf
<1>5. Lookup(t, k) = IF mine # {} THEN mine
                     ELSE IF having # {} THEN RowsOf(t.tables[Max(having)].rows, k) ELSE {}
  BY Zenon DEF Lookup
<1> HIDE DEF of, top, mine, having
<1>6. CASE mine # {}
  <2>1. PICK q : q \in mine
    BY <1>6
  <2>2. q \in t.mem /\ q \in of
    BY <1>1, <2>1 DEF mine, of, RowsOf
  <2>3. ASSUME NEW i \in 1 .. Len(t.tables), top \in t.tables[i].rows PROVE FALSE
    <3>1. top.seq < q.seq
      BY <2>2, <2>3 DEF Ordered, Before
    <3> QED
      BY <1>3, <1>4, <2>2, <3>1
  <2>4. top \in t.mem
    BY <1>1, <1>3, <1>4, <2>3
  <2>5. top \in mine
    BY <1>3, <1>4, <2>4 DEF mine, RowsOf
  <2> QED
    BY <1>5, <1>6, <2>5 DEF top, of
<1>7. CASE mine = {}
  <2>1. top \notin t.mem
    BY <1>3, <1>4, <1>7 DEF mine, RowsOf
  <2>2. PICK i \in 1 .. Len(t.tables) : top \in t.tables[i].rows
    BY <1>1, <1>3, <1>4, <2>1
  <2>3. i \in having
    BY <1>1, <1>3, <1>4, <2>2 DEF having, RowsOf
  <2>4. having \subseteq Nat /\ \A j \in having : j <= Len(t.tables) /\ j \in 1 .. Len(t.tables)
    BY <1>1 DEF having
  <2> DEFINE m == Max(having)
  <2>5. m \in having /\ \A j \in having : j <= m
    BY <1>1, <2>3, <2>4, MaxFacts
  <2> HIDE DEF m
  <2>6. m = i
    <3>1. i <= m /\ i \in Nat /\ m \in Nat /\ m \in 1 .. Len(t.tables)
      BY <2>3, <2>4, <2>5
    <3>2. ~(i < m)
      <4> SUFFICES ASSUME i < m PROVE FALSE
        OBVIOUS
      <4>1. PICK q : q \in RowsOf(t.tables[m].rows, k)
        BY <2>5 DEF having
      <4>2. q \in of /\ q \in t.tables[m].rows
        BY <1>1, <3>1, <4>1 DEF of, RowsOf
      <4>3. top.seq < q.seq
        BY <2>2, <3>1, <4>2 DEF Ordered, Before
      <4> QED
        BY <1>3, <1>4, <4>2, <4>3
    <3> QED
      BY <3>1, <3>2
  <2>7. Lookup(t, k) = RowsOf(t.tables[i].rows, k)
    BY <1>5, <1>7, <2>3, <2>6 DEF m
  <2>8. top \in RowsOf(t.tables[i].rows, k)
    BY <1>3, <1>4, <2>2 DEF RowsOf
  <2> QED
    BY <2>7, <2>8 DEF top, of
<1> QED
  BY <1>6, <1>7

----------------------------------------------------------------------------
(* The trees of a new life.                                                *)

LEMMA LeftFacts ==
    ASSUME NEW t \in Trees
    PROVE  FilesLeft(t) \subseteq TableName
<1>1. /\ t.tables \in Seq(Tables) /\ t.leftovers \subseteq TableName
      /\ DOMAIN t.tables = 1 .. Len(t.tables)
      /\ \A i \in 1 .. Len(t.tables) : t.tables[i] \in Tables
  BY SoundFacts
<1>2. \A x \in Range(t.tables) : x.name \in TableName
  BY <1>1 DEF Range, Tables
<1> QED
  BY <1>1, <1>2 DEF FilesLeft

\* The tree of a process that is not there.
LEMMA GoneFacts ==
    ASSUME NEW f \in Seq(Entry), NEW names, names \subseteq TableName,
           NEW n, n = [EmptyTree EXCEPT !.log = Reopened(f), !.leftovers = names]
    PROVE  /\ Sound(n) /\ n.log = Reopened(f) /\ n.tables = << >> /\ n.mem = {}
           /\ AllRows(n) = {} /\ \A k : Latest(n, k) = None
<1>1. /\ Reopened(f) \in Logs /\ Reopened(f).buffer = << >>
  BY ReopenedFacts
<1>2. n = [log |-> Reopened(f), mem |-> {}, tables |-> << >>, sequence |-> 0,
           leftovers |-> names]
  <2> DEFINE e == EmptyTree
  <2>1. e = [log |-> EmptyLog, mem |-> {}, tables |-> << >>, sequence |-> 0, leftovers |-> {}]
    BY DEF EmptyTree
  <2>2. /\ DOMAIN e = {"log", "mem", "tables", "sequence", "leftovers"}
        /\ e.mem = {} /\ e.tables = << >> /\ e.sequence = 0
    BY ONLY <2>1
  <2> HIDE DEF e
  <2>3. n = [e EXCEPT !.log = Reopened(f), !.leftovers = names]
    BY DEF e
  <2> QED
    BY ONLY <2>2, <2>3
<1>3. /\ n.log = Reopened(f) /\ n.mem = {} /\ n.tables = << >> /\ n.sequence = 0
      /\ n.leftovers = names
  BY ONLY <1>2
<1>4. n \in Trees
  <2> DEFINE none == {}
             zero == 0
  <2>1. none \in SUBSET Row /\ << >> \in Seq(Tables) /\ zero \in 0 .. MaxSequence
    BY SizeAssumption
  <2>2. n = [log |-> Reopened(f), mem |-> none, tables |-> << >>, sequence |-> zero,
             leftovers |-> names]
    BY ONLY <1>2
  <2>3. names \in SUBSET TableName
    OBVIOUS
  <2> HIDE DEF none, zero
  <2> QED
    BY ONLY <1>1, <2>1, <2>2, <2>3 DEF Trees
<1>5. AllRows(n) = {}
  <2>1. Range(<< >>) = {}
    BY DEF Range
  <2> QED
    BY <1>3, <2>1 DEF AllRows
<1>6. \A k : Latest(n, k) = None
  BY <1>5 DEF Latest, ContentIn, RowsOf
<1>7. Sound(n)
  <2>1. Size(n.mem) <= MemtableSize
    <3>1. Size({}) = 0 /\ MemtableSize \in Nat
      BY FS_EmptySet, SizeFacts, SizeAssumption
    <3>2. Size(n.mem) = 0
      BY <1>3, <3>1
    <3> QED
      BY <3>1, <3>2
  <2>2. Told(AllRows(n), n.sequence)
    BY <1>3, <1>5 DEF Told
  <2>3. Len(n.log.buffer) < FlushThreshold
    BY <1>1, <1>3, ThresholdAssumption
  <2>4. \A i \in 1 .. Len(n.tables) : n.tables[i].rows # {}
    BY <1>3
  <2> QED
    BY <1>4, <2>1, <2>2, <2>3, <2>4 DEF Sound
<1> QED
  BY <1>3, <1>5, <1>6, <1>7

\* The tree of a life that a replay begins.
LEMMA RecoveredFacts ==
    ASSUME NEW f \in Seq(Entry), Recovers(f), NEW names, names \subseteq TableName,
           NEW n, n = Recovered(f, names)
    PROVE  /\ Sound(n) /\ n.log = Reopened(f) /\ n.tables = << >> /\ n.mem = Replayed(f)
           /\ f \in Seq(Record) /\ ~Heavy(f)
           /\ AllRows(n) = Replayed(f)
           /\ \A k : Latest(n, k) = ContentIn(RowsOf(Replayed(f), k))
<1>1. /\ Reopened(f) \in Logs /\ Reopened(f).buffer = << >>
  BY ReopenedFacts
<1>2. /\ Undamaged(f) /\ Intact(f) = f /\ f \in Seq(Record)
      /\ Size(Replayed(f)) <= MemtableSize /\ Len(f) <= MaxSequence /\ Len(f) \in Nat
  BY DamageFacts DEF Recovers, Undamaged
<1>3. n = [log |-> Reopened(f), mem |-> Replayed(f), tables |-> << >>, sequence |-> Len(f),
           leftovers |-> names]
  <2> DEFINE e == EmptyTree
  <2>1. e = [log |-> EmptyLog, mem |-> {}, tables |-> << >>, sequence |-> 0, leftovers |-> {}]
    BY DEF EmptyTree
  <2>2. DOMAIN e = {"log", "mem", "tables", "sequence", "leftovers"} /\ e.tables = << >>
    BY ONLY <2>1
  <2>3. n = [e EXCEPT !.log = Reopened(f), !.mem = Replayed(f), !.sequence = Len(f),
                      !.leftovers = names]
    BY <1>2 DEF Recovered
  <2> HIDE DEF e
  <2> QED
    BY ONLY <2>2, <2>3
<1>4. /\ n.log = Reopened(f) /\ n.mem = Replayed(f) /\ n.tables = << >> /\ n.sequence = Len(f)
      /\ n.leftovers = names
  BY ONLY <1>3
<1>5. /\ Told(Replayed(f), Len(f)) /\ Size(Replayed(f)) \in Nat
      /\ Replayed(f) \subseteq [key : Key, content : Content, seq : 0 .. Len(f) - 1]
  BY <1>2, ReplayedFacts
<1>6. n \in Trees
  <2>1. 0 .. Len(f) - 1 \subseteq 0 .. MaxSequence /\ Len(f) \in 0 .. MaxSequence
    BY <1>2, SizeAssumption
  <2>2. Replayed(f) \subseteq Row
    BY <1>5, <2>1 DEF Row
  <2>3. << >> \in Seq(Tables)
    OBVIOUS
  <2> QED
    BY <1>1, <1>3, <2>1, <2>2, <2>3 DEF Trees
<1>7. AllRows(n) = Replayed(f)
  <2>1. Range(<< >>) = {}
    BY DEF Range
  <2> QED
    BY <1>4, <2>1 DEF AllRows
<1>8. \A k : Latest(n, k) = ContentIn(RowsOf(Replayed(f), k))
  BY <1>7 DEF Latest
<1>9. ~Heavy(f)
  BY <1>2, <1>5, SizeAssumption DEF Heavy
<1>10. Sound(n)
  <2>1. Len(n.log.buffer) < FlushThreshold
    BY <1>1, <1>4, ThresholdAssumption
  <2>2. \A i \in 1 .. Len(n.tables) : n.tables[i].rows # {}
    BY <1>4
  <2> QED
    BY <1>2, <1>4, <1>5, <1>6, <1>7, <2>1, <2>2 DEF Sound
<1> QED
  BY <1>2, <1>4, <1>7, <1>8, <1>9, <1>10

----------------------------------------------------------------------------
(* Types.                                                                  *)

Targets == {s \in [Key -> Content] : IsFiniteSet({k \in Key : s[k] # None})}

TypeInv ==
    /\ status \in {"up", "down", "refused"}
    /\ Sound(tree)
    /\ buffer \in Seq(Change) /\ todo \in Seq(Change)
    /\ exhausted \in BOOLEAN /\ behind \in BOOLEAN
    /\ mutations \in 0 .. CompactEvery - 1
    /\ call \in Calls
    /\ level \in 0 .. MaxLevels - 1
    /\ target \in Targets
    /\ held \in [Key -> SUBSET Content]
    /\ answered \in {<< >>} \cup (Key \X Content \X BOOLEAN)
    /\ mishaps \in 0 .. MaxMishaps
    /\ status # "up" => buffer = << >> /\ answered = << >> /\ call = "idle"
    /\ call # "compact" => level = 0

\* What the constants and the parts of the state have to offer to every step.
LEMMA Bounds ==
    /\ None \in Content /\ Value \subseteq Content
    /\ 0 \in 0 .. MaxLevels - 1 /\ MaxLevels \in Nat
    /\ 0 \in 0 .. CompactEvery - 1
    /\ \A m \in 0 .. CompactEvery - 1 : Noted(m) \in 0 .. CompactEvery - 1
    /\ Snapshots \subseteq Targets /\ [k \in Key |-> None] \in Targets
    /\ MaxMishaps \in Nat
<1>1. None \in Content /\ Value \subseteq Content
  BY DEF Content
<1>2. 0 \in 0 .. MaxLevels - 1 /\ 0 \in 0 .. CompactEvery - 1 /\ MaxMishaps \in Nat
      /\ MaxLevels \in Nat
  BY SizeAssumption, StoreAssumption
<1>3. ASSUME NEW m \in 0 .. CompactEvery - 1 PROVE Noted(m) \in 0 .. CompactEvery - 1
  <2>1. CompactEvery \in Nat /\ CompactEvery > 0 /\ m + 1 \in Nat
    BY StoreAssumption
  <2> QED
    BY <2>1 DEF Noted
<1>4. Snapshots \subseteq Targets
  BY StoreAssumption DEF Targets
<1>5. [k \in Key |-> None] \in Targets
  <2> DEFINE s == [k \in Key |-> None]
  <2>1. s \in [Key -> Content]
    BY <1>1
  <2>2. {k \in Key : s[k] # None} = {}
    OBVIOUS
  <2>3. IsFiniteSet({k \in Key : s[k] # None})
    BY <2>2, FS_EmptySet
  <2> QED
    BY <2>1, <2>3 DEF Targets
<1> QED
  BY <1>1, <1>2, <1>3, <1>4, <1>5

LEMMA MishapFacts ==
    ASSUME mishaps \in 0 .. MaxMishaps
    PROVE  /\ Mishap => mishaps' \in 0 .. MaxMishaps
           /\ \A end, fault : Ending(end, fault) => mishaps' \in 0 .. MaxMishaps
<1>1. Mishap => mishaps' \in 0 .. MaxMishaps
  BY Bounds DEF Mishap
<1> QED
  BY <1>1 DEF Ending

\* A mutation of the store's tree.
LEMMA TreeMutated ==
    ASSUME Sound(tree), NEW k \in Key, NEW content \in Content, NEW fault \in WriteFaults,
           tree' = Mutate(tree, k, content, fault).tree
    PROVE  Sound(tree')
BY MutateFacts

LEMMA LatestIn ==
    ASSUME NEW t, Sound(t), NEW k
    PROVE  Latest(t, k) \in Content /\ \A h : None \in h[k] /\ RowsHeld(t, h) => Latest(t, k) \in h[k]
<1> DEFINE of == RowsOf(AllRows(t), k)
<1>1. /\ t \in Trees /\ AllRows(t) \subseteq Row /\ Told(AllRows(t), t.sequence)
  BY SoundFacts DEF Sound
<1>2. of \subseteq Row /\ Told(of, t.sequence) /\ \A r \in of : r.key = k /\ r \in AllRows(t)
  BY <1>1, ToldPart DEF RowsOf
<1>3. Latest(t, k) = IF of = {} THEN None ELSE Newest(of).content
  BY DEF Latest, ContentIn
<1> HIDE DEF of
<1>4. CASE of = {}
  BY <1>3, <1>4, Bounds
<1>5. CASE of # {}
  <2>1. Newest(of) \in of
    BY <1>2, <1>5, NewestFacts
  <2>2. Latest(t, k) = Newest(of).content
    BY <1>3, <1>5
  <2> QED
    BY <1>2, <2>1, <2>2 DEF Row, RowsHeld
<1> QED
  BY <1>4, <1>5

\* A process that ends leaves a state of the right types.
LEMMA TypeGone ==
    ASSUME TypeInv, NEW file \in Seq(Entry), Gone(file), Mishap
    PROVE  TypeInv'
<1>1. Sound(tree')
  <2>1. FilesLeft(tree) \subseteq TableName
    BY LeftFacts DEF TypeInv, Sound
  <2> QED
    BY <2>1, GoneFacts DEF Gone
<1>2. << >> \in Seq(Change)
  OBVIOUS
<1>3. mishaps' \in 0 .. MaxMishaps
  BY MishapFacts DEF TypeInv
<1> QED
  BY <1>1, <1>2, <1>3, Bounds DEF Gone, NoAnswer, Calls, TypeInv

LEMMA TypeInit == Init => TypeInv
<1> SUFFICES ASSUME Init PROVE TypeInv
  OBVIOUS
<1>1. Sound(tree)
  <2> DEFINE e == EmptyTree
  <2> DEFINE f == << >>
  <2>0. f \in Seq(Entry)
    OBVIOUS
  <2>1. Reopened(f) = EmptyLog
    <3>1. EmptyLog = [file |-> f, buffer |-> << >>, gap |-> FALSE]
      BY DEF EmptyLog
    <3> HIDE DEF f
    <3> QED
      BY <2>0, <3>1, ReopenedFacts
  <2> HIDE DEF f
  <2>2. e = [log |-> EmptyLog, mem |-> {}, tables |-> << >>, sequence |-> 0, leftovers |-> {}]
    BY DEF EmptyTree
  <2>3. e = [e EXCEPT !.log = EmptyLog, !.leftovers = {}]
    <3> DEFINE g == [e EXCEPT !.log = EmptyLog, !.leftovers = {}]
    <3>1. /\ DOMAIN e = {"log", "mem", "tables", "sequence", "leftovers"}
          /\ e.mem = {} /\ e.tables = << >> /\ e.sequence = 0
      BY ONLY <2>2
    <3>2. g = [log |-> EmptyLog, mem |-> {}, tables |-> << >>, sequence |-> 0,
               leftovers |-> {}]
      <4> HIDE DEF e
      <4>1. g = [e EXCEPT !.log = EmptyLog, !.leftovers = {}]
        OBVIOUS
      <4> HIDE DEF g
      <4> QED
        BY ONLY <3>1, <4>1
    <3> QED
      BY ONLY <2>2, <3>2
  <2>4. EmptyTree = [EmptyTree EXCEPT !.log = Reopened(f), !.leftovers = {}]
    BY <2>1, <2>3
  <2>5. Sound(EmptyTree)
    BY <2>0, <2>4, GoneFacts
  <2> QED
    BY <2>5 DEF Init
<1>2. held \in [Key -> SUBSET Content]
  BY Bounds DEF Init
<1>3. buffer \in Seq(Change) /\ todo \in Seq(Change)
  <2>1. << >> \in Seq(Change)
    OBVIOUS
  <2> QED
    BY <2>1 DEF Init
<1>4. /\ mutations \in 0 .. CompactEvery - 1 /\ level \in 0 .. MaxLevels - 1
      /\ mishaps \in 0 .. MaxMishaps /\ target \in Targets
  BY Bounds DEF Init
<1> QED
  BY <1>1, <1>2, <1>3, <1>4 DEF Init, TypeInv, Calls

LEMMA TypeStep == TypeInv /\ [Next]_vars => TypeInv'
<1> SUFFICES ASSUME TypeInv, [Next]_vars PROVE TypeInv'
  OBVIOUS
<1>1. ASSUME NEW k \in Key, NEW v \in Value, Put(k, v) PROVE TypeInv'
  <2>1. [key |-> k, content |-> v] \in Change /\ v \in Content
    BY Bounds DEF Change
  <2>2. buffer' \in Seq(Change)
    BY <1>1, <2>1 DEF Put, TypeInv
  <2>3. mutations' \in 0 .. CompactEvery - 1
    BY <1>1, Bounds DEF Put, TypeInv
  <2>4. held' \in [Key -> SUBSET Content]
    BY <1>1, <2>1 DEF Put, TypeInv
  <2>5. answered' \in Key \X Content \X BOOLEAN
    BY <1>1, <2>1 DEF Put, Answer
  <2>6. call' \in Calls
    BY <1>1 DEF Put, After, Calls
  <2>7. status' = "up" /\ call = "idle" /\ UNCHANGED <<tree, exhausted, todo, target, behind,
                                                        mishaps, level>>
    BY <1>1 DEF Put, Idle, TypeInv
  <2> QED
    BY <2>2, <2>3, <2>4, <2>5, <2>6, <2>7 DEF TypeInv
<1>2. ASSUME NEW k \in Key, NEW fault \in WriteFaults, Delete(k, fault) PROVE TypeInv'
  <2> DEFINE done == Mutate(tree, k, None, fault)
  <2>1. Sound(tree')
    BY <1>2, Bounds, TreeMutated DEF Delete, TypeInv
  <2>2. buffer' \in Seq(Change)
    <3> DEFINE T == {i \in DOMAIN buffer : buffer[i].key # k}
    <3>1. T \subseteq 1 .. Len(buffer) /\ buffer \in Seq(Change)
      BY DEF TypeInv
    <3> HIDE DEF T
    <3>2. Kept(buffer, T) \in Seq(Change)
      BY <3>1, KeptFacts
    <3> QED
      BY <1>2, <3>1, <3>2 DEF Delete, T
  <2>3. mutations' \in 0 .. CompactEvery - 1 /\ call' \in Calls
    BY <1>2, Bounds DEF Delete, After, Calls, TypeInv
  <2>4. answered' \in Key \X Content \X BOOLEAN
    BY <1>2, Bounds DEF Delete, Answer
  <2>5. mishaps' \in 0 .. MaxMishaps
    BY <1>2, MishapFacts DEF Delete, TypeInv
  <2>6. status' = "up" /\ call = "idle" /\ UNCHANGED <<exhausted, todo, target, behind, held,
                                                       level>>
    BY <1>2 DEF Delete, Idle
  <2> QED
    BY <2>1, <2>2, <2>3, <2>4, <2>5, <2>6 DEF TypeInv
<1>3. ASSUME NEW s \in Snapshots, ImportSnapshot(s) PROVE TypeInv'
  BY <1>3, Bounds DEF ImportSnapshot, Idle, NoAnswer, Calls, TypeInv
<1>4. CASE Deinit
  BY <1>4 DEF Deinit, Idle, NoAnswer, Calls, TypeInv
<1>5. ASSUME NEW fault \in WriteFaults, FlushEntry(fault) PROVE TypeInv'
  <2>1. buffer \in Seq(Change) /\ buffer # << >>
    BY <1>5 DEF FlushEntry, TypeInv
  <2>2. Head(buffer) \in Change /\ Tail(buffer) \in Seq(Change)
    BY <2>1
  <2>3. Head(buffer).key \in Key /\ Head(buffer).content \in Content
    BY <2>2 DEF Change
  <2>4. Sound(tree')
    BY <1>5, <2>3, TreeMutated DEF FlushEntry, TypeInv
  <2>5. buffer' \in Seq(Change) /\ exhausted' \in BOOLEAN
    BY <1>5, <2>1, <2>2 DEF FlushEntry, TypeInv
  <2>6. call \in Calls \ {"compact"} /\ call' \in Calls \ {"compact"}
    BY <1>5 DEF FlushEntry, Flushing, Calls, TypeInv
  <2>7. mishaps' \in 0 .. MaxMishaps
    BY <1>5, MishapFacts DEF FlushEntry, TypeInv
  <2>8. status' = "up" /\ answered' = << >> /\ UNCHANGED <<mutations, todo, target, behind, held,
                                                           level>>
    BY <1>5 DEF FlushEntry, Flushing, NoAnswer
  <2> QED
    BY <2>4, <2>5, <2>6, <2>7, <2>8 DEF TypeInv
<1>6. CASE Flushed
  <2>1. Replacement \in Seq(Change)
    <3>1. target \in [Key -> Content] /\ IsFiniteSet({k \in Key : target[k] # None})
      BY DEF TypeInv, Targets
    <3> QED
      BY <3>1, LeadsFrom DEF TypeInv, Replacement
  <2>2. todo' \in Seq(Change)
    BY <1>6, <2>1 DEF Flushed, TypeInv
  <2>3. call' \in Calls /\ level = 0
    BY <1>6 DEF Flushed, Flushing, After, Calls, TypeInv
  <2>4. status' = "up" /\ answered' = << >>
        /\ UNCHANGED <<tree, buffer, exhausted, mutations, target, behind, held, mishaps, level>>
    BY <1>6 DEF Flushed, Flushing, NoAnswer
  <2> QED
    BY <2>2, <2>3, <2>4 DEF TypeInv
<1>7. ASSUME NEW fault \in WriteFaults, ImportRecord(fault) PROVE TypeInv'
  <2> DEFINE r == Head(todo)
  <2>1. todo \in Seq(Change) /\ todo # << >>
    BY <1>7 DEF ImportRecord, TypeInv
  <2>2. r \in Change /\ Tail(todo) \in Seq(Change)
    BY <2>1
  <2>3. r.key \in Key /\ r.content \in Content
    BY <2>2 DEF Change
  <2> HIDE DEF r
  <2>4. tree' = Mutate(tree, r.key, r.content, fault).tree
    BY <1>7 DEF ImportRecord, r
  <2>5. Sound(tree')
    BY <2>3, <2>4, TreeMutated DEF TypeInv
  <2>6. held' \in [Key -> SUBSET Content]
    <3>1. Latest(tree', r.key) \in Content
      BY <2>5, LatestIn
    <3>2. held' = [held EXCEPT ![r.key] = @ \cup {Latest(tree', r.key)}]
      BY <1>7, <2>4 DEF ImportRecord, r
    <3> QED
      BY <2>3, <3>1, <3>2 DEF TypeInv
  <2>7. todo' \in Seq(Change) /\ call = "import" /\ call' \in {"import", "idle"}
    <3>1. << >> \in Seq(Change)
      OBVIOUS
    <3>2. todo' = Tail(todo) \/ todo' = << >>
      BY <1>7 DEF ImportRecord
    <3>3. call = "import" /\ call' \in {"import", "idle"}
      BY <1>7 DEF ImportRecord
    <3> QED
      BY <2>2, <3>1, <3>2, <3>3
  <2>8. mishaps' \in 0 .. MaxMishaps
    BY <1>7, MishapFacts DEF ImportRecord, TypeInv
  <2>9. answered' \in Key \X Content \X BOOLEAN
    BY <1>7, <2>3 DEF ImportRecord, Answer, r
  <2>10. status' = "up" /\ UNCHANGED <<buffer, exhausted, mutations, target, behind, level>>
    BY <1>7 DEF ImportRecord
  <2> QED
    BY <2>5, <2>6, <2>7, <2>8, <2>9, <2>10 DEF TypeInv, Calls
<1>8. CASE ImportDone
  BY <1>8 DEF ImportDone, NoAnswer, Calls, TypeInv
<1>9. ASSUME NEW fault \in CompactFaults, CompactStep(fault) PROVE TypeInv'
  <2> DEFINE n == CompactIfCrowded(tree, level, fault).tree
             end == CompactIfCrowded(tree, level, fault).end
  <2>1. Sound(n)
    BY CompactFacts DEF TypeInv
  <2>2. tree' = n /\ behind' \in BOOLEAN
    BY <1>9 DEF CompactStep, TypeInv
  <2>3. level' \in 0 .. MaxLevels - 1 /\ (level' = 0 \/ call' = "compact") /\ call' \in Calls
    <3>1. CASE level = MaxLevels - 1 \/ end # "ok"
      BY <1>9, <3>1, Bounds DEF CompactStep, Calls
    <3>2. CASE ~(level = MaxLevels - 1 \/ end # "ok")
      <4>1. level' = level + 1 /\ call' = "compact"
        BY <1>9, <3>2 DEF CompactStep
      <4> QED
        BY <3>2, <4>1, Bounds DEF TypeInv, Calls
    <3> QED
      BY <3>1, <3>2
  <2>4. mishaps' \in 0 .. MaxMishaps
    BY <1>9, MishapFacts DEF CompactStep, TypeInv
  <2>5. status' = "up" /\ answered' = << >>
        /\ UNCHANGED <<buffer, exhausted, mutations, todo, target, held>>
    BY <1>9 DEF CompactStep, NoAnswer
  <2> HIDE DEF n
  <2> QED
    BY <2>1, <2>2, <2>3, <2>4, <2>5 DEF TypeInv
<1>10. CASE NothingToCompact
  BY <1>10 DEF NothingToCompact, NoAnswer, Calls, TypeInv
<1>11. ASSUME NEW fault, Close(fault) PROVE TypeInv'
  <2> DEFINE file == FlushAsync(tree.log, fault # "wal").file
  <2>1. Gone(file) /\ Mishap
    BY <1>11 DEF Close
  <2>2. file \in Seq(Entry)
    BY LeftImages, SoundFacts DEF TypeInv, Sound
  <2> HIDE DEF file
  <2> QED
    BY <2>1, <2>2, TypeGone
<1>12. CASE Crash
  <2>1. PICK file \in CrashFiles(tree.log) : Gone(file)
    BY <1>12 DEF Crash
  <2>2. file \in Seq(Entry)
    BY LeftImages, SoundFacts DEF TypeInv, Sound
  <2>3. Mishap
    BY <1>12 DEF Crash
  <2> QED
    BY <2>1, <2>2, <2>3, TypeGone
<1>13. CASE Restart
  <2>1. /\ tree.leftovers \subseteq TableName /\ tree.log \in Logs
    BY SoundFacts DEF TypeInv, Sound
  <2>2. tree.log.file \in Seq(Entry)
    BY <2>1, ImageFacts
  <2>3. Sound(tree') /\ status' \in {"up", "refused"}
    <3>1. CASE Recovers(tree.log.file)
      BY <1>13, <2>1, <2>2, <3>1, RecoveredFacts DEF Restart
    <3>2. CASE ~Recovers(tree.log.file)
      BY <1>13, <3>2 DEF Restart, TypeInv
    <3> QED
      BY <3>1, <3>2
  <2>4. /\ answered' = << >> /\ buffer = << >> /\ call = "idle"
        /\ UNCHANGED <<buffer, exhausted, mutations, call, todo, target, behind, held, mishaps,
                       level>>
    BY <1>13 DEF Restart, NoAnswer, TypeInv
  <2> QED
    BY <2>3, <2>4 DEF TypeInv
<1>14. CASE UNCHANGED vars
  BY <1>14 DEF vars, TypeInv
<1> QED
  BY <1>1, <1>2, <1>3, <1>4, <1>5, <1>6, <1>7, <1>8, <1>9, <1>10, <1>11, <1>12, <1>13, <1>14
     DEF Next

LEMMA TypeImplies == TypeInv => TypeOK
<1> SUFFICES ASSUME TypeInv PROVE TypeOK
  OBVIOUS
<1>1. /\ tree \in Trees /\ Size(tree.mem) <= MemtableSize /\ Told(AllRows(tree), tree.sequence)
      /\ \A i \in 1 .. Len(tree.tables) : tree.tables[i].rows # {}
      /\ Len(tree.log.buffer) < FlushThreshold
  BY DEF TypeInv, Sound
<1>2. /\ tree.mem \subseteq Row /\ tree.sequence \in 0 .. MaxSequence
      /\ tree.leftovers \subseteq TableName /\ DOMAIN tree.tables = 1 .. Len(tree.tables)
      /\ \A i \in 1 .. Len(tree.tables) : tree.tables[i] \in Tables
  BY <1>1, SoundFacts
<1>3. ASSUME NEW t \in Range(tree.tables)
      PROVE  t.name \in TableName /\ t.rows \in (SUBSET Row) \ {{}}
  <2>1. PICK i \in 1 .. Len(tree.tables) : t = tree.tables[i]
    BY <1>2 DEF Range
  <2> DEFINE rows == t.rows
             empty == {}
  <2>2. rows # empty
    BY <1>1, <2>1
  <2>3. t.name \in TableName /\ rows \in SUBSET Row
    BY <1>2, <2>1 DEF Tables
  <2> HIDE DEF rows, empty
  <2>4. rows \in (SUBSET Row) \ {empty}
    BY <2>2, <2>3
  <2> QED
    BY <2>3, <2>4 DEF rows, empty
<1>4. \A r \in AllRows(tree) : r.seq < tree.sequence
  BY <1>1 DEF Told
<1>5. target \in [Key -> Content]
  BY DEF TypeInv, Targets
<1> QED
  BY <1>1, <1>2, <1>3, <1>4, <1>5 DEF TypeInv, TypeOK

\* Every variable and every part of the tree has its type; a memtable never
\* outgrows its size, no number is used twice in a life, and neither a table
\* without rows nor a full buffer of the log is left by any step.
THEOREM TypeCorrect == Spec => []TypeOK
<1>1. Spec => []TypeInv
  BY TypeInit, TypeStep, PTL DEF Spec
<1> QED
  BY <1>1, TypeImplies, PTL

----------------------------------------------------------------------------
(* Order.                                                                  *)

\* As long as no compaction has failed, no level above the first holds too
\* many tables but the one a compaction has come to, and the levels below
\* that one are empty: a merged table, which goes to the end of the list, is
\* older than nothing before it.
OrderInv ==
    ~behind =>
        /\ Ordered(tree)
        /\ \A l \in 1 .. MaxLevels - 2 : Crowded(tree, l) =>
              /\ call = "compact" /\ level = l
              /\ \A m \in 0 .. l - 1 : AtLevel(tree, m) = {}

LEMMA EmptyOrder ==
    ASSUME NEW t, t.tables = << >>
    PROVE  Ordered(t) /\ \A l : ~Crowded(t, l)
<1>1. Ordered(t)
  BY DEF Ordered
<1>2. \A l : AtLevel(t, l) = {}
  BY DEF AtLevel
<1>3. Cardinality({}) = 0 /\ CompactAbove \in Nat
  BY FS_EmptySet, SizeAssumption
<1>4. ASSUME NEW l PROVE ~Crowded(t, l)
  <2>1. Cardinality(AtLevel(t, l)) = 0
    BY <1>2, <1>3
  <2> QED
    BY <1>3, <2>1 DEF Crowded
<1> QED
  BY <1>1, <1>4

LEMMA OrderEmpty ==
    ASSUME tree'.tables = << >>
    PROVE  OrderInv'
BY EmptyOrder DEF OrderInv

\* A step outside a compaction that moves no table above the first level.
LEMMA OrderKept ==
    ASSUME TypeInv, OrderInv, call # "compact" \/ level = 0, behind' = behind,
           Ordered(tree) => Ordered(tree'),
           \A l \in Nat \ {0} : AtLevel(tree', l) = AtLevel(tree, l)
    PROVE  OrderInv'
<1>1. ASSUME ~behind, NEW l \in 1 .. MaxLevels - 2 PROVE ~Crowded(tree', l)
  <2>1. l \in Nat \ {0} /\ l # 0
    OBVIOUS
  <2>2. level = 0
    BY DEF TypeInv
  <2>3. ~Crowded(tree, l)
    BY <1>1, <2>1, <2>2 DEF OrderInv
  <2> QED
    BY <2>1, <2>3 DEF Crowded
<1> QED
  BY <1>1 DEF OrderInv

LEMMA OrderCompact ==
    ASSUME TypeInv, OrderInv, NEW fault, CompactStep(fault)
    PROVE  OrderInv'
<1> DEFINE done == CompactIfCrowded(tree, level, fault)
           n == done.tree
           end == done.end
<1>1. /\ tree' = n /\ behind' = (behind \/ end # "ok") /\ call = "compact"
      /\ level' = (IF level = MaxLevels - 1 \/ end # "ok" THEN 0 ELSE level + 1)
      /\ call' = (IF level = MaxLevels - 1 \/ end # "ok" THEN "idle" ELSE call)
  BY DEF CompactStep
<1>2. /\ Sound(tree) /\ level \in 0 .. MaxLevels - 1 /\ MaxLevels \in Nat
      /\ behind \in BOOLEAN
  BY Bounds DEF TypeInv
<1>3. /\ Sound(n)
      /\ end = "ok" => \/ n = tree /\ ~(Crowded(tree, level) /\ level + 1 < MaxLevels)
                       \/ Compacted(tree, level, n) /\ Crowded(tree, level)
  BY <1>2, CompactFacts
<1> HIDE DEF n, end
<1> SUFFICES ASSUME ~behind'
             PROVE  /\ Ordered(tree')
                    /\ \A l \in 1 .. MaxLevels - 2 : Crowded(tree', l) =>
                          /\ call' = "compact" /\ level' = l
                          /\ \A m \in 0 .. l - 1 : AtLevel(tree', m) = {}
  BY DEF OrderInv
<1>4. ~behind /\ end = "ok"
  BY <1>1
<1>5. /\ Ordered(tree)
      /\ \A l \in 1 .. MaxLevels - 2 : Crowded(tree, l) =>
            level = l /\ \A m \in 0 .. l - 1 : AtLevel(tree, m) = {}
  BY <1>4 DEF OrderInv
<1>6. CASE n = tree /\ ~(Crowded(tree, level) /\ level + 1 < MaxLevels)
  <2>1. ASSUME NEW l \in 1 .. MaxLevels - 2, Crowded(tree, l) PROVE FALSE
    <3>1. level = l
      BY <1>5, <2>1
    <3>2. l + 1 < MaxLevels
      BY <1>2
    <3> QED
      BY <1>6, <2>1, <3>1, <3>2
  <2> QED
    BY <1>1, <1>5, <1>6, <2>1
<1>7. CASE Compacted(tree, level, n) /\ Crowded(tree, level)
  <2>1. level \in Nat /\ level + 1 < MaxLevels
    BY <1>2, <1>7 DEF Compacted
  <2>2. \A m \in 0 .. level - 1 : AtLevel(tree, m) = {}
    <3>1. CASE level = 0
      BY <3>1
    <3>2. CASE level # 0
      <4>1. level \in 1 .. MaxLevels - 2
        BY <1>2, <2>1, <3>2
      <4> QED
        BY <1>5, <1>7, <4>1
    <3> QED
      BY <3>1, <3>2
  <2>3. n \in Trees /\ tree \in Trees
    BY <1>2, <1>3 DEF Sound
  <2>4. /\ Ordered(n)
        /\ \A m \in 0 .. level : AtLevel(n, m) = {}
        /\ \A l \in Nat : l # level + 1 =>
              Cardinality(AtLevel(n, l)) <= Cardinality(AtLevel(tree, l))
    BY <1>2, <1>5, <1>7, <2>1, <2>2, <2>3, CompactedOrder
  <2>5. ASSUME NEW l \in 1 .. MaxLevels - 2, Crowded(n, l)
        PROVE  l = level + 1
    <3> SUFFICES ASSUME l # level + 1 PROVE FALSE
      OBVIOUS
    <3>1. l \in Nat
      OBVIOUS
    <3> DEFINE a == Cardinality(AtLevel(n, l))
               b == Cardinality(AtLevel(tree, l))
    <3>2. a \in Nat /\ b \in Nat /\ CompactAbove \in Nat /\ a <= b /\ a > CompactAbove
      BY <2>3, <2>4, <2>5, <3>1, CrowdedFacts DEF Crowded
    <3> HIDE DEF a, b
    <3>3. b > CompactAbove
      BY <3>2
    <3>4. level = l
      BY <1>5, <3>3 DEF Crowded, b
    <3>5. AtLevel(n, l) = {}
      BY <2>1, <2>4, <3>4
    <3> QED
      BY <2>3, <2>5, <3>5, CrowdedFacts
  <2>6. ASSUME NEW l \in 1 .. MaxLevels - 2, Crowded(n, l)
        PROVE  /\ call' = "compact" /\ level' = l
               /\ \A m \in 0 .. l - 1 : AtLevel(n, m) = {}
    <3>1. l = level + 1
      BY <2>5, <2>6
    <3>2. level # MaxLevels - 1
      BY <2>1, <1>2
    <3>3. l - 1 = level
      BY <2>1, <3>1
    <3> QED
      BY <1>1, <1>4, <2>4, <3>1, <3>2, <3>3
  <2> QED
    BY <1>1, <2>4, <2>6
<1> QED
  BY <1>3, <1>4, <1>6, <1>7

LEMMA OrderInit == Init => OrderInv
<1> SUFFICES ASSUME Init PROVE OrderInv
  OBVIOUS
<1>1. tree.tables = << >>
  BY DEF Init, EmptyTree
<1> QED
  BY <1>1, EmptyOrder DEF OrderInv

LEMMA OrderStep == TypeInv /\ OrderInv /\ [Next]_vars => OrderInv'
<1> SUFFICES ASSUME TypeInv, OrderInv, [Next]_vars PROVE OrderInv'
  OBVIOUS
<1>1. ASSUME UNCHANGED tree, call # "compact" \/ level = 0, behind' = behind PROVE OrderInv'
  BY <1>1, OrderKept
<1>2. ASSUME NEW k \in Key, NEW content \in Content, NEW fault \in WriteFaults,
             tree' = Mutate(tree, k, content, fault).tree, call # "compact", behind' = behind
      PROVE  OrderInv'
  <2>1. /\ Ordered(tree) => Ordered(tree')
        /\ \A l \in Nat \ {0} : AtLevel(tree', l) = AtLevel(tree, l)
    BY <1>2, MutateFacts DEF TypeInv
  <2> QED
    BY <1>2, <2>1, OrderKept
<1>3. ASSUME NEW file, Gone(file) PROVE OrderInv'
  <2>1. tree'.tables = << >>
    BY <1>3 DEF Gone, EmptyTree
  <2> QED
    BY <2>1, OrderEmpty
<1>4. ASSUME NEW k \in Key, NEW v \in Value, Put(k, v) PROVE OrderInv'
  BY <1>1, <1>4 DEF Put, Idle
<1>5. ASSUME NEW k \in Key, NEW fault \in WriteFaults, Delete(k, fault) PROVE OrderInv'
  BY <1>2, <1>5, Bounds DEF Delete, Idle
<1>6. ASSUME NEW s \in Snapshots, ImportSnapshot(s) PROVE OrderInv'
  BY <1>1, <1>6 DEF ImportSnapshot, Idle
<1>7. CASE Deinit
  BY <1>1, <1>7 DEF Deinit, Idle
<1>8. ASSUME NEW fault \in WriteFaults, FlushEntry(fault) PROVE OrderInv'
  <2>1. Head(buffer) \in Change
    BY <1>8 DEF FlushEntry, TypeInv
  <2>2. Head(buffer).key \in Key /\ Head(buffer).content \in Content
    BY <2>1 DEF Change
  <2> QED
    BY <1>2, <1>8, <2>2 DEF FlushEntry, Flushing
<1>9. CASE Flushed
  BY <1>1, <1>9 DEF Flushed, Flushing
<1>10. ASSUME NEW fault \in WriteFaults, ImportRecord(fault) PROVE OrderInv'
  <2>1. Head(todo) \in Change
    BY <1>10 DEF ImportRecord, TypeInv
  <2>2. Head(todo).key \in Key /\ Head(todo).content \in Content
    BY <2>1 DEF Change
  <2> QED
    BY <1>2, <1>10, <2>2 DEF ImportRecord
<1>11. CASE ImportDone
  BY <1>1, <1>11 DEF ImportDone
<1>12. ASSUME NEW fault \in CompactFaults, CompactStep(fault) PROVE OrderInv'
  BY <1>12, OrderCompact
<1>13. CASE NothingToCompact
  BY <1>1, <1>13 DEF NothingToCompact
<1>14. ASSUME NEW fault, Close(fault) PROVE OrderInv'
  BY <1>3, <1>14 DEF Close
<1>15. CASE Crash
  BY <1>3, <1>15 DEF Crash
<1>16. CASE Restart
  <2>1. CASE Recovers(tree.log.file)
    <3>1. tree'.tables = << >>
      BY <1>16, <2>1 DEF Restart, Recovered, EmptyTree
    <3> QED
      BY <3>1, OrderEmpty
  <2>2. CASE ~Recovers(tree.log.file)
    <3>1. call # "compact"
      BY <1>16 DEF Restart, TypeInv
    <3> QED
      BY <1>1, <1>16, <2>2, <3>1 DEF Restart
  <2> QED
    BY <2>1, <2>2
<1>17. CASE UNCHANGED vars
  BY <1>17 DEF vars, OrderInv
<1> QED
  BY <1>4, <1>5, <1>6, <1>7, <1>8, <1>9, <1>10, <1>11, <1>12, <1>13, <1>14, <1>15, <1>16, <1>17
     DEF Next

\* get, which stops at the first table that knows a key, finds the row with
\* the highest sequence number, as long as no compaction has failed.
THEOREM FindsLatestAlways == Spec => []GetFindsLatest
<1>1. TypeInv /\ OrderInv => GetFindsLatest
  BY LookupLatest DEF TypeInv, OrderInv, GetFindsLatest
<1> QED
  BY <1>1, TypeInit, TypeStep, OrderInit, OrderStep, PTL DEF Spec

----------------------------------------------------------------------------
(* What the log, the tree and the buffer hold.                             *)

StoreInv ==
    /\ LogInv(tree.log, held)
    /\ status = "up" => UpInv(tree)
    /\ RowsHeld(tree, held)
    /\ \A k \in Key : None \in held[k]
    /\ \A i \in 1 .. Len(buffer) : buffer[i].content \in held[buffer[i].key]

\* What was once held stays so.
LEMMA HeldGrows ==
    ASSUME NEW t, Sound(t), NEW g, NEW h, \A k \in Key : g[k] \subseteq h[k],
           LogInv(t.log, g), RowsHeld(t, g)
    PROVE  LogInv(t.log, h) /\ RowsHeld(t, h)
<1>1. t.log \in Logs /\ AllRows(t) \subseteq Row
  BY SoundFacts DEF Sound
<1>2. RowsHeld(t, h)
  BY <1>1 DEF Row, RowsHeld
<1>3. ASSUME NEW f \in Images(t.log), Undamaged(f), NEW i \in DOMAIN f, f[i].applied
      PROVE  f[i].content \in h[f[i].key]
  <2>1. f \in Seq(Record)
    BY <1>1, <1>3, ImageFacts, DamageFacts
  <2>2. f[i] \in Record
    BY <2>1
  <2>3. f[i].key \in Key
    BY <2>2 DEF Record
  <2> QED
    BY <1>3, <2>3 DEF LogInv
<1> QED
  BY <1>2, <1>3 DEF LogInv

\* A compaction leaves the log alone and what is found under every key.
LEMMA CompactKeeps ==
    ASSUME NEW t, NEW n, n.log = t.log, n.mem = t.mem, AllRows(n) \subseteq AllRows(t),
           \A k : Latest(n, k) = Latest(t, k)
    PROVE  /\ UpInv(t) => UpInv(n)
           /\ \A h : RowsHeld(t, h) => RowsHeld(n, h)
BY DEF UpInv, RowsHeld

\* The file of a process that has ended.
LEMMA StoreGone ==
    ASSUME TypeInv, StoreInv, NEW file \in Seq(Entry),
           file \in Images(tree.log) \/ ~Undamaged(file), Gone(file)
    PROVE  StoreInv'
<1>1. FilesLeft(tree) \subseteq TableName
  BY LeftFacts DEF TypeInv, Sound
<1>2. tree' = [EmptyTree EXCEPT !.log = Reopened(file), !.leftovers = FilesLeft(tree)]
      /\ status' = "down" /\ buffer' = << >> /\ held' = held
  BY DEF Gone
<1>3. tree'.log = Reopened(file) /\ AllRows(tree') = {}
  <2> DEFINE n == [EmptyTree EXCEPT !.log = Reopened(file), !.leftovers = FilesLeft(tree)]
  <2>1. n.log = Reopened(file) /\ AllRows(n) = {}
    BY <1>1, GoneFacts
  <2> HIDE DEF n
  <2> QED
    BY <1>2, <2>1 DEF n
<1>4. Images(tree'.log) = {file}
  BY <1>3, ReopenedFacts
<1>5. LogInv(tree'.log, held')
  BY <1>2, <1>4 DEF StoreInv, LogInv
<1>6. RowsHeld(tree', held')
  BY <1>3 DEF RowsHeld
<1>7. (\A k \in Key : None \in held[k])' /\ Len(buffer') = 0
  BY <1>2 DEF StoreInv
<1> QED
  BY <1>2, <1>5, <1>6, <1>7 DEF StoreInv

\* A mutation of the store's tree, by a content that is or will be held.
LEMMA StoreMutated ==
    ASSUME TypeInv, StoreInv, status = "up", NEW k \in Key, NEW content \in Content,
           NEW fault \in WriteFaults, tree' = Mutate(tree, k, content, fault).tree,
           \A j \in Key : held[j] \subseteq held'[j],
           Changed(tree, k, content, tree') => content \in held'[k],
           \A i \in 1 .. Len(buffer') : \E m \in 1 .. Len(buffer) : buffer'[i] = buffer[m]
    PROVE  StoreInv'
<1> DEFINE n == Mutate(tree, k, content, fault).tree
           end == Mutate(tree, k, content, fault).end
<1>1. Sound(tree) /\ LogInv(tree.log, held) /\ UpInv(tree) /\ RowsHeld(tree, held)
  BY DEF TypeInv, StoreInv
<1>2. tree' = n
  OBVIOUS
<1>3. /\ Sound(n) /\ Outcome(tree, k, content, fault, n, end)
      /\ Changed(tree, k, content, n) \/ Unchanged(tree, n)
  BY <1>1, MutateFacts
<1> HIDE DEF n, end
<1>4. LogInv(n.log, held') /\ UpInv(n) /\ RowsHeld(n, held')
  BY <1>1, <1>2, <1>3, MutateKeeps
<1>5. \A j \in Key : None \in held'[j]
  BY DEF StoreInv
<1>6. \A i \in 1 .. Len(buffer') : buffer'[i].content \in held'[buffer'[i].key]
  <2>1. \A m \in 1 .. Len(buffer) : buffer[m].key \in Key /\ buffer[m].content \in held[buffer[m].key]
    <3>1. \A m \in 1 .. Len(buffer) : buffer[m] \in Change
      BY DEF TypeInv
    <3> QED
      BY <3>1 DEF StoreInv, Change
  <2> QED
    BY <2>1
<1> QED
  BY <1>2, <1>4, <1>5, <1>6 DEF StoreInv

LEMMA StoreInit == Init => StoreInv
<1> SUFFICES ASSUME Init PROVE StoreInv
  OBVIOUS
<1> DEFINE f == << >>
<1>1. f \in Seq(Entry) /\ f \in Seq(Record) /\ Len(f) = 0
  OBVIOUS
<1>2. tree.log = Reopened(f) /\ tree.mem = {} /\ tree.tables = << >>
  <2>1. tree.log = [file |-> f, buffer |-> << >>, gap |-> FALSE]
    BY DEF Init, EmptyTree, EmptyLog
  <2>2. tree.mem = {} /\ tree.tables = << >>
    BY DEF Init, EmptyTree
  <2> HIDE DEF f
  <2> QED
    BY <1>1, <2>1, <2>2, ReopenedFacts
<1>3. Clean(f) /\ \A i : i \notin DOMAIN f
  BY DEF Clean
<1> HIDE DEF f
<1>4. Images(tree.log) = {f} /\ All(tree.log) = f
  BY <1>1, <1>2, ReopenedFacts
<1>5. LogInv(tree.log, held)
  BY <1>3, <1>4 DEF LogInv
<1>6. AllRows(tree) = {}
  BY <1>2 DEF AllRows, Range
<1>7. Replayed(f) = {}
  BY <1>3 DEF Replayed
<1>8. Size(tree.mem) <= Size(Replayed(f))
  <2>1. Size({}) \in Nat
    BY FS_EmptySet, SizeFacts
  <2> QED
    BY <1>2, <1>7, <2>1
<1>9. UpInv(tree)
  BY <1>4, <1>6, <1>7, <1>8 DEF UpInv, Latest
<1>10. RowsHeld(tree, held)
  BY <1>6 DEF RowsHeld
<1> QED
  BY <1>5, <1>9, <1>10 DEF Init, StoreInv

LEMMA StoreStep == TypeInv /\ StoreInv /\ [Next]_vars => StoreInv'
<1> SUFFICES ASSUME TypeInv, StoreInv, [Next]_vars PROVE StoreInv'
  OBVIOUS
<1>1. /\ Sound(tree) /\ tree.log \in Logs /\ tree.leftovers \subseteq TableName
      /\ tree.log.file \in Seq(Entry) /\ tree.log.file \in Images(tree.log)
      /\ buffer \in Seq(Change) /\ Len(buffer) \in Nat
      /\ \A i \in 1 .. Len(buffer) : buffer[i] \in Change
  <2>1. Sound(tree) /\ buffer \in Seq(Change)
    BY DEF TypeInv
  <2>2. tree.log \in Logs /\ tree.leftovers \subseteq TableName
    BY <2>1, SoundFacts DEF Sound
  <2> QED
    BY <2>1, <2>2, ImageFacts
<1>2. ASSUME UNCHANGED <<tree, buffer, held>>, status' = "up" => status = "up" PROVE StoreInv'
  BY <1>2 DEF StoreInv
<1>3. ASSUME NEW k \in Key, NEW v \in Value, Put(k, v) PROVE StoreInv'
  <2> DEFINE e == [key |-> k, content |-> v]
  <2>1. e \in Change /\ e.key = k /\ e.content = v
    BY Bounds DEF Change
  <2> HIDE DEF e
  <2>2. buffer' = Append(buffer, e) /\ held' = [held EXCEPT ![k] = @ \cup {v}]
        /\ tree' = tree /\ status' = status
    BY <1>3 DEF Put, e
  <2>3. (\A j \in Key : held[j] \subseteq held'[j]) /\ v \in held'[k]
    BY <2>2 DEF TypeInv
  <2>4. LogInv(tree.log, held') /\ RowsHeld(tree, held')
    BY <1>1, <2>3, HeldGrows DEF StoreInv
  <2>5. \A i \in 1 .. Len(buffer') : buffer'[i].content \in held'[buffer'[i].key]
    <3>1. ASSUME NEW i \in 1 .. Len(buffer')
          PROVE  (i \in 1 .. Len(buffer) /\ buffer'[i] = buffer[i]) \/ buffer'[i] = e
      BY <1>1, <2>1, <2>2
    <3>2. \A m \in 1 .. Len(buffer) : buffer[m].key \in Key
      BY <1>1 DEF Change
    <3> QED
      BY <2>1, <2>3, <3>1, <3>2 DEF StoreInv
  <2> QED
    BY <2>2, <2>3, <2>4, <2>5 DEF StoreInv
<1>4. ASSUME NEW k \in Key, NEW fault \in WriteFaults, Delete(k, fault) PROVE StoreInv'
  <2>1. /\ tree' = Mutate(tree, k, None, fault).tree /\ held' = held /\ status = "up"
    BY <1>4 DEF Delete, Idle
  <2>2. None \in Content /\ None \in held'[k]
    BY <2>1, Bounds DEF StoreInv
  <2>3. \A i \in 1 .. Len(buffer') : \E m \in 1 .. Len(buffer) : buffer'[i] = buffer[m]
    <3> DEFINE c == Without(buffer, k)
    <3>1. buffer' = c \/ buffer' = buffer
      BY <1>4 DEF Delete, Without
    <3>2. \A i \in 1 .. Len(c) : \E m \in 1 .. Len(buffer) : c[i] = buffer[m]
      BY <1>1, OverKept
    <3> HIDE DEF c
    <3> QED
      BY <3>1, <3>2
  <2> QED
    BY <2>1, <2>2, <2>3, StoreMutated
<1>5. ASSUME NEW s \in Snapshots, ImportSnapshot(s) PROVE StoreInv'
  BY <1>2, <1>5 DEF ImportSnapshot
<1>6. CASE Deinit
  BY <1>2, <1>6 DEF Deinit
<1>7. ASSUME NEW fault \in WriteFaults, FlushEntry(fault) PROVE StoreInv'
  <2> DEFINE e == Head(buffer)
  <2>1. e \in Change /\ e = buffer[1] /\ 1 \in 1 .. Len(buffer) /\ buffer # << >>
    BY <1>1, <1>7 DEF FlushEntry
  <2>2. e.key \in Key /\ e.content \in Content /\ e.content \in held[e.key]
    BY <2>1 DEF Change, StoreInv
  <2>3. \A i \in 1 .. Len(buffer') : \E m \in 1 .. Len(buffer) : buffer'[i] = buffer[m]
    <3>1. CASE buffer' = Tail(buffer)
      <4>1. /\ Len(Tail(buffer)) = Len(buffer) - 1
            /\ \A i \in 1 .. Len(buffer) - 1 : Tail(buffer)[i] = buffer[i + 1] /\ i + 1 \in 1 .. Len(buffer)
        BY <1>1, <2>1
      <4> QED
        BY <3>1, <4>1
    <3>2. CASE buffer' = buffer
      BY <3>2
    <3> QED
      BY <1>7, <3>1, <3>2 DEF FlushEntry
  <2> HIDE DEF e
  <2>4. /\ tree' = Mutate(tree, e.key, e.content, fault).tree /\ held' = held /\ status = "up"
    BY <1>7 DEF FlushEntry, Flushing, e
  <2> QED
    BY <2>2, <2>3, <2>4, StoreMutated
<1>8. CASE Flushed
  BY <1>2, <1>8 DEF Flushed
<1>9. ASSUME NEW fault \in WriteFaults, ImportRecord(fault) PROVE StoreInv'
  <2> DEFINE r == Head(todo)
  <2>1. r \in Change
    BY <1>9 DEF ImportRecord, TypeInv
  <2>2. r.key \in Key /\ r.content \in Content
    BY <2>1 DEF Change
  <2> HIDE DEF r
  <2>3. /\ tree' = Mutate(tree, r.key, r.content, fault).tree /\ status = "up"
        /\ held' = [held EXCEPT ![r.key] = @ \cup {Latest(tree', r.key)}] /\ buffer' = buffer
    BY <1>9 DEF ImportRecord, r
  <2>4. /\ \A j \in Key : held[j] \subseteq held'[j]
        /\ Changed(tree, r.key, r.content, tree') => r.content \in held'[r.key]
    BY <2>2, <2>3 DEF TypeInv, Changed
  <2> QED
    BY <2>2, <2>3, <2>4, StoreMutated
<1>10. CASE ImportDone
  BY <1>2, <1>10 DEF ImportDone
<1>11. ASSUME NEW fault \in CompactFaults, CompactStep(fault) PROVE StoreInv'
  <2> DEFINE n == CompactIfCrowded(tree, level, fault).tree
  <2>1. /\ n.log = tree.log /\ n.mem = tree.mem
        /\ AllRows(n) \subseteq AllRows(tree) /\ \A k : Latest(n, k) = Latest(tree, k)
    BY <1>1, CompactFacts DEF TypeInv
  <2>2. /\ tree' = n /\ status' = status
        /\ UNCHANGED <<buffer, held>>
    BY <1>11 DEF CompactStep
  <2> HIDE DEF n
  <2>3. /\ UpInv(tree) => UpInv(n)
        /\ RowsHeld(tree, held) => RowsHeld(n, held)
    BY <2>1, CompactKeeps
  <2> QED
    BY <2>1, <2>2, <2>3 DEF StoreInv
<1>12. CASE NothingToCompact
  BY <1>2, <1>12 DEF NothingToCompact
<1>13. ASSUME NEW fault, Close(fault) PROVE StoreInv'
  <2> DEFINE file == FlushAsync(tree.log, fault # "wal").file
  <2>1. Gone(file)
    BY <1>13 DEF Close
  <2>2. file \in Seq(Entry) /\ file \in Images(tree.log)
    BY <1>1, LeftImages
  <2> HIDE DEF file
  <2> QED
    BY <2>1, <2>2, StoreGone
<1>14. CASE Crash
  <2>1. PICK file \in CrashFiles(tree.log) : Gone(file)
    BY <1>14 DEF Crash
  <2>2. file \in Seq(Entry) /\ (file \in Images(tree.log) \/ ~Undamaged(file))
    BY <1>1, LeftImages
  <2> QED
    BY <2>1, <2>2, StoreGone
<1>15. CASE Restart
  <2>1. CASE Recovers(tree.log.file)
    <3> DEFINE f == tree.log.file
               n == Recovered(f, tree.leftovers)
    <3>1. tree' = n /\ UNCHANGED <<buffer, held>>
      BY <1>15, <2>1 DEF Restart
    <3>2. /\ Sound(n) /\ n.log = Reopened(f) /\ n.mem = Replayed(f)
          /\ f \in Seq(Record) /\ ~Heavy(f) /\ AllRows(n) = Replayed(f)
          /\ \A k : Latest(n, k) = ContentIn(RowsOf(Replayed(f), k))
      BY <1>1, <2>1, RecoveredFacts
    <3>3. Undamaged(f)
      BY <2>1 DEF Recovers
    <3>4. /\ Clean(f) \/ Heavy(f)
          /\ \A i \in DOMAIN f : f[i].applied => f[i].content \in held[f[i].key]
      BY <1>1, <3>3 DEF StoreInv, LogInv
    <3>5. f \in Seq(Entry)
      BY <1>1
    <3> HIDE DEF f, n
    <3>6. Images(n.log) = {f} /\ All(n.log) = f
      BY <3>2, <3>5, ReopenedFacts
    <3>7. LogInv(n.log, held)
      BY <3>4, <3>6 DEF LogInv
    <3>8. UpInv(n)
      <4>1. Size(Replayed(f)) \in Nat
        BY <3>2, ReplayedFacts
      <4> QED
        BY <3>2, <3>6, <4>1 DEF UpInv
    <3>9. RowsHeld(n, held)
      <4>1. ASSUME NEW q \in AllRows(n) PROVE q.content \in held[q.key]
        <5>1. PICK i \in 1 .. Len(f) : q.key = f[i].key /\ q.content = f[i].content
          BY <3>2, <4>1, ReplayedFacts
        <5>2. i \in DOMAIN f /\ f[i].applied
          BY <3>2, <3>4 DEF Clean
        <5> QED
          BY <3>4, <5>1, <5>2
      <4> QED
        BY <4>1 DEF RowsHeld
    <3> QED
      BY <3>1, <3>7, <3>8, <3>9 DEF StoreInv
  <2>2. CASE ~Recovers(tree.log.file)
    BY <1>2, <1>15, <2>2 DEF Restart
  <2> QED
    BY <2>1, <2>2
<1>16. CASE UNCHANGED vars
  BY <1>2, <1>16 DEF vars
<1> QED
  BY <1>3, <1>4, <1>5, <1>6, <1>7, <1>8, <1>9, <1>10, <1>11, <1>12, <1>13, <1>14, <1>15, <1>16
     DEF Next

\* Replaying the log, in the file and in the buffer, gives every key the
\* content it has now, unless a write was lost or a mutation refused.
THEOREM RebuildsAlways == Spec => []LogRebuildsTree
<1>1. StoreInv => LogRebuildsTree
  BY DEF StoreInv, UpInv, LogRebuildsTree, All, Clean
<1> QED
  BY <1>1, TypeInit, TypeStep, StoreInit, StoreStep, PTL DEF Spec

\* A replay that the start accepts carries out no mutation that was refused.
THEOREM RefusedNeverReplayedAlways == Spec => []RefusedNeverReplayed
<1>1. ASSUME TypeInv, StoreInv PROVE RefusedNeverReplayed
  <2> DEFINE f == tree.log.file
  <2>1. f \in Seq(Entry) /\ f \in Images(tree.log) /\ tree.leftovers \subseteq TableName
    BY <1>1, SoundFacts, ImageFacts DEF TypeInv, Sound
  <2>2. ASSUME Recovers(f) PROVE \A i \in DOMAIN f : f[i].applied
    <3>1. Undamaged(f) /\ ~Heavy(f)
      BY <2>1, <2>2, RecoveredFacts DEF Recovers
    <3> QED
      BY <1>1, <2>1, <3>1 DEF StoreInv, LogInv, Clean
  <2> QED
    BY <2>2 DEF RefusedNeverReplayed
<1>2. TypeInv /\ StoreInv => RefusedNeverReplayed
  BY <1>1
<1> QED
  BY <1>2, TypeInit, TypeStep, StoreInit, StoreStep, PTL DEF Spec

----------------------------------------------------------------------------
(* Imports.                                                                *)

\* Whenever an import writes, nothing is buffered, and what it has left to
\* write leads from what the tree holds to the snapshot.
ImportInv ==
    call = "import" => buffer = << >> /\ Leads(todo, Contents(tree), target)

LEMMA ImportInit == Init => ImportInv
BY DEF Init, ImportInv

LEMMA ImportStep == TypeInv /\ ImportInv /\ [Next]_vars => ImportInv'
<1> SUFFICES ASSUME TypeInv, ImportInv, [Next]_vars PROVE ImportInv'
  OBVIOUS
<1>1. CASE call' # "import"
  BY <1>1 DEF ImportInv
<1>2. CASE Flushed
  <2>1. buffer = << >> /\ buffer' = buffer /\ tree' = tree /\ target' = target
    BY <1>2 DEF Flushed
  <2>2. ASSUME call' = "import" PROVE todo' = Replacement
    <3>1. call = "import_flush"
      BY <1>2, <2>2 DEF Flushed, Flushing, After
    <3> QED
      BY <1>2, <3>1 DEF Flushed
  <2>3. target \in [Key -> Content] /\ IsFiniteSet({k \in Key : target[k] # None}) /\ Sound(tree)
    BY DEF TypeInv, Targets
  <2>4. Leads(Replacement, Contents(tree), target)
    BY <2>3, LeadsFrom DEF Replacement
  <2> QED
    BY <2>1, <2>2, <2>4 DEF ImportInv
<1>3. ASSUME NEW fault \in WriteFaults, ImportRecord(fault) PROVE ImportInv'
  <2> DEFINE r == Head(todo)
             n == Mutate(tree, r.key, r.content, fault).tree
             end == Mutate(tree, r.key, r.content, fault).end
  <2>1. call = "import" /\ todo # << >> /\ buffer' = buffer /\ target' = target /\ tree' = n
        /\ IF end = "ok" THEN todo' = Tail(todo) ELSE call' = "idle"
    BY <1>3 DEF ImportRecord
  <2>2. todo \in Seq(Change) /\ r \in Change
    BY <2>1 DEF TypeInv
  <2>3. r.key \in Key /\ r.content \in Content
    BY <2>2 DEF Change
  <2> HIDE DEF r
  <2>4. end = "ok" => Changed(tree, r.key, r.content, n)
    BY <2>3, MutateFacts DEF TypeInv
  <2> HIDE DEF n, end
  <2>5. ASSUME end = "ok" PROVE Leads(Tail(todo), Contents(n), target)
    <3> DEFINE d == Contents(tree)
               e == Contents(n)
    <3>1. \A k \in Key : e[k] = IF k = Head(todo).key THEN Head(todo).content ELSE d[k]
      BY <2>4, <2>5 DEF Contents, Changed, r
    <3>2. Leads(todo, d, target)
      BY <2>1 DEF ImportInv
    <3> HIDE DEF d, e
    <3>3. Leads(Tail(todo), e, target)
      BY <2>1, <2>2, <3>1, <3>2, LeadsOn
    <3> QED
      BY <3>3 DEF e
  <2> QED
    BY <2>1, <2>5 DEF ImportInv
<1>4. CASE UNCHANGED vars
  BY <1>4 DEF vars, ImportInv
<1>5. ASSUME NEW k \in Key, NEW v \in Value, Put(k, v) PROVE call' # "import"
  BY <1>5 DEF Put, After
<1>6. ASSUME NEW k \in Key, NEW fault \in WriteFaults, Delete(k, fault) PROVE call' # "import"
  BY <1>6 DEF Delete, Idle, After
<1>7. ASSUME NEW s \in Snapshots, ImportSnapshot(s) PROVE call' # "import"
  BY <1>7 DEF ImportSnapshot
<1>8. ASSUME Deinit \/ ImportDone \/ NothingToCompact PROVE call' # "import"
  BY <1>8 DEF Deinit, ImportDone, NothingToCompact
<1>9. ASSUME NEW fault \in WriteFaults, FlushEntry(fault) PROVE call' # "import"
  BY <1>9 DEF FlushEntry, Flushing
<1>10. ASSUME NEW fault \in CompactFaults, CompactStep(fault) PROVE call' # "import"
  BY <1>10 DEF CompactStep
<1>11. ASSUME NEW fault, Close(fault) PROVE call' # "import"
  BY <1>11 DEF Close, Gone
<1>12. ASSUME Crash PROVE call' # "import"
  BY <1>12 DEF Crash, Gone
<1>13. ASSUME Restart PROVE call' # "import"
  BY <1>13 DEF Restart, TypeInv
<1> QED
  BY <1>1, <1>2, <1>3, <1>4, <1>5, <1>6, <1>7, <1>8, <1>9, <1>10, <1>11, <1>12, <1>13 DEF Next

----------------------------------------------------------------------------
(* What callers see.                                                       *)

Seen(s, t, b, k) ==
    IF s = "up" THEN Over(b, k, Latest(t, k))
    ELSE IF Recovers(t.log.file) THEN ContentIn(RowsOf(Replayed(t.log.file), k))
    ELSE None

LEMMA ViewSeen ==
    /\ \A k : View(k) = Seen(status, tree, buffer, k)
    /\ \A k : View(k)' = Seen(status', tree', buffer', k)
BY DEF View, Seen, Overlay, Over

\* An import that ends well leaves the snapshot and nothing else.
THEOREM ImportInstallsAlways == Spec => ImportInstalls
<1>1. ASSUME TypeInv, ImportInv, call = "import", todo = << >>, NEW k \in Key
      PROVE  View(k) = target[k]
  <2>1. status = "up" /\ buffer = << >>
    BY <1>1 DEF TypeInv, ImportInv
  <2>2. Latest(tree, k) = target[k]
    BY <1>1 DEF ImportInv, Leads, Contents
  <2>3. << >> \in Seq(Change) /\ \A i \in 1 .. Len(<< >>) : << >>[i].key # k
    OBVIOUS
  <2>4. Over(<< >>, k, Latest(tree, k)) = Latest(tree, k)
    BY <2>3, OverNone
  <2> QED
    BY <2>1, <2>2, <2>4, ViewSeen DEF Seen
<1>2. TypeInv /\ ImportInv /\ [Next]_vars =>
        [call = "import" /\ todo = << >> /\ ~Mixed /\ status' = "up" =>
            \A k \in Key : View(k) = target[k]]_vars
  BY <1>1
<1> QED
  BY <1>2, TypeInit, TypeStep, ImportInit, ImportStep, PTL DEF Spec, ImportInstalls

\* Whatever is seen was once held.
LEMMA SeenHeld ==
    ASSUME NEW s, NEW t, NEW b, NEW h, Sound(t), b \in Seq(Change), LogInv(t.log, h),
           RowsHeld(t, h), \A k \in Key : None \in h[k],
           \A i \in 1 .. Len(b) : b[i].content \in h[b[i].key], NEW k \in Key
    PROVE  Seen(s, t, b, k) \in h[k]
<1>1. Latest(t, k) \in h[k]
  BY LatestIn
<1>2. Over(b, k, Latest(t, k)) \in h[k]
  BY <1>1, OverFacts
<1>3. ASSUME Recovers(t.log.file) PROVE ContentIn(RowsOf(Replayed(t.log.file), k)) \in h[k]
  <2> DEFINE f == t.log.file
             n == Recovered(f, {})
  <2>1. f \in Seq(Entry) /\ f \in Images(t.log) /\ {} \subseteq TableName
    BY SoundFacts, ImageFacts DEF Sound
  <2>2. /\ Sound(n) /\ f \in Seq(Record) /\ ~Heavy(f) /\ AllRows(n) = Replayed(f)
        /\ Latest(n, k) = ContentIn(RowsOf(Replayed(f), k))
    BY <1>3, <2>1, RecoveredFacts
  <2>3. Undamaged(f)
    BY <1>3 DEF Recovers
  <2>4. Clean(f) /\ \A i \in DOMAIN f : f[i].content \in h[f[i].key]
    BY <2>1, <2>2, <2>3 DEF LogInv, Clean
  <2>5. RowsHeld(n, h)
    <3>1. ASSUME NEW q \in Replayed(f) PROVE q.content \in h[q.key]
      <4>1. PICK i \in 1 .. Len(f) : q.key = f[i].key /\ q.content = f[i].content
        BY <2>2, <3>1, ReplayedFacts
      <4>2. i \in DOMAIN f
        BY <2>2
      <4> QED
        BY <2>4, <4>1, <4>2
    <3> QED
      BY <2>2, <3>1 DEF RowsHeld
  <2>6. Latest(n, k) \in h[k]
    BY <2>2, <2>5, LatestIn
  <2> QED
    BY <2>2, <2>6
<1> QED
  BY <1>2, <1>3 DEF Seen

----------------------------------------------------------------------------
(* The refinement.                                                         *)

Dict == [k \in Key |-> View(k)]

LEMMA WorkStep ==
    ASSUME answered' = << >>, (status' = "up") = (status = "up"), held' = held,
           \A k \in Key : View(k)' = View(k)
    PROVE  Promise!Next
<1>1. Dict' = Dict
  BY DEF Dict
<1>2. Promise!Work
  BY <1>1 DEF Promise!Work, Dict
<1> QED
  BY <1>2 DEF Promise!Next

LEMMA ChangeStep ==
    ASSUME NEW k \in Key, NEW content \in Content, NEW end, Answer(k, content, end),
           status = "up", status' = "up", held \in [Key -> SUBSET Content],
           \/ \A j \in Key : View(j)' = IF j = k THEN content ELSE View(j)
           \/ end # "ok" /\ \A j \in Key : View(j)' = View(j),
           held' = [held EXCEPT ![k] = @ \cup {View(k)'}]
    PROVE  Promise!Next
<1>1. \/ Dict' = [Dict EXCEPT ![k] = content]
      \/ end # "ok" /\ Dict' = Dict
  <2>1. CASE \A j \in Key : View(j)' = IF j = k THEN content ELSE View(j)
    <3>1. Dict' = [Dict EXCEPT ![k] = content]
      BY <2>1 DEF Dict
    <3> QED
      BY <3>1
  <2>2. CASE end # "ok" /\ \A j \in Key : View(j)' = View(j)
    BY <2>2 DEF Dict
  <2> QED
    BY <2>1, <2>2
<1>2. Dict'[k] = View(k)'
  BY DEF Dict
<1>3. held' = [held EXCEPT ![k] = @ \cup {Dict'[k]}]
  BY <1>2
<1>4. \E ok \in BOOLEAN :
        /\ answered' = <<k, content, ok>>
        /\ \/ Dict' = [Dict EXCEPT ![k] = content]
           \/ ~ok /\ Dict' = Dict
  <2> DEFINE ok == end = "ok"
  <2>1. ok \in BOOLEAN /\ answered' = <<k, content, ok>> /\ (~ok <=> end # "ok")
    BY DEF Answer
  <2> HIDE DEF ok
  <2> QED
    BY <1>1, <2>1
<1>5. Promise!Change(k, content)
  BY <1>3, <1>4 DEF Promise!Change, Dict
<1> QED
  BY <1>5 DEF Promise!Next, Content

LEMMA FailStep ==
    ASSUME status = "up", status' = "down", answered' = << >>, held' = held,
           \A k \in Key : View(k)' \in held[k]
    PROVE  Promise!Next
<1>1. DOMAIN Dict' = Key /\ \A k \in Key : Dict'[k] \in held[k]
  BY DEF Dict
<1>2. Promise!Fail
  BY <1>1 DEF Promise!Fail, Dict
<1> QED
  BY <1>2 DEF Promise!Next

LEMMA RecoverStep ==
    ASSUME status # "up", status' = "up", UNCHANGED <<held, answered>>,
           \A k \in Key : View(k)' = View(k)
    PROVE  Promise!Next
<1>1. Dict' = Dict
  BY DEF Dict
<1>2. Promise!Recover
  BY <1>1 DEF Promise!Recover, Dict
<1> QED
  BY <1>2 DEF Promise!Next

LEMMA MapInit == Init => Promise!Init
<1> SUFFICES ASSUME Init PROVE Promise!Init
  OBVIOUS
<1>1. ASSUME NEW k \in Key PROVE View(k) = None
  <2>1. status = "up" /\ buffer = << >> /\ AllRows(tree) = {}
    BY DEF Init, EmptyTree, AllRows, Range
  <2>2. Latest(tree, k) = None
    BY <2>1 DEF Latest, ContentIn, RowsOf
  <2>3. << >> \in Seq(Change) /\ \A i \in 1 .. Len(<< >>) : << >>[i].key # k
    OBVIOUS
  <2>4. Over(<< >>, k, Latest(tree, k)) = Latest(tree, k)
    BY <2>3, OverNone
  <2> QED
    BY <2>1, <2>2, <2>4, ViewSeen DEF Seen
<1>2. Dict = [k \in Key |-> None]
  BY <1>1 DEF Dict
<1>3. (status = "up") = TRUE /\ held = [k \in Key |-> {None}] /\ answered = << >>
  BY DEF Init
<1> QED
  BY <1>2, <1>3 DEF Promise!Init, Dict

\* A step that changes neither what lies under a key nor what is buffered.
LEMMA ViewKept ==
    ASSUME status = "up", status' = "up", buffer' = buffer,
           \A k \in Key : Latest(tree', k) = Latest(tree, k)
    PROVE  \A k \in Key : View(k)' = View(k)
BY ViewSeen DEF Seen

LEMMA MapStep ==
    ASSUME TypeInv, StoreInv, ImportInv, TypeInv', StoreInv', [Next]_vars
    PROVE  [Promise!Next]_(Promise!vars)
<1>1. Sound(tree) /\ buffer \in Seq(Change) /\ held \in [Key -> SUBSET Content]
  BY DEF TypeInv
<1>2. ASSUME UNCHANGED <<status, tree, buffer, held>>, answered' = << >> PROVE Promise!Next
  <2>1. \A k \in Key : View(k)' = View(k)
    BY <1>2, ViewSeen
  <2> QED
    BY <1>2, <2>1, WorkStep
<1>3. \A k \in Key : View(k) \in held[k] /\ View(k)' \in held'[k]
  <2>1. ASSUME NEW k \in Key PROVE Seen(status, tree, buffer, k) \in held[k]
    BY SeenHeld DEF TypeInv, StoreInv
  <2>2. ASSUME NEW k \in Key PROVE Seen(status', tree', buffer', k) \in held'[k]
    BY SeenHeld DEF TypeInv, StoreInv
  <2> QED
    BY <2>1, <2>2, ViewSeen
<1>4. ASSUME NEW k \in Key, NEW v \in Value, Put(k, v) PROVE Promise!Next
  <2> DEFINE e == [key |-> k, content |-> v]
  <2>1. e \in Change /\ e.key = k /\ e.content = v
    BY Bounds DEF Change
  <2> HIDE DEF e
  <2>2. /\ buffer' = Append(buffer, e) /\ tree' = tree /\ status = "up" /\ status' = "up"
        /\ held' = [held EXCEPT ![k] = @ \cup {v}] /\ Answer(k, v, "ok")
    BY <1>4 DEF Put, Idle, e
  <2>3. ASSUME NEW j \in Key PROVE View(j)' = IF j = k THEN v ELSE View(j)
    <3>1. Over(Append(buffer, e), j, Latest(tree, j))
            = IF j = k THEN v ELSE Over(buffer, j, Latest(tree, j))
      BY <1>1, <2>1, OverAppend
    <3> QED
      BY <2>2, <3>1, ViewSeen DEF Seen
  <2>4. held' = [held EXCEPT ![k] = @ \cup {View(k)'}]
    BY <2>2, <2>3
  <2>5. v \in Content
    BY Bounds
  <2> QED
    BY <1>1, <2>2, <2>3, <2>4, <2>5, ChangeStep
<1>5. ASSUME NEW k \in Key, NEW fault \in WriteFaults, Delete(k, fault) PROVE Promise!Next
  <2> DEFINE n == Mutate(tree, k, None, fault).tree
             end == Mutate(tree, k, None, fault).end
  <2>1. /\ tree' = n /\ held' = held /\ Answer(k, None, end)
        /\ status = "up" /\ status' = "up"
        /\ buffer' = IF end = "ok" THEN Without(buffer, k) ELSE buffer
    BY <1>5 DEF Delete, Idle, Without
  <2>2. None \in Content
    BY Bounds
  <2>3. /\ end = "ok" => Changed(tree, k, None, n)
        /\ Changed(tree, k, None, n) \/ Unchanged(tree, n)
    BY <1>1, <2>2, MutateFacts
  <2> HIDE DEF n, end
  <2>4. CASE end = "ok"
    <3>1. ASSUME NEW j \in Key PROVE View(j)' = IF j = k THEN None ELSE View(j)
      <4>1. Latest(n, j) = IF j = k THEN None ELSE Latest(tree, j)
        BY <2>3, <2>4 DEF Changed
      <4>2. Over(Without(buffer, k), j, Latest(n, j))
              = IF j = k THEN Latest(n, j) ELSE Over(buffer, j, Latest(n, j))
        BY <1>1, OverKept
      <4> QED
        BY <2>1, <2>4, <4>1, <4>2, ViewSeen DEF Seen
    <3>2. held' = [held EXCEPT ![k] = @ \cup {View(k)'}]
      BY <1>1, <1>3, <2>1
    <3> QED
      BY <1>1, <2>1, <2>2, <3>1, <3>2, ChangeStep
  <2>5. CASE end # "ok"
    <3>1. \/ \A j \in Key : View(j)' = IF j = k THEN None ELSE View(j)
          \/ \A j \in Key : View(j)' = View(j)
      <4>1. CASE Unchanged(tree, n)
        BY <2>1, <2>5, <4>1, ViewKept DEF Unchanged
      <4>2. CASE Changed(tree, k, None, n)
        <5>1. ASSUME NEW j \in Key
              PROVE  View(j)' = Over(buffer, j, Latest(n, j))
                     /\ View(j) = Over(buffer, j, Latest(tree, j))
          BY <2>1, <2>5, ViewSeen DEF Seen
        <5>2. \A j \in Key : j # k => View(j)' = View(j)
          BY <4>2, <5>1 DEF Changed
        <5>3. CASE \A i \in 1 .. Len(buffer) : buffer[i].key # k
          <6>1. View(k)' = None
            BY <1>1, <4>2, <5>1, <5>3, OverNone DEF Changed
          <6> QED
            BY <5>2, <6>1
        <5>4. CASE ~(\A i \in 1 .. Len(buffer) : buffer[i].key # k)
          <6>1. PICK i \in 1 .. Len(buffer) : \A x : Over(buffer, k, x) = buffer[i].content
            BY <1>1, <5>4, OverFacts
          <6>2. View(k)' = View(k)
            BY <5>1, <6>1
          <6> QED
            BY <5>2, <6>2
        <5> QED
          BY <5>3, <5>4
      <4> QED
        BY <2>3, <4>1, <4>2
    <3>2. held' = [held EXCEPT ![k] = @ \cup {View(k)'}]
      BY <1>1, <1>3, <2>1
    <3> QED
      BY <1>1, <2>1, <2>2, <2>5, <3>1, <3>2, ChangeStep
  <2> QED
    BY <2>4, <2>5
<1>6. ASSUME NEW s \in Snapshots, ImportSnapshot(s) PROVE Promise!Next
  BY <1>2, <1>6 DEF ImportSnapshot, NoAnswer
<1>7. ASSUME Deinit \/ Flushed \/ ImportDone \/ NothingToCompact PROVE Promise!Next
  BY <1>2, <1>7 DEF Deinit, Flushed, ImportDone, NothingToCompact, NoAnswer
<1>8. ASSUME NEW fault \in WriteFaults, FlushEntry(fault) PROVE Promise!Next
  <2> DEFINE e == Head(buffer)
             n == Mutate(tree, e.key, e.content, fault).tree
             end == Mutate(tree, e.key, e.content, fault).end
  <2>1. /\ tree' = n /\ held' = held /\ answered' = << >> /\ buffer # << >>
        /\ status = "up" /\ status' = "up"
        /\ buffer' = IF end = "ok" THEN Tail(buffer) ELSE buffer
    BY <1>8 DEF FlushEntry, Flushing, NoAnswer
  <2>2. e \in Change
    BY <1>1, <2>1
  <2>3. e.key \in Key /\ e.content \in Content
    BY <2>2 DEF Change
  <2>4. /\ end = "ok" => Changed(tree, e.key, e.content, n)
        /\ Changed(tree, e.key, e.content, n) \/ Unchanged(tree, n)
    <3> HIDE DEF e
    <3> QED
      BY <1>1, <2>3, MutateFacts
  <2>5. ASSUME NEW j \in Key, NEW x
        PROVE  /\ Over(buffer, j, x) = Over(Tail(buffer), j, IF j = e.key THEN e.content ELSE x)
               /\ j = e.key => \A y : Over(buffer, j, x) = Over(buffer, j, y)
    BY <1>1, <2>1, OverHead
  <2> HIDE DEF n, end, e
  <2>6. ASSUME NEW j \in Key PROVE View(j)' = View(j)
    <3>1. /\ View(j)' = Over(buffer', j, Latest(n, j))
          /\ View(j) = Over(buffer, j, Latest(tree, j))
      BY <2>1, ViewSeen DEF Seen
    <3>2. CASE end = "ok"
      <4>1. Latest(n, j) = IF j = e.key THEN e.content ELSE Latest(tree, j)
        BY <2>4, <3>2 DEF Changed
      <4> QED
        BY <2>1, <2>5, <3>1, <3>2, <4>1
    <3>3. CASE end # "ok" /\ Unchanged(tree, n)
      BY <2>1, <3>1, <3>3 DEF Unchanged
    <3>4. CASE end # "ok" /\ Changed(tree, e.key, e.content, n)
      <4>1. j # e.key => Latest(n, j) = Latest(tree, j)
        BY <3>4 DEF Changed
      <4> QED
        BY <2>1, <2>5, <3>1, <3>4, <4>1
    <3> QED
      BY <2>4, <3>2, <3>3, <3>4
  <2> QED
    BY <2>1, <2>6, WorkStep
<1>9. ASSUME NEW fault \in WriteFaults, ImportRecord(fault) PROVE Promise!Next
  <2> DEFINE r == Head(todo)
  <2>1. todo # << >> /\ call = "import" /\ status = "up" /\ status' = "up" /\ buffer' = buffer
    BY <1>9 DEF ImportRecord
  <2>2. r \in Change
    BY <2>1 DEF TypeInv
  <2>3. r.key \in Key /\ r.content \in Content
    BY <2>2 DEF Change
  <2> HIDE DEF r
  <2>4. PICK k \in Key, content \in Content : k = r.key /\ content = r.content
    BY <2>3
  <2> DEFINE n == Mutate(tree, k, content, fault).tree
             end == Mutate(tree, k, content, fault).end
  <2>5. /\ tree' = n /\ Answer(k, content, end)
        /\ held' = [held EXCEPT ![k] = @ \cup {Latest(n, k)}]
    BY <1>9, <2>4 DEF ImportRecord, r
  <2>6. /\ end = "ok" => Changed(tree, k, content, n)
        /\ Changed(tree, k, content, n) \/ Unchanged(tree, n)
    BY <1>1, MutateFacts
  <2> HIDE DEF n, end
  <2>7. ASSUME NEW j \in Key PROVE View(j)' = Latest(n, j) /\ View(j) = Latest(tree, j)
    <3>1. buffer = << >>
      BY <2>1 DEF ImportInv
    <3>2. \A i \in 1 .. Len(buffer) : buffer[i].key # j
      BY <3>1
    <3>3. \A x : Over(buffer, j, x) = x
      BY <1>1, <3>2, OverNone
    <3> QED
      BY <2>1, <2>5, <3>3, ViewSeen DEF Seen
  <2>8. held' = [held EXCEPT ![k] = @ \cup {View(k)'}]
    BY <2>5, <2>7
  <2>9. \/ \A j \in Key : View(j)' = IF j = k THEN content ELSE View(j)
        \/ end # "ok" /\ \A j \in Key : View(j)' = View(j)
    <3>1. CASE Changed(tree, k, content, n)
      BY <2>7, <3>1 DEF Changed
    <3>2. CASE end # "ok" /\ Unchanged(tree, n)
      BY <2>7, <3>2 DEF Unchanged
    <3> QED
      BY <2>6, <3>1, <3>2
  <2> QED
    BY <1>1, <2>1, <2>5, <2>8, <2>9, ChangeStep
<1>10. ASSUME NEW fault \in CompactFaults, CompactStep(fault) PROVE Promise!Next
  <2> DEFINE n == CompactIfCrowded(tree, level, fault).tree
  <2>1. \A k : Latest(n, k) = Latest(tree, k)
    BY <1>1, CompactFacts DEF TypeInv
  <2>2. /\ tree' = n /\ status = "up" /\ status' = "up" /\ answered' = << >>
        /\ UNCHANGED <<buffer, held>>
    BY <1>10 DEF CompactStep, NoAnswer
  <2> HIDE DEF n
  <2>3. \A k \in Key : View(k)' = View(k)
    BY <2>1, <2>2, ViewKept
  <2> QED
    BY <2>2, <2>3, WorkStep
<1>11. ASSUME NEW file, Gone(file), status = "up" PROVE Promise!Next
  <2>1. status' = "down" /\ answered' = << >> /\ held' = held
    BY <1>11 DEF Gone, NoAnswer
  <2> QED
    BY <1>3, <1>11, <2>1, FailStep
<1>12. ASSUME NEW fault, Close(fault) PROVE Promise!Next
  BY <1>11, <1>12 DEF Close
<1>13. CASE Crash
  BY <1>11, <1>13 DEF Crash
<1>14. CASE Restart
  <2>1. status = "down" /\ answered = << >> /\ answered' = << >> /\ buffer = << >>
        /\ UNCHANGED <<buffer, held>>
    BY <1>14 DEF Restart, NoAnswer, TypeInv
  <2>2. CASE Recovers(tree.log.file)
    <3> DEFINE f == tree.log.file
               n == Recovered(f, tree.leftovers)
    <3>1. tree' = n /\ status' = "up"
      BY <1>14, <2>2 DEF Restart
    <3>2. f \in Seq(Entry) /\ tree.leftovers \subseteq TableName
      BY <1>1, SoundFacts, ImageFacts DEF Sound
    <3>3. \A k : Latest(n, k) = ContentIn(RowsOf(Replayed(f), k))
      BY <2>2, <3>2, RecoveredFacts
    <3> HIDE DEF n
    <3>4. ASSUME NEW k \in Key PROVE View(k)' = View(k)
      <4>1. View(k) = ContentIn(RowsOf(Replayed(f), k))
        BY <2>1, <2>2, ViewSeen DEF Seen
      <4>2. \A i \in 1 .. Len(buffer) : buffer[i].key # k
        BY <2>1
      <4>3. Over(buffer, k, Latest(n, k)) = Latest(n, k)
        BY <1>1, <4>2, OverNone
      <4>4. View(k)' = Over(buffer, k, Latest(n, k))
        BY <2>1, <3>1, ViewSeen DEF Seen
      <4> QED
        BY <3>3, <4>1, <4>3, <4>4
    <3> QED
      BY <2>1, <3>1, <3>4, RecoverStep
  <2>3. CASE ~Recovers(tree.log.file)
    <3>1. status' = "refused" /\ tree' = tree
      BY <1>14, <2>3 DEF Restart
    <3>2. \A k \in Key : View(k)' = View(k)
      BY <2>1, <3>1, ViewSeen DEF Seen
    <3> QED
      BY <2>1, <3>1, <3>2, WorkStep
  <2> QED
    BY <2>2, <2>3
<1>15. CASE UNCHANGED vars
  <2>1. status' = status /\ held' = held /\ answered' = answered /\ tree' = tree
        /\ buffer' = buffer
    BY <1>15 DEF vars
  <2>2. Dict' = Dict
    BY <2>1, ViewSeen DEF Dict
  <2> QED
    BY <2>1, <2>2 DEF Promise!vars, Dict
<1> QED
  BY <1>4, <1>5, <1>6, <1>7, <1>8, <1>9, <1>10, <1>12, <1>13, <1>14, <1>15 DEF Next

\* Buffer, memtable, tables, compaction, log and replay together are a map
\* that a call changes at its key and nothing else changes; a restart may lose
\* changes but never makes up a content.
THEOREM ActsAsMapAlways == Spec => ActsAsMap
<1>1. TypeInv /\ StoreInv /\ ImportInv /\ TypeInv' /\ StoreInv' /\ [Next]_vars
        => [Promise!Next]_(Promise!vars)
  BY MapStep
<1> QED
  BY <1>1, MapInit, TypeInit, TypeStep, StoreInit, StoreStep, ImportInit, ImportStep, PTL
     DEF Spec, ActsAsMap, Promise!Spec

----------------------------------------------------------------------------
(* The log grows.                                                          *)

LEMMA LoggedContinues ==
    ASSUME NEW log \in Logs, NEW r \in Record, NEW new, Logged(log, r, new)
    PROVE  new.file \in Seq(Entry) /\ Continues(log.file, new.file)
<1> DEFINE whole == Whole(log, r)
<1>1. /\ whole \in Logs /\ Len(whole.buffer) = Len(log.buffer) + 1 /\ whole.file = log.file
      /\ log.file \in Seq(Entry)
  BY WholeFacts, ImageFacts DEF Whole
<1>2. Continues(log.file, log.file)
  BY <1>1, ContinuesFacts
<1>3. All(whole) \in Seq(Entry) /\ Continues(log.file, All(whole))
  <2>1. LogOK(Entry, whole) /\ Damage \in Entry
    BY <1>1, ImageFacts DEF LogOK, Entry, Logs
  <2>2. Len(whole.buffer) \in 0 .. Len(whole.buffer)
    BY <1>1, ImageFacts
  <2> HIDE DEF whole
  <2> QED
    BY <1>1, <2>1, <2>2, WrittenContinues DEF All
<1>4. new = whole \/ new = [file |-> All(whole), buffer |-> << >>, gap |-> FALSE]
  BY <1>1 DEF Logged, Whole, All
<1> QED
  BY <1>1, <1>2, <1>3, <1>4

\* A mutation, whatever fails in it, only ever adds to the file.
LEMMA MutateContinues ==
    ASSUME NEW t, Sound(t), NEW k \in Key, NEW content \in Content, NEW fault \in WriteFaults
    PROVE  LET n == Mutate(t, k, content, fault).tree
           IN n.log.file \in Seq(Entry) /\ Continues(t.log.file, n.log.file)
<1> DEFINE n == Mutate(t, k, content, fault).tree
           end == Mutate(t, k, content, fault).end
           r(applied) == [key |-> k, content |-> content, applied |-> applied]
<1>1. t.log \in Logs /\ t.log.file \in Seq(Entry) /\ Continues(t.log.file, t.log.file)
  BY SoundFacts, ImageFacts, ContinuesFacts DEF Sound
<1>2. Outcome(t, k, content, fault, n, end)
  BY MutateFacts
<1> HIDE DEF n, end
<1>3. CASE n = t
  BY <1>1, <1>3 DEF n
<1>4. CASE n.log = Lost(t.log)
  BY <1>1, <1>4 DEF Lost, n
<1>5. ASSUME NEW applied \in BOOLEAN, Logged(t.log, r(applied), n.log)
      PROVE  n.log.file \in Seq(Entry) /\ Continues(t.log.file, n.log.file)
  <2>1. r(applied) \in Record
    BY DEF Record
  <2> HIDE DEF r
  <2> QED
    BY <1>1, <1>5, <2>1, LoggedContinues
<1>6. n = t \/ n.log = Lost(t.log) \/ Logged(t.log, r(FALSE), n.log) \/ Logged(t.log, r(TRUE), n.log)
  BY <1>2 DEF Outcome
<1> HIDE DEF r
<1> QED
  BY <1>3, <1>4, <1>5, <1>6 DEF n

\* What a crash or a shutdown leaves continues the file.
LEMMA LeftContinues ==
    ASSUME NEW log \in Logs
    PROVE  /\ \A f \in CrashFiles(log) : Continues(log.file, f)
           /\ \A succeeds : Continues(log.file, FlushAsync(log, succeeds).file)
<1>1. LogOK(Entry, log) /\ Damage \in Entry
  BY ImageFacts DEF LogOK, Entry, Logs
<1>2. ASSUME NEW f \in CrashFiles(log) PROVE Continues(log.file, f)
  <2>1. Len(log.buffer) \in Nat
    BY ImageFacts
  <2>2. PICK n \in 0 .. Len(log.buffer) : f = Written(log, n) \/ f = Written(log, n) \o <<Damage>>
    BY <1>2, <2>1 DEF CrashFiles
  <2> QED
    BY <1>1, <2>2, WrittenContinues
<1>3. ASSUME NEW succeeds PROVE Continues(log.file, FlushAsync(log, succeeds).file)
  BY <1>1, FlushContinues
<1> QED
  BY <1>2, <1>3

LEMMA LogStep ==
    ASSUME TypeInv, [Next]_vars
    PROVE  IsPrefix(Intact(tree.log.file), Intact(tree'.log.file))
<1>1. Sound(tree) /\ tree.log \in Logs /\ tree.log.file \in Seq(Entry)
  BY SoundFacts, ImageFacts DEF TypeInv, Sound
<1>2. ASSUME NEW f \in Seq(Entry), Continues(tree.log.file, f)
      PROVE  IsPrefix(Intact(tree.log.file), Intact(f))
  <2>1. Continues(Intact(tree.log.file), Intact(f))
    BY <1>1, <1>2, IntactContinues
  <2> QED
    BY <1>1, <1>2, <2>1, IntactFacts, ContinuesFacts
<1>3. CASE tree'.log.file = tree.log.file
  BY <1>1, <1>2, <1>3, ContinuesFacts
<1>4. ASSUME NEW k \in Key, NEW content \in Content, NEW fault \in WriteFaults,
             tree' = Mutate(tree, k, content, fault).tree
      PROVE  IsPrefix(Intact(tree.log.file), Intact(tree'.log.file))
  BY <1>1, <1>2, <1>4, MutateContinues
<1>5. ASSUME NEW file \in Seq(Entry), Continues(tree.log.file, file), Gone(file)
      PROVE  IsPrefix(Intact(tree.log.file), Intact(tree'.log.file))
  <2>1. tree'.log.file = file
    <3> DEFINE n == [EmptyTree EXCEPT !.log = Reopened(file), !.leftovers = FilesLeft(tree)]
    <3>1. FilesLeft(tree) \subseteq TableName
      BY <1>1, LeftFacts DEF Sound
    <3>2. n.log = Reopened(file)
      BY <3>1, GoneFacts
    <3>3. tree' = n
      BY <1>5 DEF Gone
    <3> HIDE DEF n
    <3> QED
      BY <3>2, <3>3, ReopenedFacts
  <2> QED
    BY <1>2, <1>5, <2>1
<1>6. ASSUME NEW k \in Key, NEW v \in Value, Put(k, v) PROVE tree' = tree
  BY <1>6 DEF Put
<1>7. ASSUME NEW k \in Key, NEW fault \in WriteFaults, Delete(k, fault)
      PROVE  IsPrefix(Intact(tree.log.file), Intact(tree'.log.file))
  BY <1>4, <1>7, Bounds DEF Delete
<1>8. ASSUME NEW s \in Snapshots, ImportSnapshot(s) PROVE tree' = tree
  BY <1>8 DEF ImportSnapshot
<1>9. ASSUME NEW fault \in WriteFaults, FlushEntry(fault)
      PROVE  IsPrefix(Intact(tree.log.file), Intact(tree'.log.file))
  <2>1. Head(buffer) \in Change
    BY <1>9 DEF FlushEntry, TypeInv
  <2>2. Head(buffer).key \in Key /\ Head(buffer).content \in Content
    BY <2>1 DEF Change
  <2> QED
    BY <1>4, <1>9, <2>2 DEF FlushEntry
<1>10. ASSUME NEW fault \in WriteFaults, ImportRecord(fault)
       PROVE  IsPrefix(Intact(tree.log.file), Intact(tree'.log.file))
  <2>1. Head(todo) \in Change
    BY <1>10 DEF ImportRecord, TypeInv
  <2>2. Head(todo).key \in Key /\ Head(todo).content \in Content
    BY <2>1 DEF Change
  <2> QED
    BY <1>4, <1>10, <2>2 DEF ImportRecord
<1>11. ASSUME NEW fault \in CompactFaults, CompactStep(fault)
       PROVE  tree'.log.file = tree.log.file
  <2>1. tree' = CompactIfCrowded(tree, level, fault).tree
    BY <1>11 DEF CompactStep
  <2> QED
    BY <1>1, <2>1, CompactFacts DEF TypeInv
<1>12. ASSUME NEW fault, Close(fault)
       PROVE  IsPrefix(Intact(tree.log.file), Intact(tree'.log.file))
  <2> DEFINE file == FlushAsync(tree.log, fault # "wal").file
  <2>1. Gone(file)
    BY <1>12 DEF Close
  <2>2. file \in Seq(Entry) /\ Continues(tree.log.file, file)
    BY <1>1, LeftImages, LeftContinues
  <2> HIDE DEF file
  <2> QED
    BY <1>5, <2>1, <2>2
<1>13. CASE Crash
  <2>1. PICK file \in CrashFiles(tree.log) : Gone(file)
    BY <1>13 DEF Crash
  <2>2. file \in Seq(Entry) /\ Continues(tree.log.file, file)
    BY <1>1, LeftImages, LeftContinues
  <2> QED
    BY <1>5, <2>1, <2>2
<1>14. CASE Restart
  <2>1. CASE Recovers(tree.log.file)
    <3> DEFINE n == Recovered(tree.log.file, tree.leftovers)
    <3>1. tree.leftovers \subseteq TableName
      BY <1>1, SoundFacts DEF Sound
    <3>2. n.log = Reopened(tree.log.file)
      BY <1>1, <2>1, <3>1, RecoveredFacts
    <3>3. tree' = n
      BY <1>14, <2>1 DEF Restart
    <3> HIDE DEF n
    <3>4. tree'.log.file = tree.log.file
      BY <1>1, <3>2, <3>3, ReopenedFacts
    <3> QED
      BY <1>3, <3>4
  <2>2. CASE ~Recovers(tree.log.file)
    BY <1>3, <1>14, <2>2 DEF Restart
  <2> QED
    BY <2>1, <2>2
<1>15. CASE Deinit \/ Flushed \/ ImportDone \/ NothingToCompact \/ UNCHANGED vars
  BY <1>3, <1>15 DEF Deinit, Flushed, ImportDone, NothingToCompact, vars
<1> QED
  BY <1>3, <1>6, <1>7, <1>8, <1>9, <1>10, <1>11, <1>12, <1>13, <1>14, <1>15 DEF Next

\* What one restart would replay, every later one replays first: no flush,
\* failed write, lost buffer, torn record, merge, shutdown or crash takes an
\* intact record back or puts another in front of it.
THEOREM LogGrowsAlways == Spec => LogOnlyGrows
<1>1. TypeInv /\ [Next]_vars => [IsPrefix(Intact(tree.log.file), Intact(tree'.log.file))]_vars
  BY LogStep
<1> QED
  BY <1>1, TypeInit, TypeStep, PTL DEF Spec, LogOnlyGrows
=============================================================================
