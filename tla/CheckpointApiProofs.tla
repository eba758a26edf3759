------------------------ MODULE CheckpointApiProofs ------------------------
(***************************************************************************)
(* Theorems about the checkpoint store under any order of public calls,    *)
(* for every ring and archive size, every set of digests and every counter *)
(* width.                                                                  *)
(***************************************************************************)
EXTENDS CheckpointApi, FiniteSetTheorems, WellFoundedInduction, TLAPS

----------------------------------------------------------------------------
(* Sequences of marks: the ring and the evicted slots.                     *)

Seqs(marks) == {marks[i].seq : i \in 1..Len(marks)}

Distinct(marks) == \A i, j \in 1..Len(marks) : marks[i].seq = marks[j].seq => i = j

\* Every mark of r is m or one of marks.
Among(r, marks, m) ==
    \A i \in 1..Len(r) : r[i] = m \/ \E j \in 1..Len(marks) : r[i] = marks[j]

LEMMA EmptySeqs == Seqs(<< >>) = {} /\ Distinct(<< >>) /\ << >> \in Seq(Mark)
BY DEF Seqs, Distinct

LEMMA Appended ==
    ASSUME NEW marks \in Seq(Mark), NEW m \in Mark
    PROVE  LET r == Append(marks, m) IN
           /\ r \in Seq(Mark) /\ Len(r) = Len(marks) + 1
           /\ Seqs(r) = Seqs(marks) \cup {m.seq}
           /\ Among(r, marks, m)
           /\ Distinct(marks) /\ m.seq \notin Seqs(marks) => Distinct(r)
<1> DEFINE r == Append(marks, m)
<1>1. /\ r \in Seq(Mark) /\ Len(r) = Len(marks) + 1 /\ Len(marks) \in Nat
      /\ r[Len(marks) + 1] = m
      /\ \A i \in 1..Len(marks) : r[i] = marks[i]
  OBVIOUS
<1> HIDE DEF r
<1>2. \A i \in 1..Len(r) : i = Len(marks) + 1 \/ i \in 1..Len(marks)
  BY <1>1
<1>3. Among(r, marks, m)
  BY <1>1, <1>2 DEF Among
<1>4. Seqs(r) = Seqs(marks) \cup {m.seq}
  <2>1. \A x \in Seqs(r) : x \in Seqs(marks) \cup {m.seq}
    BY <1>1, <1>2 DEF Seqs
  <2>2. \A x \in Seqs(marks) : x \in Seqs(r)
    <3>1. \A i \in 1..Len(marks) : i \in 1..Len(r)
      BY <1>1
    <3> QED
      BY <1>1, <3>1 DEF Seqs
  <2>3. m.seq \in Seqs(r)
    <3>1. Len(marks) + 1 \in 1..Len(r)
      BY <1>1
    <3> QED
      BY <1>1, <3>1 DEF Seqs
  <2> QED
    BY <2>1, <2>2, <2>3
<1>5. ASSUME Distinct(marks), m.seq \notin Seqs(marks) PROVE Distinct(r)
  <2>1. \A i \in 1..Len(marks) : r[i].seq # m.seq
    BY <1>1, <1>5 DEF Seqs
  <2> QED
    BY <1>1, <1>2, <1>5, <2>1 DEF Distinct
<1> QED
  BY <1>1, <1>3, <1>4, <1>5 DEF r

LEMMA Shifted ==
    ASSUME NEW marks \in Seq(Mark), marks # << >>
    PROVE  /\ Head(marks) \in Mark
           /\ Tail(marks) \in Seq(Mark) /\ Len(Tail(marks)) = Len(marks) - 1
           /\ Seqs(marks) = Seqs(Tail(marks)) \cup {Head(marks).seq}
           /\ \A i \in 1..Len(Tail(marks)) :
                  \E j \in 1..Len(marks) : Tail(marks)[i] = marks[j]
           /\ Distinct(marks) => Distinct(Tail(marks))
<1> DEFINE r == Tail(marks)
<1>1. /\ r \in Seq(Mark) /\ Len(r) = Len(marks) - 1 /\ Len(marks) \in Nat \ {0}
      /\ Head(marks) = marks[1] /\ marks[1] \in Mark
      /\ \A i \in 1..Len(r) : r[i] = marks[i + 1]
  OBVIOUS
<1> HIDE DEF r
<1>2. \A i \in 1..Len(r) : i + 1 \in 1..Len(marks)
  BY <1>1
<1>3. Seqs(marks) = Seqs(r) \cup {Head(marks).seq}
  <2>1. \A x \in Seqs(r) : x \in Seqs(marks)
    BY <1>1, <1>2 DEF Seqs
  <2>2. Head(marks).seq \in Seqs(marks)
    <3>1. 1 \in 1..Len(marks)
      BY <1>1
    <3> QED
      BY <1>1, <3>1 DEF Seqs
  <2>3. ASSUME NEW i \in 1..Len(marks), i # 1 PROVE marks[i].seq \in Seqs(r)
    <3>1. i - 1 \in 1..Len(r) /\ (i - 1) + 1 = i
      BY <1>1, <2>3
    <3>2. r[i - 1] = marks[i]
      BY <1>1, <3>1
    <3> QED
      BY <3>1, <3>2 DEF Seqs
  <2>4. \A x \in Seqs(marks) : x \in Seqs(r) \cup {Head(marks).seq}
    BY <1>1, <2>3 DEF Seqs
  <2> QED
    BY <2>1, <2>2, <2>4
<1>4. Distinct(marks) => Distinct(r)
  <2> SUFFICES ASSUME Distinct(marks), NEW i \in 1..Len(r), NEW j \in 1..Len(r),
                      r[i].seq = r[j].seq
               PROVE  i = j
    BY DEF Distinct
  <2>1. i + 1 = j + 1
    BY <1>1, <1>2 DEF Distinct
  <2> QED
    BY <2>1
<1> QED
  BY <1>1, <1>2, <1>3, <1>4 DEF r

----------------------------------------------------------------------------
(* Stores whose ring has at most one slot per sequence.                    *)

Tidy == {c \in Store : Len(c.ring) <= RingCap /\ Distinct(c.ring)}

\* A look-up finds the slot of a sequence, if there is one.
LEMMA Lookup ==
    ASSUME NEW c \in Tidy
    PROVE  /\ \A s : RingDigest(c, s) \in Digest \cup {None}
           /\ \A s : RingDigest(c, s) # None <=> s \in Seqs(c.ring)
           /\ \A i \in 1..Len(c.ring) : RingDigest(c, c.ring[i].seq) = c.ring[i].digest
<1>1. c.ring \in Seq(Mark) /\ DOMAIN c.ring = 1..Len(c.ring)
  BY DEF Tidy, Store
<1>2. ASSUME NEW i \in 1..Len(c.ring)
      PROVE  RingDigest(c, c.ring[i].seq) = c.ring[i].digest /\ c.ring[i].digest \in Digest
  <2>1. i \in Slots(c, c.ring[i].seq)
    BY <1>1 DEF Slots
  <2>2. \A j \in Slots(c, c.ring[i].seq) : j = i
    BY <1>1 DEF Slots, Tidy, Distinct
  <2>3. (CHOOSE j \in Slots(c, c.ring[i].seq) : TRUE) = i
    BY <2>1, <2>2
  <2>4. c.ring[i] \in Mark
    BY <1>1
  <2> QED
    BY <2>1, <2>3, <2>4 DEF RingDigest, Mark
<1>3. ASSUME NEW s, s \notin Seqs(c.ring) PROVE RingDigest(c, s) = None
  BY <1>1, <1>3 DEF RingDigest, Slots, Seqs
<1>4. ASSUME NEW s, s \in Seqs(c.ring) PROVE RingDigest(c, s) \in Digest
  <2>1. PICK i \in 1..Len(c.ring) : c.ring[i].seq = s
    BY <1>4 DEF Seqs
  <2> QED
    BY <1>2, <2>1
<1>5. None \notin Digest
  BY SequenceAssumption
<1> QED
  BY <1>2, <1>3, <1>4, <1>5

\* What noting a digest does, while the evicted slots have room: the sequence
\* has a slot, the others keep theirs or move to the evicted slots, and no
\* digest of a slot changes.
LEMMA Noted ==
    ASSUME NEW c \in Tidy, Len(c.evicted) < EvictedCap, NEW s \in SeqNo, NEW d \in Digest
    PROVE  LET n == NoteDigest(c, s, d) IN
           /\ n \in Tidy
           /\ n.current = c.current /\ n.marker = c.marker
           /\ n.markerDigest = c.markerDigest /\ n.head = c.head
           /\ Len(n.evicted) <= Len(c.evicted) + 1
           /\ s \in Seqs(n.ring) /\ Seqs(n.ring) \subseteq Seqs(c.ring) \cup {s}
           /\ Seqs(c.ring) \cup Seqs(c.evicted) \subseteq Seqs(n.ring) \cup Seqs(n.evicted)
           /\ \A t \in Seqs(n.ring) \ {s} : RingDigest(n, t) = RingDigest(c, t)
<1> DEFINE m == [seq |-> s, digest |-> d]
           n == NoteDigest(c, s, d)
<1>1. /\ c \in Store /\ c.ring \in Seq(Mark) /\ c.evicted \in Seq(Mark)
      /\ Len(c.ring) \in Nat /\ Len(c.evicted) \in Nat
      /\ Len(c.ring) <= RingCap /\ Distinct(c.ring) /\ RingCap \in Nat \ {0}
      /\ m \in Mark /\ m.seq = s
  BY SequenceAssumption DEF Tidy, Store, Mark
<1>2. CASE RingDigest(c, s) # None
  <2>1. n = c
    BY <1>2 DEF NoteDigest
  <2>2. s \in Seqs(c.ring)
    BY <1>2, Lookup
  <2> HIDE DEF n
  <2> QED
    BY <1>1, <2>1, <2>2 DEF n
<1>3. CASE RingDigest(c, s) = None
  <2> HIDE DEF m
  <2>1. s \notin Seqs(c.ring)
    BY <1>3, Lookup
  <2>2. PICK r, e :
          /\ n = [c EXCEPT !.ring = r, !.evicted = e]
          /\ r \in Seq(Mark) /\ e \in Seq(Mark)
          /\ Len(r) <= RingCap /\ Distinct(r) /\ Among(r, c.ring, m)
          /\ Seqs(r) \subseteq Seqs(c.ring) \cup {s} /\ s \in Seqs(r)
          /\ Seqs(c.ring) \cup Seqs(c.evicted) \subseteq Seqs(r) \cup Seqs(e)
          /\ Len(e) <= Len(c.evicted) + 1
    <3>1. CASE Len(c.ring) < RingCap
      <4> DEFINE r == Append(c.ring, m)
      <4>1. n = [c EXCEPT !.ring = r, !.evicted = c.evicted]
        BY <1>1, <1>3, <3>1 DEF NoteDigest, Store, m
      <4>2. /\ r \in Seq(Mark) /\ Len(r) = Len(c.ring) + 1
            /\ Seqs(r) = Seqs(c.ring) \cup {s} /\ Among(r, c.ring, m) /\ Distinct(r)
        BY <1>1, <2>1, Appended
      <4> HIDE DEF r
      <4>3. Len(r) <= RingCap /\ Len(c.evicted) <= Len(c.evicted) + 1
        BY <1>1, <3>1, <4>2
      <4> QED
        BY <1>1, <4>1, <4>2, <4>3
    <3>2. CASE ~(Len(c.ring) < RingCap)
      <4> DEFINE tail == Tail(c.ring)
                 r == Append(tail, m)
                 e == Append(c.evicted, Head(c.ring))
      <4>1. n = [c EXCEPT !.ring = r, !.evicted = e]
        BY <1>3, <3>2 DEF NoteDigest, m
      <4>2. c.ring # << >>
        BY <1>1, <3>2
      <4>3. /\ Head(c.ring) \in Mark /\ tail \in Seq(Mark) /\ Len(tail) = Len(c.ring) - 1
            /\ Seqs(c.ring) = Seqs(tail) \cup {Head(c.ring).seq}
            /\ \A i \in 1..Len(tail) : \E j \in 1..Len(c.ring) : tail[i] = c.ring[j]
            /\ Distinct(tail)
        BY <1>1, <4>2, Shifted
      <4> HIDE DEF tail
      <4>4. /\ r \in Seq(Mark) /\ Len(r) = Len(tail) + 1
            /\ Seqs(r) = Seqs(tail) \cup {s} /\ Among(r, tail, m) /\ Distinct(r)
        BY <1>1, <2>1, <4>3, Appended
      <4>5. /\ e \in Seq(Mark) /\ Len(e) = Len(c.evicted) + 1
            /\ Seqs(e) = Seqs(c.evicted) \cup {Head(c.ring).seq}
        BY <1>1, <4>3, Appended
      <4> HIDE DEF r, e
      <4>6. Among(r, c.ring, m)
        BY <4>3, <4>4 DEF Among
      <4>7. Len(r) <= RingCap /\ Len(e) <= Len(c.evicted) + 1
        BY <1>1, <4>3, <4>4, <4>5
      <4> QED
        BY <4>1, <4>3, <4>4, <4>5, <4>6, <4>7
    <3> QED
      BY <3>1, <3>2
  <2> HIDE DEF n
  <2>3. /\ n \in Store /\ n.ring = r /\ n.evicted = e
        /\ n.current = c.current /\ n.marker = c.marker
        /\ n.markerDigest = c.markerDigest /\ n.head = c.head
    BY <1>1, <2>2 DEF Store
  <2>4. n \in Tidy
    BY <2>2, <2>3 DEF Tidy
  <2>5. ASSUME NEW t \in Seqs(n.ring) \ {s} PROVE RingDigest(n, t) = RingDigest(c, t)
    <3>1. PICK i \in 1..Len(n.ring) : n.ring[i].seq = t
      BY DEF Seqs
    <3>2. PICK j \in 1..Len(c.ring) : n.ring[i] = c.ring[j]
      BY <1>1, <2>2, <2>3, <3>1 DEF Among
    <3> QED
      BY <2>4, <3>1, <3>2, Lookup
  <2> QED
    BY <2>2, <2>3, <2>4, <2>5 DEF n
<1> QED
  BY <1>2, <1>3

----------------------------------------------------------------------------
(* The invariant: the ring is tidy and lies at or below the marker, whose  *)
(* digest is the ring's where the ring has one.                            *)

Sound(c) ==
    /\ c.marker = None => c.ring = << >>
    /\ c.marker # None => \A t \in Seqs(c.ring) : t <= c.marker
    /\ c.marker # None /\ RingDigest(c, c.marker) # None =>
           c.markerDigest = RingDigest(c, c.marker)

Fits(a) ==
    /\ DOMAIN a \subseteq SeqNo
    /\ \A s \in DOMAIN a : a[s] \in Digest
    /\ IsFiniteSet(DOMAIN a) /\ Cardinality(DOMAIN a) <= ArchiveCap

ApiInv ==
    /\ cs \in Tidy /\ cs.evicted = << >> /\ Sound(cs)
    /\ Fits(archive)

\* Where a sequence has a digest: in the ring, the archive or the marker.
LEMMA Stored ==
    ASSUME NEW c \in Tidy, NEW a, Fits(a), NEW s
    PROVE  StoredDigest(c, a, s) # None <=>
               \/ s \in Seqs(c.ring)
               \/ s \in DOMAIN a
               \/ c.marker = s /\ c.markerDigest # None
<1>1. \A t \in DOMAIN a : a[t] # None
  BY SequenceAssumption DEF Fits
<1> QED
  BY <1>1, Lookup DEF StoredDigest

\* Hardening keeps the store sound and its marker from retreating, and every
\* digest it takes from the ring or the marker goes to the evicted slots.
Hardened(c, h) ==
    /\ h \in Tidy /\ Sound(h) /\ Len(h.evicted) <= EvictedCap
    /\ c.marker # None => h.marker # None /\ h.marker >= c.marker
    /\ Seqs(c.ring) \subseteq Seqs(h.ring) \cup Seqs(h.evicted)
    /\ c.marker # None /\ c.markerDigest # None =>
           \/ c.marker \in Seqs(h.ring) \cup Seqs(h.evicted)
           \/ h.marker = c.marker /\ h.markerDigest # None

LEMMA HardenSound ==
    ASSUME NEW c \in Tidy, c.evicted = << >>, Sound(c),
           NEW s \in SeqNo, NEW d \in Digest \cup {None}
    PROVE  Hardened(c, HardenThrough(c, s, d))
<1> DEFINE advancing == c.marker = None \/ s > c.marker
           noted == IF advancing /\ c.marker # None /\ c.markerDigest # None
                    THEN NoteDigest(c, c.marker, c.markerDigest) ELSE c
           moved == IF advancing THEN [noted EXCEPT !.marker = s] ELSE noted
           chosen == IF d # None THEN d ELSE HeadDigest(moved, s)
           kept == NoteDigest(moved, s, chosen)
           h == HardenThrough(c, s, d)
<1>1. h = IF ~advancing /\ d = None THEN c
          ELSE IF chosen # None
               THEN IF kept.marker = s
                    THEN [kept EXCEPT !.markerDigest = RingDigest(kept, s)]
                    ELSE kept
          ELSE [moved EXCEPT !.markerDigest = None]
  BY DEF HardenThrough
<1> SUFFICES Hardened(c, h)
  OBVIOUS
<1> HIDE DEF h
<1>2. /\ c \in Store /\ EvictedCap = 2 /\ s \in Nat /\ s # None
      /\ c.marker \in SeqNo \cup {None} /\ SeqNo \subseteq Nat /\ None \notin SeqNo
      /\ c.markerDigest \in Digest \cup {None}
      /\ c.head \in Mark \cup {None}
      /\ Len(c.evicted) = 0 /\ Seqs(c.evicted) = {}
  BY EmptySeqs, SequenceAssumption DEF Tidy, Store, SeqNo, EvictedCap
<1>3. /\ noted \in Tidy /\ noted.marker = c.marker /\ noted.markerDigest = c.markerDigest
      /\ noted.head = c.head /\ Len(noted.evicted) \in {0, 1}
      /\ Seqs(c.ring) \subseteq Seqs(noted.ring) \cup Seqs(noted.evicted)
      /\ advancing /\ c.marker # None /\ c.markerDigest # None =>
             c.marker \in Seqs(noted.ring)
      /\ ~advancing => noted = c
      /\ c.marker # None => \A t \in Seqs(noted.ring) : t <= c.marker
      /\ c.marker = None => noted.ring = << >>
  <2>1. CASE advancing /\ c.marker # None /\ c.markerDigest # None
    <3> DEFINE n == NoteDigest(c, c.marker, c.markerDigest)
    <3>1. /\ c.marker \in SeqNo /\ c.markerDigest \in Digest
          /\ Len(c.evicted) < EvictedCap
      BY <1>2, <2>1
    <3>2. /\ n \in Tidy /\ n.marker = c.marker
          /\ n.markerDigest = c.markerDigest /\ n.head = c.head
          /\ Len(n.evicted) <= Len(c.evicted) + 1
          /\ c.marker \in Seqs(n.ring) /\ Seqs(n.ring) \subseteq Seqs(c.ring) \cup {c.marker}
          /\ Seqs(c.ring) \cup Seqs(c.evicted) \subseteq Seqs(n.ring) \cup Seqs(n.evicted)
      BY <3>1, Noted
    <3> HIDE DEF n
    <3>3. Len(n.evicted) \in {0, 1}
      <4>1. n.evicted \in Seq(Mark)
        BY <3>2 DEF Tidy, Store
      <4>2. Len(n.evicted) \in Nat /\ Len(n.evicted) <= 0 + 1
        BY <1>2, <3>2, <4>1
      <4>3. \A k \in Nat : k <= 0 + 1 => k \in {0, 1}
        OBVIOUS
      <4> QED
        BY <4>2, <4>3
    <3>4. noted = n
      BY <2>1 DEF n
    <3>5. ASSUME NEW t \in Seqs(n.ring) PROVE t <= c.marker
      <4>1. CASE t \in Seqs(c.ring)
        BY <2>1, <4>1 DEF Sound
      <4>2. CASE t = c.marker
        <5>1. c.marker \in Nat
          BY <1>2, <3>1
        <5> QED
          BY <4>2, <5>1
      <4>3. t \in Seqs(c.ring) \cup {c.marker}
        BY <3>2
      <4> QED
        BY <4>1, <4>2, <4>3
    <3> QED
      BY <2>1, <3>2, <3>3, <3>4, <3>5
  <2>2. CASE ~(advancing /\ c.marker # None /\ c.markerDigest # None)
    <3>1. noted = c
      BY <2>2
    <3> QED
      BY <1>2, <2>2, <3>1 DEF Sound
  <2> QED
    BY <2>1, <2>2
<1> HIDE DEF noted
<1>4. /\ moved \in Tidy /\ moved.ring = noted.ring /\ moved.evicted = noted.evicted
      /\ moved.head = c.head /\ moved.markerDigest = c.markerDigest
      /\ moved.marker \in SeqNo
      /\ advancing => moved.marker = s
      /\ ~advancing => moved = c
      /\ \A t : RingDigest(moved, t) = RingDigest(noted, t)
  <2>1. CASE advancing
    <3>1. moved = [noted EXCEPT !.marker = s] /\ noted \in Store
      BY <1>3, <2>1 DEF Tidy
    <3>2. /\ moved \in Store /\ moved.ring = noted.ring /\ moved.evicted = noted.evicted
          /\ moved.head = noted.head /\ moved.markerDigest = noted.markerDigest
          /\ moved.marker = s
      BY <3>1 DEF Store
    <3> HIDE DEF moved
    <3>3. moved \in Tidy /\ \A t : RingDigest(moved, t) = RingDigest(noted, t)
      BY <1>3, <3>2 DEF Tidy, RingDigest, Slots
    <3> QED
      BY <1>3, <2>1, <3>2, <3>3
  <2>2. CASE ~advancing
    <3>1. moved = noted
      BY <2>2
    <3> QED
      BY <1>2, <1>3, <2>2, <3>1
  <2> QED
    BY <2>1, <2>2
<1> HIDE DEF moved
\* Nothing in the ring lies above the marker, nor at it when it has just moved.
<1>5. /\ \A t \in Seqs(moved.ring) : t <= moved.marker
      /\ advancing => s \notin Seqs(moved.ring)
  <2>1. c.marker = None => Seqs(noted.ring) = {}
    BY <1>3, EmptySeqs
  <2>2. Seqs(moved.ring) \subseteq SeqNo
    <3>1. moved.ring \in Seq(Mark)
      BY <1>4 DEF Tidy, Store
    <3>2. \A i \in 1..Len(moved.ring) : moved.ring[i] \in Mark
      BY <3>1
    <3> QED
      BY <3>2 DEF Seqs, Mark
  <2>3. CASE advancing
    <3>1. \A t \in Seqs(moved.ring) : c.marker # None /\ t <= c.marker /\ c.marker < s
      BY <1>2, <1>3, <1>4, <2>1, <2>3
    <3>2. ASSUME NEW t \in Seqs(moved.ring) PROVE t < s
      <4>1. t \in Nat /\ c.marker \in Nat /\ t <= c.marker /\ c.marker < s
        BY <1>2, <2>2, <3>1
      <4> QED
        BY <1>2, <4>1
    <3>3. \A t \in Nat : t < s => t <= s /\ t # s
      BY <1>2
    <3> QED
      BY <1>2, <1>4, <2>2, <2>3, <3>2, <3>3
  <2>4. CASE ~advancing
    BY <1>2, <1>3, <1>4, <2>4
  <2> QED
    BY <2>3, <2>4
<1>6. CASE ~advancing /\ d = None
  <2>1. h = c
    BY <1>1, <1>6
  <2>2. c.marker # None => c.marker \in Nat
    BY <1>2
  <2>3. 0 <= 2 /\ \A n \in Nat : n >= n
    OBVIOUS
  <2> QED
    BY <1>2, <2>1, <2>2, <2>3 DEF Hardened
<1>7. CASE ~(~advancing /\ d = None) /\ chosen # None
  <2>1. chosen \in Digest
    BY <1>4, <1>7, <1>2 DEF HeadDigest, Mark
  <2>2. Len(moved.evicted) < EvictedCap
    <3>1. 0 < 2 /\ 1 < 2
      OBVIOUS
    <3> QED
      BY <1>2, <1>3, <1>4, <3>1
  <2>3. /\ kept \in Tidy /\ kept.marker = moved.marker
        /\ kept.markerDigest = moved.markerDigest
        /\ Len(kept.evicted) <= Len(moved.evicted) + 1
        /\ s \in Seqs(kept.ring) /\ Seqs(kept.ring) \subseteq Seqs(moved.ring) \cup {s}
        /\ Seqs(moved.ring) \cup Seqs(moved.evicted)
               \subseteq Seqs(kept.ring) \cup Seqs(kept.evicted)
        /\ \A t \in Seqs(kept.ring) \ {s} : RingDigest(kept, t) = RingDigest(moved, t)
    <3>1. moved \in Tidy
      BY <1>4
    <3> HIDE DEF chosen
    <3> QED
      BY <2>1, <2>2, <3>1, Noted
  <2> HIDE DEF kept, chosen
  <2>4. Len(kept.evicted) <= EvictedCap
    <3>1. kept.evicted \in Seq(Mark)
      BY <2>3 DEF Tidy, Store
    <3>2. Len(kept.evicted) \in Nat
      BY <3>1
    <3>3. Len(kept.evicted) <= 0 + 1 \/ Len(kept.evicted) <= 1 + 1
      BY <1>3, <1>4, <2>3
    <3>4. Len(kept.evicted) <= 2
      BY <3>2, <3>3
    <3> QED
      BY <1>2, <3>4
  <2>5. RingDigest(kept, s) \in Digest
    BY <2>3, Lookup
  <2>6. s <= moved.marker
    <3>1. CASE advancing
      <4>1. moved.marker = s
        BY <1>4, <3>1
      <4> QED
        BY <1>2, <4>1
    <3>2. CASE ~advancing
      <4>1. moved.marker = c.marker /\ c.marker # None /\ ~(s > c.marker)
        BY <1>4, <3>2
      <4>2. c.marker \in Nat
        BY <1>2, <4>1
      <4> QED
        BY <1>2, <4>1, <4>2
    <3> QED
      BY <3>1, <3>2
  <2>7. /\ h \in Tidy /\ h.ring = kept.ring /\ h.evicted = kept.evicted
        /\ h.marker = moved.marker
        /\ h.markerDigest = IF moved.marker = s THEN RingDigest(kept, s) ELSE moved.markerDigest
        /\ \A t : RingDigest(h, t) = RingDigest(kept, t)
    <3>1. h = IF moved.marker = s THEN [kept EXCEPT !.markerDigest = RingDigest(kept, s)] ELSE kept
      BY <1>1, <1>7, <2>3
    <3>2. /\ h \in Store /\ h.ring = kept.ring /\ h.evicted = kept.evicted
          /\ h.marker = moved.marker
          /\ h.markerDigest = IF moved.marker = s THEN RingDigest(kept, s) ELSE moved.markerDigest
      BY <2>3, <2>5, <3>1 DEF Store, Tidy
    <3> QED
      BY <2>3, <3>2 DEF Tidy, RingDigest, Slots
  <2>8. Sound(h)
    <3>1. \A t \in Seqs(h.ring) : t <= h.marker
      BY <1>5, <2>3, <2>6, <2>7
    <3>2. h.marker # None
      BY <1>2, <1>4, <2>7
    <3>3. ASSUME h.marker # s, RingDigest(h, h.marker) # None
          PROVE  h.markerDigest = RingDigest(h, h.marker)
      <4>1. ~advancing /\ moved = c
        BY <1>4, <2>7, <3>3
      <4>2. h.marker \in Seqs(kept.ring) \ {s}
        BY <2>3, <2>7, <3>3, Lookup
      <4>3. RingDigest(h, h.marker) = RingDigest(c, c.marker) /\ h.markerDigest = c.markerDigest
        BY <2>3, <2>7, <3>3, <4>1, <4>2
      <4> QED
        BY <2>7, <3>2, <3>3, <4>1, <4>3 DEF Sound
    <3> QED
      BY <2>7, <3>1, <3>2, <3>3 DEF Sound
  <2>9. c.marker # None => h.marker # None /\ h.marker >= c.marker
    <3>1. \A m, n \in Nat : m > n \/ m = n => m >= n
      OBVIOUS
    <3>2. c.marker # None => c.marker \in Nat /\ (s > c.marker => advancing)
      BY <1>2
    <3>3. h.marker \in Nat /\ (advancing => h.marker = s) /\ (~advancing => h.marker = c.marker)
      BY <1>2, <1>4, <2>7
    <3> QED
      BY <1>2, <3>1, <3>2, <3>3
  <2>10. /\ Seqs(c.ring) \subseteq Seqs(h.ring) \cup Seqs(h.evicted)
         /\ advancing /\ c.marker # None /\ c.markerDigest # None =>
                c.marker \in Seqs(h.ring) \cup Seqs(h.evicted)
    BY <1>3, <1>4, <2>3, <2>7
  <2>11. ~advancing /\ c.markerDigest # None => h.marker = c.marker /\ h.markerDigest # None
    BY <1>4, <2>5, <2>7, SequenceAssumption
  <2> QED
    BY <2>4, <2>7, <2>8, <2>9, <2>10, <2>11 DEF Hardened
<1>8. CASE ~(~advancing /\ d = None) /\ chosen = None
  <2>1. advancing /\ h = [moved EXCEPT !.markerDigest = None]
    BY <1>1, <1>8
  <2> HIDE DEF advancing
  <2>2. /\ h \in Store /\ h.ring = moved.ring /\ h.evicted = moved.evicted
        /\ h.marker = s /\ h.markerDigest = None
    BY <1>4, <2>1 DEF Tidy, Store
  <2>3. h \in Tidy /\ \A t : RingDigest(h, t) = RingDigest(moved, t)
    BY <1>4, <2>2 DEF Tidy, RingDigest, Slots
  <2>4. RingDigest(h, h.marker) = None
    BY <1>5, <2>1, <2>2, <2>3, Lookup
  <2>5. Sound(h)
    BY <1>2, <1>4, <1>5, <2>1, <2>2, <2>4 DEF Sound
  <2>6. c.marker # None => h.marker >= c.marker
    BY <1>2, <2>1, <2>2 DEF advancing
  <2>7. Len(h.evicted) <= EvictedCap
    <3>1. 0 <= 2 /\ 1 <= 2
      OBVIOUS
    <3> QED
      BY <1>2, <1>3, <1>4, <2>2, <3>1
  <2> QED
    BY <1>2, <1>3, <1>4, <2>1, <2>2, <2>3, <2>5, <2>6, <2>7 DEF Hardened
<1> QED
  BY <1>6, <1>7, <1>8

----------------------------------------------------------------------------
(* The archive.                                                            *)

\* A digest that is still there, or lies below everything in a full archive.
Spared(a, t) ==
    \/ t \in DOMAIN a
    \/ Cardinality(DOMAIN a) = ArchiveCap /\ \A u \in DOMAIN a : t < u

LEMMA LowestFacts ==
    ASSUME NEW a, Fits(a), DOMAIN a # {}
    PROVE  Lowest(a) \in DOMAIN a /\ \A t \in DOMAIN a : Lowest(a) <= t
<1>0. DOMAIN a \subseteq Nat
  BY DEF Fits, SeqNo
<1>1. PICK x \in DOMAIN a : \A y \in DOMAIN a : ~(<<y, x>> \in OpToRel(<, Nat))
  BY <1>0, NatLessThanWellFounded, WFMin
<1>2. ASSUME NEW y \in DOMAIN a PROVE x <= y
  <2>1. x \in Nat /\ y \in Nat /\ ~(y < x)
    BY <1>0, <1>1 DEF OpToRel
  <2> QED
    BY <2>1
<1> QED
  BY <1>2 DEF Lowest

\* Archiving one digest keeps the archive within its size and spares the digest
\* and all that were spared before.
LEMMA RetainedOne ==
    ASSUME NEW a, Fits(a), NEW m \in Mark
    PROVE  /\ Fits(RetainOne(a, m))
           /\ Spared(RetainOne(a, m), m.seq)
           /\ \A t \in Nat : Spared(a, t) => Spared(RetainOne(a, m), t)
<1>1. /\ m.seq \in Nat /\ m.seq \in SeqNo /\ m.digest \in Digest
      /\ DOMAIN a \subseteq SeqNo /\ SeqNo \subseteq Nat
      /\ Cardinality(DOMAIN a) \in Nat /\ Cardinality(DOMAIN a) <= ArchiveCap
      /\ ArchiveCap \in Nat \ {0} /\ IsFiniteSet(DOMAIN a)
  BY FS_CardinalityType, SequenceAssumption DEF Fits, Mark, SeqNo
<1>2. ASSUME NEW dom, dom \subseteq DOMAIN a
      PROVE  /\ DOMAIN Keep(a, dom, m) = dom \cup {m.seq}
             /\ \A t \in dom \cup {m.seq} : Keep(a, dom, m)[t] \in Digest
  BY <1>1, <1>2 DEF Keep, Fits
<1>3. CASE m.seq \in DOMAIN a
  BY <1>3 DEF RetainOne, Spared
<1>4. CASE m.seq \notin DOMAIN a /\ Cardinality(DOMAIN a) < ArchiveCap
  <2> DEFINE r == RetainOne(a, m)
  <2>1. r = Keep(a, DOMAIN a, m)
    BY <1>4 DEF RetainOne
  <2>2. DOMAIN r = DOMAIN a \cup {m.seq} /\ \A t \in DOMAIN r : r[t] \in Digest
    BY <1>2, <2>1
  <2> HIDE DEF r
  <2>3. IsFiniteSet(DOMAIN r) /\ Cardinality(DOMAIN r) = Cardinality(DOMAIN a) + 1
    BY <1>1, <1>4, <2>2, FS_AddElement
  <2>4. Cardinality(DOMAIN r) <= ArchiveCap
    BY <1>1, <1>4, <2>3
  <2>5. \A t \in Nat : Spared(a, t) => t \in DOMAIN r
    <3>1. Cardinality(DOMAIN a) # ArchiveCap
      BY <1>1, <1>4
    <3> QED
      BY <2>2, <3>1 DEF Spared
  <2> QED
    BY <1>1, <2>2, <2>3, <2>4, <2>5 DEF Fits, Spared, r
<1>5. CASE m.seq \notin DOMAIN a /\ ~(Cardinality(DOMAIN a) < ArchiveCap)
  <2>1. Cardinality(DOMAIN a) = ArchiveCap
    BY <1>1, <1>5
  <2>2. DOMAIN a # {}
    BY <1>1, <2>1, FS_EmptySet
  <2>3. /\ Lowest(a) \in DOMAIN a /\ Lowest(a) \in Nat
        /\ \A t \in DOMAIN a : t \in Nat /\ Lowest(a) <= t
    BY <1>1, <2>2, LowestFacts
  <2>4. CASE m.seq <= Lowest(a)
    <3>1. RetainOne(a, m) = a
      BY <1>5, <2>4 DEF RetainOne
    <3>2. m.seq < Lowest(a)
      BY <1>1, <1>5, <2>3, <2>4
    <3>3. \A u \in DOMAIN a : m.seq < u
      BY <1>1, <2>3, <3>2
    <3> QED
      BY <2>1, <3>1, <3>3 DEF Spared
  <2>5. CASE ~(m.seq <= Lowest(a))
    <3> DEFINE r == RetainOne(a, m)
               rest == DOMAIN a \ {Lowest(a)}
    <3>1. r = Keep(a, rest, m)
      BY <1>5, <2>5 DEF RetainOne
    <3>2. DOMAIN r = rest \cup {m.seq} /\ \A t \in DOMAIN r : r[t] \in Digest
      BY <1>2, <3>1
    <3> HIDE DEF r
    <3>3. /\ IsFiniteSet(rest) /\ Cardinality(rest) = Cardinality(DOMAIN a) - 1
          /\ m.seq \notin rest
      BY <1>1, <1>5, <2>3, FS_RemoveElement
    <3>4. IsFiniteSet(DOMAIN r) /\ Cardinality(DOMAIN r) = Cardinality(rest) + 1
      <4> HIDE DEF rest
      <4>1. /\ IsFiniteSet(rest \cup {m.seq})
            /\ Cardinality(rest \cup {m.seq}) = Cardinality(rest) + 1
        BY <3>3, FS_AddElement
      <4> QED
        BY <3>2, <4>1
    <3>5. Cardinality(DOMAIN r) = ArchiveCap
      BY <1>1, <2>1, <3>3, <3>4
    <3>6. Fits(r)
      BY <1>1, <3>2, <3>4, <3>5 DEF Fits
    <3>7. \A u \in DOMAIN r : Lowest(a) < u
      BY <1>1, <2>3, <2>5, <3>2
    <3>8. ASSUME NEW t \in Nat, Spared(a, t) PROVE Spared(r, t)
      <4>1. CASE t \in DOMAIN a
        <5>1. CASE t = Lowest(a)
          BY <3>5, <3>7, <5>1 DEF Spared
        <5>2. CASE t # Lowest(a)
          BY <3>2, <4>1, <5>2 DEF Spared
        <5> QED
          BY <5>1, <5>2
      <4>2. CASE t \notin DOMAIN a
        <5>1. t < Lowest(a)
          BY <2>3, <3>8, <4>2 DEF Spared
        <5>2. \A u \in DOMAIN r : u \in Nat
          BY <1>1, <3>2
        <5>3. \A u \in DOMAIN r : t < u
          BY <2>3, <3>7, <5>1, <5>2
        <5> QED
          BY <3>5, <5>3 DEF Spared
      <4> QED
        BY <4>1, <4>2
    <3>9. Spared(r, m.seq)
      BY <3>2 DEF Spared
    <3> QED
      BY <3>6, <3>8, <3>9 DEF r
  <2> QED
    BY <2>4, <2>5
<1> QED
  BY <1>3, <1>4, <1>5

\* So does archiving the evicted slots.
LEMMA Retained ==
    ASSUME NEW a, Fits(a), NEW evicted \in Seq(Mark), Len(evicted) <= EvictedCap
    PROVE  /\ Fits(Retain(a, evicted))
           /\ \A t \in Nat : t \in DOMAIN a \/ t \in Seqs(evicted) =>
                  Spared(Retain(a, evicted), t)
<1>1. \A t \in Nat : t \in DOMAIN a => Spared(a, t)
  BY DEF Spared
<1>2. Len(evicted) \in Nat /\ \A i \in 1..Len(evicted) : evicted[i] \in Mark
  OBVIOUS
<1>3. Len(evicted) = 0 \/ Len(evicted) = 1 \/ Len(evicted) = 2
  <2>1. \A n \in Nat : n <= 2 => n = 0 \/ n = 1 \/ n = 2
    OBVIOUS
  <2> QED
    BY <1>2, <2>1 DEF EvictedCap
<1>4. CASE Len(evicted) = 0
  <2>1. Retain(a, evicted) = a /\ Seqs(evicted) = {}
    BY <1>4 DEF Retain, Seqs
  <2> QED
    BY <1>1, <2>1
<1>5. CASE Len(evicted) = 1
  <2>1. Retain(a, evicted) = RetainOne(a, evicted[1]) /\ Seqs(evicted) = {evicted[1].seq}
    BY <1>5 DEF Retain, Seqs
  <2>2. evicted[1] \in Mark
    BY <1>2, <1>5
  <2> QED
    BY <1>1, <2>1, <2>2, RetainedOne
<1>6. CASE Len(evicted) = 2
  <2> DEFINE b == RetainOne(a, evicted[1])
  <2>1. /\ Retain(a, evicted) = RetainOne(b, evicted[2])
        /\ Seqs(evicted) = {evicted[1].seq, evicted[2].seq}
    BY <1>6 DEF Retain, Seqs
  <2>2. evicted[1] \in Mark /\ evicted[2] \in Mark
    BY <1>2, <1>6
  <2>3. Fits(b) /\ \A t \in Nat : t \in DOMAIN a \/ t = evicted[1].seq => Spared(b, t)
    BY <1>1, <2>2, RetainedOne
  <2> HIDE DEF b
  <2> QED
    BY <2>1, <2>2, <2>3, RetainedOne
<1> QED
  BY <1>3, <1>4, <1>5, <1>6

----------------------------------------------------------------------------
(* The steps.                                                              *)

\* A sequence that c and a store a digest for has one in e and b, or lies below
\* everything in b, which is full.
Keeps(c, a, e, b) ==
    \A s \in SeqNo : StoredDigest(c, a, s) # None =>
        StoredDigest(e, b, s) # None \/ Spared(b, s)

\* The steps that leave the ring and the marker alone.
LEMMA SameRing ==
    ASSUME NEW c \in Tidy, Sound(c), c.evicted = << >>, NEW e \in Store,
           e.ring = c.ring, e.marker = c.marker, e.evicted = c.evicted,
           \/ e.markerDigest = c.markerDigest
           \/ /\ e.markerDigest # None
              /\ RingDigest(c, c.marker) # None => e.markerDigest = RingDigest(c, c.marker),
           NEW a, Fits(a)
    PROVE  /\ e \in Tidy /\ Sound(e) /\ Keeps(c, a, e, a)
           /\ c.marker # None => e.marker # None /\ e.marker >= c.marker
<1>1. e \in Tidy /\ \A t : RingDigest(e, t) = RingDigest(c, t)
  BY DEF Tidy, RingDigest, Slots
<1>2. Sound(e)
  BY <1>1 DEF Sound
<1>3. Keeps(c, a, e, a)
  BY <1>1, Stored DEF Keeps
<1>4. c.marker # None => c.marker \in Nat
  BY DEF Tidy, Store, SeqNo
<1>5. \A n \in Nat : n >= n
  OBVIOUS
<1> QED
  BY <1>1, <1>2, <1>3, <1>4, <1>5

LEMMA InitInv == Init => ApiInv
<1> SUFFICES ASSUME Init PROVE ApiInv
  OBVIOUS
<1>1. cs \in Store /\ cs.ring = << >> /\ cs.evicted = << >>
  <2>1. CASE cs = EmptyStore
    BY <2>1, EmptySeqs, SequenceAssumption DEF EmptyStore, Store, SeqNo
  <2>2. ASSUME NEW m \in SeqNo, NEW d \in Digest \cup {None}, NEW c \in SeqNo,
               cs = VersionOne(m, d, c)
        PROVE  cs \in Store /\ cs.ring = << >> /\ cs.evicted = << >>
    BY <2>2, EmptySeqs DEF VersionOne, Decode, Store, Mark
  <2> QED
    BY <2>1, <2>2 DEF Init
<1>2. cs \in Tidy
  BY <1>1, EmptySeqs, SequenceAssumption DEF Tidy
<1>3. Sound(cs)
  BY <1>1, <1>2, EmptySeqs, Lookup DEF Sound
<1>4. Fits(archive)
  <2>1. DOMAIN archive = {}
    BY DEF Init
  <2> QED
    BY <2>1, FS_EmptySet, SequenceAssumption DEF Fits
<1> QED
  BY <1>1, <1>2, <1>3, <1>4 DEF ApiInv

\* One step: the invariant, the marker, and what is kept.
Safe ==
    /\ ApiInv'
    /\ cs.marker # None => cs'.marker # None /\ cs'.marker >= cs.marker
    /\ Keeps(cs, archive, cs', archive')

LEMMA NextSafe == ApiInv /\ [Next]_vars => Safe
<1> SUFFICES ASSUME ApiInv, [Next]_vars PROVE Safe
  OBVIOUS
<1>1. /\ cs \in Tidy /\ cs \in Store /\ Sound(cs) /\ cs.evicted = << >> /\ Fits(archive)
      /\ None \notin Digest /\ None \notin SeqNo /\ SeqNo \subseteq Nat
  BY SequenceAssumption DEF ApiInv, Tidy, SeqNo
\* A step that changes neither the ring nor the marker is safe.
<1>2. ASSUME cs' \in Store, cs'.ring = cs.ring, cs'.marker = cs.marker,
             cs'.evicted = cs.evicted, archive' = archive,
             \/ cs'.markerDigest = cs.markerDigest
             \/ /\ cs'.markerDigest # None
                /\ RingDigest(cs, cs.marker) # None =>
                       cs'.markerDigest = RingDigest(cs, cs.marker)
      PROVE  Safe
  BY <1>1, <1>2, SameRing DEF Safe, ApiInv
<1>3. \A n \in SeqNo : n < MaxSeq => n + 1 \in SeqNo
  BY SequenceAssumption DEF SeqNo
<1>4. CASE Advance
  <2>1. cs.current \in SeqNo /\ cs.current + 1 \in SeqNo
    BY <1>1, <1>3, <1>4 DEF Advance, CanAdvance, Store
  <2> QED
    BY <1>1, <1>2, <1>4, <2>1 DEF Advance, Advanced, Store
<1>5. ASSUME NEW s \in SeqNo, NEW prev \in Digest, NextCheckpoint(s, prev) PROVE Safe
  <2>1. s + 1 \in SeqNo
    BY <1>3, <1>5 DEF NextCheckpoint
  <2> QED
    BY <1>1, <1>2, <1>5, <2>1 DEF NextCheckpoint, Store
<1>6. ASSUME NEW s \in SeqNo, NEW d \in Digest \cup {None}, Harden(s, d) PROVE Safe
  <2> DEFINE h == HardenThrough(cs, s, d)
  <2>1. cs' = Drained(h) /\ archive' = Retain(archive, h.evicted)
    BY <1>6 DEF Harden
  <2>2. Hardened(cs, h)
    BY <1>1, HardenSound
  <2> HIDE DEF h
  <2>3. /\ h \in Tidy /\ h \in Store /\ Sound(h) /\ h.evicted \in Seq(Mark)
        /\ Len(h.evicted) <= EvictedCap
    BY <2>2 DEF Hardened, Tidy, Store
  <2>4. /\ cs' \in Store /\ cs'.ring = h.ring /\ cs'.evicted = << >>
        /\ cs'.marker = h.marker /\ cs'.markerDigest = h.markerDigest
    BY <2>1, <2>3, EmptySeqs DEF Drained, Store
  <2>5. cs' \in Tidy /\ \A t : RingDigest(cs', t) = RingDigest(h, t)
    BY <2>3, <2>4 DEF Tidy, RingDigest, Slots
  <2>6. Sound(cs')
    BY <2>3, <2>4, <2>5 DEF Sound
  <2>7. /\ Fits(archive')
        /\ \A t \in Nat : t \in DOMAIN archive \/ t \in Seqs(h.evicted) => Spared(archive', t)
    BY <1>1, <2>1, <2>3, Retained
  <2>8. Keeps(cs, archive, cs', archive')
    <3> SUFFICES ASSUME NEW t \in SeqNo, StoredDigest(cs, archive, t) # None
                 PROVE  StoredDigest(cs', archive', t) # None \/ Spared(archive', t)
      BY DEF Keeps
    <3>1. \/ t \in Seqs(cs'.ring) \cup Seqs(h.evicted)
          \/ t \in DOMAIN archive
          \/ cs'.marker = t /\ cs'.markerDigest # None
      BY <1>1, <2>2, <2>4, Stored DEF Hardened
    <3> QED
      BY <1>1, <2>5, <2>7, <3>1, Stored
  <2> QED
    BY <2>2, <2>4, <2>5, <2>6, <2>7, <2>8 DEF Safe, ApiInv, Hardened
<1>7. ASSUME NEW s \in SeqNo, SetLatestSequence(s) PROVE Safe
  BY <1>1, <1>2, <1>7 DEF SetLatestSequence, Store
<1>8. ASSUME NEW s \in SeqNo, NEW d \in Digest, NEW prev \in Digest, LoadCheckpoint(s, d, prev)
      PROVE  Safe
  <2>1. /\ cs' \in Store /\ cs'.ring = cs.ring /\ cs'.marker = cs.marker
        /\ cs'.evicted = cs.evicted /\ archive' = archive
        /\ cs'.markerDigest = IF cs.marker = s THEN d ELSE cs.markerDigest
    BY <1>1, <1>8 DEF LoadCheckpoint, RememberHead, Store, Mark
  <2>2. ASSUME cs.marker = s, RingDigest(cs, s) # None PROVE d = RingDigest(cs, s)
    <3>1. StoredDigest(cs, archive, s) = d
      <4>1. ~(s > cs.marker)
        BY <1>1, <2>2
      <4> QED
        BY <1>1, <1>8, <2>2, <4>1 DEF LoadCheckpoint, Accepts
    <3> QED
      BY <2>2, <3>1 DEF StoredDigest
  <2>3. d # None
    BY <1>1
  <2> QED
    BY <1>2, <2>1, <2>2, <2>3
<1>9. CASE Reopen
  <2>1. CASE cs.marker = None
    <3>1. /\ cs' \in Store /\ cs'.ring = cs.ring /\ cs'.marker = None /\ archive' = archive
          /\ cs'.evicted = cs.evicted
      BY <1>1, <1>9, <2>1 DEF Reopen, Decode, Encode, Store, Sound
    <3>2. cs' \in Tidy /\ Sound(cs')
      BY <1>1, <2>1, <3>1 DEF Tidy, Sound
    <3>3. Keeps(cs, archive, cs', archive')
      BY <1>1, <2>1, <3>1, <3>2, Stored DEF Keeps
    <3> QED
      BY <1>1, <2>1, <3>1, <3>2, <3>3 DEF Safe, ApiInv
  <2>2. CASE cs.marker # None
    <3>1. /\ cs' \in Store /\ cs'.ring = cs.ring /\ cs'.marker = cs.marker
          /\ cs'.evicted = cs.evicted /\ archive' = archive
          /\ cs'.markerDigest = cs.markerDigest
      BY <1>1, <1>9, <2>2, EmptySeqs DEF Reopen, Decode, Encode, Store, Mark
    <3> QED
      BY <1>2, <3>1
  <2> QED
    BY <2>1, <2>2
<1>10. CASE UNCHANGED vars
  BY <1>1, <1>2, <1>10 DEF vars
<1> QED
  BY <1>4, <1>5, <1>6, <1>7, <1>8, <1>9, <1>10 DEF Next

LEMMA InvAlways == Spec => []ApiInv
<1>1. ApiInv /\ [Next]_vars => ApiInv'
  BY NextSafe DEF Safe
<1> QED
  BY <1>1, InitInv, PTL DEF Spec

----------------------------------------------------------------------------
(* The theorems.                                                           *)

\* Whatever is called in whatever order, the store's fields and the archive keep
\* their types: the ring never outgrows its slots and is drained of what left it.
THEOREM TypeCorrect == Spec => []TypeOK
<1>1. ApiInv => TypeOK
  <2> SUFFICES ASSUME ApiInv PROVE TypeOK
    OBVIOUS
  <2>1. cs \in Store /\ Len(cs.ring) <= RingCap /\ cs.evicted = << >>
    BY DEF ApiInv, Tidy
  <2>2. /\ Len(cs.ring) \in 0..RingCap /\ cs.ring \in [1..Len(cs.ring) -> Mark]
    <3>1. cs.ring \in Seq(Mark) /\ Len(cs.ring) \in Nat /\ RingCap \in Nat
      BY <2>1, SequenceAssumption DEF Store
    <3> QED
      BY <2>1, <3>1
  <2>3. cs.ring \in UNION {[1..n -> Mark] : n \in 0..RingCap}
    BY <2>2
  <2> QED
    BY <2>1, <2>3 DEF TypeOK, ApiInv, Fits, Store
<1> QED
  BY <1>1, InvAlways, PTL

\* No order of hardenings, evictions and reloads gives a sequence two slots.
THEOREM SeqsDistinctAlways == Spec => []RingSeqsDistinct
<1>1. ApiInv => RingSeqsDistinct
  BY DEF ApiInv, RingSeqsDistinct, Tidy, Distinct, Store
<1> QED
  BY <1>1, InvAlways, PTL

\* The marker's two digests agree whenever the ring has one, however the marker
\* came to be where it is.
THEOREM CopiesAgreeAlways == Spec => []MarkerCopiesAgree
<1>1. ApiInv => MarkerCopiesAgree
  BY DEF ApiInv, Sound, MarkerCopiesAgree
<1> QED
  BY <1>1, InvAlways, PTL

\* No call and no reload moves the hardened marker back.
THEOREM NoRetreatAlways == Spec => MarkerNeverRetreats
<1>1. ApiInv /\ [Next]_vars => [cs.marker # None => cs'.marker # None /\ cs'.marker >= cs.marker]_vars
  BY NextSafe DEF Safe
<1> QED
  BY <1>1, InvAlways, PTL DEF Spec, MarkerNeverRetreats

\* A digest is forgotten from the bottom of a full archive only: what leaves the
\* ring, twice in one call even, is archived, and what the archive drops lies
\* below everything it keeps.
THEOREM OldestFirstAlways == Spec => ForgetsOnlyOldest
<1>1. ASSUME ApiInv, [Next]_vars, NEW s \in SeqNo, StoredDigest(cs, archive, s) # None
      PROVE  \/ StoredDigest(cs', archive', s) # None
             \/ /\ Cardinality(DOMAIN archive') = ArchiveCap
                /\ \A t \in DOMAIN archive' : s < t
  <2>1. cs' \in Tidy /\ Fits(archive') /\ Keeps(cs, archive, cs', archive')
    BY <1>1, NextSafe DEF Safe, ApiInv
  <2> QED
    BY <1>1, <2>1, Stored DEF Keeps, Spared
<1>2. ApiInv /\ [Next]_vars =>
        [\A s \in SeqNo : StoredDigest(cs, archive, s) # None
            => \/ StoredDigest(cs', archive', s) # None
               \/ /\ Cardinality(DOMAIN archive') = ArchiveCap
                  /\ \A t \in DOMAIN archive' : s < t]_vars
  BY <1>1
<1> QED
  BY <1>2, InvAlways, PTL DEF Spec, ForgetsOnlyOldest
=============================================================================
