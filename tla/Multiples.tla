------------------------------- MODULE Multiples -------------------------------
(***************************************************************************)
(* Multiplication of points by scalars (src/ec_mult.h), sums of products   *)
(* (src/multi_scalar.c) and sums (src/bulk_addition.c) over the group      *)
(* operations of CurvePoints.  A scalar is a number; the routines read it  *)
(* window by window, from its top bits down, and take from each window a   *)
(* signed digit, so that a table holds only half the multiples.            *)
(***************************************************************************)
EXTENDS CurvePoints, Integers, Sequences, SequencesExt, Loops

CONSTANTS
    AffineStride,   \* points converted to affine with one inversion
    ScratchPoints   \* points added with one pass of the bulk addition

\* s cut in pieces of n, the last of which may be shorter.
Chunks(s, n) ==
    [i \in 1 .. (Len(s) + n - 1) \div n |->
        SubSeq(s, n * (i - 1) + 1, IF n * i < Len(s) THEN n * i ELSE Len(s))]

\* The numbers of bits below each window of `bits` bits, the top one being
\* what is left over: it may be empty.
Windows(bits, size) ==
    LET top == bits - (bits % size)
    IN [i \in 1 .. top \div size + 1 |->
            [below |-> top - size * (i - 1), width |-> IF i = 1 THEN bits % size ELSE size]]

\* A window's bits and, below them, the highest bit of the next window.
GetWval(scalar, w) ==
    (IF w.below > 0 THEN scalar \div 2^(w.below - 1) ELSE 2 * scalar) % 2^(w.width + 1)

\* The digit's magnitude modulo 2^size and its sign: zero may be negative.
BoothEncode(wval, size) ==
    LET negative == wval >= 2^size
        digit == (wval + 1) \div 2
    IN [index |-> (IF negative THEN -digit ELSE digit) % 2^size, negative |-> negative]

Digit(scalar, w, size) == BoothEncode(GetWval(scalar, w), size)

----------------------------------------------------------------------------
(* One table of Jacobian points for each point                             *)

\* For the digit zero, the first entry, and the answer that it is infinite.
GatherBooth(table, digit) ==
    [row |-> Cneg(table[IF digit.index = 0 THEN 1 ELSE digit.index], digit.negative),
     inf |-> digit.index = 0]

Precompute(point, size) ==
    Loop(LAMBDA row, k :
                Append(row, IF k % 2 = 1 THEN Add(row[(k + 1) \div 2], row[(k - 1) \div 2])
                            ELSE Double(row[k \div 2])),
             <<point>>, [i \in 1 .. 2^(size - 1) - 1 |-> i + 1])

\* Adds a gathered entry to the sum; the flags stand in for the infinite
\* points that neither of them shows.
Absorb(sum, gathered) ==
    LET taken(ret) ==
            LET retIsInf == sum.inf \/ IsInf(ret)
            IN [ret |-> IF retIsInf THEN gathered.row ELSE ret,
                inf |-> retIsInf /\ (gathered.inf \/ IsInf(ret))]
    IN taken(IF ~sum.inf /\ ~gathered.inf THEN Dadd(sum.ret, gathered.row, ZeroF)
             ELSE sum.ret)

DoubleTimes(p, n) == Repeat(Double, p, n)

\* Doublings and additions of the point itself, which multiply by a
\* number with few bits: the curve's parameter.
TimesChain(p, chain) ==
    Loop(LAMBDA acc, n : DoubleTimes(Dadd(acc, p, ZeroF), n), Double(p), chain)

\* The sum of the multiples, given the tables.
SMultTables(tables, scalars, bits, size) ==
    LET windows == Windows(bits, size)
        n == Len(tables)
        order == [k \in 1 .. n * Len(windows) |->
                    [i |-> ((k - 1) % n) + 1, w |-> windows[(k - 1) \div n + 1]]]
        absorb(sum, x) ==
            LET gathered == GatherBooth(tables[x.i], Digit(scalars[x.i], x.w, size))
            IN CASE x.i > 1 -> Absorb(sum, gathered)
                 [] x = order[1] -> [ret |-> gathered.row, inf |-> gathered.inf]
                 [] OTHER -> Absorb([sum EXCEPT !.ret = DoubleTimes(@, size)], gathered)
        end(last) == IF last.inf THEN [last.ret EXCEPT !.Z = ZeroF] ELSE last.ret
    IN end(Loop(absorb, [ret |-> Infinity, inf |-> TRUE], order))

SMult(points, scalars, bits, size) ==
    SMultTables(Each(LAMBDA p : Precompute(p, size), points), scalars, bits, size)

Mult(point, scalar, bits, size) == SMult(<<point>>, <<scalar>>, bits, size)

\* Montgomery's ladder; swapped says that the two points have changed places.
MultLadder(p, scalar, bits) ==
    LET pxz == LadderPre(p)
        bit(i) == (scalar \div 2^(bits - i)) % 2 = 1
        step(acc, i) ==
            LET s == IF bit(i) # acc.swapped THEN [ret |-> acc.sum, sum |-> acc.ret]
                     ELSE [ret |-> acc.ret, sum |-> acc.sum]
                stepped == LadderStep(s.ret, s.sum, pxz)
            IN [ret |-> stepped.r, sum |-> stepped.s, swapped |-> bit(i)]
        infinite == [X |-> ZeroF, Z |-> ZeroF]
        last == Loop(step, [ret |-> infinite, sum |-> pxz, swapped |-> FALSE],
                         UpTo(bits))
    IN IF last.swapped THEN LadderPost(last.sum, last.ret, pxz, p.Y)
       ELSE LadderPost(last.ret, last.sum, pxz, p.Y)

----------------------------------------------------------------------------
(* Inverting many numbers at the price of one                              *)

\* z's inverses, by one inversion of the product: the products of the first
\* numbers going up, then down with each number multiplied back in.
Inverses(z) ==
    LET down(products) ==
            Loop(LAMBDA acc, i : [out |-> <<products[i - 1] ** acc.inverse>> \o acc.out,
                                  inverse |-> z[i] ** acc.inverse],
                 [out |-> << >>, inverse |-> Reciprocal(Last(products))],
                 [i \in 1 .. Len(z) - 1 |-> Len(z) - i + 1])
        all(end) == <<end.inverse>> \o end.out
    IN all(down(Loop(LAMBDA acc, x : Append(acc, Last(acc) ** x), <<z[1]>>, Tail(z))))

Normal(p, inverse) ==
    LET ZZ == Sqr(inverse) IN [X |-> p.X ** ZZ, Y |-> p.Y ** (ZZ ** inverse)]

\* Infinite points take part in the product as ones.
AllToAffine(points) ==
    LET normal(ps, inverses) ==
            Each(LAMBDA i : IF IsInf(ps[i]) THEN AffineInfinity ELSE Normal(ps[i], inverses[i]),
                 UpTo(Len(ps)))
        chunk(ps) ==
            normal(ps, Inverses(Each(LAMBDA p : IF IsInf(p) THEN OneF ELSE p.Z, ps)))
    IN FlattenSeq(Each(chunk, Chunks(points, AffineStride)))

----------------------------------------------------------------------------
(* Bulk addition of affine points                                          *)

\* The slope's numerator and denominator.  Where either point is infinite, or
\* the sum is, `inf` holds and the sum is already in (X, Y).
AddHead(A, B) ==
    LET dx == B.X -- A.X
        sy == B.Y ++ A.Y
        inf == IF dx = ZeroF THEN sy = ZeroF ELSE IsInfAffine(A) \/ IsInfAffine(B)
        sx == IF dx = ZeroF /\ inf THEN sy ELSE B.X ++ A.X
    IN [inf |-> inf, sx |-> sx,
        X |-> IF inf THEN sx ELSE A.X,
        Y |-> IF inf THEN sy ELSE A.Y,
        num |-> IF dx = ZeroF THEN MulBy3(Sqr(A.X)) ELSE B.Y -- A.Y,
        den |-> IF inf THEN OneF ELSE IF dx = ZeroF THEN sy ELSE dx]

AddTail(head, inverse) ==
    LET lambda == inverse ** head.num
        X3 == Sqr(lambda) -- head.sx
    IN IF head.inf THEN [X |-> head.X, Y |-> head.Y]
       ELSE [X |-> X3, Y |-> (lambda ** (head.X -- X3)) -- head.Y]

\* The sum of neighbours.
PairSums(points) ==
    LET pairs == UpTo(Len(points) \div 2)
        tails(heads, inverses) == Each(LAMBDA i : AddTail(heads[i], inverses[i]), pairs)
        sums(heads) == tails(heads, Inverses(Each(LAMBDA head : head.den, heads)))
    IN sums(Each(LAMBDA i : AddHead(points[2 * i - 1], points[2 * i]), pairs))

DaddAll(sum, points) == Loop(DaddAffine, sum, points)

\* While there are 16 points or more, an odd one out goes to the sum and the
\* others are halved.
Accumulate(sum, points) ==
    LET oddOut(state) ==
            IF Len(state.points) % 2 = 0 THEN state
            ELSE [sum |-> DaddAffine(state.sum, Head(state.points)),
                  points |-> Tail(state.points)]
        halve(state, i) ==
            IF Len(state.points) < 16 THEN state
            ELSE [oddOut(state) EXCEPT !.points = PairSums(@)]
        end(last) == DaddAll(last.sum, last.points)
    IN end(Loop(halve, [sum |-> sum, points |-> points], UpTo(10)))

SumOf(points) == Loop(Accumulate, Infinity, Chunks(points, ScratchPoints))

----------------------------------------------------------------------------
(* Sums of products by tables of affine points                             *)

\* An infinite point's row is kept with Z one, so that it can be inverted.
PrecomputeRow(point, n) ==
    LET one(p) == IF IsInfAffine(point) THEN [p EXCEPT !.Z = OneF] ELSE p
    IN Loop(LAMBDA row, k :
                    Append(row, IF k % 2 = 1 THEN AddAffine(row[k - 1], point)
                                ELSE one(Double(row[k \div 2]))),
                <<[X |-> point.X, Y |-> point.Y, Z |-> OneF]>>, [i \in 1 .. n - 1 |-> i + 1])

\* Rows of several points, made affine together.  Each row begins with its
\* point as it was.
RowsToAffine(rows) ==
    LET n == Len(rows[1])
        entry(row, inverses, i, j) ==
            IF j = 1 THEN [X |-> row[1].X, Y |-> row[1].Y]
            ELSE Normal(row[j], inverses[(n - 1) * (i - 1) + j])
        normal(inverses) ==
            Each(LAMBDA i : Each(LAMBDA j : entry(rows[i], inverses, i, j), UpTo(n)),
                 UpTo(Len(rows)))
        zs == FlattenSeq(Each(LAMBDA row : Each(LAMBDA p : p.Z, Tail(row)), rows))
    IN normal(Inverses(<<OneF>> \o zs))

\* A row too long for the scratch memory, made affine `stride` points at a
\* time: all but the first are sums of the point before and an earlier one.
LongRow(point, n, stride) ==
    LET first == PrecomputeRow(point, stride)
        extend(acc, j) ==
            LET m == IF j + stride <= n THEN stride ELSE n - j
                last == Last(acc.row)
                sum(k) == IF j = stride /\ k = m THEN Double(last)
                          ELSE AddAffine(last, acc.table[k])
                row == Each(sum, UpTo(m))
            IN [row |-> row, table |-> acc.table \o AllToAffine(row)]
    IN Loop(extend, [row |-> first, table |-> AllToAffine(first)],
                [i \in 1 .. (n - 1) \div stride |-> i * stride]).table

\* `batch` points are laid down before their tables are made affine.
PrecomputeWbits(points, wbits, batch) ==
    LET rows(ps) == RowsToAffine(Each(LAMBDA p : PrecomputeRow(p, 2^(wbits - 1)), ps))
    IN FlattenSeq(Each(rows, Chunks(points, batch)))

GatherBoothWbits(row, digit) ==
    Cneg(IF digit.index = 0 THEN AffineInfinity ELSE row[digit.index], digit.negative)

SMultWbits(table, wbits, scalars, bits, scratch) ==
    LET entries(w) == Each(LAMBDA i : GatherBoothWbits(table[i], Digit(scalars[i], w, wbits)),
                           UpTo(Len(table)))
        windows == Windows(bits, wbits)
        row(ret, w) ==
            Loop(Accumulate, IF w = windows[1] THEN ret ELSE DoubleTimes(ret, wbits),
                     Chunks(entries(w), scratch))
    IN Loop(row, Infinity, windows)

----------------------------------------------------------------------------
(* Pippenger's buckets                                                     *)

Log2(n) == CHOOSE w \in 0 .. 30 : 2^w <= n /\ n < 2^(w + 1)

PippengerWindowSize(npoints) ==
    LET w == Log2(npoints)
    IN IF w > 12 THEN w - 3 ELSE IF w > 8 THEN w - 2 ELSE IF w > 4 THEN w - 1
       ELSE IF w > 0 THEN 2 ELSE 1

EmptyBucket == [X |-> ZeroF, Y |-> ZeroF, ZZ |-> ZeroF, ZZZ |-> ZeroF]

Bucket(buckets, digit, point) ==
    IF digit.index = 0 THEN buckets
    ELSE [buckets EXCEPT ![digit.index] = XYZZDaddAffine(@, point, digit.negative)]

\* The sum of i times the i-th bucket.
IntegrateBuckets(buckets) ==
    LET top == Last(buckets)
        add(s, bucket) == LET acc == XYZZDadd(s.acc, bucket)
                          IN [acc |-> acc, ret |-> XYZZDadd(s.ret, acc)]
    IN XYZZToJacobian(Loop(add, [acc |-> top, ret |-> top],
                               Reverse(Front(buckets))).ret)

\* One window of every scalar.  The top window is read as unsigned, with one
\* bucket more than its bits ask for.
TilePippenger(points, scalars, w, cbits) ==
    LET fill(buckets, i) == Bucket(buckets, Digit(scalars[i], w, cbits), points[i])
    IN IntegrateBuckets(Loop(fill, Each(LAMBDA b : EmptyBucket, UpTo(2^(cbits - 1))),
                             UpTo(Len(points))))

SMultPippenger(points, scalars, bits) ==
    LET size == PippengerWindowSize(Len(points))
        windows == Windows(bits, size)
        top == windows[1]
        row(ret, w) ==
            Dadd(IF w = top THEN ret ELSE DoubleTimes(ret, size),
                 TilePippenger(points, scalars, w, IF w = top THEN w.width + 1 ELSE size),
                 ZeroF)
    IN Loop(row, Infinity, windows)

\* blst_p1s_mult_pippenger, blst_p2s_mult_pippenger.
MultiScalar(points, scalars, bits) ==
    IF Len(points) = 1 THEN Mult(FromAffine(points[1]), scalars[1], bits, 5)
    ELSE IF Len(points) < 32
    THEN SMultWbits(PrecomputeWbits(points, 4, Len(points)), 4, scalars, bits, Len(points))
    ELSE SMultPippenger(points, scalars, bits)
=============================================================================
