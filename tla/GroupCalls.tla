------------------------------ MODULE GroupCalls ------------------------------
(***************************************************************************)
(* Calls of CurvePoints' and Multiples' routines on multiples of a         *)
(* generator, given in Jacobian coordinates with several Zs, and what they *)
(* must return: the chord and tangent law on affine points.                *)
(***************************************************************************)
EXTENDS Multiples, CurveMaps

CONSTANTS
    Generator, GroupOrder,
    Zs,         \* denominators
    Pairs,      \* pairs <<m, n>>: the points m * Generator, n * Generator
    Scalars,
    ScalarBits, \* as passed to the multiplications
    Bundles,    \* pairs of sequences: multiples and scalars
    Rows        \* multiples whose tables are made

GroupCall ==
    [op : {"pair"}, m : {p[1] : p \in Pairs}, n : {p[2] : p \in Pairs}, z : Zs]
      \cup [op : {"mult"}, m : Rows, scalar : Scalars, z : Zs]
      \cup [op : {"sums"}, bundle : Bundles]
      \cup [op : {"tables"}, m : Rows]

\* The group law.
Slope(a, b) ==
    LET tangent == a.X = b.X
    IN (IF tangent THEN MulBy3(Sqr(a.X)) ELSE b.Y -- a.Y)
         ** Reciprocal(IF tangent THEN Twice(a.Y) ELSE b.X -- a.X)

AffineSum(a, b) ==
    LET third(slope) ==
            LET X3 == (Sqr(slope) -- a.X) -- b.X
            IN [X |-> X3, Y |-> (slope ** (a.X -- X3)) -- a.Y]
    IN IF IsInfAffine(a) THEN b
       ELSE IF IsInfAffine(b) THEN a
       ELSE IF a.X = b.X /\ a.Y = Neg(b.Y) THEN AffineInfinity
       ELSE third(Slope(a, b))

Times(a, n) ==
    LET step(acc, i) ==
            LET plus(twice) == IF (n \div 2^(14 - i)) % 2 = 1 THEN AffineSum(twice, a) ELSE twice
            IN plus(AffineSum(acc, acc))
    IN Loop(step, AffineInfinity, UpTo(14))

Multiple(n) == Times(Generator, n % GroupOrder)

\* A point with denominator z, z^2 and z^3 that reach it.
Scaled(a, z) ==
    IF IsInfAffine(a) THEN [X |-> z, Y |-> z, Z |-> ZeroF]
    ELSE [X |-> a.X ** Sqr(z), Y |-> a.Y ** (Sqr(z) ** z), Z |-> z]

GroupReturn(c) ==
    CASE c.op = "pair" ->
            LET a == Scaled(Multiple(c.m), c.z)
                b == Scaled(Multiple(c.n), MulBy3(c.z))
                affine == Multiple(c.n)
                jacobian(p) == ToAffine(XYZZToJacobian(p))
                projective(p) == ToAffine(ProjToJacobian(p))
            IN [dadd |-> <<ToAffine(Dadd(a, b, ZeroF)), ToAffine(DaddAffine(a, affine)),
                           projective(ProjDadd(ToProjective(a), ToProjective(b))),
                           projective(ProjDaddAffine(ToProjective(a), affine)),
                           jacobian(XYZZDadd(ToXYZZ(a), ToXYZZ(b))),
                           jacobian(XYZZDaddAffine(ToXYZZ(a), affine, FALSE))>>,
                sub |-> <<ToAffine(Dadd(a, Cneg(b, TRUE), ZeroF)),
                          jacobian(XYZZDaddAffine(ToXYZZ(a), affine, TRUE))>>,
                add |-> <<ToAffine(Add(a, b)), ToAffine(AddAffine(a, affine))>>,
                double |-> <<ToAffine(Double(a)), projective(ProjDouble(ToProjective(a)))>>,
                equal |-> IsEqual(a, b),
                on |-> OnCurve(a) /\ OnCurve(FromAffine(affine)),
                off |-> OnCurve([a EXCEPT !.X = @ ++ OneF])]
      [] c.op = "mult" ->
            LET a == Scaled(Multiple(c.m), c.z)
            IN <<ToAffine(Mult(a, c.scalar, ScalarBits, 4)),
                 ToAffine(Mult(a, c.scalar, ScalarBits, 5)),
                 ToAffine(MultLadder(a, c.scalar, ScalarBits))>>
      [] c.op = "sums" ->
            LET points == Each(Multiple, c.bundle[1])
                scaled(z) == Each(LAMBDA p : Scaled(p, z), points)
                table(wbits) == PrecomputeWbits(points, wbits, 3)
            IN [sum |-> ToAffine(SumOf(points)),
                affine |-> {AllToAffine(scaled(z)) : z \in Zs},
                products |-> <<ToAffine(MultiScalar(points, c.bundle[2], ScalarBits)),
                               ToAffine(SMultWbits(table(3), 3, c.bundle[2], ScalarBits, 18)),
                               ToAffine(SMult(scaled(OneF), c.bundle[2], ScalarBits, 5))>>]
      [] c.op = "tables" ->
            LET point == Multiple(c.m)
            IN <<LongRow(point, 8, 4), LongRow(point, 8, 2),
                 RowsToAffine(<<PrecomputeRow(point, 8), PrecomputeRow(point, 8)>>)[2]>>

GroupAgrees(c, r) ==
    CASE c.op = "pair" ->
            LET a == Multiple(c.m)
                b == Multiple(c.n)
                equal == a = b
            IN /\ \A i \in DOMAIN r.dadd : r.dadd[i] = AffineSum(a, b)
               /\ \A i \in DOMAIN r.sub : r.sub[i] = AffineSum(a, [b EXCEPT !.Y = Neg(@)])
               /\ \A i \in DOMAIN r.add :
                    r.add[i] = IF equal THEN AffineInfinity ELSE AffineSum(a, b)
               /\ \A i \in DOMAIN r.double : r.double[i] = AffineSum(a, a)
               /\ r.equal <=> equal
               /\ r.on
               /\ ~IsInfAffine(a) => ~r.off
      [] c.op = "mult" -> \A i \in DOMAIN r : r[i] = Multiple(c.m * c.scalar)
      [] c.op = "sums" ->
            LET multiples == c.bundle[1]
                products == [i \in DOMAIN multiples |-> multiples[i] * c.bundle[2][i]]
                total(s) == Loop(LAMBDA acc, x : (acc + x) % GroupOrder, 0, s)
            IN /\ r.sum = Multiple(total(multiples))
               /\ r.affine = {[i \in DOMAIN multiples |-> Multiple(multiples[i])]}
               /\ \A i \in DOMAIN r.products : r.products[i] = Multiple(total(products))
      [] c.op = "tables" ->
            \A i \in DOMAIN r : r[i] = [k \in 1 .. 8 |-> Multiple(c.m * k)]
=============================================================================
