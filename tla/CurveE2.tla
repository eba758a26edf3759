------------------------------- MODULE CurveE2 --------------------------------
(***************************************************************************)
(* blst's second curve (src/e2.c, src/map_to_g2.c), y^2 = x^3 + b over     *)
(* Fp2: what CurveE1 has for the first one.  Its endomorphism psi takes    *)
(* the Q-th power of both coordinates, and acts on the group of prime      *)
(* order as the curve's parameter, which is negative.                      *)
(***************************************************************************)
EXTENDS FieldTower

CONSTANTS
    Curve2,     \* b, order, generator, chain, parameter (z's absolute value), psiX,
                \* psiY, aPrime, bPrime, nonResidue, isogeny
    DigitBits,  \* bits of a digit to the base z (64)
    W4Bits2,    \* scalars shorter than this take w4 (144)
    WideBits2,  \* and those longer than this w5 (256)
    Inputs2     \* the calls' arguments

MulByB2(x) == Mul2(Curve2.b, x)

C == INSTANCE GroupCalls
        WITH ZeroF <- Zero2, OneF <- One2, ++ <- Plus2, -- <- Minus2, ** <- Mul2,
             Reciprocal <- Reciprocal2, MulByB <- MulByB2,
             AffineStride <- 3, ScratchPoints <- 20,
             Generator <- Curve2.generator, GroupOrder <- Curve2.order, Zs <- Inputs2.zs,
             Pairs <- Inputs2.pairs, Scalars <- Inputs2.scalars,
             ScalarBits <- Inputs2.scalarBits, Bundles <- Inputs2.bundles,
             Rows <- Inputs2.rows

----------------------------------------------------------------------------
(* Products and membership                                                 *)

Conjugate2(x) == <<x[1], Minus(0, x[2])>>

Psi(p) ==
    [X |-> Mul2(Conjugate2(p.X), Curve2.psiX), Y |-> Mul2(Conjugate2(p.Y), Curve2.psiY),
     Z |-> Conjugate2(p.Z)]

TimesMinusZ2(p) == C!TimesChain(p, Curve2.chain)

\* The scalar's four digits to the base |z|: psi is z, so the odd powers
\* change the sign.
Digits(scalar) ==
    LET z == Curve2.parameter
        zz == z^2
    IN <<(scalar % zz) % z, (scalar % zz) \div z, (scalar \div zz) % z, (scalar \div zz) \div z>>

MultGls(p, scalar) ==
    LET turned(tables, k) ==
            Append(tables, C!Each(Psi, Last(tables)))
        negated(row) == [i \in DOMAIN row |-> C!Cneg(row[i], TRUE)]
        product(tables) ==
            C!SMultTables(<<tables[1], negated(tables[2]), tables[3], negated(tables[4])>>,
                          Digits(scalar), DigitBits, 5)
    IN product(Loop(turned, <<C!Precompute(p, 5)>>, UpTo(3)))

\* POINTonE2_sign: Z is one or, of infinity, zero.
SignPoint2(p, sk) == C!FromJacobian(MultGls(p, sk))

P2Mult(p, scalar, nbits) ==
    LET bits == scalar % 2^nbits
        bytes == scalar % 2^(8 * ((nbits + 7) \div 8))
    IN IF nbits = 0 THEN C!Infinity
       ELSE IF nbits \in W4Bits2 .. WideBits2 /\ bytes < Curve2.order
       THEN MultGls(p, bytes)
       ELSE C!Mult(p, bits, nbits, IF nbits < W4Bits2 THEN 4 ELSE 5)

InG2(p) == C!IsEqual(Psi(p), C!Cneg(TimesMinusZ2(p), TRUE))

----------------------------------------------------------------------------
(* The map to the group                                                    *)

\* The sign is that of the last coefficient that is not zero, the parity that
\* of the first.
Sgn0Fp2(x) == IF x[1] = 0 THEN x[2] % 2 ELSE x[1] % 2

MapToIsogenousE2(u) ==
    LET z == Curve2.nonResidue
        magic(norm) == <<norm, RecipSqrtChain(norm)>>
        mapped(recipZZZ) ==
            C!Sswu(u, Curve2.aPrime, Curve2.bPrime, z, One2,
                   LAMBDA a : RecipSqrt2(a, recipZZZ, magic(Norm(recipZZZ))), Sgn0Fp2)
    IN mapped(Reciprocal2(Mul2(z, Sqr2(z))))

\* (z^2 - z - 1) p + (z - 1) Psi(p) + 2 Psi(Psi(p))
ClearCofactor(p) ==
    LET sum(a, b) == C!Dadd(a, b, Zero2)
        minusP == C!Cneg(p, TRUE)
        minusPsi == Psi(minusP)
        start == sum(sum(Psi(Psi(C!Double(p))), minusP), minusPsi)
    IN sum(start, TimesMinusZ2(sum(sum(TimesMinusZ2(p), p), minusPsi)))

\* Of one element (blst_encode_to_g2) or two (blst_hash_to_g2).
MapToG2(us) ==
    LET sum(points) ==
            IF Len(us) = 1 THEN points[1] ELSE C!Dadd(points[1], points[2], Curve2.aPrime)
    IN ClearCofactor(C!Isogeny(sum([i \in DOMAIN us |-> MapToIsogenousE2(us[i])]),
                               Curve2.isogeny))

----------------------------------------------------------------------------
(* Encodings: the numbers of an element of Fp2 in either order             *)

IsNegative2(y) == IF y[2] = 0 THEN 2 * y[1] > Q ELSE 2 * y[2] > Q

Flag(name, holds) == IF holds THEN {name} ELSE {}

SerializeAffine2(a) == [flags |-> {}, x |-> a.X, y |-> a.Y]

Serialize2(p) ==
    IF C!IsInf(p) THEN [flags |-> {"infinity"}, x |-> Zero2, y |-> Zero2]
    ELSE SerializeAffine2(C!ToAffine(p))

(* (mutant: the sign of the last coefficient, even if it is zero)          *)
CompressLastSign(p) ==
    LET a == C!ToAffine(p)
    IN IF C!IsInf(p) THEN [flags |-> {"compressed", "infinity"}, x |-> Zero2]
       ELSE [flags |-> {"compressed"} \cup Flag("sign", 2 * a.Y[2] > Q), x |-> a.X]

Compress2(p) ==
    LET compressed(a) ==
            [flags |-> {"compressed"} \cup Flag("sign", IsNegative2(a.Y)), x |-> a.X]
    IN IF C!IsInf(p) THEN [flags |-> {"compressed", "infinity"}, x |-> Zero2]
       ELSE compressed(C!ToAffine(p))

\* A public key or a signature (blst_sk_to_pk2_in_g2, blst_sign_pk2_in_g1).
SignAndSerialize2(p, sk) ==
    LET bytes(a, infinite) ==
            [SerializeAffine2(a) EXCEPT
                !.flags = Flag("sign", IsNegative2(a.Y)) \cup Flag("infinity", infinite)]
        signed(q) == bytes(C!ToAffine(q), C!IsInf(q))
    IN signed(SignPoint2(p, sk))

OnAffineCurve2(a) == Sqr2(a.Y) = Plus2(Mul2(Sqr2(a.X), a.X), Curve2.b)

Failed(err) == [err |-> err, point |-> C!AffineInfinity]

Succeeded(a) == [err |-> "SUCCESS", point |-> a]

\* Unlike the first curve's, it lets every point of the curve pass.
Uncompress2(e) ==
    LET rooted(root) ==
            LET negate == IsNegative2(root.root) # ("sign" \in e.flags)
            IN IF ~root.is THEN Failed("POINT_NOT_ON_CURVE")
               ELSE Succeeded([X |-> e.x, Y |-> IF negate THEN Neg2(root.root) ELSE root.root])
    IN IF "compressed" \notin e.flags THEN Failed("BAD_ENCODING")
       ELSE IF "infinity" \in e.flags
       THEN Failed(IF "sign" \in e.flags \/ e.x # Zero2 THEN "BAD_ENCODING" ELSE "SUCCESS")
       ELSE IF e.x \notin Fp2 THEN Failed("BAD_ENCODING")
       ELSE rooted(Sqrt2(Plus2(Mul2(Sqr2(e.x), e.x), Curve2.b)))

Deserialize2(e) ==
    LET a == [X |-> e.x, Y |-> e.y]
    IN IF "compressed" \in e.flags THEN Uncompress2(e)
       ELSE IF e.flags = {}
       THEN IF e.x \notin Fp2 \/ e.y \notin Fp2 THEN Failed("BAD_ENCODING")
            ELSE IF ~OnAffineCurve2(a) THEN Failed("POINT_NOT_ON_CURVE")
            ELSE Succeeded(a)
       ELSE Failed(IF e.flags = {"infinity"} /\ e.x = Zero2 /\ e.y = Zero2 THEN "SUCCESS"
                   ELSE "BAD_ENCODING")

----------------------------------------------------------------------------
(* Calls and what they must return                                         *)

Encoding2 ==
    [flags : SUBSET {"compressed", "infinity", "sign"}, x : Inputs2.abscissas,
     y : {Zero2, One2}]
      \cup [flags : {{"compressed"}, {"compressed", "sign"}}, x : Inputs2.encoded, y : {Zero2}]
      \cup [flags : {{}}, x : Inputs2.abscissas, y : Inputs2.encoded]

E2PointCall ==
    [op : {"group"}, call : C!GroupCall]
      \cup [op : {"gls"}, m : Inputs2.rows, scalar : Inputs2.products]
      \cup [op : {"p2_mult"}, m : Inputs2.rows, scalar : Inputs2.products,
            nbits : Inputs2.numbersOfBits]
      \cup [op : {"in_g2"}, point : Inputs2.points]

E2MapCall == [op : {"map"}, us : Inputs2.elements]

E2CodeCall ==
    [op : {"encode"}, point : Inputs2.encodedPoints, z : Inputs2.zs]
      \cup [op : {"decode"}, encoded : Encoding2]

E2Point(c) ==
    CASE c.op = "group" -> C!GroupReturn(c.call)
      [] c.op = "gls" ->
            LET p == C!Scaled(C!Multiple(c.m), <<2, 1>>)
            IN [product |-> SignPoint2(p, c.scalar), bytes |-> SignAndSerialize2(p, c.scalar),
                compressed |-> Compress2(MultGls(p, c.scalar))]
      [] c.op = "p2_mult" ->
            C!ToAffine(P2Mult(C!Scaled(C!Multiple(c.m), <<3, 1>>), c.scalar, c.nbits))
      [] c.op = "in_g2" -> InG2(C!Scaled(c.point, <<5, 2>>))

E2Map(c) == C!ToAffine(MapToG2(c.us))

E2Code(c) ==
    CASE c.op = "encode" ->
            LET p == C!Scaled(c.point, c.z)
            IN Each(Deserialize2, <<Serialize2(p), Compress2(p)>>)
      [] c.op = "decode" -> Deserialize2(c.encoded)

\* The map by its definition, as in CurveE1.
IsogenousPoint2(u) ==
    LET A == Curve2.aPrime
        t == Mul2(Curve2.nonResidue, Sqr2(u))
        tv == Plus2(Sqr2(t), t)
        g(x) == Plus2(Mul2(Plus2(Sqr2(x), A), x), Curve2.bPrime)
        lift(x) == [X |-> x, Y |-> CHOOSE y \in Fp2 : /\ Sqr2(y) = g(x)
                                                      /\ Sgn0Fp2(y) = Sgn0Fp2(u)]
        either(x) == lift(IF IsSquare2(g(x)) THEN x ELSE Mul2(t, x))
    IN either(IF tv = Zero2
              THEN Mul2(Curve2.bPrime, Reciprocal2(Mul2(Curve2.nonResidue, A)))
              ELSE Mul2(Mul2(Neg2(Curve2.bPrime), Reciprocal2(A)),
                        Plus2(One2, Reciprocal2(tv))))

Value2(f, x) == Loop(LAMBDA acc, k : Plus2(Mul2(acc, x), k), Zero2, Reverse(f))

Mapped2(a) ==
    LET map == Curve2.isogeny
        ratio(num, den) == Mul2(Value2(num, a.X), Reciprocal2(Value2(den, a.X)))
    IN [X |-> ratio(map.xNum, map.xDen), Y |-> Mul2(a.Y, ratio(map.yNum, map.yDen))]

\* The Q-th power of the coordinates, but for psi's constants.
AffinePsi(a) == [X |-> Mul2(Power2(a.X, Q), Curve2.psiX), Y |-> Mul2(Power2(a.Y, Q), Curve2.psiY)]

MapAgrees2(us, r) ==
    LET z == Curve2.parameter
        sum(images) == IF Len(us) = 1 THEN images[1] ELSE C!AffineSum(images[1], images[2])
        minus(a) == [a EXCEPT !.Y = Neg2(@)]
        cleared(a, psi) ==
            C!AffineSum(C!Times(a, z^2 + z - 1),
                        C!AffineSum(C!Times(minus(psi), z + 1), C!Times(AffinePsi(psi), 2)))
        clear(a) == cleared(a, AffinePsi(a))
    IN /\ r = clear(sum([i \in DOMAIN us |-> Mapped2(IsogenousPoint2(us[i]))]))
       /\ C!Times(r, Curve2.order) = C!AffineInfinity

E2PointsAgree(c, r) ==
    CASE c.op = "group" -> C!GroupAgrees(c.call, r)
      [] c.op = "gls" ->
            LET product == C!Multiple(c.m * c.scalar)
            IN /\ r.product = C!FromAffine(product)
               /\ r.compressed.flags = r.bytes.flags \cup {"compressed"}
               /\ r.compressed.x = r.bytes.x
      [] c.op = "p2_mult" -> c.scalar < 2^c.nbits => r = C!Multiple(c.m * c.scalar)
      [] c.op = "in_g2" -> r <=> C!Times(c.point, Curve2.order) = C!AffineInfinity

\* As in CurveE1: encodings are one to one.
E2EncodingsAgree(c, r) ==
    CASE c.op = "encode" -> \A i \in DOMAIN r : r[i] = Succeeded(c.point)
      [] c.op = "decode" ->
            LET e == c.encoded
                p == C!FromAffine(r.point)
            IN r.err = "SUCCESS" =>
                 /\ C!IsInf(p) \/ OnAffineCurve2(r.point)
                 /\ IF "compressed" \in e.flags
                    THEN Compress2(p) = [flags |-> e.flags, x |-> e.x]
                    ELSE Serialize2(p) = e
=============================================================================
