------------------------------- MODULE CurveE1 --------------------------------
(***************************************************************************)
(* blst's first curve (src/e1.c, src/map_to_g1.c), y^2 = x^3 + b over Fp:  *)
(* encodings, products with secret scalars by way of an endomorphism,      *)
(* membership of the group of prime order, and the map into it.            *)
(*                                                                         *)
(* An encoding is a set of flags, the top three bits of the first byte,    *)
(* and the numbers in the other bits; a compressed one ends before y.      *)
(***************************************************************************)
EXTENDS FieldTower

CONSTANTS
    Curve,      \* b, beta, order, generator, chain, parameter (z's absolute value),
                \* aPrime, bPrime, nonResidue, isogeny
    HalfBits,   \* bits of a digit to the base z^2 (128)
    W4Bits,     \* scalars shorter than this take w4 (176)
    WideBits,   \* and those longer than this w5 (256)
    Inputs      \* the calls' arguments: sets named as in GroupCalls, and points,
                \* products, elements, encoded, zs, numbers

MulByB1(x) == Mul(Curve.b, x)

C == INSTANCE GroupCalls
        WITH ZeroF <- 0, OneF <- 1, ++ <- Plus, -- <- Minus, ** <- Mul,
             MulByB <- MulByB1, AffineStride <- 3, ScratchPoints <- 20,
             Generator <- Curve.generator, GroupOrder <- Curve.order, Zs <- Inputs.zs,
             Pairs <- Inputs.pairs, Scalars <- Inputs.scalars,
             ScalarBits <- Inputs.scalarBits, Bundles <- Inputs.bundles,
             Rows <- Inputs.rows

----------------------------------------------------------------------------
(* Products and membership                                                 *)

\* (x, y) to (beta x, y), up to the cube root of one that is taken.
Sigma(p) == [p EXCEPT !.Z = Mul(@, Curve.beta)]

TimesMinusZ(p) == C!TimesChain(p, Curve.chain)

\* The scalar's digits to the base z^2, which is an endomorphism's eigenvalue.
MultGlv(p, scalar) ==
    LET zz == Curve.parameter^2
        turned(q) == [q EXCEPT !.X = Mul(@, Curve.beta), !.Y = Minus(0, @)]
        product(table) ==
            C!SMultTables(<<table, [i \in DOMAIN table |-> turned(table[i])]>>,
                          <<scalar \div zz, scalar % zz>>, HalfBits, 5)
    IN Sigma(Sigma(C!Cneg(product(C!Precompute(p, 5)), TRUE)))

\* POINTonE1_sign: Z is one or, of infinity, zero.
SignPoint(p, sk) == C!FromJacobian(MultGlv(p, sk))

\* All the bytes that nbits reach count towards the reduced scalar, but only
\* nbits of it for the table methods.
P1Mult(p, scalar, nbits) ==
    LET bits == scalar % 2^nbits
        bytes == scalar % 2^(8 * ((nbits + 7) \div 8))
    IN IF nbits = 0 THEN C!Infinity
       ELSE IF nbits \in W4Bits .. WideBits /\ bytes < Curve.order THEN MultGlv(p, bytes)
       ELSE C!Mult(p, bits, nbits, IF nbits < W4Bits THEN 4 ELSE 5)

InG1(p) ==
    C!IsEqual(Sigma(Sigma(p)), C!Cneg(TimesMinusZ(TimesMinusZ(p)), TRUE))

----------------------------------------------------------------------------
(* The map to the group                                                    *)

Sgn0(x) == x % 2

MapToIsogenousE1(u) ==
    LET minusZZZ == Minus(0, Power(Curve.nonResidue, 3))
    IN C!Sswu(u, Curve.aPrime, Curve.bPrime, Curve.nonResidue, Sqrt(minusZZZ).root,
              RecipSqrt, Sgn0)

\* Of one element (blst_encode_to_g1) or two (blst_hash_to_g1).
MapToG1(us) ==
    LET sum(points) ==
            IF Len(us) = 1 THEN points[1] ELSE C!Dadd(points[1], points[2], Curve.aPrime)
        clear(q) == C!Dadd(TimesMinusZ(q), q, 0)
    IN clear(C!Isogeny(sum([i \in DOMAIN us |-> MapToIsogenousE1(us[i])]), Curve.isogeny))

----------------------------------------------------------------------------
(* Encodings                                                               *)

IsNegative(y) == 2 * y > Q

Flag(name, holds) == IF holds THEN {name} ELSE {}

SerializeAffine(a) == [flags |-> {}, x |-> a.X, y |-> a.Y]

Serialize(p) ==
    IF C!IsInf(p) THEN [flags |-> {"infinity"}, x |-> 0, y |-> 0]
    ELSE SerializeAffine(C!ToAffine(p))

Compress(p) ==
    LET compressed(a) ==
            [flags |-> {"compressed"} \cup Flag("sign", IsNegative(a.Y)), x |-> a.X]
    IN IF C!IsInf(p) THEN [flags |-> {"compressed", "infinity"}, x |-> 0]
       ELSE compressed(C!ToAffine(p))

\* A public key or a signature (blst_sk_to_pk2_in_g1, blst_sign_pk2_in_g2): the
\* flags are set for a caller who will cut the encoding short.
SignAndSerialize(p, sk) ==
    LET bytes(a, infinite) ==
            [SerializeAffine(a) EXCEPT
                !.flags = Flag("sign", IsNegative(a.Y)) \cup Flag("infinity", infinite)]
        signed(q) == bytes(C!ToAffine(q), C!IsInf(q))
    IN signed(SignPoint(p, sk))

OnAffineCurve(a) == Mul(a.Y, a.Y) = Plus(Mul(Mul(a.X, a.X), a.X), Curve.b)

\* The points whose abscissa is zero are not in the group.
InGroupOrNot(a) == IF a.X = 0 THEN "POINT_NOT_IN_GROUP" ELSE "SUCCESS"

Failed(err) == [err |-> err, point |-> C!AffineInfinity]

Uncompress(e) ==
    LET rooted(root) ==
            LET negate == IsNegative(root.root) # ("sign" \in e.flags)
                a == [X |-> e.x, Y |-> IF negate THEN Minus(0, root.root) ELSE root.root]
            IN IF ~root.is THEN Failed("POINT_NOT_ON_CURVE")
               ELSE [err |-> InGroupOrNot(a), point |-> a]
    IN IF "compressed" \notin e.flags THEN Failed("BAD_ENCODING")
       ELSE IF "infinity" \in e.flags
       THEN Failed(IF "sign" \in e.flags \/ e.x # 0 THEN "BAD_ENCODING" ELSE "SUCCESS")
       ELSE IF e.x \notin Fp THEN Failed("BAD_ENCODING")
       ELSE rooted(Sqrt(Plus(Mul(Mul(e.x, e.x), e.x), Curve.b)))

Deserialize(e) ==
    LET a == [X |-> e.x, Y |-> e.y]
    IN IF "compressed" \in e.flags THEN Uncompress(e)
       ELSE IF e.flags = {}
       THEN IF e.x \notin Fp \/ e.y \notin Fp THEN Failed("BAD_ENCODING")
            ELSE IF ~OnAffineCurve(a) THEN Failed("POINT_NOT_ON_CURVE")
            ELSE [err |-> InGroupOrNot(a), point |-> a]
       ELSE Failed(IF e.flags = {"infinity"} /\ e.x = 0 /\ e.y = 0 THEN "SUCCESS"
                   ELSE "BAD_ENCODING")

----------------------------------------------------------------------------
(* Calls and what they must return                                         *)

Encoding ==
    LET flags == SUBSET {"compressed", "infinity", "sign"}
    IN [flags : flags, x : Inputs.encoded, y : {0, 1}]
         \cup [flags : {{}}, x : Inputs.encoded, y : Inputs.encoded]

E1PointCall ==
    [op : {"group"}, call : C!GroupCall]
      \cup [op : {"glv"}, m : Inputs.rows, scalar : Inputs.products]
      \cup [op : {"p1_mult"}, m : Inputs.rows, scalar : Inputs.products,
            nbits : Inputs.numbersOfBits]
      \cup [op : {"in_g1"}, point : Inputs.points]
      \cup [op : {"map"}, us : Inputs.elements]

E1CodeCall ==
    [op : {"encode"}, point : Inputs.encodedPoints, z : Inputs.zs]
      \cup [op : {"decode"}, encoded : Encoding]

E1Point(c) ==
    CASE c.op = "group" -> C!GroupReturn(c.call)
      [] c.op = "glv" ->
            LET p == C!Scaled(C!Multiple(c.m), 2)
            IN [product |-> SignPoint(p, c.scalar), bytes |-> SignAndSerialize(p, c.scalar),
                compressed |-> Compress(MultGlv(p, c.scalar))]
      [] c.op = "p1_mult" ->
            C!ToAffine(P1Mult(C!Scaled(C!Multiple(c.m), 3), c.scalar, c.nbits))
      [] c.op = "in_g1" -> InG1(C!Scaled(c.point, 5))
      [] c.op = "map" -> C!ToAffine(MapToG1(c.us))

E1Code(c) ==
    CASE c.op = "encode" ->
            LET p == C!Scaled(c.point, c.z)
            IN Each(Deserialize, <<Serialize(p), Compress(p)>>)
      [] c.op = "decode" -> Deserialize(c.encoded)

\* The map by its definition: the abscissa -B/A (1 + 1/(t^2 + t)) where t = Z u^2,
\* or t times that, whichever is on the isogenous curve.
IsogenousPoint(u) ==
    LET t == Mul(Curve.nonResidue, Mul(u, u))
        tv == Plus(Mul(t, t), t)
        A == Curve.aPrime
        g(x) == Plus(Mul(Plus(Mul(x, x), A), x), Curve.bPrime)
        lift(x) == [X |-> x, Y |-> CHOOSE y \in Fp : Mul(y, y) = g(x) /\ y % 2 = u % 2]
        either(x) == lift(IF IsSquare(g(x)) THEN x ELSE Mul(t, x))
    IN either(IF tv = 0 THEN Mul(Curve.bPrime, Reciprocal(Mul(Curve.nonResidue, A)))
              ELSE Mul(Mul(Minus(0, Curve.bPrime), Reciprocal(A)), Plus(1, Reciprocal(tv))))

\* Evaluates a map's polynomials on affine coordinates.
Value(f, x) == Loop(LAMBDA acc, k : Plus(Mul(acc, x), k), 0, Reverse(f))

Mapped(a) ==
    LET map == Curve.isogeny
        ratio(num, den) == Mul(Value(num, a.X), Reciprocal(Value(den, a.X)))
    IN [X |-> ratio(map.xNum, map.xDen), Y |-> Mul(a.Y, ratio(map.yNum, map.yDen))]

\* The isogeny is a homomorphism, so the images may be added instead.
MapAgrees(us, r) ==
    LET sum(images) == IF Len(us) = 1 THEN images[1] ELSE C!AffineSum(images[1], images[2])
        image == sum([i \in DOMAIN us |-> Mapped(IsogenousPoint(us[i]))])
    IN /\ r = C!Times(image, Curve.parameter + 1)
       /\ C!Times(r, Curve.order) = C!AffineInfinity

E1PointsAgree(c, r) ==
    CASE c.op = "group" -> C!GroupAgrees(c.call, r)
      [] c.op = "glv" ->
            LET product == C!Multiple(c.m * c.scalar)
            IN /\ r.product = C!FromAffine(product)
               /\ r.compressed.flags = r.bytes.flags \cup {"compressed"}
               /\ r.compressed.x = r.bytes.x
      [] c.op = "p1_mult" ->
            c.scalar < 2^c.nbits => r = C!Multiple(c.m * c.scalar)
      [] c.op = "in_g1" -> r <=> C!Times(c.point, Curve.order) = C!AffineInfinity
      [] c.op = "map" -> MapAgrees(c.us, r)

\* What is encoded decodes to itself, and what decodes is the encoding of a
\* point of the curve: no two encodings of the same form mean the same point.
E1EncodingsAgree(c, r) ==
    CASE c.op = "encode" ->
            \A i \in DOMAIN r :
                /\ r[i].point = c.point
                /\ r[i].err = IF c.point.X = 0 /\ c.point.Y # 0 THEN "POINT_NOT_IN_GROUP"
                              ELSE "SUCCESS"
      [] c.op = "decode" ->
            LET e == c.encoded
                p == C!FromAffine(r.point)
            IN r.err \in {"SUCCESS", "POINT_NOT_IN_GROUP"} =>
                 /\ C!IsInf(p) \/ OnAffineCurve(r.point)
                 /\ IF "compressed" \in e.flags
                    THEN Compress(p) = [flags |-> e.flags, x |-> e.x]
                    ELSE Serialize(p) = e
=============================================================================
