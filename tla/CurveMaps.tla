------------------------------- MODULE CurveMaps -------------------------------
(***************************************************************************)
(* The parts that blst's maps to its two groups share (src/map_to_g1.c,    *)
(* src/map_to_g2.c): from a field element to a point of the isogenous      *)
(* curve y^2 = x^3 + A x + B, and from there to the curve itself.          *)
(***************************************************************************)
EXTENDS CurvePoints, Sequences, SequencesExt, Loops

\* The simplified SWU map.  Z is a non-residue; Root(a) is a's inverse square
\* root or, of a non-residue, something that turn makes a root of Z^3 a.
Sswu(u, A, B, Z, turn, Root(_), Sgn0(_)) ==
    LET uu == Sqr(u)
        Zuu == Z ** uu
        tv2 == Sqr(Zuu) ++ Zuu
        x1n == (tv2 ++ OneF) ** B
        AxTv2 == Neg(A) ** tv2
        xd == IF AxTv2 = ZeroF THEN Z ** A ELSE AxTv2
        gxd == xd ** Sqr(xd)
        gx1 == ((Sqr(x1n) ++ (A ** Sqr(xd))) ** x1n) ++ (B ** gxd)
        product == gx1 ** gxd
        point(root) ==
            LET y1 == root.root ** product
                y == IF root.is THEN y1 ELSE ((y1 ** turn) ** uu) ** u
            IN [X |-> (IF root.is THEN x1n ELSE Zuu ** x1n) ** xd,
                Y |-> (IF Sgn0(u) # Sgn0(y) THEN Neg(y) ELSE y) ** gxd,
                Z |-> xd]
    IN point(Root(Sqr(gxd) ** product))

\* f(x / ZZ) times the power of ZZ that clears the denominators; f's
\* coefficients begin with the lowest.
Homogeneous(f, x, ZZ) ==
    LET step(acc, k) == [value |-> (acc.value ** x) ++ (k ** acc.power),
                         power |-> acc.power ** ZZ]
    IN Loop(step, [value |-> Last(f), power |-> ZZ], Reverse(Front(f))).value

\* Two fractions of polynomials in x, the second times y.
Isogeny(p, map) ==
    LET ZZ == Sqr(p.Z)
        value(f) == Homogeneous(f, p.X, ZZ)
        point(xn, xd, yn, yd, Z3) ==
            [X |-> (xn ** yd) ** Z3, Y |-> (Sqr(Z3) ** xd) ** yn, Z |-> Z3]
        cleared(xd, yd) ==
            point(value(map.xNum), xd, value(map.yNum) ** p.Y, yd, xd ** yd)
    IN cleared(value(map.xDen) ** ZZ, value(map.yDen) ** (ZZ ** p.Z))
=============================================================================
