------------------------------ MODULE CurvePoints ------------------------------
(***************************************************************************)
(* The group operations of blst (src/ec_ops.h), which its two curves share *)
(* and instantiate with their fields: y^2 = x^3 + b.  The field is a       *)
(* parameter.  A Jacobian point is infinite if Z is zero, an affine one if *)
(* both coordinates are, and a projective one if Z is zero and Y is not.   *)
(***************************************************************************)
EXTENDS Naturals

CONSTANTS
    ZeroF, OneF,                        \* of the field, BLS12_381_Rx
    _++_, _--_, _**_,     \* add, sub, mul
    Reciprocal(_),
    MulByB(_)                           \* mul_by_b_onE1, mul_by_b_onE2

Sqr(a) == a ** a

Twice(a) == a ++ a

MulBy3(a) == a ++ Twice(a)

MulBy8(a) == Twice(Twice(Twice(a)))

MulBy4B(a) == Twice(Twice(MulByB(a)))

Neg(a) == ZeroF -- a

Cneg(p, flag) == IF flag THEN [p EXCEPT !.Y = Neg(p.Y)] ELSE p

Infinity == [X |-> ZeroF, Y |-> ZeroF, Z |-> ZeroF]

AffineInfinity == [X |-> ZeroF, Y |-> ZeroF]

IsInf(p) == p.Z = ZeroF

IsInfAffine(p) == p = AffineInfinity

FromAffine(a) == [X |-> a.X, Y |-> a.Y, Z |-> IF IsInfAffine(a) THEN ZeroF ELSE OneF]

\* The common end of the additions: with H the difference of the abscissas, R
\* that of the ordinates, sx the sum of the abscissas, and U1, S1 the first
\* point's, all over the common denominator.
Chord(H, R, sx, U1, S1, Z3) ==
    LET HH == Sqr(H)
        X3 == Sqr(R) -- (HH ** sx)
    IN [X |-> X3,
        Y |-> (R ** ((HH ** U1) -- X3)) -- ((HH ** H) ** S1),
        Z |-> Z3]

(* (mutant: equal points are added, not doubled)                           *)
DaddChordOnly(p1, p2, a4) ==
    LET ZZ1 == Sqr(p1.Z)
        ZZ2 == Sqr(p2.Z)
        U1 == p1.X ** ZZ2
        U2 == p2.X ** ZZ1
        S1 == (p1.Y ** p2.Z) ** ZZ2
        S2 == (p2.Y ** p1.Z) ** ZZ1
    IN IF IsInf(p1) THEN p2
       ELSE IF IsInf(p2) THEN p1
       ELSE Chord(U2 -- U1, S2 -- S1, U1 ++ U2, U1, S1,
                  (U2 -- U1) ** (p1.Z ** p2.Z))

\* a4 is the curve's other coefficient: zero except on the isogenous curve
\* that hashing maps to first.
Dadd(p1, p2, a4) ==
    LET ZZ1 == Sqr(p1.Z)
        ZZ2 == Sqr(p2.Z)
        U1 == p1.X ** ZZ2
        U2 == p2.X ** ZZ1
        S1 == (p1.Y ** p2.Z) ** ZZ2
        S2 == (p2.Y ** p1.Z) ** ZZ1
        isDbl == U1 = U2 /\ S1 = S2
        slope == MulBy3(Sqr(p1.X)) ++ (a4 ** Sqr(ZZ1))
    IN IF IsInf(p1) THEN p2
       ELSE IF IsInf(p2) THEN p1
       ELSE IF isDbl
       THEN Chord(Twice(p1.Y), slope, Twice(p1.X), p1.X, p1.Y, Twice(p1.Y) ** p1.Z)
       ELSE Chord(U2 -- U1, S2 -- S1, U1 ++ U2, U1, S1,
                  (U2 -- U1) ** (p1.Z ** p2.Z))

DaddAffine(p1, p2) ==
    LET ZZ1 == Sqr(p1.Z)
        U2 == p2.X ** ZZ1
        S2 == p2.Y ** (ZZ1 ** p1.Z)
        isDbl == U2 = p1.X /\ S2 = p1.Y
    IN IF IsInfAffine(p2) THEN p1
       ELSE IF IsInf(p1) THEN [X |-> p2.X, Y |-> p2.Y, Z |-> OneF]
       ELSE IF isDbl
       THEN Chord(Twice(p2.Y), MulBy3(Sqr(p2.X)), Twice(p2.X), p2.X, p2.Y, Twice(p2.Y))
       ELSE Chord(U2 -- p1.X, S2 -- p1.Y, p1.X ++ U2, p1.X, p1.Y,
                  (U2 -- p1.X) ** p1.Z)

\* Neither of the next two doubles: of equal points they make infinity.
Add(p1, p2) ==
    LET Z1Z1 == Sqr(p1.Z)
        Z2Z2 == Sqr(p2.Z)
        S1 == (Z2Z2 ** p2.Z) ** p1.Y
        r == Twice(((Z1Z1 ** p1.Z) ** p2.Y) -- S1)
        U1 == p1.X ** Z2Z2
        H == (p2.X ** Z1Z1) -- U1
        I == Sqr(Twice(H))
        J == H ** I
        V == U1 ** I
        X3 == (Sqr(r) -- J) -- Twice(V)
    IN IF IsInf(p1) THEN p2
       ELSE IF IsInf(p2) THEN p1
       ELSE [X |-> X3,
             Y |-> (r ** (V -- X3)) -- Twice(S1 ** J),
             Z |-> ((Sqr(p1.Z ++ p2.Z) -- Z1Z1) -- Z2Z2) ** H]

AddAffine(p1, p2) ==
    LET Z1Z1 == Sqr(p1.Z)
        r == Twice(((Z1Z1 ** p1.Z) ** p2.Y) -- p1.Y)
        H == (p2.X ** Z1Z1) -- p1.X
        HH == Sqr(H)
        I == Twice(Twice(HH))
        V == p1.X ** I
        J == H ** I
        X3 == (Sqr(r) -- J) -- Twice(V)
    IN IF IsInfAffine(p2) THEN p1
       ELSE IF IsInf(p1) THEN [X |-> p2.X, Y |-> p2.Y, Z |-> OneF]
       ELSE [X |-> X3,
             Y |-> (r ** (V -- X3)) -- Twice(J ** p1.Y),
             Z |-> (Sqr(p1.Z ++ H) -- Z1Z1) -- HH]

Double(p) ==
    LET A == Sqr(p.X)
        B == Sqr(p.Y)
        C == Sqr(B)
        D == Twice((Sqr(B ++ p.X) -- A) -- C)
        E == MulBy3(A)
        X3 == Sqr(E) -- Twice(D)
    IN [X |-> X3, Y |-> (E ** (D -- X3)) -- MulBy8(C),
        Z |-> Twice(p.Z) ** p.Y]

IsEqual(p1, p2) ==
    LET Z1Z1 == Sqr(p1.Z)
        Z2Z2 == Sqr(p2.Z)
    IN /\ p1.X ** Z2Z2 = p2.X ** Z1Z1
       /\ (p1.Y ** p2.Z) ** Z2Z2 = (p2.Y ** p1.Z) ** Z1Z1
       /\ IsInf(p1) = IsInf(p2)

----------------------------------------------------------------------------
(* Conversions                                                             *)

FromJacobian(p) ==
    LET Z == Reciprocal(p.Z)
        ZZ == Sqr(Z)
    IN IF IsInf(p) THEN Infinity
       ELSE [X |-> p.X ** ZZ, Y |-> p.Y ** (ZZ ** Z), Z |-> OneF]

ToAffine(p) ==
    LET normal == FromJacobian(p) IN [X |-> normal.X, Y |-> normal.Y]

ToProjective(p) ==
    LET ZZ == Sqr(p.Z)
    IN [X |-> p.X ** p.Z, Y |-> IF IsInf(p) THEN OneF ELSE p.Y, Z |-> ZZ ** p.Z]

ProjToJacobian(p) == [X |-> p.X ** p.Z, Y |-> p.Y ** Sqr(p.Z), Z |-> p.Z]

ToXYZZ(p) == [X |-> p.X, Y |-> p.Y, ZZ |-> Sqr(p.Z), ZZZ |-> Sqr(p.Z) ** p.Z]

XYZZToJacobian(p) == [X |-> p.X ** p.ZZ, Y |-> p.Y ** p.ZZZ, Z |-> p.ZZ]

OnCurve(p) ==
    LET ZZ == Sqr(p.Z)
        BZ6 == MulByB((ZZ ** ZZ) ** ZZ)
    IN IsInf(p) \/ Sqr(p.Y) = (Sqr(p.X) ** p.X) ++ BZ6

----------------------------------------------------------------------------
(* Homogeneous coordinates: complete formulas                              *)

\* What both additions compute from the cross products: xx = X1 X2, yy =
\* Y1 Y2, bzz = 3b Z1 Z2, and the sums xy, yz and xz of mixed products.
ProjSum(xx, yy, bzz, xy, yz, xz) ==
    LET sum == yy ++ bzz
        difference == yy -- bzz
        bxz == MulByB(MulBy3(xz))
    IN [X |-> (xy ** difference) -- (yz ** bxz),
        Y |-> (difference ** sum) ++ (bxz ** MulBy3(xx)),
        Z |-> (sum ** yz) ++ (MulBy3(xx) ** xy)]

ProjDadd(p1, p2) ==
    LET xx == p1.X ** p2.X
        yy == p1.Y ** p2.Y
        zz == p1.Z ** p2.Z
    IN ProjSum(xx, yy, MulByB(MulBy3(zz)),
               ((p1.X ++ p1.Y) ** (p2.X ++ p2.Y)) -- (xx ++ yy),
               ((p1.Y ++ p1.Z) ** (p2.Y ++ p2.Z)) -- (yy ++ zz),
               ((p1.X ++ p1.Z) ** (p2.X ++ p2.Z)) -- (xx ++ zz))

ProjDaddAffine(p1, p2) ==
    LET xx == p1.X ** p2.X
        yy == p1.Y ** p2.Y
    IN IF IsInfAffine(p2) THEN p1
       ELSE ProjSum(xx, yy, MulBy3(MulByB(p1.Z)),
                    ((p1.X ++ p1.Y) ** (p2.X ++ p2.Y)) -- (xx ++ yy),
                    (p2.Y ** p1.Z) ++ p1.Y, (p2.X ** p1.Z) ++ p1.X)

ProjDouble(p) ==
    LET yy == Sqr(p.Y)
        bzz == MulBy3(MulByB(Sqr(p.Z)))
        rest == yy -- MulBy3(bzz)
    IN [X |-> Twice(rest ** (p.X ** p.Y)),
        Y |-> (bzz ** MulBy8(yy)) ++ (rest ** (yy ++ bzz)),
        Z |-> (p.Y ** p.Z) ** MulBy8(yy)]

----------------------------------------------------------------------------
(* XYZZ coordinates: infinite if both ZZ and ZZZ are zero                  *)

XYZZInf(p) == p.ZZ = ZeroF /\ p.ZZZ = ZeroF

\* Sets only the denominators to zero.
ToInfinity(p) == [p EXCEPT !.ZZ = ZeroF, !.ZZZ = ZeroF]

XYZZChord(P, R, U, S, ZZ, ZZZ) ==
    LET PP == Sqr(P)
        PPP == PP ** P
        Q == U ** PP
        X3 == (Sqr(R) -- PPP) -- Twice(Q)
    IN [X |-> X3, Y |-> ((Q -- X3) ** R) -- (S ** PPP),
        ZZ |-> ZZ ** PP, ZZZ |-> ZZZ ** PPP]

XYZZTangent(X, Y, ZZ, ZZZ) ==
    LET V == Sqr(Twice(Y))
        W == V ** Twice(Y)
        S == X ** V
        M == MulBy3(Sqr(X))
        X3 == Sqr(M) -- Twice(S)
    IN [X |-> X3, Y |-> ((S -- X3) ** M) -- (W ** Y),
        ZZ |-> ZZ ** V, ZZZ |-> ZZZ ** W]

XYZZDadd(p1, p2) ==
    LET U == p1.X ** p2.ZZ
        S == p1.Y ** p2.ZZZ
        P == (p2.X ** p1.ZZ) -- U
        R == (p2.Y ** p1.ZZZ) -- S
    IN IF XYZZInf(p2) THEN p1
       ELSE IF XYZZInf(p1) THEN p2
       ELSE IF P # ZeroF
       THEN XYZZChord(P, R, U, S, p1.ZZ ** p2.ZZ, p1.ZZZ ** p2.ZZZ)
       ELSE IF R = ZeroF THEN XYZZTangent(p1.X, p1.Y, p1.ZZ, p1.ZZZ)
       ELSE ToInfinity(p1)

\* The sign of a subtracted point goes to ZZZ where Y is not computed anew.
XYZZDaddAffine(p1, p2, subtract) ==
    LET signed(a) == IF subtract THEN Neg(a) ELSE a
        P == (p2.X ** p1.ZZ) -- p1.X
        R == signed(p2.Y ** p1.ZZZ) -- p1.Y
    IN IF IsInfAffine(p2) THEN p1
       ELSE IF XYZZInf(p1)
       THEN [X |-> p2.X, Y |-> p2.Y, ZZ |-> OneF, ZZZ |-> signed(OneF)]
       ELSE IF P # ZeroF THEN XYZZChord(P, R, p1.X, p1.Y, p1.ZZ, p1.ZZZ)
       ELSE IF R = ZeroF THEN XYZZTangent(p2.X, p2.Y, OneF, signed(OneF))
       ELSE ToInfinity(p1)

----------------------------------------------------------------------------
(* Montgomery's ladder on the abscissa alone                               *)

LadderPre(p) == [X |-> p.X ** p.Z, Z |-> Sqr(p.Z) ** p.Z]

\* s + r and 2r, where s - r is p.
LadderStep(r, s, p) ==
    LET A == r.X ** s.X
        B == r.Z ** s.Z
        C == r.X ** s.Z
        D == r.Z ** s.X
        sum == [X |-> p.Z ** (Sqr(A) -- MulBy4B(B ** (C ++ D))),
                Z |-> p.X ** Sqr(C -- D)]
        XX == Sqr(r.X)
        ZZ == Sqr(r.Z)
        E == (Sqr(r.X ++ r.Z) -- XX) -- ZZ
    IN [s |-> IF r.Z = ZeroF THEN s ELSE IF s.Z = ZeroF THEN r ELSE sum,
        r |-> [X |-> Sqr(XX) -- MulBy4B(E ** ZZ),
               Z |-> Twice(E ** XX) ++ MulBy4B(Sqr(ZZ))]]

\* The ordinate from both abscissas.  s is infinite when the scalar is the
\* order less one: then r is the negative of p.
LadderPost(r, s, p, Y1) ==
    LET Z3x2 == Twice(s.Z)
        Y1Z3x2 == Y1 ** Z3x2
        Z1Z2 == p.Z ** r.Z
        X1Z2 == p.X ** r.Z
        X2Z1 == r.X ** p.Z
        A == MulByB(Sqr(Z1Z2) ** Z3x2)
        B == ((p.X ** r.X) ** s.Z) ** (X1Z2 ++ X2Z1)
        C == s.X ** Sqr(X1Z2 -- X2Z1)
        p4 == IF s.Z = ZeroF THEN [X |-> p.X, Y |-> Neg(Y1), Z |-> p.Z]
              ELSE [X |-> (Y1Z3x2 ** r.X) ** Z1Z2, Y |-> (A ++ B) -- C,
                    Z |-> (Z1Z2 ** r.Z) ** Y1Z3x2]
    IN [X |-> p4.X ** p4.Z, Y |-> p4.Y ** Sqr(p4.Z), Z |-> p4.Z]
=============================================================================
