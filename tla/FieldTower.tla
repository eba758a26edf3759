------------------------------ MODULE FieldTower ------------------------------
(***************************************************************************)
(* The fields of blst over a prime Q: roots and inverses in Fp and in      *)
(* Fp2 = Fp[u]/(u^2 + 1) (src/recip.c, src/sqrt.c), and the tower Fp6 =    *)
(* Fp2[v]/(v^3 - u - 1), Fp12 = Fp6[w]/(w^2 - v) (src/fp12_tower.c).  Fp   *)
(* is 0 .. Q - 1; LimbArithmetic has the limbs behind it.                  *)
(***************************************************************************)
EXTENDS Integers, Sequences, SequencesExt, Loops

CONSTANT Q

\* What the code takes from BLS12-381's modulus; the roots in Fp2 and the Q-th
\* powers also take Q % 24 = 19.
QAssumption == Q \in Nat /\ Q % 4 = 3

Fp == 0 .. Q - 1

Fp2 == Fp \X Fp

Plus(a, b) == (a + b) % Q

Minus(a, b) == (a - b) % Q

Mul(a, b) == (a * b) % Q

Half(a) == IF a % 2 = 0 THEN a \div 2 ELSE (a + Q) \div 2

Power(x, n) == PowerOf(x, n, 1, Mul)

Zero2 == <<0, 0>>

One2 == <<1, 0>>

Plus2(a, b) == <<Plus(a[1], b[1]), Plus(a[2], b[2])>>

Minus2(a, b) == <<Minus(a[1], b[1]), Minus(a[2], b[2])>>

Mul2(a, b) ==
    <<Minus(Mul(a[1], b[1]), Mul(a[2], b[2])), Plus(Mul(a[1], b[2]), Mul(a[2], b[1]))>>

Sqr2(a) == Mul2(a, a)

Twice2(a) == Plus2(a, a)

Scale2(a, c) == <<Mul(a[1], c), Mul(a[2], c)>>

Neg2(a) == Minus2(Zero2, a)

Xi(a) == <<Minus(a[1], a[2]), Plus(a[1], a[2])>>

Power2(x, n) == PowerOf(x, n, One2, Mul2)

Norm(a) == Plus(Mul(a[1], a[1]), Mul(a[2], a[2]))

----------------------------------------------------------------------------
(* Inverses and roots                                                      *)

\* The addition chain, which is also what reciprocal_fp falls back to.
Reciprocal(a) == Power(a, Q - 2)

Reciprocal2(a) ==
    LET t == Reciprocal(Norm(a)) IN <<Mul(a[1], t), Minus(0, Mul(a[2], t))>>

RecipSqrtChain(a) == Power(a, (Q - 3) \div 4)

RecipSqrt(a) ==
    LET root == RecipSqrtChain(a)
        t == Mul(root, a)
    IN [root |-> root, is |-> Mul(t, t) = a]

Sqrt(a) ==
    LET root == Mul(RecipSqrtChain(a), a) IN [root |-> root, is |-> Mul(root, root) = a]

SqrtMinus1 == <<0, 1>>

\* 1/sqrt(2) but for the sign of its square.
Magic == Power(2, (Q - 3) \div 4)

SqrtSqrtMinus1 == <<Q - Magic, Magic>>

SqrtMinusSqrtMinus1 == <<Magic, Magic>>

\* The square of root is a, or a turned by a multiple of 90 degrees: root is
\* turned by half of that; the last turn that fits is the one taken.
SqrtAlign2(root, a) ==
    LET t == Sqr2(root)
        turned135 == t = <<a[2], Minus(0, a[1])>>
        turned45 == t = <<Minus(0, a[2]), a[1]>>
        turn == IF turned45 THEN SqrtMinusSqrtMinus1
                ELSE IF turned135 THEN SqrtSqrtMinus1
                ELSE IF t = Neg2(a) THEN SqrtMinus1 ELSE One2
    IN [root |-> Mul2(root, turn),
        is |-> t \in {a, Neg2(a)} \/ turned135 \/ turned45]

\* A root of a up to a turn, n being a root of its norm; the other sign of n
\* is taken if the first makes zero.
TurnedRoot(a, n) ==
    LET plus == Plus(a[1], n)
        half == Half(IF plus = 0 THEN Minus(a[1], n) ELSE plus)
        r == RecipSqrt(half).root
    IN <<Mul(r, half), Mul(Half(a[2]), r)>>

Sqrt2(a) == SqrtAlign2(TurnedRoot(a, Sqrt(Norm(a)).root), a)

\* 1/sqrt(a) or, of a non-residue, 1/sqrt(a / Z^3); magicZZZ has the norm of
\* recipZZZ = 1/Z^3 and what the chain makes of that norm.
RecipSqrt2(a, recipZZZ, magicZZZ) ==
    LET norm == Norm(a)
        chain == RecipSqrt(norm)
        b == IF chain.is THEN a ELSE Mul2(a, recipZZZ)
        bb == IF chain.is THEN norm ELSE Mul(norm, magicZZZ[1])
        cc == IF chain.is THEN chain.root ELSE Mul(chain.root, magicZZZ[2])
        root == SqrtAlign2(TurnedRoot(b, Mul(bb, cc)), b).root
    IN [root |-> <<Mul(root[1], cc), Minus(0, Mul(root[2], cc))>>, is |-> chain.is]

\* ct_is_square_mod_384 of a norm: LimbArithmetic's CtIsSquareMod.
IsSquare(a) == a = 0 \/ Power(a, (Q - 1) \div 2) = 1

IsSquare2(a) == IsSquare(Norm(a))

----------------------------------------------------------------------------
(* Fp6                                                                     *)

Plus6(a, b) == [i \in 1 .. 3 |-> Plus2(a[i], b[i])]

Minus6(a, b) == [i \in 1 .. 3 |-> Minus2(a[i], b[i])]

Neg6(a) == [i \in 1 .. 3 |-> Neg2(a[i])]

MulByV(a) == <<Xi(a[3]), a[1], a[2]>>

\* The mixed products of coefficients i and j, by Karatsuba.
Mixed(a, b, i, j, ii, jj) ==
    Minus2(Minus2(Mul2(Plus2(a[i], a[j]), Plus2(b[i], b[j])), ii), jj)

Mul6(a, b) ==
    LET t0 == Mul2(a[1], b[1])
        t1 == Mul2(a[2], b[2])
        t2 == Mul2(a[3], b[3])
    IN <<Plus2(Xi(Mixed(a, b, 2, 3, t1, t2)), t0),
         Plus2(Mixed(a, b, 1, 2, t0, t1), Xi(t2)),
         Plus2(Mixed(a, b, 1, 3, t0, t2), t1)>>

Sqr6(a) ==
    LET s0 == Sqr2(a[1])
        s2 == Sqr2(a[3])
        m01 == Twice2(Mul2(a[1], a[2]))
        m12 == Twice2(Mul2(a[2], a[3]))
        all == Sqr2(Plus2(Plus2(a[3], a[2]), a[1]))
    IN <<Plus2(Xi(m12), s0), Plus2(Xi(s2), m01),
         Minus2(Minus2(Minus2(Minus2(all, s0), s2), m01), m12)>>

\* By b * v, and by b[1] + b[2] * v.
MulBy0y0(a, b) == <<Xi(Mul2(a[3], b)), Mul2(a[1], b), Mul2(a[2], b)>>

MulByXy0(a, b) ==
    LET t0 == Mul2(a[1], b[1])
        t1 == Mul2(a[2], b[2])
    IN <<Plus2(Xi(Mul2(a[3], b[2])), t0), Mixed(a, b, 1, 2, t0, t1),
         Plus2(Mul2(a[3], b[1]), t1)>>

Inverse6(a) ==
    LET scaled(c, t) == <<Mul2(c[1], t), Mul2(c[2], t), Mul2(c[3], t)>>
        byNorm(c) ==
            scaled(c, Reciprocal2(Plus2(Xi(Plus2(Mul2(c[2], a[3]), Mul2(c[3], a[2]))),
                                        Mul2(c[1], a[1]))))
    IN byNorm(<<Minus2(Sqr2(a[1]), Xi(Mul2(a[2], a[3]))),
                Minus2(Xi(Sqr2(a[3])), Mul2(a[1], a[2])),
                Minus2(Sqr2(a[2]), Mul2(a[1], a[3]))>>)

----------------------------------------------------------------------------
(* Fp12                                                                    *)

Zero6 == <<Zero2, Zero2, Zero2>>

One12 == <<<<One2, Zero2, Zero2>>, Zero6>>

\* From the products of the lower halves, of the upper ones and of the sums.
Karatsuba12(t0, t1, both) == <<Plus6(t0, MulByV(t1)), Minus6(Minus6(both, t0), t1)>>

Mul12(a, b) ==
    Karatsuba12(Mul6(a[1], b[1]), Mul6(a[2], b[2]),
                Mul6(Plus6(b[1], b[2]), Plus6(a[1], a[2])))

(* (mutant: the coefficient of v * w is left out of the sum)               *)
MulByXy00z0Short(a, b) ==
    Karatsuba12(MulByXy0(a[1], b), MulBy0y0(a[2], b[3]),
                MulByXy0(Plus6(a[1], a[2]), <<b[1], b[2]>>))

\* By a line, b[1] + b[2] * v + b[3] * v * w.
MulByXy00z0(a, b) ==
    Karatsuba12(MulByXy0(a[1], b), MulBy0y0(a[2], b[3]),
                MulByXy0(Plus6(a[1], a[2]), <<b[1], Plus2(b[2], b[3])>>))

Sqr12(a) ==
    LET square(cross, both) ==
            <<Minus6(Minus6(both, cross), MulByV(cross)), Plus6(cross, cross)>>
    IN square(Mul6(a[1], a[2]), Mul6(Plus6(a[1], a[2]), Plus6(a[1], MulByV(a[2]))))

Conjugate12(a) == <<a[1], Neg6(a[2])>>

Inverse12(a) ==
    LET inverse(t) == <<Mul6(a[1], t), Neg6(Mul6(a[2], t))>>
    IN inverse(Inverse6(Minus6(Sqr6(a[1]), MulByV(Sqr6(a[2])))))

Sqr4(a, b) ==
    LET t0 == Sqr2(a)
        t1 == Sqr2(b)
    IN <<Plus2(Xi(t1), t0), Minus2(Minus2(Sqr2(Plus2(a, b)), t0), t1)>>

\* The square of an element of the cyclotomic subgroup.
CyclotomicSqr(a) ==
    LET less(t, x) == Plus2(Twice2(Minus2(t, x)), t)
        more(t, x) == Plus2(Twice2(Plus2(t, x)), t)
        square(t0, t1, t2) ==
          <<<<less(t0[1], a[1][1]), less(t1[1], a[1][2]), less(t2[1], a[1][3])>>,
            <<more(Xi(t2[2]), a[2][1]), more(t0[2], a[2][2]), more(t1[2], a[2][3])>>>>
    IN square(Sqr4(a[1][1], a[2][2]), Sqr4(a[2][1], a[1][3]), Sqr4(a[1][2], a[2][3]))

\* The tables of the code: (u + 1)^((Q^n - 1) / 6), its square, and the square
\* of that.
FrobeniusCoefficient(n) == Power2(<<1, 1>>, (Q^n - 1) \div 6)

Frobenius6(a, n) ==
    LET conjugate(x) == IF n % 2 = 1 THEN <<x[1], Minus(0, x[2])>> ELSE x
        twisted(c) ==
            <<conjugate(a[1]), Mul2(conjugate(a[2]), c), Scale2(conjugate(a[3]), Sqr2(c)[1])>>
    IN twisted(Sqr2(FrobeniusCoefficient(n)))

\* a^(Q^n), for n in 1 .. 3.
Frobenius12(a, n) ==
    LET upper(b, c) == [i \in 1 .. 3 |-> Mul2(b[i], c)]
    IN <<Frobenius6(a[1], n), upper(Frobenius6(a[2], n), FrobeniusCoefficient(n))>>
=============================================================================
