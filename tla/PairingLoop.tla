------------------------------ MODULE PairingLoop ------------------------------
(***************************************************************************)
(* The pairing of blst (src/pairing.c): the Miller loop over n pairs of    *)
(* affine points, with the line functions of its steps, and the final      *)
(* exponentiation, as a program over four registers.                       *)
(***************************************************************************)
EXTENDS FieldTower

\* The negative of BLS12-381's parameter is 0xd201000000010000: doublings
\* after each addition are <<2, 3, 9, 32, 16>>.
CONSTANTS
    Chain,
    MillerLoopNMax

ChainAssumption ==
    /\ Chain \in Seq(Nat) /\ Chain # << >> /\ Chain[Len(Chain)] > 0
    /\ MillerLoopNMax \in Nat \ {0}

\* The parameter, negative.
Parameter == -Loop(LAMBDA acc, n : (acc + 1) * 2^n, 2, Chain)

Times8(a) == Twice2(Twice2(Twice2(a)))

MulBy3Fp2(a) == Plus2(a, Twice2(a))

\* T + Q with the line through both, and 2T with the tangent in T; lines are
\* still to be scaled by P.
LineAdd(T, B) ==
    LET Z1Z1 == Sqr2(T.Z)
        H == Minus2(Mul2(B.X, Z1Z1), T.X)
        HH == Sqr2(H)
        I == Twice2(Twice2(HH))
        J == Mul2(H, I)
        r == Twice2(Minus2(Mul2(Mul2(B.Y, T.Z), Z1Z1), T.Y))
        V == Mul2(T.X, I)
        at(X3, Z3) ==
            [T |-> [X |-> X3, Y |-> Minus2(Mul2(Minus2(V, X3), r), Twice2(Mul2(J, T.Y))),
                    Z |-> Z3],
             line |-> <<Twice2(Minus2(Mul2(r, B.X), Mul2(B.Y, Z3))), r, Z3>>]
    IN at(Minus2(Minus2(Sqr2(r), J), Twice2(V)),
          Minus2(Minus2(Sqr2(Plus2(T.Z, H)), Z1Z1), HH))

LineDbl(T) ==
    LET A == Sqr2(T.X)
        B == Sqr2(T.Y)
        ZZ == Sqr2(T.Z)
        C == Sqr2(B)
        D == Twice2(Minus2(Minus2(Sqr2(Plus2(T.X, B)), A), C))
        E == MulBy3Fp2(A)
        F == Sqr2(E)
        cross == Minus2(Minus2(Sqr2(Plus2(E, T.X)), A), F)
        at(X3, Z3) ==
            [T |-> [X |-> X3, Y |-> Minus2(Mul2(Minus2(D, X3), E), Times8(C)), Z |-> Z3],
             line |-> <<Minus2(cross, Twice2(Twice2(B))), Mul2(E, ZZ), Mul2(Z3, ZZ)>>]
    IN at(Minus2(F, Twice2(D)), Minus2(Minus2(Sqr2(Plus2(T.Y, T.Z)), B), ZZ))

LineByPx2(line, P) ==
    <<line[1], Scale2(line[2], Minus(0, 2 * P.X)), Scale2(line[3], Plus(P.Y, P.Y))>>

\* What a line is as an element of the field.
FromLine(line) == <<<<line[1], line[2], Zero2>>, <<Zero2, line[3], Zero2>>>>

----------------------------------------------------------------------------
(* The Miller loop: its state is the product so far, the running multiples *)
(* of the Q's, and the steps left                                          *)

HasInfinite(pair) ==
    pair.Q = [X |-> Zero2, Y |-> Zero2] \/ pair.P = [X |-> 0, Y |-> 0]

\* The first step squares 1 and is a doubling without a squaring; every
\* addition is without one, every other doubling has one.
Schedule ==
    <<"first">> \o FlattenSeq([k \in DOMAIN Chain |->
                       <<"add">> \o [i \in 1 .. Chain[k] |-> "double"]])

\* pairs is a sequence of records Q, P.
LoopStart(pairs) ==
    [f |-> One12,
     T |-> [i \in DOMAIN pairs |-> [X |-> pairs[i].Q.X, Y |-> pairs[i].Q.Y, Z |-> One2]],
     todo |-> Schedule]

\* A single pair with an infinite point is the identity.
MillerStart(pairs) ==
    IF Len(pairs) = 1 /\ HasInfinite(pairs[1]) THEN [LoopStart(pairs) EXCEPT !.todo = << >>]
    ELSE LoopStart(pairs)

MillerStep(s, pairs) ==
    LET step == Head(s.todo)
        multiply(lines, acc, i) ==
            CASE i > 1 -> MulByXy00z0(acc, lines[i])
              [] step = "first" -> FromLine(lines[1])
              [] OTHER -> MulByXy00z0(IF step = "double" THEN Sqr12(acc) ELSE acc, lines[1])
        product(lines) ==
            Loop(LAMBDA acc, i : multiply(lines, acc, i), s.f, UpTo(Len(pairs)))
        next(at, f) ==
            [f |-> IF Len(s.todo) = 1 THEN Conjugate12(f) ELSE f,  \* Parameter is negative
             T |-> [i \in DOMAIN pairs |-> at[i].T], todo |-> Tail(s.todo)]
        moved(at) ==
            next(at, product([i \in DOMAIN pairs |-> LineByPx2(at[i].line, pairs[i].P)]))
    IN moved([i \in DOMAIN pairs |->
                IF step = "add" THEN LineAdd(s.T[i], pairs[i].Q) ELSE LineDbl(s.T[i])])

\* blst_miller_loop_n: batches of pairs that fit the arrays, each with a loop of
\* its own, multiplied together.
Batch(pairs, k) ==
    LET last == k * MillerLoopNMax
    IN SubSeq(pairs, last - MillerLoopNMax + 1, IF last < Len(pairs) THEN last ELSE Len(pairs))

BatchesStart(pairs) == [k |-> 1, out |-> One12, loop |-> LoopStart(Batch(pairs, 1))]

BatchesStep(s, pairs) ==
    IF s.loop.todo # << >> THEN [s EXCEPT !.loop = MillerStep(@, Batch(pairs, s.k))]
    ELSE [k |-> s.k + 1, out |-> IF s.k = 1 THEN s.loop.f ELSE Mul12(s.out, s.loop.f),
          loop |-> LoopStart(Batch(pairs, s.k + 1))]

BatchesDone(s, pairs) == (s.k - 1) * MillerLoopNMax >= Len(pairs)

\* precompute_lines: all the lines of a Q, for a loop that has only P left.
LinesOf(B) ==
    Loop(LAMBDA acc, step :
        Strictly(LAMBDA at : [T |-> at.T, lines |-> Append(acc.lines, at.line)],
                 IF step = "add" THEN LineAdd(acc.T, B) ELSE LineDbl(acc.T)),
        [T |-> [X |-> B.X, Y |-> B.Y, Z |-> One2], lines |-> << >>], Schedule).lines

MillerLinesStep(s, lines, P) ==
    LET step == Head(s.todo)
        line == LineByPx2(lines[Len(Schedule) - Len(s.todo) + 1], P)
        next(f) ==
            [s EXCEPT !.f = IF Len(s.todo) = 1 THEN Conjugate12(f) ELSE f, !.todo = Tail(@)]
    IN next(IF step = "first" THEN FromLine(line)
            ELSE MulByXy00z0(IF step = "double" THEN Sqr12(s.f) ELSE s.f, line))

----------------------------------------------------------------------------
(* The final exponentiation                                                *)

SqrTimes(a, n) == Repeat(CyclotomicSqr, a, n)

RaiseToZDivBy2(a) ==
    LET last == Len(Chain)
        step(acc, k) ==
            SqrTimes(Mul12(acc, a), IF k = last THEN Chain[k] - 1 ELSE Chain[k])
    IN Conjugate12(Loop(step, CyclotomicSqr(a), UpTo(last)))

RaiseToZ(a) == CyclotomicSqr(RaiseToZDivBy2(a))

\* Every instruction sets its first register.
FinalExp ==
    << <<"y1", "conjugate", "f">>, <<"y2", "inverse", "f">>, <<"ret", "mul", "y1", "y2">>,
       <<"y2", "frobenius2", "ret">>, <<"ret", "mul", "ret", "y2">>,
       <<"y0", "sqr", "ret">>, <<"y1", "raise", "y0">>, <<"y2", "raise_half", "y1">>,
       <<"y3", "conjugate", "ret">>, <<"y1", "mul", "y1", "y3">>, <<"y1", "conjugate", "y1">>,
       <<"y1", "mul", "y1", "y2">>, <<"y2", "raise", "y1">>, <<"y3", "raise", "y2">>,
       <<"y1", "conjugate", "y1">>, <<"y3", "mul", "y3", "y1">>, <<"y1", "conjugate", "y1">>,
       <<"y1", "frobenius3", "y1">>, <<"y2", "frobenius2", "y2">>, <<"y1", "mul", "y1", "y2">>,
       <<"y2", "raise", "y3">>, <<"y2", "mul", "y2", "y0">>, <<"y2", "mul", "y2", "ret">>,
       <<"y1", "mul", "y1", "y2">>, <<"y2", "frobenius1", "y3">>, <<"ret", "mul", "y1", "y2">> >>

FinalExpStart(f) ==
    [r \in {"f", "ret", "y0", "y1", "y2", "y3"} |-> IF r = "f" THEN f ELSE One12]

Execute(instruction, regs) ==
    LET a == regs[instruction[3]]
        op == instruction[2]
        value == CASE op = "conjugate" -> Conjugate12(a)
                   [] op = "inverse" -> Inverse12(a)
                   [] op = "mul" -> Mul12(a, regs[instruction[4]])
                   [] op = "sqr" -> CyclotomicSqr(a)
                   [] op = "raise" -> RaiseToZ(a)
                   [] op = "raise_half" -> RaiseToZDivBy2(a)
                   [] op = "frobenius1" -> Frobenius12(a, 1)
                   [] op = "frobenius2" -> Frobenius12(a, 2)
                   [] op = "frobenius3" -> Frobenius12(a, 3)
    IN [regs EXCEPT ![instruction[1]] = value]

IsCyclotomic(f) ==
    LET a == Frobenius12(f, 2) IN Mul12(Frobenius12(a, 2), f) = a

InGroup(f) ==
    f # <<Zero6, Zero6>> /\ IsCyclotomic(f) /\ Frobenius12(f, 1) = RaiseToZ(f)
=============================================================================
