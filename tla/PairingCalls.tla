----------------------------- MODULE PairingCalls -----------------------------
(***************************************************************************)
(* Calls of FieldTower's and PairingLoop's routines and what they must     *)
(* return, on a curve small enough to compute with: its first group is     *)
(* generated by G1 over Fp, its second by G2 over Fp2, and Q to the power  *)
(* 12 is 1 modulo their common order.                                      *)
(***************************************************************************)
EXTENDS PairingLoop

CONSTANTS
    Order,     \* the prime order of both groups
    Multiples1,  \* the affine points 0 * G1 .. (Order - 1) * G1 from index 1 on
    Multiples2,
    Exponents,   \* sets of sequences <<a, b>>: the pairs a * G1, b * G2
    Elements,    \* of Fp12
    Elements2    \* of Fp2

OrderAssumption ==
    /\ (Q^4 - Q^2 + 1) % Order = 0
    /\ (Q - Parameter) % Order = 0
    /\ Len(Multiples1) = Order /\ Len(Multiples2) = Order

\* The order of the cyclotomic subgroup.
Cyclotomic == Q^4 - Q^2 + 1

PairingCall ==
    [op : {"sqrt", "recip_sqrt", "reciprocal"}, a : Elements2]
      \cup [op : {"mul"}, a : Elements, b : Elements]
      \cup [op : {"sqr", "by_line", "inverse", "frobenius", "cyclotomic_sqr", "in_group",
                  "final_exp"}, a : Elements]
      \cup [op : {"pairing"}, pairs : Exponents]
      \cup [op : {"batches"}, pairs : {e \in Exponents : \A i \in DOMAIN e : e[i][2] # 0}]
      \cup {[op |-> "lines", pairs |-> <<e>>] : e \in {<<1, 1>>, <<2, 3>>}}

PairsOf(c) ==
    [i \in DOMAIN c.pairs |-> [P |-> Multiples1[c.pairs[i][1] + 1],
                               Q |-> Multiples2[c.pairs[i][2] + 1]]]

Power12(x, n) == PowerOf(x, n, One12, Mul12)

\* a non-residue's 1/Z^3 and what goes with it
RecipZZZ == Power2(<<Q - 2, Q - 1>>, Q^2 - 4)

MagicZZZ == <<Norm(RecipZZZ), RecipSqrtChain(Norm(RecipZZZ))>>

\* The first part of the final exponentiation, by inverses and Q-th powers.
Easy(f) ==
    Strictly(LAMBDA t : Strictly(LAMBDA u : Mul12(u, t), Power12(Power12(t, Q), Q)),
             Mul12(Conjugate12(f), Inverse12(f)))

InSubgroup(f) == Power12(Strictly(Easy, f), Cyclotomic \div Order)

PairingLooping(c) == c.op \in {"pairing", "batches", "lines", "final_exp"}

PairingLoopStart(c) ==
    CASE c.op = "final_exp" -> [pc |-> 1, regs |-> FinalExpStart(c.a)]
      [] c.op = "batches" -> BatchesStart(PairsOf(c))
      [] OTHER -> MillerStart(PairsOf(c))

PairingLoopDone(c, s) ==
    CASE c.op = "final_exp" -> s.pc > Len(FinalExp)
      [] c.op = "batches" -> BatchesDone(s, PairsOf(c))
      [] OTHER -> s.todo = << >>

PairingLoopStep(c, s) ==
    CASE c.op = "final_exp" -> [pc |-> s.pc + 1, regs |-> Execute(FinalExp[s.pc], s.regs)]
      [] c.op = "pairing" -> MillerStep(s, PairsOf(c))
      [] c.op = "batches" -> BatchesStep(s, PairsOf(c))
      [] c.op = "lines" -> MillerLinesStep(s, LinesOf(PairsOf(c)[1].Q), PairsOf(c)[1].P)

PairingReturn(c, s) ==
    CASE c.op = "sqrt" -> Sqrt2(c.a)
      [] c.op = "recip_sqrt" -> RecipSqrt2(c.a, RecipZZZ, MagicZZZ)
      [] c.op = "reciprocal" -> Reciprocal2(c.a)
      [] c.op = "mul" -> Mul12(c.a, c.b)
      [] c.op = "sqr" -> Sqr12(c.a)
      [] c.op = "by_line" -> MulByXy00z0(c.a, c.a[2])
      [] c.op = "inverse" -> Inverse12(c.a)
      [] c.op = "frobenius" -> [n \in 1 .. 3 |-> Frobenius12(c.a, n)]
      [] c.op = "cyclotomic_sqr" -> Strictly(CyclotomicSqr, Easy(c.a))
      [] c.op = "in_group" ->
            LET cyclotomic == Easy(c.a)
            IN Each(InGroup, <<c.a, cyclotomic, InSubgroup(c.a)>>)
      [] c.op = "final_exp" -> s.regs["ret"]
      [] c.op = "batches" -> s.out
      [] c.op \in {"pairing", "lines"} -> s.f

\* Schoolbook multiplication: six coefficients of powers of w, w^6 = u + 1.
Coefficients(a) == <<a[1][1], a[2][1], a[1][2], a[2][2], a[1][3], a[2][3]>>

FromCoefficients(c) == <<<<c[0], c[2], c[4]>>, <<c[1], c[3], c[5]>>>>

Product12(a, b) ==
    LET x == Coefficients(a)
        y == Coefficients(b)
        term(k, i) == LET j == k - i IN
            IF j \in 0 .. 5 THEN Mul2(x[i + 1], y[j + 1]) ELSE Xi(Mul2(x[i + 1], y[j + 7]))
    IN FromCoefficients(
            [k \in 0 .. 5 |->
                Loop(LAMBDA acc, i : Plus2(acc, term(k, i - 1)), Zero2, UpTo(6))])

\* The reduced pairing of the generators.
Unit ==
    LET pairs == <<[P |-> Multiples1[2], Q |-> Multiples2[2]]>>
    IN InSubgroup(Loop(LAMBDA s, i : MillerStep(s, pairs), MillerStart(pairs),
                           Schedule).f)

\* The exponent of the final exponentiation's second part, in the parameter:
\* (z - 1)^2 (z + Q) (z^2 + Q^2 - 1) + 3.
Raised12(x, n) ==
    Power12(IF n < 0 THEN Inverse12(x) ELSE x, IF n < 0 THEN -n ELSE n)

HardPart(t) ==
    LET z == Parameter
        last(x) == Mul12(Raised12(Raised12(x, z), z), Power12(x, Q^2 - 1))
    IN Mul12(last(Raised12(Raised12(Raised12(t, z - 1), z - 1), z + Q)), Power12(t, 3))

PairingCallAgrees(c, r) ==
    CASE c.op = "sqrt" ->
            /\ r.is <=> \E x \in Fp2 : Mul2(x, x) = c.a
            /\ r.is => Mul2(r.root, r.root) = c.a
      [] c.op = "recip_sqrt" ->
            /\ r.is <=> IsSquare2(c.a)
            /\ c.a # Zero2 =>
                 Mul2(Mul2(r.root, r.root), IF r.is THEN c.a ELSE Mul2(c.a, RecipZZZ)) = One2
      [] c.op = "reciprocal" -> Mul2(r, c.a) = IF c.a = Zero2 THEN Zero2 ELSE One2
      [] c.op \in {"mul", "sqr", "by_line"} ->
            r = Product12(c.a, CASE c.op = "mul" -> c.b
                                 [] c.op = "sqr" -> c.a
                                 [] c.op = "by_line" -> FromLine(c.a[2]))
      [] c.op = "inverse" -> Product12(r, c.a) = One12
      [] c.op = "frobenius" ->
            /\ r[1] = Power12(c.a, Q)
            /\ r[2] = Power12(r[1], Q)
            /\ r[3] = Power12(r[2], Q)
      [] c.op = "cyclotomic_sqr" -> r = Strictly(LAMBDA a : Product12(a, a), Easy(c.a))
      [] c.op = "in_group" -> r = <<Power12(c.a, Order) = One12,
                                    Power12(Easy(c.a), Order) = One12, TRUE>>
      [] c.op = "final_exp" ->
            r = HardPart(Easy(c.a))
      [] c.op \in {"pairing", "batches", "lines"} ->
            LET sum == Loop(LAMBDA acc, e : acc + e[1] * e[2], 0, c.pairs)
                powerOfUnit(unit) == unit # One12 /\ InSubgroup(r) = Power12(unit, sum % Order)
            IN powerOfUnit(Unit)
=============================================================================
