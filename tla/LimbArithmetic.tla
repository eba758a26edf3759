---------------------------- MODULE LimbArithmetic ----------------------------
(***************************************************************************)
(* The portable multi-precision arithmetic of blst (src/no_asm.h and the   *)
(* reference routines of src/vect.c).  A number is a sequence of limbs,    *)
(* least significant first.  Every loop over limbs in the code carries a   *)
(* two-limb intermediate from one column to the next; Columns is that loop.*)
(***************************************************************************)
EXTENDS Integers, Sequences, SequencesExt, FiniteSetsExt

CONSTANTS
    LimbBits,  \* LIMB_T_BITS (32 or 64)
    Limbs      \* limbs of a number (4 or 6 of 64 bits)

ASSUME LimbAssumption ==
    /\ LimbBits \in Nat /\ LimbBits >= 4
    /\ Limbs \in Nat /\ Limbs >= 4 /\ Limbs % 2 = 0

Base == 2^LimbBits

Index == 1 .. Limbs

\* Reduces column sums to limbs; what the last column carries (or, if
\* negative, borrows) is in out.
Columns(sums) ==
    LET step(acc, sum) ==
            [limbs |-> Append(acc.limbs, (sum + acc.out) % Base),
             out |-> (sum + acc.out) \div Base]
    IN FoldLeft(step, [limbs |-> << >>, out |-> 0], sums)

Zero(n) == [i \in 1 .. n |-> 0]

IsZero(a) == \A i \in DOMAIN a : a[i] = 0

Split(x, n) == [i \in 1 .. n |-> (x \div Base^(i - 1)) % Base]

\* The value of a number modulo m.
Residue(a, m) == FoldRight(LAMBDA limb, acc : (acc * Base + limb) % m, a, 0)

Low(a) == SubSeq(a, 1, Limbs)

High(a) == SubSeq(a, Limbs + 1, 2 * Limbs)

----------------------------------------------------------------------------
(* Arithmetic modulo p                                                     *)

\* The conditional subtraction that ends most routines: with the mask
\* carry - borrow.
FinalSubtraction(t, carry, p) ==
    LET less == Columns([i \in Index |-> t[i] - p[i]])
    IN IF carry = -less.out THEN less.limbs ELSE t

AddMod(a, b, p) ==
    LET sum == Columns([i \in Index |-> a[i] + b[i]])
    IN FinalSubtraction(sum.limbs, sum.out, p)

SubMod(a, b, p) ==
    LET difference == Columns([i \in Index |-> a[i] - b[i]])
    IN IF difference.out = 0 THEN difference.limbs
       ELSE Columns([i \in Index |-> difference.limbs[i] + p[i]]).limbs

MulBy3Mod(a, p) == AddMod(a, AddMod(a, a, p), p)

Times(count, Op(_), a) == FoldLeft(LAMBDA x, i : Op(x), a, [i \in 1 .. count |-> i])

LshiftMod(a, count, p) == Times(count, LAMBDA x : AddMod(x, x, p), a)

\* Halving: p is added to an odd number, and the carry is shifted in.
Halve(a, p) ==
    LET even == Columns([i \in Index |-> a[i] + (IF a[1] % 2 = 1 THEN p[i] ELSE 0)])
        above == Tail(even.limbs) \o <<even.out>>
    IN [i \in Index |-> even.limbs[i] \div 2 + (above[i] % 2) * (Base \div 2)]

RshiftMod(a, count, p) == Times(count, LAMBDA x : Halve(x, p), a)

CnegMod(a, flag, p) ==
    IF flag /\ ~IsZero(a) THEN Columns([i \in Index |-> p[i] - a[i]]).limbs ELSE a

\* Of a number as read from bytes: it is neither zero nor p or more.
CheckMod(a, p) == ~IsZero(a) /\ Columns([i \in Index |-> a[i] - p[i]]).out # 0

AddNCheckMod(a, b, p) ==
    LET sum == AddMod(a, b, p) IN [value |-> sum, nonzero |-> ~IsZero(sum)]

SubNCheckMod(a, b, p) ==
    LET difference == SubMod(a, b, p)
    IN [value |-> difference, nonzero |-> ~IsZero(difference)]

\* Whether a is odd, and whether it is in the upper half.
Sgn0PtyMod(a, p) ==
    LET twice == Columns([i \in Index |-> 2 * a[i]])
        less == Columns([i \in Index |-> twice.limbs[i] - p[i]])
    IN [parity |-> a[1] % 2, sign |-> IF twice.out + less.out = 0 THEN 1 ELSE 0]

\* For re + im * i, the sign is that of im unless im is 0, the parity that of
\* re unless re is 0.
Sgn0PtyMod384x(a, p) ==
    LET re == Sgn0PtyMod(a[1], p)
        im == Sgn0PtyMod(a[2], p)
    IN [parity |-> IF IsZero(a[1]) THEN im.parity ELSE re.parity,
        sign |-> IF IsZero(a[2]) THEN re.sign ELSE im.sign]

----------------------------------------------------------------------------
(* Montgomery's multiplication, with n0 = -1/p modulo Base                 *)

\* One limb of b: accumulate, add the multiple of p that clears the lowest
\* limb, and drop that limb.
MontStep(t, a, bj, p, n0) ==
    LET sum == Columns([i \in 1 .. Limbs + 1 |->
                   IF i <= Limbs THEN bj * a[i] + t.limbs[i] ELSE t.carry])
        mx == (n0 * sum.limbs[1]) % Base
        cleared == Columns([i \in 1 .. Limbs + 1 |->
                       IF i <= Limbs THEN mx * p[i] + sum.limbs[i]
                       ELSE sum.limbs[i] + sum.out])
    IN [limbs |-> Tail(cleared.limbs), carry |-> cleared.out]

Start == [limbs |-> Zero(Limbs), carry |-> 0]

(* (mutant: the carry of a step is lost)                                   *)
MulMontNoCarry(a, b, p, n0) ==
    LET t == FoldLeft(LAMBDA acc, bj :
                 [MontStep(acc, a, bj, p, n0) EXCEPT !.carry = 0], Start, b)
    IN FinalSubtraction(t.limbs, t.carry, p)

MulMont(a, b, p, n0) ==
    LET t == FoldLeft(LAMBDA acc, bj : MontStep(acc, a, bj, p, n0), Start, b)
    IN FinalSubtraction(t.limbs, t.carry, p)

\* Without the final subtraction, for a modulus with bits to spare.
MulMontNonred(a, b, p, n0) ==
    FoldLeft(LAMBDA acc, bj : [MontStep(acc, a, bj, p, n0) EXCEPT !.carry = 0],
             Start, b).limbs

SqrNMulMont383(a, count, p, n0, b) ==
    MulMont(Times(count, LAMBDA x : MulMontNonred(x, x, p, n0), a), b, p, n0)

\* Division by the base, once for every limb of the low half.
ClearLow(a, p, n0) ==
    LET clear(t) ==
            LET mx == (n0 * t[1]) % Base
                sum == Columns([i \in Index |-> mx * p[i] + t[i]])
            IN Tail(sum.limbs) \o <<sum.out>>
    IN Times(Limbs, clear, Low(a))

FromMont(a, p, n0) == FinalSubtraction(ClearLow(a, p, n0), 0, p)

RedcMont(a, p, n0) ==
    LET t == ClearLow(a, p, n0)
        sum == Columns([i \in Index |-> t[i] + High(a)[i]])
    IN FinalSubtraction(sum.limbs, sum.out, p)

\* Products in the quadratic extension, by Karatsuba's three.
MulMont384x(a, b, p, n0) ==
    LET both == MulMont(AddMod(b[1], b[2], p), AddMod(a[1], a[2], p), p, n0)
        re == MulMont(a[1], b[1], p, n0)
        im == MulMont(a[2], b[2], p, n0)
    IN <<SubMod(re, im, p), SubMod(SubMod(both, re, p), im, p)>>

SqrMont384x(a, p, n0) ==
    LET cross == MulMont(a[1], a[2], p, n0)
    IN <<MulMont(AddMod(a[1], a[2], p), SubMod(a[1], a[2], p), p, n0),
         AddMod(cross, cross, p)>>

\* The same on unreduced intermediates: a difference that borrowed stands for
\* R more than it should, which makes the product a[1] + a[2] too large.
SqrMont382x(a, p, n0) ==
    LET sum == Columns([i \in Index |-> a[1][i] + a[2][i]]).limbs
        difference == Columns([i \in Index |-> a[1][i] - a[2][i]])
        cross == MulMontNonred(a[1], a[2], p, n0)
        product == MulMontNonred(sum, difference.limbs, p, n0)
        signed == Columns([i \in Index |->
                      product[i] - (IF difference.out = 0 THEN 0 ELSE sum[i])])
    IN <<Columns([i \in Index |->
             signed.limbs[i] + (IF signed.out = 0 THEN 0 ELSE p[i])]).limbs,
         Columns([i \in Index |-> 2 * cross[i]]).limbs>>

MulBy1PlusI(a, p) == <<SubMod(a[1], a[2], p), AddMod(a[1], a[2], p)>>

----------------------------------------------------------------------------
(* Inversion and quadratic residues, by approximated binary Euclid         *)

\* The lowest limb of both, and above it the LimbBits bits that begin at the
\* highest bit set in either; the search ends at the third limb.
AbApproximation(a, b) ==
    LET top == Max({3} \cup {i \in 3 .. Limbs : a[i] # 0 \/ b[i] # 0})
        bits == Min({k \in 0 .. LimbBits : a[top] < 2^k /\ b[top] < 2^k})
        leading(x) == ((x[top] * 2^(LimbBits - bits)) % Base) + x[top - 1] \div 2^bits
    IN [a |-> a[1] + Base * leading(a), b |-> b[1] + Base * leading(b)]

Exact(a, b) == [a |-> a[1] + Base * a[2], b |-> b[1] + Base * b[2]]

\* One step of the inner loop: subtract b from an odd a, exchange the two if
\* that borrows, and halve a; the factors say which combinations of the
\* loop's inputs a and b now are.  Jacobi's symbol changes sign when two
\* numbers that are 3 modulo 4 change places, and when a 2 is divided out
\* while b is 3 or 5 modulo 8.
InnerStep(s) ==
    LET odd == s.a % 2 = 1
        borrow == odd /\ s.a < s.b
        a == IF borrow THEN s.b - s.a ELSE IF odd THEN s.a - s.b ELSE s.a
        b == IF borrow THEN s.a ELSE s.b
        f == IF borrow THEN <<s.f1, s.f0>> ELSE <<s.f0, s.f1>>
        g == IF borrow THEN <<s.g1, s.g0>> ELSE <<s.g0, s.g1>>
        swapped == IF borrow /\ s.a % 4 = 3 /\ s.b % 4 = 3 THEN 1 ELSE 0
        halved == IF b % 8 \in {3, 5} THEN 1 ELSE 0
    IN [a |-> a \div 2, b |-> b,
        f0 |-> IF odd THEN f[1] - f[2] ELSE f[1], f1 |-> 2 * f[2],
        g0 |-> IF odd THEN g[1] - g[2] ELSE g[1], g1 |-> 2 * g[2],
        L |-> (s.L + swapped + halved) % 2]

InnerLoop(ab, L, n) ==
    LET start == [a |-> ab.a, b |-> ab.b, L |-> L,
                  f0 |-> 1, g0 |-> 0, f1 |-> 0, g1 |-> 1]
    IN Times(n, InnerStep, start)

Negative(limb) == limb >= Base \div 2

\* f * u + g * v, for numbers in two's complement; out is the sign limb.
SmulN(u, f, v, g) ==
    LET signed(x, i) == IF i = Len(x) /\ Negative(x[i]) THEN x[i] - Base ELSE x[i]
    IN Columns([i \in DOMAIN u |-> f * signed(u, i) + g * signed(v, i)])

\* (f * a + g * b) shifted right by the steps of an inner loop, made
\* non-negative; neg says that the factors change their signs with it.
SmulNShiftN(a, f, b, g) ==
    LET product == SmulN(a, f, b, g)
        all == Append(product.limbs, product.out % Base)
        shifted == [i \in Index |-> all[i] \div 2^(LimbBits - 2)
                                      + ((all[i + 1] * 4) % Base)]
        neg == product.out < 0
    IN [limbs |-> Columns([i \in Index |-> IF neg THEN -shifted[i] ELSE shifted[i]]).limbs,
        neg |-> neg]

\* One round: LimbBits - 2 inner steps on the approximations, applied to a, b
\* and, when they are kept, to the cofactors u and v.
EuclidRound(s, cofactors) ==
    LET fg == InnerLoop(AbApproximation(s.a, s.b), s.L, LimbBits - 2)
        a == SmulNShiftN(s.a, fg.f0, s.b, fg.g0)
        b == SmulNShiftN(s.a, fg.f1, s.b, fg.g1)
        sign(x) == IF x.neg THEN -1 ELSE 1
    IN [a |-> a.limbs, b |-> b.limbs,
        L |-> IF a.neg THEN (fg.L + b.limbs[1] \div 2) % 2 ELSE fg.L,
        u |-> IF cofactors
              THEN SmulN(s.u, sign(a) * fg.f0, s.v, sign(a) * fg.g0).limbs ELSE s.u,
        v |-> IF cofactors
              THEN SmulN(s.u, sign(b) * fg.f1, s.v, sign(b) * fg.g1).limbs ELSE s.v]

EuclidStart(a, p) ==
    [a |-> a, b |-> p, L |-> 0, u |-> <<1>> \o Zero(2 * Limbs - 1), v |-> Zero(2 * Limbs)]

Rounds == (2 * Limbs * LimbBits) \div (LimbBits - 2)

LastSteps == (2 * Limbs * LimbBits) % (LimbBits - 2)

\* What is left to do after the rounds.  The inverse times
\* 2^(2 * Limbs * LimbBits), as a number of twice the limbs: px, the modulus
\* shifted to the left end, is added to the high half of a negative result, and
\* then added or subtracted once more by the sign that is left.
CtInverseMod(s, px) ==
    LET fg == InnerLoop(Exact(s.a, s.b), 0, LastSteps)
        result == SmulN(s.u, fg.f1, s.v, fg.g1)
        high == Columns([i \in Index |->
                    High(result.limbs)[i] + (IF result.out < 0 THEN px[i] ELSE 0)])
        top == result.out + high.out
    IN Low(result.limbs)
         \o Columns([i \in Index |->
                high.limbs[i] - (IF top > 0 THEN px[i] ELSE IF top < 0 THEN -px[i] ELSE 0)]).limbs

CtIsSquareMod(s) == InnerLoop(Exact(s.a, s.b), s.L, LastSteps).L = 0

----------------------------------------------------------------------------
(* Division                                                                *)

\* An estimate of the two top limbs of a dividend over the two top limbs of a
\* divisor whose highest bit is set, at most one too large: a bit at a time,
\* and all ones if it does not fit a limb.
Div3Limbs(r, d) ==
    LET step(s, i) ==
            [r |-> IF s.r >= s.d THEN s.r - s.d ELSE s.r, d |-> s.d \div 2,
             q |-> 2 * s.q + (IF s.r >= s.d THEN 1 ELSE 0)]
        s == FoldLeft(step, [r |-> r, d |-> d, q |-> 0], [i \in 1 .. LimbBits |-> i])
    IN IF Negative(s.q) THEN Base - 1
       ELSE 2 * s.q + (IF s.r >= s.d THEN 1 ELSE 0)

\* Remainder and quotient limb, once the divisor has been added back to a
\* remainder that turned out negative.
QuotRem(dividend, divisor, q) ==
    LET n == Len(divisor)
        rest == Columns([i \in 1 .. n + 1 |->
                    dividend[i] - (IF i <= n THEN q * divisor[i] ELSE 0)])
        back == Columns([i \in 1 .. n |->
                    rest.limbs[i] + (IF rest.out = 0 THEN 0 ELSE divisor[i])])
    IN Append(back.limbs, IF rest.out = 0 THEN q ELSE q - 1)

\* Division in place: the remainder ends in the low half, the quotient in the
\* high one.
DivByZ(val, z) ==
    LET n == Len(z)
        step(v, at) ==
            LET window == SubSeq(v, at, at + n)
                d == IF n = 1 THEN z[1] * Base ELSE z[n - 1] + z[n] * Base
                q == Div3Limbs(v[at + n - 1] + Base * v[at + n], d)
            IN SubSeq(v, 1, at - 1) \o QuotRem(window, z, q)
                 \o SubSeq(v, at + n + 1, Len(v))
    IN FoldLeft(step, val, [i \in 1 .. n |-> n + 1 - i])
=============================================================================
