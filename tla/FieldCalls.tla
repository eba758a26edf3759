------------------------------ MODULE FieldCalls ------------------------------
(***************************************************************************)
(* Calls of LimbArithmetic's routines and what integer arithmetic says     *)
(* they must return.  The inverse and the residue symbol want limbs of at  *)
(* least 8 bits (they work on LimbBits - 2 bits at a time), so they have   *)
(* an instance of their own.                                               *)
(***************************************************************************)
EXTENDS LimbArithmetic

CONSTANTS
    Modulus,       \* an odd prime with three bits to spare, as the curve's is
    Operands,      \* residues handed to the routines
    WideBits,      \* LimbBits of the second instance
    WideModulus,   \* a prime of LimbBits * Limbs - 3 bits there
    WideOperands,
    Dividends,     \* numbers of 2 * n limbs ...
    Divisors       \* ... and of n limbs with the highest bit set

Wide == INSTANCE LimbArithmetic WITH LimbBits <- WideBits

ASSUME ModulusAssumption ==
    /\ Modulus \in Nat /\ Modulus % 2 = 1 /\ 8 * Modulus < 2^(LimbBits * Limbs)
    /\ Operands \subseteq 0 .. Modulus - 1
    /\ WideBits \in Nat /\ WideBits >= 8
    /\ WideModulus \in Nat /\ WideModulus % 4 = 3  \* so that -1 is no square
    /\ WideOperands \subseteq 0 .. WideModulus - 1

P == Split(Modulus, Limbs)

WideP == Wide!Split(WideModulus, Limbs)

N0 == CHOOSE n \in 0 .. Base - 1 : (n * P[1] + 1) % Base = 0

\* The modulus shifted to the left end of its limbs.
Px == Wide!Columns([i \in Index |-> 8 * WideP[i]]).limbs

\* Products and values of limbs by doubling: TLC's integers are short.
Product(x, y, m) ==
    FoldLeft(LAMBDA acc, i : (2 * acc + ((y \div 2^(30 - i)) % 2) * x) % m, 0,
             [i \in 1 .. 30 |-> i])

WideResidue(a) ==
    LET n == WideBits * Len(a)
        bit(i) == (a[1 + i \div WideBits] \div 2^(i % WideBits)) % 2
    IN FoldLeft(LAMBDA acc, i : (2 * acc + bit(n - i)) % WideModulus, 0, [i \in 1 .. n |-> i])

WidePowerOf2(n) ==
    FoldLeft(LAMBDA acc, i : (2 * acc) % WideModulus, 1, [i \in 1 .. n |-> i])

Mod(x) == x % Modulus

R == Mod(2^(LimbBits * Limbs))

InverseOfR == CHOOSE y \in 0 .. Modulus - 1 : Mod(y * R) = 1

ByR(x) == Mod(Mod(x) * InverseOfR)

Unary == {"mul_by_3", "lshift", "rshift", "neg", "check", "sgn0", "from_mont", "sqr_n_mul"}

Binary == {"add", "sub", "mul_mont", "redc", "mul_384x", "sqr_384x", "sqr_382x",
           "sgn0_384x", "mul_by_1_plus_i"}

FieldCall ==
    [op : Unary, a : Operands] \cup [op : Binary, a : Operands, b : Operands]
      \cup [op : {"inverse"}, a : WideOperands]
      \cup [op : {"is_square"}, a : WideOperands, negated : BOOLEAN]
      \cup UNION {[op : {"div"}, a : Dividends[n], b : Divisors[n]] : n \in DOMAIN Divisors}

\* The routines with a 256-bit form, which "can handle arbitrary modulus, even
\* non-sparse" (no_asm.h).
AnyModulus == {"add", "sub", "mul_by_3", "lshift", "rshift", "neg", "mul_mont",
               "from_mont", "redc"}

\* The two loops of Euclid's algorithm take a step for every round.
Looping(c) == c.op \in {"inverse", "is_square"}

FieldLoopStart(c) ==
    LET square == Product(c.a, c.a, WideModulus)
        operand == IF c.op = "inverse" THEN c.a
                   ELSE (IF c.negated THEN WideModulus - square ELSE square) % WideModulus
    IN Wide!EuclidStart(Wide!Split(operand, Limbs), WideP)

FieldLoopStep(c, s) == Wide!EuclidRound(s, c.op = "inverse")

\* What a call returns; s is what its loop, if it has one, has computed.
FieldReturn(c, s) ==
    LET a == Split(c.a, Limbs)
        b == Split(c.b, Limbs)
    IN CASE c.op = "add" -> AddNCheckMod(a, b, P)
         [] c.op = "sub" -> SubNCheckMod(a, b, P)
         [] c.op = "mul_by_3" -> MulBy3Mod(a, P)
         [] c.op = "lshift" -> LshiftMod(a, 3, P)
         [] c.op = "rshift" -> RshiftMod(a, 3, P)
         [] c.op = "neg" -> CnegMod(a, TRUE, P)
         [] c.op = "check" ->
                <<CheckMod(a, P), CheckMod(Columns([i \in Index |-> a[i] + P[i]]).limbs, P)>>
         [] c.op = "sgn0" -> Sgn0PtyMod(a, P)
         [] c.op = "sgn0_384x" -> Sgn0PtyMod384x(<<a, b>>, P)
         [] c.op = "mul_by_1_plus_i" -> MulBy1PlusI(<<a, b>>, P)
         [] c.op = "mul_mont" -> MulMont(a, b, P, N0)
         [] c.op = "from_mont" -> FromMont(a, P, N0)
         [] c.op = "redc" -> RedcMont(a \o b, P, N0)
         [] c.op = "sqr_n_mul" -> SqrNMulMont383(a, 3, P, N0, a)
         [] c.op = "mul_384x" -> MulMont384x(<<a, b>>, <<b, a>>, P, N0)
         [] c.op = "sqr_384x" -> SqrMont384x(<<a, b>>, P, N0)
         [] c.op = "sqr_382x" -> SqrMont382x(<<a, b>>, P, N0)
         [] c.op = "inverse" -> Wide!CtInverseMod(s, Px)
         [] c.op = "is_square" -> Wide!CtIsSquareMod(s)
         [] c.op = "div" -> DivByZ(c.a, c.b)

\* What FieldReturn has to be: the least residue, except that the inverse is
\* spread over twice the limbs and sqr_382x leaves up to three bits unreduced.
FieldCallAgrees(c, r) ==
    LET a == c.a
        least(x) == Split(Mod(x), Limbs)
        checked(x) == [value |-> least(x), nonzero |-> Mod(x) # 0]
        sign(x) == IF 2 * x > Modulus THEN 1 ELSE 0
        value(limbs) == Residue(limbs, 2^30)
    IN CASE c.op = "add" -> r = checked(a + c.b)
         [] c.op = "sub" -> r = checked(a - c.b)
         [] c.op = "mul_by_3" -> r = least(3 * a)
         [] c.op = "lshift" -> r = least(8 * a)
         [] c.op = "rshift" -> Mod(8 * value(r)) = a /\ r = least(value(r))
         [] c.op = "neg" -> r = least(-a)
         [] c.op = "check" -> r = <<a # 0, FALSE>>
         [] c.op = "sgn0" -> r = [parity |-> a % 2, sign |-> sign(a)]
         [] c.op = "sgn0_384x" -> r = [parity |-> (IF a = 0 THEN c.b ELSE a) % 2,
                                       sign |-> sign(IF c.b = 0 THEN a ELSE c.b)]
         [] c.op = "mul_by_1_plus_i" -> r = <<least(a - c.b), least(a + c.b)>>
         [] c.op = "mul_mont" -> r = least(ByR(a * c.b))
         [] c.op = "from_mont" -> r = least(ByR(a))
         [] c.op = "redc" -> r = least(ByR(a) + c.b)
         [] c.op = "sqr_n_mul" ->
                r = least(ByR(a * FoldLeft(LAMBDA acc, i : ByR(acc * acc), a, <<1, 2, 3>>)))
         [] c.op = "mul_384x" -> r = <<Zero(Limbs), least(ByR(a * a + c.b * c.b))>>
         [] c.op = "sqr_384x" -> r = <<least(ByR(a * a - c.b * c.b)), least(ByR(2 * a * c.b))>>
         [] c.op = "sqr_382x" ->
                /\ Mod(value(r[1])) = ByR(a * a - c.b * c.b)
                /\ Mod(value(r[2])) = ByR(2 * a * c.b)
                /\ \A half \in {1, 2} : value(r[half]) < 8 * Modulus
         [] c.op = "inverse" ->
                Product(WideResidue(r), a, WideModulus)
                  = IF a = 0 THEN 0 ELSE WidePowerOf2(2 * Limbs * WideBits)
         [] c.op = "is_square" ->
                r = (c.negated => a = 0)
         [] c.op = "div" ->
                LET n == Len(c.b)
                    remainder == value(SubSeq(r, 1, n))
                    quotient == value(SubSeq(r, n + 1, 2 * n))
                IN remainder < value(c.b) /\ value(c.a) = quotient * value(c.b) + remainder
=============================================================================
