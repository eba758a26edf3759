---------------------------- MODULE AdditionChains ----------------------------
(***************************************************************************)
(* The addition chains of blst (src/recip-addchain.h, sqrt-addchain.h and  *)
(* pentaroot-addchain.h): a sequence of multiplications of earlier powers, *)
(* then windows of squarings of t[0], each followed by a multiplication.   *)
(* The registers hold exponents, as bytes, least significant first.        *)
(***************************************************************************)
EXTENDS Integers, Sequences, SequencesExt

Bytes == 48

NoRegister == 19   \* a register no step writes: the multiplication is left out

L == INSTANCE LimbArithmetic WITH LimbBits <- 8, Limbs <- Bytes

\* The bytes of the moduli, src/consts.c.
BLS12381P ==
    Reverse(<< \h1a, \h01, \h11, \hea, \h39, \h7f, \he6, \h9a, \h4b, \h1b,
              \ha7, \hb6, \h43, \h4b, \hac, \hd7, \h64, \h77, \h4b, \h84, \hf3,
              \h85, \h12, \hbf, \h67, \h30, \hd2, \ha0, \hf6, \hb0, \hf6, \h24,
              \h1e, \hab, \hff, \hfe, \hb1, \h53, \hff, \hff, \hb9, \hfe, \hff,
              \hff, \hff, \hff, \haa, \hab >>)

BLS12381r ==
    Reverse(<< \h73, \hed, \ha7, \h53, \h29, \h9d, \h7d, \h48, \h33, \h39,
              \hd8, \h08, \h09, \ha1, \hd8, \h05, \h53, \hbd, \ha4, \h02, \hff,
              \hfe, \h5b, \hfe, \hff, \hff, \hff, \hff, \h00, \h00, \h00, \h01 >>)

ReciprocalProducts ==
    << <<0, 1, 1>>, <<9, 0, 1>>, <<5, 0, 0>>, <<2, 9, 0>>, <<7, 5, 9>>, <<10, 2, 5>>,
       <<13, 7, 5>>, <<4, 10, 5>>, <<8, 13, 5>>, <<15, 4, 5>>, <<11, 8, 5>>,
       <<3, 15, 5>>, <<12, 11, 5>>, <<0, 4, 4>>, <<14, 12, 5>>, <<6, 0, 9>>,
       <<5, 0, 2>> >>

ReciprocalWindows ==
    << <<12, 15>>, <<7, 8>>, <<4, 2>>, <<6, 7>>, <<7, 12>>, <<5, 5>>, <<2, 9>>,
       <<6, 4>>, <<6, 4>>, <<6, 10>>, <<3, 9>>, <<7, 4>>, <<4, 4>>, <<6, 8>>,
       <<6, 14>>, <<3, 1>>, <<8, 4>>, <<7, 12>>, <<5, 13>>, <<6, 4>>, <<6, 6>>,
       <<4, 10>>, <<8, 6>>, <<4, 4>>, <<7, 12>>, <<9, 11>>, <<2, 9>>, <<5, 7>>,
       <<7, 2>>, <<7, 10>>, <<6, 12>>, <<5, 6>>, <<5, 11>>, <<5, 11>>, <<8, 4>>,
       <<7, 3>>, <<9, 8>>, <<5, 4>>, <<3, 9>>, <<8, 8>>, <<3, 9>>, <<7, 10>>, <<9, 8>>,
       <<6, 3>>, <<6, 5>>, <<5, 5>>, <<5, 5>>, <<4, 4>>, <<3, 9>>, <<8, 3>>, <<7, 5>>,
       <<5, 5>>, <<5, 5>>, <<4, 8>>, <<4, 7>>, <<7, 5>>, <<5, 6>>, <<5, 5>>, <<5, 5>>,
       <<5, 5>>, <<5, 5>>, <<5, 5>>, <<5, 5>>, <<4, 4>>, <<6, 3>>, <<4, 2>>, <<3, 1>> >>

RecipSqrtProducts ==
    << <<0, 13, 13>>, <<8, 0, 13>>, <<4, 0, 0>>, <<1, 8, 0>>, <<6, 4, 8>>, <<9, 1, 4>>,
       <<12, 6, 4>>, <<3, 9, 4>>, <<7, 12, 4>>, <<15, 3, 4>>, <<10, 7, 4>>,
       <<2, 15, 4>>, <<11, 10, 4>>, <<0, 3, 3>>, <<14, 11, 4>>, <<5, 0, 8>>,
       <<4, 0, 1>> >>

RecipSqrtWindows ==
    << <<12, 15>>, <<7, 7>>, <<4, 1>>, <<6, 6>>, <<7, 11>>, <<5, 4>>, <<2, 8>>,
       <<6, 3>>, <<6, 3>>, <<6, 9>>, <<3, 8>>, <<7, 3>>, <<4, 3>>, <<6, 7>>, <<6, 14>>,
       <<3, 13>>, <<8, 3>>, <<7, 11>>, <<5, 12>>, <<6, 3>>, <<6, 5>>, <<4, 9>>,
       <<8, 5>>, <<4, 3>>, <<7, 11>>, <<9, 10>>, <<2, 8>>, <<5, 6>>, <<7, 1>>,
       <<7, 9>>, <<6, 11>>, <<5, 5>>, <<5, 10>>, <<5, 10>>, <<8, 3>>, <<7, 2>>,
       <<9, 7>>, <<5, 3>>, <<3, 8>>, <<8, 7>>, <<3, 8>>, <<7, 9>>, <<9, 7>>, <<6, 2>>,
       <<6, 4>>, <<5, 4>>, <<5, 4>>, <<4, 3>>, <<3, 8>>, <<8, 2>>, <<7, 4>>, <<5, 4>>,
       <<5, 4>>, <<4, 7>>, <<4, 6>>, <<7, 4>>, <<5, 5>>, <<5, 4>>, <<5, 4>>, <<5, 4>>,
       <<5, 4>>, <<5, 4>>, <<5, 4>>, <<4, 3>>, <<6, 2>>, <<4, 1>>, <<1, NoRegister>> >>

PentarootProducts ==
    << <<7, 1, 1>>, <<0, 7, 7>>, <<2, 0, 0>>, <<10, 2, 1>>, <<3, 10, 7>>, <<1, 10, 0>>,
       <<5, 3, 0>>, <<9, 10, 2>>, <<4, 3, 2>>, <<15, 5, 2>>, <<8, 15, 2>>,
       <<13, 8, 7>>, <<14, 8, 0>>, <<12, 13, 0>>, <<6, 8, 2>>, <<11, 14, 2>>,
       <<0, 15, 15>>, <<18, 6, 2>>, <<2, 11, 2>>, <<16, 2, 7>>, <<7, 0, 3>>,
       <<17, 0, 5>> >>

PentarootWindows ==
    << <<7, 18>>, <<6, 13>>, <<6, 17>>, <<6, 16>>, <<5, 15>>, <<6, 15>>, <<8, 14>>,
       <<8, 13>>, <<6, 2>>, <<6, 13>>, <<7, 12>>, <<8, 11>>, <<6, 1>>, <<8, 2>>,
       <<6, 11>>, <<4, 10>>, <<5, 8>>, <<15, 9>>, <<8, 3>>, <<5, 8>>, <<10, 7>>,
       <<6, 6>>, <<5, 4>>, <<8, 2>>, <<7, 5>>, <<9, 2>>, <<7, 4>>, <<8, 2>>, <<8, 2>>,
       <<8, 2>>, <<6, 3>>, <<8, 2>>, <<8, 2>>, <<8, 2>>, <<6, 1>> >>

ChainOf(name) ==
    CASE name = "recip" ->
            [first |-> 1, products |-> ReciprocalProducts, windows |-> ReciprocalWindows]
      [] name = "sqrt" ->
            [first |-> 13, products |-> RecipSqrtProducts, windows |-> RecipSqrtWindows]
      [] name = "pentaroot" ->
            [first |-> 1, products |-> PentarootProducts, windows |-> PentarootWindows]

Steps(name) == Len(ChainOf(name).products) + Len(ChainOf(name).windows)

One == [i \in 1 .. Bytes |-> IF i = 1 THEN 1 ELSE 0]

\* The input in its register, before any step.
ChainStart(name) ==
    [t \in 0 .. NoRegister |-> IF t = ChainOf(name).first THEN One ELSE L!Zero(Bytes)]

\* 2^n * a + b.
Combine(a, n, b) == L!Columns([i \in 1 .. Bytes |-> 2^n * a[i] + b[i]]).limbs

ChainStep(name, n, t) ==
    LET chain == ChainOf(name)
        product == chain.products[n]
        window == chain.windows[n - Len(chain.products)]
    IN IF n <= Len(chain.products)
       THEN [t EXCEPT ![product[1]] = Combine(t[product[2]], 0, t[product[3]])]
       ELSE [t EXCEPT ![0] = Combine(t[0], window[1], t[window[2]])]

----------------------------------------------------------------------------

\* factor * e + add is k times the modulus less one (or the modulus itself).
Scaled(e, factor, add) ==
    L!Columns([i \in 1 .. Bytes |-> factor * e[i] + (IF i = 1 THEN add ELSE 0)])

Padded(m, k, less) ==
    L!Columns([i \in 1 .. Bytes |-> (IF i <= Len(m) THEN k * m[i] ELSE 0)
                                       - (IF i = 1 THEN k * less ELSE 0)])

\* 1/x is x^(P-2); 1/sqrt(x) is x^((P-3)/4); and the fifth root is x to the
\* inverse of 5 modulo r - 1, which is (2(r-1) + 1)/5.
ChainAgrees(name, e) ==
    CASE name = "recip" -> Scaled(e, 1, 2) = Padded(BLS12381P, 1, 0)
      [] name = "sqrt" -> Scaled(e, 4, 3) = Padded(BLS12381P, 1, 0)
      [] name = "pentaroot" -> Scaled(e, 5, -1) = Padded(BLS12381r, 2, 1)
=============================================================================
