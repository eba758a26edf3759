--------------------------------- MODULE Loops ---------------------------------
(***************************************************************************)
(* The loops of the arithmetic modules, as folds that TLC computes one     *)
(* step after the other, halving the sequence so as to nest little:        *)
(* SequencesExt's own search their index sets.                             *)
(***************************************************************************)
EXTENDS Naturals, Sequences

\* F(x), for which TLC computes x first.
Strictly(F(_), x) == CHOOSE r \in {F(y) : y \in {x}} : TRUE

\* Op(... Op(Op(base, s[1]), s[2]) ..., s[Len(s)])
Loop(Op(_, _), base, s) ==
    LET RECURSIVE run(_, _, _)
        run(acc, first, last) ==
            LET half == (first + last) \div 2
                one == first = last
            IN IF first > last THEN acc
               ELSE CHOOSE r \in {IF one THEN Op(a, s[first]) ELSE run(a, half + 1, last) :
                                      a \in {IF one THEN acc ELSE run(acc, first, half)}} : TRUE
    IN run(base, 1, Len(s))

UpTo(n) == [i \in 1 .. n |-> i]

\* F of each member of s.
Each(F(_), s) ==
    LET RECURSIVE from(_, _)
        from(first, last) ==
            LET half == (first + last) \div 2
            IN IF first > last THEN << >>
               ELSE IF first = last THEN <<F(s[first])>>
               ELSE from(first, half) \o from(half + 1, last)
    IN from(1, Len(s))

\* Op applied n times.
Repeat(Op(_), x, n) == Loop(LAMBDA acc, i : Op(acc), x, UpTo(n))

\* x^n, Multiply being the multiplication with unit one, by the bits of n.
PowerOf(x, n, one, Multiply(_, _)) ==
    LET powerOf(y) ==
            LET power[k \in 0 .. n] ==
                    IF k = 0 THEN one
                    ELSE CHOOSE r \in {IF k % 2 = 1 THEN Multiply(square, y) ELSE square :
                                           square \in {Multiply(h, h) : h \in {power[k \div 2]}}} :
                                TRUE
            IN power[n]
    IN Strictly(powerOf, x)
=============================================================================
