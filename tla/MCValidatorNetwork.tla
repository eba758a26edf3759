------------------------- MODULE MCValidatorNetwork -------------------------
(* Instances of ValidatorNetwork for TLC.                                   *)
EXTENDS ValidatorNetwork, TLC

CONSTANTS x, y

\* Four validators of equal stake; any three of them are a quorum.
EqualStake == [v \in 0..3 |-> 4]

\* Two large validators form a quorum without the small ones.
UnequalStake == [v \in 0..3 |-> IF v \in {1, 2} THEN 6 ELSE 1]

\* The same, where the proposer of round 1 has less than a third of the stake.
SkewedStake == [v \in 0..3 |-> CASE v = 1 -> 4 [] v = 2 -> 9 [] OTHER -> 1]

Symmetry == Permutations({x, y})
=============================================================================
