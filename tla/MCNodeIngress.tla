---------------------------- MODULE MCNodeIngress ----------------------------
(* Instances of NodeIngress for TLC: three validators of unequal stake, a    *)
(* quorum that two of them form, and maps of one or two entries.             *)
EXTENDS NodeIngress, TLC

CONSTANTS v1, v2, v3, x, y

Symmetry == Permutations({x, y})

StakeTable == v1 :> 5 @@ v2 :> 4 @@ v3 :> 1
=============================================================================
