---------------------------- MODULE QuorumConfig ----------------------------
(***************************************************************************)
(* The quorum arithmetic of src/src/form/consensus/QuorumConfig.zig, over  *)
(* stake amounts that a u128 holds.                                        *)
(***************************************************************************)
EXTENDS Integers

CONSTANT MaxAmount  \* maxInt(StakeAmount)

ASSUME AmountAssumption == MaxAmount \in Nat \ {0}

Amount == 0..MaxAmount

\* thresholdOf: floor(2 * total / 3) + 1, saturating when the product overflows.
thresholdOf(total) ==
    IF 2 * total > MaxAmount THEN MaxAmount ELSE (2 * total) \div 3 + 1

\* accepts: `comparison` is strictly_above.
accepts(accumulated, total) == accumulated > thresholdOf(total)

byzantineThreshold(total) == total \div 3
=============================================================================
