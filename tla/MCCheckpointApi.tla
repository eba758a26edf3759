--------------------------- MODULE MCCheckpointApi ---------------------------
(* Instance of CheckpointApi for TLC: a ring of two slots, so that evictions *)
(* happen, and four sequences.                                              *)
EXTENDS CheckpointApi, TLC

CONSTANTS a, b

Symmetry == Permutations({a, b})
=============================================================================
