-------------------------- MODULE MCNodeCheckpoints --------------------------
(* Instances of NodeCheckpoints for TLC.                                     *)
EXTENDS NodeCheckpoints, TLC

CONSTANTS a, b

EveryFaultSet == SUBSET FaultKinds

SequenceKept == SUBSET {"archive_write"}

TornSaves == {{"torn_save"}}

Symmetry == Permutations({a, b})
=============================================================================
