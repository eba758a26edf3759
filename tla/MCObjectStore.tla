----------------------------- MODULE MCObjectStore -----------------------------
(* Instances of ObjectStore for TLC.                                          *)
EXTENDS ObjectStore

CONSTANTS x, y, v

\* One snapshot, with one of the two keys.
OneSnapshot == {[k \in Key |-> IF k = x THEN v ELSE None]}
=============================================================================
