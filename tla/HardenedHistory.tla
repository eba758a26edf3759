--------------------------- MODULE HardenedHistory ---------------------------
(***************************************************************************)
(* What the hardened checkpoints of one node promise: a history of digests *)
(* by sequence that grows at the top, forgets its oldest entry only when   *)
(* it is full, and never gives a sequence it holds a different digest.     *)
(***************************************************************************)
EXTENDS Naturals, FiniteSets

CONSTANT Capacity  \* digests that are kept

VARIABLE history  \* a function from the kept sequences to their digests

Init == history = << >>

Agree(sequences) == \A s \in sequences : history'[s] = history[s]

\* The next checkpoint is hardened above everything kept.
Harden ==
    \E s \in DOMAIN history' \ DOMAIN history :
        /\ \A t \in DOMAIN history : t < s
        /\ DOMAIN history' = DOMAIN history \cup {s}
        /\ Agree(DOMAIN history)

\* A full history makes room by dropping its oldest digest.
Forget ==
    /\ Cardinality(DOMAIN history) = Capacity
    /\ \E s \in DOMAIN history :
        /\ \A t \in DOMAIN history : s <= t
        /\ DOMAIN history' = DOMAIN history \ {s}
    /\ Agree(DOMAIN history')

Next == Harden \/ Forget

Spec == Init /\ [][Next]_history
=============================================================================
