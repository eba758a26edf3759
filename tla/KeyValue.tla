------------------------------- MODULE KeyValue -------------------------------
(***************************************************************************)
(* What an object store promises its callers: a map from keys to contents  *)
(* that only a call changes, and only at its key; after a restart, every   *)
(* key has a content that it once had.                                     *)
(***************************************************************************)
CONSTANTS Key, Value, None

VARIABLES
    up,       \* the store is running
    dict,     \* the content of every key, None when it has none
    held,     \* the contents every key has had
    answered  \* the change the last step answered, if it answered one, with
              \* the answer; << >> if it did not

vars == <<up, dict, held, answered>>

Init ==
    /\ up = TRUE
    /\ dict = [k \in Key |-> None]
    /\ held = [k \in Key |-> {None}]
    /\ answered = << >>

\* A change that is acknowledged has happened; one that ended in an error has
\* happened or not.
Change(k, content) ==
    /\ up
    /\ \E ok \in BOOLEAN :
        /\ answered' = <<k, content, ok>>
        /\ \/ dict' = [dict EXCEPT ![k] = content]
           \/ ~ok /\ UNCHANGED dict
    /\ held' = [held EXCEPT ![k] = @ \cup {dict'[k]}]
    /\ UNCHANGED up

\* Whatever else the store does while it is up, nobody sees.
Work ==
    /\ answered' = << >>
    /\ UNCHANGED <<up, dict, held>>

Fail ==
    /\ up
    /\ up' = FALSE
    /\ answered' = << >>
    /\ DOMAIN dict' = Key
    /\ \A k \in Key : dict'[k] \in held[k]
    /\ UNCHANGED held

Recover ==
    /\ ~up
    /\ up' = TRUE
    /\ UNCHANGED <<dict, held, answered>>

Next ==
    \/ \E k \in Key, content \in Value \cup {None} : Change(k, content)
    \/ Work
    \/ Fail
    \/ Recover

Spec == Init /\ [][Next]_vars
=============================================================================
