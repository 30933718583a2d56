------------------------------ MODULE AtomicIndex ------------------------------
(***************************************************************************)
(* What save_index (src/src/retrieval/bm25.py) promises of the persisted   *)
(* keyword index: readers see it change only from one complete corpus to   *)
(* another, at one moment of a save, and a save that is abandoned changes  *)
(* nothing.  The promise is made to savers that run one at a time: those   *)
(* whose saves overlapped may leave anything behind, until they are over.  *)
(***************************************************************************)
CONSTANTS
    Savers,         \* the processes that save the index
    Corpora,        \* what the index may hold
    Unreadable,     \* what a reader makes of a damaged file
    None            \* no index, no save

VARIABLES
    index,      \* what a reader sees
    saving,     \* saving[s]: the corpus s is saving
    overlapped  \* the saves under way that overlapped with another one

vars == <<index, saving, overlapped>>

Saving == {s \in Savers : saving[s] # None}

Init ==
    /\ index = None
    /\ saving = [s \in Savers |-> None]
    /\ overlapped = {}

Begin(s) ==
    /\ saving[s] = None
    /\ \E c \in Corpora : saving' = [saving EXCEPT ![s] = c]
    /\ overlapped' = IF Saving = {} THEN {} ELSE overlapped \cup Saving \cup {s}
    /\ UNCHANGED index

End(s) ==
    /\ saving[s] # None
    /\ saving' = [saving EXCEPT ![s] = None]
    /\ overlapped' = overlapped \ {s}

Commit(s) ==
    /\ End(s)
    /\ s \notin overlapped
    /\ index' = saving[s]

Abandon(s) == End(s) /\ UNCHANGED index

Garble(s) ==
    /\ s \in overlapped
    /\ index' = Unreadable \/ \E c \in Corpora : index' = c
    /\ End(s) \/ UNCHANGED <<saving, overlapped>>

Next == \E s \in Savers : Begin(s) \/ Commit(s) \/ Abandon(s) \/ Garble(s)

Spec == Init /\ [][Next]_vars

================================================================================
