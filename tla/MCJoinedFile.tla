----------------------------- MODULE MCJoinedFile -----------------------------
(* One to three sections of a small archive for TLC. *)
EXTENDS JoinedFile

Cut(start, size) == [start |-> start, size |-> size]

\* One section; header and data apart and out of order; three, overlapping.
MCSections ==
    {<<Cut(1, size)>> : size \in {1, 4}}
    \cup {<<Cut(5, a), Cut(1, b)>> : a \in {1, 2}, b \in {1, 3}}
    \cup {<<Cut(0, a), Cut(2, b), Cut(a, 1)>> :
            a \in {1, 4}, b \in {1, 2}}

MCOffsets == 0 .. 7

ASSUME ReadsAssumption == ReadsAreInFiles
=============================================================================
