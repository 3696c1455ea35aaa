----------------------------- MODULE MCModJoin -----------------------------
(* Small instances of ModJoin for TLC. *)
EXTENDS ModJoin
CONSTANTS a, b

Two == {a, b}
TwoVersions == {1, 2}
\* A host that runs both mods, and one that runs a newer first one only.
BothOrOne == {[i \in Ids |-> 1], [i \in Ids |-> IF i = a THEN 2 ELSE None]}
\* The catalogue has the second mod.
HasB == [i \in Ids |-> IF i = b THEN {1} ELSE {}]
\* The player's b sorts before pulled-b, a after pulled-a.
BFirst == {b}
=============================================================================
