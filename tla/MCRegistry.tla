----------------------------- MODULE MCRegistry -----------------------------
(* One author, one mirror and one package.                                 *)
EXTENDS Registry
CONSTANTS a, m, herding
Two == {a, m}
One == {herding}
ByA == [q \in Roots |-> a]
Small == [q \in Roots |-> 1]
=============================================================================
