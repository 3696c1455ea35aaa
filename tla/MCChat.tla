------------------------------- MODULE MCChat -------------------------------
(* Small instances of Chat for TLC. *)
EXTENDS Chat, TLC

CONSTANTS c1, c2, goat, kid

Named(head) == [head |-> head, tags |-> << >>]

Goat == Named(goat)
Kids == {Named(kid)}
KidOrGoat == {Named(kid), Named(goat)}

=============================================================================
