----------------------------- MODULE MCSession -----------------------------
(* A small instance of Session and its history for TLC. *)
EXTENDS SessionHistory

CONSTANTS c1, c2, goat

Plain == [head |-> goat, tags |-> << >>]
Second == [head |-> goat, tags |-> <<2>>]

\* One asks for the name another may be given.
TwoNames == {Plain, Second}

Pair == {c1, c2}

=============================================================================
