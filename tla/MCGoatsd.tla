------------------------------ MODULE MCGoatsd -----------------------------
(***************************************************************************)
(* Model-checking the dedicated server: one evening with the world on its  *)
(* way to one player, the others with players that come, go and report.    *)
(* What is started at all is the command line's choice.                    *)
(***************************************************************************)
EXTENDS Goatsd

Evening(join, registry, one, coming, reports, snapshots) ==
  [join |-> join, registry |-> registry, one |-> one,
   guests |-> coming, reports |-> reports, snapshots |-> snapshots]

MCEvenings ==
  {Evening(FALSE, FALSE, FALSE, {}, 0, 2)}
    \cup {Evening(FALSE, FALSE, TRUE, {}, 1, 1)}
    \cup {Evening(TRUE, TRUE, one, Guests, 1, 0) : one \in BOOLEAN}

=============================================================================
