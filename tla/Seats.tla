------------------------------- MODULE Seats -------------------------------
(***************************************************************************)
(* What the host promises about identity, without its tasks and streams:   *)
(* every admitted connection has one seat under a name nobody else has,    *)
(* keeps it until it leaves, gives up that seat and no other, and is never *)
(* seated twice.  The host has a name of its own and is never displaced.   *)
(* Session refines this module (see SessionProofs and MCSession).          *)
(***************************************************************************)
CONSTANTS Conns, PlayerNames, HostName

VARIABLES
  seats,    \* the connected players, each a [name, conn] pair
  roster,   \* the names in the session, the host's included
  left      \* the connections whose seat was given up

seatVars == <<seats, roster, left>>

Seated == {s.conn : s \in seats}

Init ==
  /\ seats = {}
  /\ roster = {HostName}
  /\ left = {}

Sit(s) ==
  /\ s \in [name : PlayerNames, conn : Conns]
  /\ s.conn \notin Seated \cup left
  /\ s.name \notin roster
  /\ seats' = seats \cup {s}
  /\ roster' = roster \cup {s.name}
  /\ UNCHANGED left

Stand(s) ==
  /\ seats' = seats \ {s}
  /\ roster' = roster \ {s.name}
  /\ left' = left \cup {s.conn}

Next ==
  \/ \E s \in seats' \ seats : Sit(s)
  \/ \E s \in seats : Stand(s)

Spec == Init /\ [][Next]_seatVars

=============================================================================
