----------------------------- MODULE Snapshots -----------------------------
(***************************************************************************)
(* What a client is promised about the host's world: every world its scene *)
(* is handed is one the host published, whole, and none is handed over     *)
(* twice.  Which ones arrive is left open, and so is their order.          *)
(* WorldGather refines this module.                                        *)
(***************************************************************************)
EXTENDS Naturals, Sequences

CONSTANT Worlds

VARIABLES
  published,  \* the worlds the host published, in that order
  shown       \* the worlds the client's scene was handed

snapshotVars == <<published, shown>>

Init == published = << >> /\ shown = << >>

Publish(world) ==
  /\ world \in Worlds
  /\ published' = Append(published, world)
  /\ UNCHANGED shown

Show(world) ==
  /\ \E n \in 1 .. Len(published) : published[n] = world
  /\ \A i \in 1 .. Len(shown) : shown[i] # world
  /\ shown' = Append(shown, world)
  /\ UNCHANGED published

Next ==
  \/ Len(published') > Len(published) /\ Publish(published'[Len(published')])
  \/ Len(shown') > Len(shown) /\ Show(shown'[Len(shown')])

Spec == Init /\ [][Next]_snapshotVars

=============================================================================
