----------------------------- MODULE MCFlight -----------------------------
(***************************************************************************)
(* The instances of Flight that TLC checks. The player flies with a coarse *)
(* tuning in which every height is a number of metres: the responses are   *)
(* quick enough to reach their targets in one frame, so that flights,      *)
(* falls, arcs and exhaustion meet in every order. A bot flies with the    *)
(* defaults, and with a short stay at another altitude.                    *)
(***************************************************************************)
EXTENDS Flight

Coarse ==
  [maxDt |-> 250, takeoffLift |-> 4000, takeoffPitch |-> 523,
   takeoffEnergy |-> 20000, minSpeed |-> 8000, maxSpeed |-> 4000,
   speed |-> NotFinite, speedResponse |-> 4000, pitchMax |-> 523,
   pitchRate |-> 50000, sink |-> 4000, vyResponse |-> 4000,
   flapLift |-> 8000, flapCooldown |-> 500, flapEnergy |-> 10000,
   drainFly |-> 40000, ceiling |-> 4000, gravity |-> -16000,
   safeFall |-> 8000, fallDamage |-> 5000]

Brief == [botTime |-> 3000, botAltitude |-> 4000, botCooldown |-> 200,
          safeFall |-> 5000, fallDamage |-> 100000, maxDt |-> NotFinite]

MCTunings == [k \in Kinds |-> IF k = "player" THEN {Coarse} ELSE {Brief}]
MCFrameTimes == [k \in Kinds |-> IF k = "player" THEN {250} ELSE {50}]
MCTerrain == [k \in Kinds |-> IF k = "player" THEN {0, 1000, 3000} ELSE {0}]
MCStats == [max |-> 40000, rested |-> 20000, drain |-> 20000,
            exhaust |-> 20000, recover |-> 20000]
MCJolts == [k \in Kinds |-> IF k = "player" THEN 3 ELSE 1]
MCGravity == -16000
MCBlasts == {[lift |-> 8000, damage |-> 20000], [lift |-> 0, damage |-> 40000]}
=============================================================================
