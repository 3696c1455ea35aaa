------------------------------ MODULE Flight ------------------------------
(***************************************************************************)
(* The two goats that fly with the crate of Airframe: the player's         *)
(* (goat.js) and a bot of the herd (bots.js). A behaviour is the life of   *)
(* one of them, frame by frame; between frames a mod grants and takes the  *)
(* bird, scripts start and release flights, and blasts throw or kill.      *)
(* What is hard is what those add up to: a goat is in the air in five      *)
(* modes, each brought down by a rule of its own.                          *)
(*                                                                         *)
(* The ground met by the next frame is any of Terrain. Walking, eating and *)
(* sleeping, which never leave the ground, are the one mode "idle".        *)
(***************************************************************************)
EXTENDS Airframe

CONSTANTS
  Tunings,     \* [Kinds -> set of raw tunings]: what a mod's tuning.set left
  FrameTimes,  \* [Kinds -> SUBSET Nat]: dt of the frames of a behaviour
  RunSpeed,    \* the speed of the jump a flight starts from
  Terrain,     \* [Kinds -> SUBSET Int]: the ground heights met
  Stats,       \* TUNING.stats: [max, rested, drain, exhaust, recover]
  Blasts,      \* what reaches a goat of a bang: records [lift, damage]
  BlastFloor,  \* TUNING.explosions.blast.healthFloor
  FlingGravity,\* TUNING.explosions.fling.gravity
  Linger,      \* TUNING.herd.deathLinger
  MaxJolts     \* [Kinds -> Nat], bound: blasts and scripted take-offs in mid-air

Kinds == {"player", "bot"}

\* The goat rests on its feet: 0, or a little below (goat.js flightConfig).
ASSUME TuningAssumption ==
  \A k \in Kinds : \A raw \in Tunings[k] :
    /\ \A f \in DOMAIN raw : raw[f] \in Int
    /\ "restHeight" \in DOMAIN raw => raw["restHeight"] <= 0
ASSUME NumbersAssumption ==
  /\ \A k \in Kinds : FrameTimes[k] \subseteq Nat /\ Terrain[k] \subseteq Int
  /\ \A f \in {"max", "rested", "drain", "exhaust", "recover"} : Stats[f] \in Int
  /\ \A b \in Blasts : b.lift \in Int /\ b.damage \in Int
  /\ {RunSpeed, BlastFloor, FlingGravity, Linger} \subseteq Int
  /\ MaxJolts \in [Kinds -> Nat]

VARIABLES
  kind, tune, dt,  \* which goat, its validated tuning, the frame time
  ground,          \* terrain height under the goat
  goat,            \* the goat's own fields, see Resting
  odd,             \* the parity of the frame, which names the steps of frames
  jolts            \* counter for the bound
flightVars == <<kind, tune, dt, ground, goat, odd, jolts>>

\* A new life. `arc` is the vertical speed of a thrown player (flingVY); a
\* bot has one vertical speed for both (flyVY). `base` is flingY / flyY, which
\* every flight and arc sets before it reads it: it is 0 on the ground.
Resting ==
  [mode |-> "idle", py |-> 0, vy |-> 0, pitch |-> 0, speed |-> 0, cool |-> 0,
   time |-> 0, capable |-> FALSE, health |-> Stats.max, energy |-> Stats.max,
   exhausted |-> FALSE, arc |-> 0, base |-> 0, cooldown |-> 0, dead |-> 0]

FlightInit ==
  /\ kind \in Kinds
  /\ \E raw \in Tunings[kind] : tune = Validate(raw)
  /\ dt \in FrameTimes[kind]
  /\ ground \in Terrain[kind]
  /\ goat = Resting
  /\ odd = FALSE
  /\ jolts = 0

-----------------------------------------------------------------------------
(* Between the scene and the crate.                                        *)
Pack(g, phase) ==
  [phase |-> phase, y |-> ground + g.py, vy |-> g.vy, pitch |-> g.pitch,
   speed |-> g.speed, cool |-> g.cool, time |-> g.time]

Apply(g, s, under) ==
  [g EXCEPT !.py = s.y - under, !.vy = s.vy, !.pitch = s.pitch,
            !.speed = s.speed, !.cool = s.cool, !.time = s.time]

Coast == [move |-> 0, flap |-> FALSE, release |-> FALSE, energy |-> Unlimited]

\* __flight.step, .start, .release and .botInput on the goat's own numbers.
Stepped(g, phase, in, under) == Step(tune, Pack(g, phase), in, dt, under)
Started(g) == Start(tune, Pack(g, "fly"), RunSpeed)
Released(g) == Release(Pack(g, "fly"))
Steered(g) == BotInput(tune, Pack(g, "fly"), ground)

NoFlight(g) == [g EXCEPT !.pitch = 0, !.speed = 0, !.cool = 0, !.time = 0]

-----------------------------------------------------------------------------
(* The player.                                                             *)
Die(g) == [g EXCEPT !.mode = "dead"]

\* landFromFlight.
Land(g, e) ==
  LET hurt == IF e.damage > 0
              THEN [g EXCEPT !.health = Most(tune.fallHealthFloor, @ - e.damage)]
              ELSE g
  IN IF hurt.health <= 0 THEN Die(hurt) ELSE [hurt EXCEPT !.mode = "idle"]

\* stepFlight: the player's clock in the air is nobody's input, so it is 0.
FlyPlayer(g, in, under) ==
  LET out == Stepped(g, "fly", in, under)
      a == [Apply(g, out.state, under) EXCEPT
              !.time = 0,
              !.energy = Most(0, @ - out.events.cost - out.events.drain)]
  IN CASE out.events.released -> [a EXCEPT !.mode = "fall", !.capable = FALSE]
       [] out.events.landed -> Land(a, out.events)
       [] OTHER -> a

FallPlayer(g, under) ==
  LET out == Stepped(g, "fall", [Coast EXCEPT !.energy = g.energy], under)
      a == [Apply(g, out.state, under) EXCEPT !.time = 0]
  IN IF out.events.landed THEN Land(a, out.events) ELSE a

\* startFlight, by a running jump: an exhausted goat cannot run.
StartFlight(g) ==
  IF g.capable /\ ~g.exhausted
  THEN [Apply(g, Started(g), ground) EXCEPT
          !.mode = "fly", !.energy = Most(0, @ - tune.takeoffEnergy)]
  ELSE g

\* releaseFlight: E goes through the step, a mod or the console through here.
ReleaseFlight(g) ==
  IF g.mode = "fly"
  THEN [Apply(g, Released(g), ground) EXCEPT
          !.mode = "fall", !.capable = FALSE]
  ELSE g

\* A lethal fall is carried until the feet touch; a flight is not.
CarriedInFlight(g) == g.mode \in {"dead", "fall", "fly"}
Carried(g) == g.mode \in {"dead", "fall"}

\* updateStats, and die() on its word.
UpdateStats(g) ==
  LET spent == IF g.mode = "fly" THEN 0 ELSE Times(Stats.drain, dt)
      tired == [g EXCEPT !.energy = Most(0, @ - spent)]
      felt == CASE tired.energy <= 0 ->
                     [tired EXCEPT !.exhausted = TRUE,
                        !.health = Most(0, @ - Times(Stats.exhaust, dt))]
                [] tired.energy > 0 /\ g.mode = "idle"
                     /\ tired.energy > Stats.rested ->
                     [tired EXCEPT !.exhausted = FALSE,
                        !.health = Least(Stats.max,
                                         @ + Times(Stats.recover, dt))]
                [] OTHER -> [tired EXCEPT !.exhausted = FALSE]
  IN CASE Carried(g) -> g
       [] ~Carried(g) /\ felt.health <= 0 -> Die(felt)
       [] OTHER -> felt

\* What the frame does last: the flung arc moves, a body on the ground rests.
Integrate(g, under) ==
  LET arc == g.arc + Times(FlingGravity, dt)
      base == g.base + Times(arc, dt)
  IN CASE g.mode \in {"fly", "fall"} -> g
       [] g.mode = "flung" /\ arc <= 0 /\ base - under <= 0 ->
            [g EXCEPT !.mode = "idle", !.py = 0, !.arc = 0, !.base = 0]
       [] g.mode = "flung" /\ ~(arc <= 0 /\ base - under <= 0) ->
            [g EXCEPT !.py = base - under, !.arc = arc, !.base = base]
       [] OTHER -> [g EXCEPT !.py = 0]

PlayerFrame ==
  /\ kind = "player"
  /\ \E move \in {-1000, 0, 1000}, flap, release \in BOOLEAN,
        under \in Terrain["player"] :
       LET in == [move |-> move, flap |-> flap, release |-> release,
                  energy |-> goat.energy]
           moved == CASE goat.mode = "fly" -> FlyPlayer(goat, in, under)
                      [] goat.mode = "fall" -> FallPlayer(goat, under)
                      [] goat.mode = "idle" /\ flap /\ move > 0 ->
                           StartFlight(goat)
                      [] OTHER -> goat
       IN /\ goat.mode = "fly" /\ release => under = ground
          /\ moved.mode = "fly" /\ goat.mode = "idle" => under = ground
          /\ goat' = Integrate(UpdateStats(moved), under)
          /\ ground' = under
  /\ odd' = ~odd
  /\ UNCHANGED <<kind, tune, dt, jolts>>

\* The player inside the radius of a bang: dead or not, it is thrown.
BlastPlayer ==
  /\ kind = "player" /\ jolts < MaxJolts[kind]
  /\ \E b \in Blasts :
       goat' = [goat EXCEPT
                  !.mode = "flung", !.capable = FALSE,
                  !.speed = 0, !.vy = 0, !.pitch = 0,
                  !.health = Most(BlastFloor, @ - b.damage),
                  !.base = IF goat.mode = "flung" THEN @ ELSE ground + goat.py,
                  !.arc = @ + b.lift]
  /\ jolts' = jolts + 1
  /\ UNCHANGED <<kind, tune, dt, ground, odd>>

\* R over a dead goat; the restart puts it on the origin's ground.
Restart ==
  /\ kind = "player" /\ goat.mode = "dead"
  /\ goat' = Resting
  /\ UNCHANGED <<kind, tune, dt, ground, odd, jolts>>

-----------------------------------------------------------------------------
(* A bot of the herd.                                                       *)
ReleaseBot(g) ==
  IF g.mode = "fly" THEN [g EXCEPT !.mode = "fall", !.capable = FALSE] ELSE g

\* botFlightApply also keeps the absolute height, which the arcs go on from.
ApplyBot(g, s, under) == [Apply(g, s, under) EXCEPT !.base = s.y]

\* botDie: one killed in the air keeps its height and its vertical speed.
KillBot(g) == [NoFlight(g) EXCEPT !.mode = "dead", !.dead = 0, !.health = 0,
                                  !.capable = FALSE]

\* Down from a flight or a fall: the ground cooldown begins.
Grounded(g) ==
  [NoFlight(g) EXCEPT !.mode = "idle", !.py = 0, !.base = 0,
                      !.cooldown = tune.botCooldown]

FlyBot(g, under) ==
  LET out == Stepped(g, "fly", Steered(g), under)
      a == ApplyBot(g, out.state, under)
  IN IF out.events.landed THEN Grounded(a) ELSE a

FallBot(g, under) ==
  LET out == Stepped(g, "fall", Coast, under)
      a == ApplyBot(g, out.state, under)
      hurt == Most(0, a.health - FallDamage(tune, out.events.impact))
      down == [Grounded(a) EXCEPT !.health = hurt]
  IN CASE ~out.events.landed -> a
       [] out.events.landed /\ hurt > 0 -> down
       [] OTHER -> KillBot(down)

\* The flung arc and the corpse's: the same fall under the blast's gravity.
Arc(g, under) ==
  LET vy == g.vy + Times(FlingGravity, dt)
      base == g.base + Times(vy, dt)
  IN IF vy <= 0 /\ base - under <= 0
     THEN [g EXCEPT !.py = 0, !.vy = 0, !.base = 0,
                    !.mode = IF g.mode = "flung" THEN "idle" ELSE @]
     ELSE [g EXCEPT !.py = base - under, !.vy = vy, !.base = base]

\* updateBots for one bot.
BotFrame ==
  /\ kind = "bot"
  /\ \E under \in Terrain["bot"] :
       LET g == IF goat.mode # "dead" /\ goat.cooldown > 0
                THEN [goat EXCEPT !.cooldown = @ - dt] ELSE goat
           corpse == [(IF goat.py > 0 THEN Arc(goat, under) ELSE goat)
                        EXCEPT !.dead = @ + dt]
       IN /\ goat' = CASE g.mode = "dead" /\ corpse.dead >= Linger -> Resting
                        [] g.mode = "dead" /\ corpse.dead < Linger -> corpse
                        [] g.mode = "flung" -> Arc(g, under)
                        [] g.mode = "fly" -> FlyBot(g, under)
                        [] g.mode = "fall" -> FallBot(g, under)
                        [] OTHER -> g
          /\ ground' = under
  /\ odd' = ~odd
  /\ UNCHANGED <<kind, tune, dt, jolts>>

\* startBotFlight: the zoomies hop, and bot.fly(), which a mod may also call
\* in the middle of a flight.
TakeOffBot ==
  /\ kind = "bot" /\ goat.mode \in {"idle", "fly"}
  /\ goat.capable /\ goat.cooldown <= 0
  /\ goat.mode = "fly" => jolts < MaxJolts[kind]
  /\ goat' = [ApplyBot(goat, Started(goat), ground)
                 EXCEPT !.mode = "fly"]
  /\ jolts' = IF goat.mode = "fly" THEN jolts + 1 ELSE jolts
  /\ UNCHANGED <<kind, tune, dt, ground, odd>>

\* A bot inside the radius: a corpse takes no second bang, a killed bot is
\* not thrown, a thrown one starts its arc on the terrain.
BlastBot ==
  /\ kind = "bot" /\ jolts < MaxJolts[kind] /\ goat.mode # "dead"
  /\ \E b \in Blasts :
       LET hurt == [goat EXCEPT !.health = Most(0, @ - b.damage)]
       IN goat' = IF hurt.health <= 0 THEN KillBot(hurt)
                  ELSE [NoFlight(hurt) EXCEPT
                          !.mode = "flung", !.capable = FALSE, !.vy = @ + b.lift,
                          !.base = IF goat.mode = "flung" THEN @ ELSE ground]
  /\ jolts' = jolts + 1
  /\ UNCHANGED <<kind, tune, dt, ground, odd>>

\* A mod's setFlight, the console's `flight on` and `flight off`.
SetFlight ==
  /\ goat' \in {[goat EXCEPT !.capable = TRUE],
                [(IF kind = "player" THEN ReleaseFlight(goat)
                  ELSE ReleaseBot(goat)) EXCEPT !.capable = FALSE]}
  /\ UNCHANGED <<kind, tune, dt, ground, odd, jolts>>

-----------------------------------------------------------------------------
\* A frame is always enabled, and the steps that change odd are the frames.
Frame == odd' = ~odd

FlightNext == \/ PlayerFrame \/ SetFlight \/ BlastPlayer \/ Restart
        \/ BotFrame \/ TakeOffBot \/ BlastBot

\* The scene's loop goes on: goat.js's frame and updateBots never stop.
FlightSpec == FlightInit /\ [][FlightNext]_flightVars /\ WF_odd(Frame)

-----------------------------------------------------------------------------
(* Properties.                                                             *)

(* The type of every variable.                                             *)
Modes == {"idle", "fly", "fall", "flung", "dead"}
Goat ==
  [mode : Modes, py : Int, vy : Int, pitch : Int, speed : Int, cool : Int, time : Int,
   capable : BOOLEAN, health : Int, energy : Int, exhausted : BOOLEAN, arc : Int,
   base : Int, cooldown : Int, dead : Int]
FlightTypeOK ==
  /\ kind \in Kinds /\ tune \in [DOMAIN Table -> Int] /\ dt \in Nat /\ ground \in Int
  /\ goat \in Goat /\ odd \in BOOLEAN /\ jolts \in Nat

\* A powered flight stays in its envelope whatever the ground does below it:
\* never under the terrain, never over the ceiling, never outside the band of
\* airspeeds, never a nose beyond the pitch clamp (step_fly, resolve_ground).
EnvelopeHolds ==
  goat.mode = "fly" =>
    /\ goat.py >= tune.restHeight
    /\ goat.py <= tune.ceiling
    /\ goat.speed \in tune.minSpeed..tune.maxSpeed
    /\ goat.pitch <= Most(tune.pitchMax, tune.takeoffPitch)

\* What is in the air comes down: a flyer that never lands runs out of energy
\* and then of health, a bot out of time, and a fall, an arc and a corpse
\* meet the ground (updateStats, botTime, resolve_ground, updateBots).
WhatGoesUpComesDown == goat.py > 0 ~> goat.py = 0

=============================================================================
