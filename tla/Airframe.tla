----------------------------- MODULE Airframe -----------------------------
(***************************************************************************)
(* The flight crate (crates/flight): a pure function from a tuning, a      *)
(* state and one frame's input to the next state and what happened.        *)
(*                                                                         *)
(* Fixed point: lengths in mm, speeds in mm/s, angles in mrad, times in    *)
(* ms, rates, gains and control axes in thousandths, health and energy in  *)
(* thousandths of a point; products and quotients round towards zero. What *)
(* is left out is the heading: x, z, yaw, roll and the ring a bot circles  *)
(* on. The ground under the next position is a parameter instead. Also     *)
(* left out are non-finite states and grounds (the scene's terrain is a    *)
(* number everywhere), the frames a menu freezes (dt 0, which the crate    *)
(* returns untouched) and the count of wingbeats.                          *)
(***************************************************************************)
EXTENDS Integers

NotFinite == 1000000000
Unlimited == 100000000

\* f32 products and quotients, rounded towards zero.
Div(a, b) == IF a < 0 THEN -((-a) \div b) ELSE a \div b
Times(a, b) == Div(a * b, 1000)
Least(a, b) == IF a < b THEN a ELSE b
Most(a, b) == IF a > b THEN a ELSE b
Clamp(v, lo, hi) == Most(lo, Least(v, hi))

\* sin over [-1.4, 1.4] rad, to a thousandth or two.
SinUp(p) == LET sq == Times(p, p)
            IN p - (sq * p) \div 6000 + (Times(sq, p) * sq) \div 120000
Sin(p) == IF p < 0 THEN -SinUp(-p) ELSE SinUp(p)

-----------------------------------------------------------------------------
(* The tuning and its clamps (config.rs): default, least and most.         *)
Table ==
  [ maxDt |-> <<50, 1, 250>>,           restHeight |-> <<0, -1000, 1000>>,
    takeoffLift |-> <<5000, 0, 50000>>, takeoffPitch |-> <<250, -1400, 1400>>,
    takeoffEnergy |-> <<2000, 0, 100000>>,
    minSpeed |-> <<5000, 0, 200000>>,   maxSpeed |-> <<14000, 0, 200000>>,
    speed |-> <<9000, 0, 200000>>,      speedResponse |-> <<1200, 0, 50000>>,
    pitchMax |-> <<550, 0, 1400>>,      pitchRate |-> <<1600, 0, 50000>>,
    sink |-> <<1200, 0, 100000>>,       climbGain |-> <<1000, 0, 10000>>,
    vyResponse |-> <<3000, 0, 50000>>,
    flapLift |-> <<5000, 0, 50000>>,    flapSpeed |-> <<1500, 0, 50000>>,
    flapCooldown |-> <<450, 0, 10000>>, flapEnergy |-> <<1200, 0, 100000>>,
    drainFly |-> <<2500, 0, 100000>>,   ceiling |-> <<60000, 1000, 1000000>>,
    gravity |-> <<-32000, -200000, -100>>,
    safeFall |-> <<12000, 0, 200000>>,  fallDamage |-> <<2200, 0, 100000>>,
    fallHealthFloor |-> <<0, 0, 100000>>,
    fallPitchGain |-> <<40, 0, 10000>>,
    botAltitude |-> <<8000, 0, 200000>>, botTime |-> <<18000, 100, 600000>>,
    botCooldown |-> <<8000, 0, 600000>>, botPitchGain |-> <<120, 0, 10000>>,
    botFlapBelow |-> <<1000, 0, 50000>>,
    botTerrainGuard |-> <<2000, 0, 50000>> ]

Sane(v, fallback, lo, hi) ==
  IF v = NotFinite THEN fallback ELSE Clamp(v, lo, hi)

\* apply_config: what the scene's tuning tree gives, over the defaults.
Given(raw) == [f \in DOMAIN Table |->
                 IF f \in DOMAIN raw THEN raw[f] ELSE Table[f][1]]

\* Config::validate; a cruise speed that is not finite is not clamped.
Validate(raw) ==
  LET given == Given(raw)
      sane == [f \in DOMAIN Table |->
                  Sane(given[f], Table[f][1], Table[f][2], Table[f][3])]
      fast == Most(sane.maxSpeed, sane.minSpeed)
  IN [sane EXCEPT !.maxSpeed = fast,
                  !.speed = Sane(given.speed, Table.speed[1],
                                 sane.minSpeed, fast)]

\* Config::fall_damage: impact is mm/s, the answer thousandths of a point.
FallDamage(c, impact) == Times(Most(impact - c.safeFall, 0), c.fallDamage)

-----------------------------------------------------------------------------
(* The crate's step (motion.rs) over its own state: absolute height y.     *)
ClampSpeed(c, v) == Clamp(v, Least(c.minSpeed, c.maxSpeed),
                             Most(c.minSpeed, c.maxSpeed))
Approach(v, target, limit) == v + Clamp(target - v, -limit, limit)
Eased(v, target, response, d) ==
  v + Times(target - v, Least(Times(d, response), 1000))

\* motion::start: the ground speed is clamped into the band.
Start(c, s, groundSpeed) ==
  [s EXCEPT !.phase = "fly", !.speed = ClampSpeed(c, groundSpeed),
            !.vy = c.takeoffLift, !.pitch = c.takeoffPitch,
            !.cool = 0, !.time = 0]

Release(s) ==
  IF s.phase = "fly" THEN [s EXCEPT !.phase = "fall", !.time = 0] ELSE s

Nothing == [drain |-> 0, cost |-> 0, released |-> FALSE,
            landed |-> FALSE, impact |-> 0, damage |-> 0]

SurfacedLate(s, floor) == s
Surfaced(s, floor) == [s EXCEPT !.y = Most(@, floor)]

\* resolve_ground: a climb never sinks below the floor, a descent lands.
Resolve(c, out, under) ==
  LET floor == under + c.restHeight
      s == out.state
      impact == Most(-s.vy, 0)
  IN IF s.y <= floor /\ s.vy <= 0
     THEN [state |-> [phase |-> "grounded", y |-> floor, vy |-> 0, speed |-> 0,
                      pitch |-> 0, cool |-> 0, time |-> 0],
           events |-> [out.events EXCEPT !.landed = TRUE, !.impact = impact,
                                         !.damage = FallDamage(c, impact)]]
     ELSE [out EXCEPT !.state = Surfaced(@, floor)]

\* The ceiling stands over the ground below; a climb stops at it.
Capped(c, s, under) ==
  LET top == under + c.ceiling
  IN IF s.y > top THEN [s EXCEPT !.y = top, !.vy = Least(@, 0)] ELSE s

Flaps(in, c, cool) == in.flap /\ cool <= 0 /\ in.energy >= c.flapEnergy

StepFly(c, s, in, d, under) ==
  LET cool == Most(s.cool - d, 0)
      pitch == Approach(s.pitch, -Times(Clamp(in.move, -1000, 1000), c.pitchMax),
                        Times(c.pitchRate, d))
      eased == ClampSpeed(c, Eased(s.speed, c.speed, c.speedResponse, d))
      climb == Times(Times(eased, Sin(pitch)), c.climbGain) - c.sink
      vy == Eased(s.vy, climb, c.vyResponse, d)
      flap == Flaps(in, c, cool)
      lifted == IF flap THEN vy + c.flapLift ELSE vy
      moved == [phase |-> "fly", pitch |-> pitch, vy |-> lifted,
                speed |-> IF flap THEN ClampSpeed(c, eased + c.flapSpeed)
                                  ELSE eased,
                cool |-> IF flap THEN c.flapCooldown ELSE cool,
                time |-> s.time + d, y |-> s.y + Times(lifted, d)]
  IN Resolve(c, [state |-> Capped(c, moved, under),
                 events |-> [Nothing EXCEPT
                               !.drain = Times(c.drainFly, d),
                               !.cost = IF flap THEN c.flapEnergy ELSE 0]], under)

StepFall(c, s, d, under) ==
  LET vy == s.vy + Times(c.gravity, d)
      pitch == Clamp(Times(vy, c.fallPitchGain), -c.pitchMax, c.pitchMax)
  IN Resolve(c, [state |-> [s EXCEPT !.vy = vy, !.y = @ + Times(vy, d),
                                     !.time = @ + d, !.pitch = pitch],
                 events |-> Nothing], under)

Step(c, s, in, frame, under) ==
  LET d == Least(frame, c.maxDt)
  IN CASE s.phase = "fly" /\ in.release ->
            [state |-> [s EXCEPT !.phase = "fall", !.time = 0],
             events |-> [Nothing EXCEPT !.drain = Times(c.drainFly, d),
                                        !.released = TRUE]]
       [] s.phase = "fly" /\ ~in.release -> StepFly(c, s, in, d, under)
       [] s.phase = "fall" -> StepFall(c, s, d, under)
       [] OTHER -> [state |-> s, events |-> Nothing]

WantsFlap(c, s, target, landing) ==
  ~landing /\ s.y < target - c.botFlapBelow /\ s.cool <= 0

\* The autopilot (bot.rs): hold the altitude, land once the time is up.
BotInput(c, s, under) ==
  LET target == Least(under + c.botAltitude, under + c.ceiling)
      landing == s.time >= c.botTime
      hold == Clamp(-Times(target - s.y, c.botPitchGain), -1000, 1000)
  IN [move |-> CASE s.y < under + c.botTerrainGuard -> -1000
                 [] landing /\ s.y >= under + c.botTerrainGuard -> 1000
                 [] OTHER -> hold,
      flap |-> WantsFlap(c, s, target, landing),
      release |-> FALSE, energy |-> Unlimited]

=============================================================================
