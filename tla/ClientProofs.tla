---------------------------- MODULE ClientProofs ----------------------------
(***************************************************************************)
(* The two parts of the client that no other player shares.                *)
(*                                                                         *)
(* Flight: a powered flight stays in its envelope, for any tuning a mod    *)
(* leaves, any ground, frame times and bangs: first the fixed-point        *)
(* arithmetic, then what validation makes of a tuning, then the crate's    *)
(* step and its meeting with the ground, then the goats around it, action  *)
(* by action.                                                              *)
(*                                                                         *)
(* ModHost: what loads from a directory installs from its packages; the    *)
(* loader puts every mod after the ones it asks for, whatever the files    *)
(* are called; and what a mirroring client shows of the world is the       *)
(* host's.                                                                 *)
(***************************************************************************)
EXTENDS Flight, ModHost, NamesProofs, SequenceTheorems, FiniteSetTheorems, TLAPS

-----------------------------------------------------------------------------
(* Arithmetic.                                                             *)

LEMMA DivType == ASSUME NEW a \in Int PROVE Div(a, 1000) \in Int
BY DEF Div

LEMMA TimesType == ASSUME NEW a \in Int, NEW b \in Int PROVE Times(a, b) \in Int
<1>1. a * b \in Int
  OBVIOUS
<1> QED BY <1>1, DivType DEF Times

LEMMA DivBound ==
  ASSUME NEW x \in Int, NEW b \in Int, x <= 1000 * b, -(1000 * b) <= x
  PROVE  -b <= Div(x, 1000) /\ Div(x, 1000) <= b
BY DEF Div

LEMMA ProductBound ==
  ASSUME NEW a \in Int, NEW b \in Int, -1000 <= a, a <= 1000, 0 <= b
  PROVE  a * b <= 1000 * b /\ -(1000 * b) <= a * b
<1>1. 0 <= (1000 - a) * b
  BY SMT
<1>2. 0 <= (1000 + a) * b
  BY SMT
<1>3. (1000 - a) * b = 1000 * b - a * b
  BY SMT
<1>4. (1000 + a) * b = 1000 * b + a * b
  BY SMT
<1> QED BY <1>1, <1>2, <1>3, <1>4, SMT

\* A control axis takes at most the whole of what it scales.
LEMMA TimesBound ==
  ASSUME NEW a \in Int, NEW b \in Int, -1000 <= a, a <= 1000, 0 <= b
  PROVE  -b <= Times(a, b) /\ Times(a, b) <= b
<1>1. a * b \in Int
  OBVIOUS
<1> QED BY <1>1, ProductBound, DivBound DEF Times

LEMMA TimesSign ==
  ASSUME NEW a \in Int, NEW b \in Int, 0 <= a, 0 <= b
  PROVE  0 <= Times(a, b)
<1>1. a * b \in Int /\ 0 <= a * b
  BY SMT
<1> QED BY <1>1 DEF Times, Div

LEMMA ClampType ==
  ASSUME NEW v \in Int, NEW lo \in Int, NEW hi \in Int
  PROVE  Clamp(v, lo, hi) \in Int /\ (lo <= hi => lo <= Clamp(v, lo, hi) /\ Clamp(v, lo, hi) <= hi)
BY DEF Clamp, Most, Least

\* A control axis is at most full.
LEMMA AxisFits ==
  ASSUME NEW v \in Int
  PROVE  Clamp(v, -1000, 1000) \in Int /\ -1000 <= Clamp(v, -1000, 1000) /\ Clamp(v, -1000, 1000) <= 1000
BY DEF Clamp, Most, Least

LEMMA SinType == ASSUME NEW p \in Int PROVE Sin(p) \in Int
<1>1. ASSUME NEW q \in Int PROVE SinUp(q) \in Int
  <2> DEFINE sq == Times(q, q)
  <2>1. sq \in Int /\ Times(sq, q) \in Int
    BY TimesType
  <2> HIDE DEF sq
  <2>2. sq * q \in Int /\ Times(sq, q) * sq \in Int
    BY <2>1
  <2>3. (sq * q) \div 6000 \in Int /\ (Times(sq, q) * sq) \div 120000 \in Int
    BY <2>2
  <2>4. SinUp(q) = q - (sq * q) \div 6000 + (Times(sq, q) * sq) \div 120000
    BY DEF SinUp, sq
  <2> QED BY <2>3, <2>4
<1>2. -p \in Int
  OBVIOUS
<1>3. SinUp(p) \in Int /\ SinUp(-p) \in Int
  BY <1>1, <1>2
<1> QED BY <1>3 DEF Sin

LEMMA EasedType ==
  ASSUME NEW v \in Int, NEW target \in Int, NEW response \in Int, NEW d \in Int
  PROVE  Eased(v, target, response, d) \in Int
<1>1. Times(d, response) \in Int
  BY TimesType
<1>2. Least(Times(d, response), 1000) \in Int
  BY <1>1 DEF Least
<1>3. target - v \in Int
  OBVIOUS
<1>4. Times(target - v, Least(Times(d, response), 1000)) \in Int
  BY <1>2, <1>3, TimesType
<1> QED BY <1>4 DEF Eased

LEMMA ApproachBound ==
  ASSUME NEW v \in Int, NEW target \in Int, NEW limit \in Int, 0 <= limit, NEW top \in Int,
         v <= top, target <= top
  PROVE  Approach(v, target, limit) \in Int /\ Approach(v, target, limit) <= top
BY DEF Approach, Clamp, Most, Least

-----------------------------------------------------------------------------
(* What validation makes of any tuning (config.rs).                        *)

Tuned(c) ==
  /\ c \in [DOMAIN Table -> Int]
  /\ c["minSpeed"] <= c["maxSpeed"]
  /\ c["restHeight"] <= 0 /\ 1000 <= c["ceiling"]
  /\ 0 <= c["pitchMax"] /\ 0 <= c["pitchRate"] /\ 0 <= c["maxDt"]

LEMMA TableFits ==
  \A f \in DOMAIN Table :
    /\ Table[f][1] \in Int /\ Table[f][2] \in Int /\ Table[f][3] \in Int
    /\ Table[f][2] <= Table[f][1] /\ Table[f][1] <= Table[f][3]
BY DEF Table

LEMMA TableNames ==
  /\ {"minSpeed", "maxSpeed", "restHeight", "ceiling", "pitchMax", "pitchRate", "maxDt",
      "speed", "takeoffLift", "takeoffPitch", "takeoffEnergy", "speedResponse", "sink",
      "climbGain", "vyResponse", "flapLift", "flapSpeed", "flapCooldown", "flapEnergy",
      "drainFly", "gravity", "safeFall", "fallDamage", "fallHealthFloor", "fallPitchGain",
      "botAltitude", "botTime", "botCooldown", "botPitchGain", "botFlapBelow",
      "botTerrainGuard"} = DOMAIN Table
  /\ Table["restHeight"][1] = 0 /\ Table["ceiling"][2] = 1000 /\ Table["pitchMax"][2] = 0
  /\ Table["pitchRate"][2] = 0 /\ Table["maxDt"][2] = 1 /\ Table["restHeight"][2] = -1000
BY DEF Table

LEMMA SaneFits ==
  ASSUME NEW v \in Int, NEW fallback \in Int, NEW lo \in Int, NEW hi \in Int,
         lo <= fallback, fallback <= hi
  PROVE  Sane(v, fallback, lo, hi) \in Int /\ lo <= Sane(v, fallback, lo, hi)
BY DEF Sane, Clamp, Most, Least

LEMMA Validated ==
  ASSUME NEW raw, \A f \in DOMAIN raw : raw[f] \in Int,
         "restHeight" \in DOMAIN raw => raw["restHeight"] <= 0
  PROVE  Tuned(Validate(raw))
<1> DEFINE names == DOMAIN Table
           given == Given(raw)
           sane == [f \in names |-> Sane(given[f], Table[f][1], Table[f][2], Table[f][3])]
           fast == Most(sane["maxSpeed"], sane["minSpeed"])
           cruise == Sane(given["speed"], Table["speed"][1], sane["minSpeed"], fast)
           valid == [sane EXCEPT !["maxSpeed"] = fast, !["speed"] = cruise]
<1>1. /\ \A f \in names : given[f] \in Int
      /\ given["restHeight"] <= 0
  BY TableFits, TableNames DEF Given
<1>2. \A f \in names : sane[f] \in Int /\ Table[f][2] <= sane[f]
  BY <1>1, SaneFits, TableFits
<1>3. sane["restHeight"] <= 0
  <2>1. "restHeight" \in names
    BY TableNames
  <2>2. sane["restHeight"] = Sane(given["restHeight"], 0, -1000, Table["restHeight"][3])
    BY <2>1, TableNames
  <2> QED BY <1>1, <2>1, <2>2, TableFits DEF Sane, Clamp, Most, Least
<1>4. sane \in [names -> Int]
  BY <1>2
<1> HIDE DEF names, given, sane
<1>5. {"minSpeed", "maxSpeed", "restHeight", "ceiling", "pitchMax", "pitchRate", "maxDt", "speed"}
         \subseteq names
  BY TableNames DEF names
<1>6. fast \in Int /\ sane["minSpeed"] <= fast
  BY <1>4, <1>5 DEF Most
<1>7. cruise \in Int
  <2>1. Table["speed"][1] \in Int /\ given["speed"] \in Int /\ sane["minSpeed"] \in Int
    BY <1>1, <1>4, <1>5, TableFits DEF names
  <2> QED BY <1>6, <2>1 DEF Sane, Clamp, Most, Least
<1>8. valid = Validate(raw)
  BY DEF Validate, valid, cruise, fast, sane, given, names
<1> HIDE DEF fast, cruise
<1>9. /\ valid \in [names -> Int] /\ valid["maxSpeed"] = fast
      /\ \A f \in names \ {"maxSpeed", "speed"} : valid[f] = sane[f]
  BY <1>4, <1>5, <1>6, <1>7
<1>10. /\ 1000 <= sane["ceiling"] /\ 0 <= sane["pitchMax"] /\ 0 <= sane["pitchRate"]
       /\ 1 <= sane["maxDt"]
  BY <1>2, <1>5, TableNames
<1>11. sane["maxDt"] \in Int
  BY <1>4, <1>5
<1> HIDE DEF valid
<1> QED BY <1>3, <1>5, <1>6, <1>8, <1>9, <1>10, <1>11 DEF Tuned, names

-----------------------------------------------------------------------------
(* The crate's step.                                                       *)

Craft == [phase : {"fly", "fall", "grounded"}, y : Int, vy : Int, pitch : Int,
          speed : Int, cool : Int, time : Int]
Events == [drain : Int, cost : Int, released : BOOLEAN, landed : BOOLEAN,
           impact : Int, damage : Int]
Input == [move : Int, flap : BOOLEAN, release : BOOLEAN, energy : Int]

\* The envelope of a state over the ground, the nose at most at top.
Within(c, s, under, top) ==
  /\ under + c.restHeight <= s.y /\ s.y <= under + c.ceiling
  /\ c.minSpeed <= s.speed /\ s.speed <= c.maxSpeed
  /\ s.pitch <= top

Fields(c) ==
  /\ c.minSpeed \in Int /\ c.maxSpeed \in Int /\ c.restHeight \in Int
  /\ c.ceiling \in Int /\ c.pitchMax \in Int /\ c.pitchRate \in Int
  /\ c.maxDt \in Int /\ c.speed \in Int /\ c.takeoffLift \in Int
  /\ c.takeoffPitch \in Int /\ c.takeoffEnergy \in Int /\ c.speedResponse \in Int
  /\ c.sink \in Int /\ c.climbGain \in Int /\ c.vyResponse \in Int
  /\ c.flapLift \in Int /\ c.flapSpeed \in Int /\ c.flapCooldown \in Int
  /\ c.flapEnergy \in Int /\ c.drainFly \in Int /\ c.gravity \in Int
  /\ c.safeFall \in Int /\ c.fallDamage \in Int /\ c.fallHealthFloor \in Int
  /\ c.fallPitchGain \in Int /\ c.botAltitude \in Int /\ c.botTime \in Int
  /\ c.botCooldown \in Int /\ c.botPitchGain \in Int /\ c.botFlapBelow \in Int
  /\ c.botTerrainGuard \in Int

LEMMA TunedFields == ASSUME NEW c, Tuned(c) PROVE Fields(c)
BY TableNames DEF Tuned, Fields

LEMMA ClampSpeedFits ==
  ASSUME NEW c, Tuned(c), NEW v \in Int
  PROVE  /\ ClampSpeed(c, v) \in Int
         /\ c.minSpeed <= ClampSpeed(c, v) /\ ClampSpeed(c, v) <= c.maxSpeed
<1>1. c.minSpeed \in Int /\ c.maxSpeed \in Int /\ c.minSpeed <= c.maxSpeed
  BY TunedFields DEF Fields, Tuned
<1> QED BY <1>1 DEF ClampSpeed, Clamp, Most, Least

LEMMA DamageType == ASSUME NEW c, Tuned(c), NEW impact \in Int PROVE FallDamage(c, impact) \in Int
<1>1. c.safeFall \in Int /\ c.fallDamage \in Int
  BY TunedFields DEF Fields
<1>2. Most(impact - c.safeFall, 0) \in Int
  BY <1>1 DEF Most
<1> QED BY <1>1, <1>2, TimesType DEF FallDamage

LEMMA EventsWith ==
  ASSUME NEW events \in Events, NEW drain \in Int, NEW cost \in Int, NEW released \in BOOLEAN
  PROVE  /\ [events EXCEPT !.drain = drain, !.cost = cost] \in Events
         /\ [events EXCEPT !.drain = drain, !.released = released] \in Events
BY DEF Events

LEMMA EventsFit ==
  /\ Nothing \in Events
  /\ \A drain, cost \in Int :
       /\ [Nothing EXCEPT !.drain = drain, !.cost = cost] \in Events
       /\ ~[Nothing EXCEPT !.drain = drain, !.cost = cost].released
  /\ \A drain \in Int :
       /\ [Nothing EXCEPT !.drain = drain, !.released = TRUE] \in Events
       /\ [Nothing EXCEPT !.drain = drain, !.released = TRUE].released
<1>1. Nothing \in Events
  BY DEF Nothing, Events
<1>2. /\ \A drain, cost \in Int : ~[Nothing EXCEPT !.drain = drain, !.cost = cost].released
      /\ \A drain \in Int : [Nothing EXCEPT !.drain = drain, !.released = TRUE].released
  BY DEF Nothing
<1> QED BY <1>1, <1>2, EventsWith

\* A state with another phase and clock, and one that is started.
LEMMA CraftIn ==
  ASSUME NEW s \in Craft, NEW phase \in {"fly", "fall", "grounded"}, NEW time \in Int
  PROVE  [s EXCEPT !.phase = phase, !.time = time] \in Craft
BY DEF Craft

LEMMA CraftOff ==
  ASSUME NEW s \in Craft, NEW vy \in Int, NEW pitch \in Int, NEW speed \in Int,
         NEW cool \in Int, NEW time \in Int
  PROVE  [s EXCEPT !.phase = "fly", !.speed = speed, !.vy = vy, !.pitch = pitch,
                   !.cool = cool, !.time = time] \in Craft
BY DEF Craft

\* Lifted onto the floor, if it was below.
Lifted(c, out, under, y) ==
  /\ Resolve(c, out, under).state = [out.state EXCEPT !.y = y]
  /\ under + c.restHeight <= y
  /\ y = out.state.y \/ y = under + c.restHeight

LEMMA ResolveFits ==
  ASSUME NEW c, Tuned(c), NEW out \in [state : Craft, events : Events], NEW under \in Int
  PROVE  /\ Resolve(c, out, under) \in [state : Craft, events : Events]
         /\ Resolve(c, out, under).events.released = out.events.released
         /\ \/ Resolve(c, out, under).events.landed
            \/ /\ Resolve(c, out, under).events = out.events
               /\ \E y \in Int : Lifted(c, out, under, y)
<1> DEFINE floor == under + c.restHeight
           s == out.state
           impact == Most(-s.vy, 0)
           down == [state |-> [phase |-> "grounded", y |-> floor, vy |-> 0, speed |-> 0,
                               pitch |-> 0, cool |-> 0, time |-> 0],
                    events |-> [out.events EXCEPT !.landed = TRUE, !.impact = impact,
                                                  !.damage = FallDamage(c, impact)]]
<1>1. floor \in Int
  BY TunedFields DEF Fields
<1>2. s \in Craft /\ out.events \in Events /\ s.y \in Int /\ s.vy \in Int
  BY DEF Craft
<1>3. impact \in Int
  BY <1>2 DEF Most
<1>4. FallDamage(c, impact) \in Int
  BY <1>3, DamageType
<1> HIDE DEF impact
<1>5. CASE s.y <= floor /\ s.vy <= 0
  <2>1. Resolve(c, out, under) = down
    BY <1>5 DEF Resolve, impact
  <2>2. down.state \in Craft
    BY <1>1 DEF Craft
  <2>3. down.events \in Events /\ down.events.landed /\ down.events.released = out.events.released
    BY <1>2, <1>3, <1>4 DEF Events
  <2> QED BY <2>1, <2>2, <2>3
<1>6. CASE ~(s.y <= floor /\ s.vy <= 0)
  <2> DEFINE y == Most(s.y, floor)
  <2>1. y \in Int /\ floor <= y /\ (y = s.y \/ y = floor)
    BY <1>1, <1>2 DEF Most
  <2>2. Resolve(c, out, under) = [out EXCEPT !.state = [s EXCEPT !.y = y]]
    BY <1>6 DEF Resolve, Surfaced
  <2> HIDE DEF y
  <2>3. [s EXCEPT !.y = y] \in Craft
    BY <1>2, <2>1 DEF Craft
  <2>4. /\ Resolve(c, out, under).state = [s EXCEPT !.y = y]
        /\ Resolve(c, out, under).events = out.events
    BY <2>2
  <2>5. Resolve(c, out, under) \in [state : Craft, events : Events]
    BY <1>2, <2>2, <2>3
  <2>6. Lifted(c, out, under, y)
    BY <2>1, <2>4 DEF Lifted
  <2> QED BY <2>1, <2>4, <2>5, <2>6
<1> QED BY <1>5, <1>6

LEMMA CappedFits ==
  ASSUME NEW c, Tuned(c), NEW s \in Craft, NEW under \in Int
  PROVE  /\ Capped(c, s, under) \in Craft
         /\ Capped(c, s, under).y <= under + c.ceiling
         /\ \A f \in {"phase", "speed", "pitch"} : Capped(c, s, under)[f] = s[f]
<1> DEFINE top == under + c.ceiling
<1>1. top \in Int
  BY TunedFields DEF Fields
<1>2. s.y \in Int /\ s.vy \in Int
  BY DEF Craft
<1> HIDE DEF top
<1>3. CASE s.y > top
  <2> DEFINE low == [s EXCEPT !.y = top, !.vy = Least(s.vy, 0)]
  <2>1. Capped(c, s, under) = low
    BY <1>3 DEF Capped, top
  <2>2. Least(s.vy, 0) \in Int
    BY <1>2 DEF Least
  <2>3. low \in Craft /\ low.y = top /\ \A f \in {"phase", "speed", "pitch"} : low[f] = s[f]
    BY <1>1, <2>2 DEF Craft
  <2> QED BY <1>1, <2>1, <2>3 DEF top
<1>4. CASE ~(s.y > top)
  <2>1. Capped(c, s, under) = s
    BY <1>4 DEF Capped, top
  <2> QED BY <1>1, <1>2, <1>4, <2>1 DEF top
<1> QED BY <1>3, <1>4

Flown(c, out, under, top) ==
  /\ out \in [state : Craft, events : Events]
  /\ out.events.landed \/ out.events.released \/ Within(c, out.state, under, top)

LEMMA StepFlyFits ==
  ASSUME NEW c, Tuned(c), NEW s \in Craft, s.phase = "fly", NEW in \in Input, NEW d \in Int, 0 <= d,
         NEW under \in Int, NEW top \in Int, c.pitchMax <= top, s.pitch <= top
  PROVE  /\ Flown(c, StepFly(c, s, in, d, under), under, top)
         /\ ~StepFly(c, s, in, d, under).events.released
<1> DEFINE cool == Most(s.cool - d, 0)
           aim == -Times(Clamp(in.move, -1000, 1000), c.pitchMax)
           pitch == Approach(s.pitch, aim, Times(c.pitchRate, d))
           eased == ClampSpeed(c, Eased(s.speed, c.speed, c.speedResponse, d))
           climb == Times(Times(eased, Sin(pitch)), c.climbGain) - c.sink
           vy == Eased(s.vy, climb, c.vyResponse, d)
           flap == Flaps(in, c, cool)
           lifted == IF flap THEN vy + c.flapLift ELSE vy
           speed == IF flap THEN ClampSpeed(c, eased + c.flapSpeed) ELSE eased
           wait == IF flap THEN c.flapCooldown ELSE cool
           y == s.y + Times(lifted, d)
           moved == [phase |-> "fly", pitch |-> pitch, vy |-> lifted, speed |-> speed,
                     cool |-> wait, time |-> s.time + d, y |-> y]
           events == [Nothing EXCEPT !.drain = Times(c.drainFly, d),
                                     !.cost = IF flap THEN c.flapEnergy ELSE 0]
           out == [state |-> Capped(c, moved, under), events |-> events]
<1>0. /\ Fields(c)
      /\ s.y \in Int /\ s.vy \in Int /\ s.pitch \in Int /\ s.speed \in Int
      /\ s.cool \in Int /\ s.time \in Int
  BY TunedFields DEF Craft
<1>1. cool \in Int
  BY <1>0 DEF Most
<1>2. pitch \in Int /\ pitch <= top
  <2>1. in.move \in Int /\ c.pitchMax \in Int /\ 0 <= c.pitchMax /\ c.pitchRate \in Int
        /\ 0 <= c.pitchRate
    BY <1>0 DEF Input, Fields, Tuned
  <2>2. /\ Clamp(in.move, -1000, 1000) \in Int
        /\ -1000 <= Clamp(in.move, -1000, 1000) /\ Clamp(in.move, -1000, 1000) <= 1000
    BY <2>1, AxisFits
  <2>3. aim \in Int /\ aim <= c.pitchMax
    <3> DEFINE axis == Clamp(in.move, -1000, 1000)
               part == Times(axis, c.pitchMax)
    <3> HIDE DEF axis
    <3>1. axis \in Int /\ -1000 <= axis /\ axis <= 1000
      BY <2>2 DEF axis
    <3>2. part \in Int /\ -c.pitchMax <= part
      BY <2>1, <3>1, TimesBound, TimesType
    <3>3. aim = -part
      BY DEF axis
    <3> HIDE DEF part, aim
    <3> QED BY <2>1, <3>2, <3>3
  <2>4. Times(c.pitchRate, d) \in Int /\ 0 <= Times(c.pitchRate, d)
    BY <2>1, TimesType, TimesSign
  <2> HIDE DEF aim
  <2>5. aim <= top
    BY <2>1, <2>3
  <2> QED BY <1>0, <2>3, <2>4, <2>5, ApproachBound
<1>3. eased \in Int /\ c.minSpeed <= eased /\ eased <= c.maxSpeed
  <2>1. Eased(s.speed, c.speed, c.speedResponse, d) \in Int
    BY <1>0, EasedType DEF Fields
  <2> QED BY <2>1, ClampSpeedFits
<1> HIDE DEF cool, pitch, eased
<1>4. vy \in Int
  <2>1. Times(Times(eased, Sin(pitch)), c.climbGain) \in Int
    BY <1>0, <1>2, <1>3, SinType, TimesType DEF Fields
  <2>2. climb \in Int
    BY <1>0, <2>1 DEF Fields
  <2> HIDE DEF climb
  <2> QED BY <1>0, <2>2, EasedType DEF Fields
<1> HIDE DEF vy, flap
<1>5. lifted \in Int /\ wait \in Int /\ (IF flap THEN c.flapEnergy ELSE 0) \in Int
  BY <1>0, <1>1, <1>4 DEF Fields
<1>6. speed \in Int /\ c.minSpeed <= speed /\ speed <= c.maxSpeed
  <2>1. eased + c.flapSpeed \in Int
    BY <1>0, <1>3 DEF Fields
  <2> QED BY <1>3, <2>1, ClampSpeedFits
<1> HIDE DEF lifted, wait, speed
<1>7. y \in Int
  <2>1. Times(lifted, d) \in Int
    BY <1>5, TimesType
  <2> QED BY <1>0, <2>1
<1> HIDE DEF y
<1>8. moved \in Craft
  BY <1>0, <1>2, <1>5, <1>6, <1>7 DEF Craft
<1>9. events \in Events /\ ~events.released
  <2>1. Times(c.drainFly, d) \in Int
    BY <1>0, TimesType DEF Fields
  <2> QED BY <1>5, <2>1, EventsFit
<1>10. moved.phase = "fly" /\ moved.speed = speed /\ moved.pitch = pitch
  OBVIOUS
<1> HIDE DEF moved, events
<1>11. /\ out \in [state : Craft, events : Events] /\ out.state.y <= under + c.ceiling
       /\ out.state.speed = speed /\ out.state.pitch = pitch /\ ~out.events.released
  BY <1>8, <1>9, <1>10, CappedFits
<1> HIDE DEF out
<1>12. StepFly(c, s, in, d, under) = Resolve(c, out, under)
  BY DEF StepFly, out, moved, events, y, lifted, speed, wait, flap, vy, climb, eased, pitch, aim, cool
<1> DEFINE met == Resolve(c, out, under)
<1>13. met \in [state : Craft, events : Events] /\ ~met.events.released
  <2>1. met.events.released = out.events.released
    BY <1>11, ResolveFits
  <2> QED BY <1>11, <2>1, ResolveFits
<1>14. CASE met.events.landed
  <2> HIDE DEF met
  <2>1. Flown(c, met, under, top)
    BY <1>14, <1>13 DEF Flown
  <2> QED BY <1>12, <1>13, <2>1 DEF met
<1>15. CASE ~Resolve(c, out, under).events.landed
  <2>0. PICK z \in Int : Lifted(c, out, under, z)
    BY <1>11, <1>15, ResolveFits
  <2>1. /\ Resolve(c, out, under).state = [out.state EXCEPT !.y = z]
        /\ under + c.restHeight <= z
        /\ z = out.state.y \/ z = under + c.restHeight
    BY <2>0 DEF Lifted
  <2>2. under + c.restHeight <= under + c.ceiling
    BY <1>0 DEF Fields, Tuned
  <2>3. z <= under + c.ceiling
    BY <1>11, <2>1, <2>2
  <2>4. /\ Resolve(c, out, under).state.y = z
        /\ Resolve(c, out, under).state.speed = speed
        /\ Resolve(c, out, under).state.pitch = pitch
    BY <1>11, <2>1 DEF Craft
  <2>5. Within(c, Resolve(c, out, under).state, under, top)
    BY <1>2, <1>6, <2>1, <2>3, <2>4 DEF Within
  <2> HIDE DEF met
  <2>6. Flown(c, met, under, top)
    BY <1>13, <2>5 DEF Flown, met
  <2> QED BY <1>12, <1>13, <2>6 DEF met
<1> QED BY <1>14, <1>15

LEMMA StepFallFits ==
  ASSUME NEW c, Tuned(c), NEW s \in Craft, NEW d \in Int, 0 <= d, NEW under \in Int
  PROVE  StepFall(c, s, d, under) \in [state : Craft, events : Events]
<1> DEFINE vy == s.vy + Times(c.gravity, d)
           pitch == Clamp(Times(vy, c.fallPitchGain), -c.pitchMax, c.pitchMax)
           y == s.y + Times(vy, d)
           out == [state |-> [s EXCEPT !.vy = vy, !.y = y, !.time = @ + d, !.pitch = pitch],
                   events |-> Nothing]
<1>0. /\ Fields(c)
      /\ s.y \in Int /\ s.vy \in Int /\ s.pitch \in Int /\ s.speed \in Int
      /\ s.cool \in Int /\ s.time \in Int
  BY TunedFields DEF Craft
<1>1. vy \in Int
  <2>1. Times(c.gravity, d) \in Int
    BY <1>0, TimesType DEF Fields
  <2> QED BY <1>0, <2>1
<1> HIDE DEF vy
<1>2. pitch \in Int /\ y \in Int
  <2>1. Times(vy, c.fallPitchGain) \in Int /\ Times(vy, d) \in Int
    BY <1>0, <1>1, TimesType DEF Fields
  <2>2. c.pitchMax \in Int /\ -c.pitchMax \in Int
    BY <1>0 DEF Fields
  <2> DEFINE low == -c.pitchMax
  <2>3. low \in Int
    BY <2>2
  <2> HIDE DEF low
  <2>4. Clamp(Times(vy, c.fallPitchGain), low, c.pitchMax) \in Int
    BY <2>1, <2>2, <2>3, ClampType
  <2>5. pitch \in Int
    BY <2>4 DEF low
  <2>6. y \in Int
    BY <1>0, <2>1
  <2> QED BY <2>5, <2>6
<1> HIDE DEF pitch, y
<1>3. out \in [state : Craft, events : Events]
  <2> DEFINE time == s.time + d
  <2>1. time \in Int
    BY <1>0
  <2> HIDE DEF time
  <2>2. [s EXCEPT !.vy = vy, !.y = y, !.time = time, !.pitch = pitch] \in Craft
    BY <1>1, <1>2, <2>1 DEF Craft
  <2>3. out.state = [s EXCEPT !.vy = vy, !.y = y, !.time = time, !.pitch = pitch]
    BY DEF time
  <2> QED BY <2>2, <2>3, EventsFit
<1>4. StepFall(c, s, d, under) = Resolve(c, out, under)
  BY DEF StepFall, out, vy, pitch, y
<1> HIDE DEF out
<1> QED BY <1>3, <1>4, ResolveFits

LEMMA StepFits ==
  ASSUME NEW c, Tuned(c), NEW s \in Craft, s.phase \in {"fly", "fall"}, NEW in \in Input,
         NEW frame \in Int, 0 <= frame, NEW under \in Int, NEW top \in Int, c.pitchMax <= top
  PROVE  /\ Step(c, s, in, frame, under) \in [state : Craft, events : Events]
         /\ s.phase = "fly" /\ s.pitch <= top =>
              Flown(c, Step(c, s, in, frame, under), under, top)
         /\ s.phase = "fly" /\ ~in.release => ~Step(c, s, in, frame, under).events.released
<1> DEFINE d == Least(frame, c.maxDt)
<1>1. d \in Int /\ 0 <= d
  BY TunedFields DEF Fields, Tuned, Least
<1>2. c.drainFly \in Int
  BY TunedFields DEF Fields
<1>3. in.release \in BOOLEAN
  BY DEF Input
<1> HIDE DEF d
<1>4. CASE s.phase = "fly" /\ in.release
  <2> DEFINE out == [state |-> [s EXCEPT !.phase = "fall", !.time = 0],
                     events |-> [Nothing EXCEPT !.drain = Times(c.drainFly, d),
                                                !.released = TRUE]]
  <2>1. Step(c, s, in, frame, under) = out
    BY <1>4 DEF Step, d
  <2>2. Times(c.drainFly, d) \in Int
    BY <1>1, <1>2, TimesType
  <2>3. out.state \in Craft
    <3>1. "fall" \in {"fly", "fall", "grounded"} /\ 0 \in Int
      OBVIOUS
    <3>2. [s EXCEPT !.phase = "fall", !.time = 0] \in Craft
      BY <3>1, CraftIn, Zenon
    <3> QED BY <3>2
  <2>4. out.events \in Events /\ out.events.released
    BY <2>2, EventsFit
  <2>5. out \in [state : Craft, events : Events]
    BY <2>3, <2>4
  <2> QED BY <1>4, <2>1, <2>4, <2>5 DEF Flown
<1>5. CASE s.phase = "fly" /\ ~in.release
  <2>1. Step(c, s, in, frame, under) = StepFly(c, s, in, d, under)
    BY <1>5 DEF Step, d
  <2>2. ASSUME s.pitch <= top PROVE Flown(c, StepFly(c, s, in, d, under), under, top)
    BY <1>1, <1>5, <2>2, StepFlyFits
  <2>3. /\ StepFly(c, s, in, d, under) \in [state : Craft, events : Events]
        /\ ~StepFly(c, s, in, d, under).events.released
    <3>1. PICK up \in Int : c.pitchMax <= up /\ s.pitch <= up
      <4>1. s.pitch \in Int /\ c.pitchMax \in Int
        BY TunedFields DEF Craft, Fields
      <4> QED BY <4>1
    <3> QED BY <1>1, <1>5, <3>1, StepFlyFits DEF Flown
  <2> QED BY <2>1, <2>2, <2>3
<1>6. CASE s.phase = "fall"
  <2>1. Step(c, s, in, frame, under) = StepFall(c, s, d, under)
    BY <1>6 DEF Step, d
  <2> QED BY <1>1, <1>6, <2>1, StepFallFits
<1> QED BY <1>3, <1>4, <1>5, <1>6

LEMMA StartFits ==
  ASSUME NEW c, Tuned(c), NEW s \in Craft, NEW speed \in Int
  PROVE  /\ Start(c, s, speed) \in Craft
         /\ Start(c, s, speed).y = s.y /\ Start(c, s, speed).pitch = c.takeoffPitch
         /\ c.minSpeed <= Start(c, s, speed).speed /\ Start(c, s, speed).speed <= c.maxSpeed
<1> DEFINE v == ClampSpeed(c, speed)
<1>1. v \in Int /\ c.minSpeed <= v /\ v <= c.maxSpeed
  BY ClampSpeedFits
<1>2. c.takeoffLift \in Int /\ c.takeoffPitch \in Int
  BY TunedFields DEF Fields
<1>3. Start(c, s, speed) = [s EXCEPT !.phase = "fly", !.speed = v, !.vy = c.takeoffLift,
                                     !.pitch = c.takeoffPitch, !.cool = 0, !.time = 0]
  BY DEF Start
<1> HIDE DEF v
<1>4. Start(c, s, speed) \in Craft
  <2>1. 0 \in Int
    OBVIOUS
  <2>2. [s EXCEPT !.phase = "fly", !.speed = v, !.vy = c.takeoffLift,
                   !.pitch = c.takeoffPitch, !.cool = 0, !.time = 0] \in Craft
    BY <1>1, <1>2, <2>1, CraftOff, Zenon
  <2> QED BY <1>3, <2>2
<1>5. /\ Start(c, s, speed).y = s.y /\ Start(c, s, speed).pitch = c.takeoffPitch
      /\ Start(c, s, speed).speed = v
  BY <1>3 DEF Craft
<1> QED BY <1>1, <1>4, <1>5

LEMMA BotInputFits ==
  ASSUME NEW c, Tuned(c), NEW s \in Craft, NEW under \in Int
  PROVE  BotInput(c, s, under) \in Input
<1> DEFINE target == Least(under + c.botAltitude, under + c.ceiling)
           landing == s.time >= c.botTime
           hold == Clamp(-Times(target - s.y, c.botPitchGain), -1000, 1000)
           move == CASE s.y < under + c.botTerrainGuard -> -1000
                     [] landing /\ s.y >= under + c.botTerrainGuard -> 1000
                     [] OTHER -> hold
<1>0. /\ Fields(c)
      /\ s.y \in Int /\ s.vy \in Int /\ s.pitch \in Int /\ s.speed \in Int
      /\ s.cool \in Int /\ s.time \in Int
  BY TunedFields DEF Craft
<1>1. target \in Int
  BY <1>0 DEF Fields, Least
<1> HIDE DEF target
<1>2. hold \in Int
  <2>1. target - s.y \in Int /\ c.botPitchGain \in Int
    BY <1>0, <1>1 DEF Fields
  <2>2. Times(target - s.y, c.botPitchGain) \in Int
    BY <2>1, TimesType
  <2>3. -Times(target - s.y, c.botPitchGain) \in Int
    BY <2>2
  <2> QED BY <2>3, AxisFits
<1> HIDE DEF hold
<1>3. move \in Int
  BY <1>2
<1>4. WantsFlap(c, s, target, landing) \in BOOLEAN
  BY DEF WantsFlap
<1>5. BotInput(c, s, under) = [move |-> move, flap |-> WantsFlap(c, s, target, landing),
                               release |-> FALSE, energy |-> Unlimited]
  BY DEF BotInput, hold, target
<1> HIDE DEF move, landing
<1> QED BY <1>3, <1>4, <1>5 DEF Input, Unlimited

-----------------------------------------------------------------------------
(* The goats.                                                              *)

\* Beside the types and the envelope, whoever is not in the air stands on the
\* ground, which is where flights begin.
Nose == Most(tune.pitchMax, tune.takeoffPitch)

Aloft(g) ==
  g.mode = "fly" =>
    /\ tune.restHeight <= g.py /\ g.py <= tune.ceiling
    /\ tune.minSpeed <= g.speed /\ g.speed <= tune.maxSpeed
    /\ g.pitch <= Nose

Stands(g) == g.mode = "idle" => g.py = 0

Setting == Tuned(tune) /\ kind \in Kinds /\ dt \in Nat /\ odd \in BOOLEAN /\ jolts \in Nat

Envelope == Setting /\ ground \in Int /\ goat \in Goat /\ Aloft(goat) /\ Stands(goat)

LEMMA NoseFits ==
  ASSUME Tuned(tune)
  PROVE  Nose \in Int /\ tune.pitchMax <= Nose /\ tune.takeoffPitch <= Nose
<1>1. tune.pitchMax \in Int /\ tune.takeoffPitch \in Int
  BY TunedFields DEF Fields
<1> QED BY <1>1 DEF Nose, Most

LEMMA PackFits ==
  ASSUME NEW g \in Goat, ground \in Int, NEW phase \in {"fly", "fall"}
  PROVE  /\ Pack(g, phase) \in Craft
         /\ Pack(g, phase).phase = phase /\ Pack(g, phase).y = ground + g.py
         /\ Pack(g, phase).speed = g.speed /\ Pack(g, phase).pitch = g.pitch
<1>1. g.py \in Int /\ g.vy \in Int /\ g.pitch \in Int /\ g.speed \in Int /\ g.cool \in Int
      /\ g.time \in Int
  BY DEF Goat
<1> QED BY <1>1 DEF Pack, Craft

LEMMA ApplyFits ==
  ASSUME NEW g \in Goat, NEW s \in Craft, NEW under \in Int
  PROVE  /\ Apply(g, s, under) \in Goat
         /\ Apply(g, s, under).py = s.y - under /\ Apply(g, s, under).speed = s.speed
         /\ Apply(g, s, under).pitch = s.pitch /\ Apply(g, s, under).mode = g.mode
<1>1. s.y - under \in Int /\ s.vy \in Int /\ s.pitch \in Int /\ s.speed \in Int
      /\ s.cool \in Int /\ s.time \in Int
  BY DEF Craft
<1> QED BY <1>1 DEF Apply, Goat

\* What the crate's step leaves of a goat in the air.
LEMMA SteppedFits ==
  ASSUME Tuned(tune), dt \in Nat, ground \in Int, NEW g \in Goat,
         NEW phase \in {"fly", "fall"}, NEW in \in Input, NEW under \in Int
  PROVE  /\ Stepped(g, phase, in, under) \in [state : Craft, events : Events]
         /\ phase = "fly" /\ g.pitch <= Nose =>
              Flown(tune, Stepped(g, phase, in, under), under, Nose)
         /\ phase = "fly" /\ ~in.release => ~Stepped(g, phase, in, under).events.released
<1>1. dt \in Int /\ 0 <= dt
  OBVIOUS
<1> QED BY <1>1, NoseFits, PackFits, StepFits DEF Stepped

\* A flight that is still one after a step is within its envelope.
LEMMA FlownIsAloft ==
  ASSUME Tuned(tune), NEW g \in Goat, NEW s \in Craft, NEW under \in Int,
         Within(tune, s, under, Nose), NEW a, a.py = s.y - under, a.speed = s.speed,
         a.pitch = s.pitch
  PROVE  Aloft(a)
<1>1. tune.restHeight \in Int /\ tune.ceiling \in Int /\ s.y \in Int
  BY TunedFields DEF Fields, Craft
<1>2. tune.restHeight <= s.y - under /\ s.y - under <= tune.ceiling
  BY <1>1 DEF Within
<1> QED BY <1>2 DEF Aloft, Within

(* The player.                                                             *)

LEMMA LandFits ==
  ASSUME Tuned(tune), NEW g \in Goat, NEW e \in Events
  PROVE  Land(g, e) \in Goat /\ Land(g, e).mode \in {"idle", "dead"}
<1> DEFINE left == Most(tune.fallHealthFloor, g.health - e.damage)
           hurt == IF e.damage > 0 THEN [g EXCEPT !.health = left] ELSE g
<1>1. left \in Int
  <2>1. tune.fallHealthFloor \in Int /\ g.health \in Int /\ e.damage \in Int
    BY TunedFields DEF Fields, Goat, Events
  <2> QED BY <2>1 DEF Most
<1>2. Land(g, e) = IF hurt.health <= 0 THEN Die(hurt) ELSE [hurt EXCEPT !.mode = "idle"]
  BY DEF Land
<1> HIDE DEF left
<1>3. hurt \in Goat
  BY <1>1 DEF Goat
<1> HIDE DEF hurt
<1>4. Die(hurt) \in Goat /\ Die(hurt).mode = "dead"
  BY <1>3 DEF Die, Goat, Modes
<1>5. [hurt EXCEPT !.mode = "idle"] \in Goat /\ [hurt EXCEPT !.mode = "idle"].mode = "idle"
  BY <1>3 DEF Goat, Modes
<1> QED BY <1>2, <1>4, <1>5

LEMMA TiredFits ==
  ASSUME NEW g \in Goat, NEW time \in Int, NEW energy \in Int
  PROVE  /\ [g EXCEPT !.time = time, !.energy = energy] \in Goat
         /\ \A f \in {"mode", "py", "speed", "pitch"} :
              [g EXCEPT !.time = time, !.energy = energy][f] = g[f]
BY DEF Goat

LEMMA FlyPlayerFits ==
  ASSUME Envelope, goat.mode = "fly", NEW in \in Input, NEW under \in Int
  PROVE  FlyPlayer(goat, in, under) \in Goat /\ Aloft(FlyPlayer(goat, in, under))
<1> DEFINE out == Stepped(goat, "fly", in, under)
           b == Apply(goat, out.state, under)
           energy == Most(0, b.energy - out.events.cost - out.events.drain)
           a == [b EXCEPT !.time = 0, !.energy = energy]
<1>1. /\ out.state \in Craft /\ out.events \in Events
      /\ Flown(tune, out, under, Nose)
  BY SteppedFits DEF Envelope, Setting, Aloft
<1>2. FlyPlayer(goat, in, under) =
        CASE out.events.released -> [a EXCEPT !.mode = "fall", !.capable = FALSE]
          [] out.events.landed -> Land(a, out.events)
          [] OTHER -> a
  BY DEF FlyPlayer
<1> HIDE DEF out
<1>3. /\ b \in Goat /\ b.py = out.state.y - under /\ b.speed = out.state.speed
      /\ b.pitch = out.state.pitch
  BY <1>1, ApplyFits DEF Envelope
<1> HIDE DEF b
<1>4. energy \in Int /\ 0 \in Int
  <2>1. b.energy \in Int /\ out.events.cost \in Int /\ out.events.drain \in Int
    BY <1>1, <1>3 DEF Goat, Events
  <2> QED BY <2>1 DEF Most
<1> HIDE DEF energy
<1>5. a \in Goat /\ a.py = b.py /\ a.speed = b.speed /\ a.pitch = b.pitch
  BY <1>3, <1>4, TiredFits, Zenon
<1> HIDE DEF a
<1>6. CASE out.events.released
  <2>1. [a EXCEPT !.mode = "fall", !.capable = FALSE] \in Goat
        /\ [a EXCEPT !.mode = "fall", !.capable = FALSE].mode = "fall"
    BY <1>5 DEF Goat, Modes
  <2>2. FlyPlayer(goat, in, under) = [a EXCEPT !.mode = "fall", !.capable = FALSE]
        \/ (out.events.landed /\ FlyPlayer(goat, in, under) = Land(a, out.events))
    BY <1>2, <1>6
  <2> QED BY <1>1, <1>5, <2>1, <2>2, LandFits DEF Aloft, Envelope, Setting
<1>7. CASE ~out.events.released /\ out.events.landed
  BY <1>1, <1>2, <1>5, <1>7, LandFits DEF Aloft, Envelope, Setting
<1>8. CASE ~out.events.released /\ ~out.events.landed
  <2>1. FlyPlayer(goat, in, under) = a
    BY <1>2, <1>8
  <2>2. Within(tune, out.state, under, Nose)
    BY <1>1, <1>8 DEF Flown
  <2> QED BY <1>1, <1>3, <1>5, <2>1, <2>2, FlownIsAloft DEF Envelope, Setting
<1> QED BY <1>6, <1>7, <1>8

LEMMA CoastFits ==
  Coast \in Input /\ \A energy \in Int : [Coast EXCEPT !.energy = energy] \in Input
<1>1. \A in \in Input : \A energy \in Int : [in EXCEPT !.energy = energy] \in Input
  BY DEF Input
<1>2. Coast \in Input
  BY DEF Coast, Input, Unlimited
<1> QED BY <1>1, <1>2

LEMMA FallPlayerFits ==
  ASSUME Envelope, goat.mode = "fall", NEW under \in Int
  PROVE  FallPlayer(goat, under) \in Goat /\ FallPlayer(goat, under).mode # "fly"
<1> DEFINE in == [Coast EXCEPT !.energy = goat.energy]
           out == Stepped(goat, "fall", in, under)
           b == Apply(goat, out.state, under)
           a == [b EXCEPT !.time = 0]
<1>1. in \in Input
  <2>1. goat.energy \in Int
    BY DEF Envelope, Goat
  <2> QED BY <2>1, CoastFits
<1> HIDE DEF in
<1>2. out.state \in Craft /\ out.events \in Events
  BY <1>1, SteppedFits DEF Envelope, Setting
<1>3. FallPlayer(goat, under) = IF out.events.landed THEN Land(a, out.events) ELSE a
  BY DEF FallPlayer, in
<1> HIDE DEF out
<1>4. b \in Goat /\ b.mode = "fall"
  BY <1>2, ApplyFits DEF Envelope
<1> HIDE DEF b
<1>5. a \in Goat /\ a.mode = "fall"
  BY <1>4 DEF Goat
<1> HIDE DEF a
<1> QED BY <1>2, <1>3, <1>5, LandFits DEF Envelope, Setting

LEMMA StartFlightFits ==
  ASSUME Envelope, goat.mode = "idle"
  PROVE  StartFlight(goat) \in Goat /\ Aloft(StartFlight(goat))
<1> DEFINE b == Apply(goat, Started(goat), ground)
           energy == Most(0, b.energy - tune.takeoffEnergy)
           a == [b EXCEPT !.mode = "fly", !.energy = energy]
<1>1. /\ Started(goat) \in Craft /\ Started(goat).y = ground + goat.py
      /\ Started(goat).pitch = tune.takeoffPitch
      /\ tune.minSpeed <= Started(goat).speed /\ Started(goat).speed <= tune.maxSpeed
  <2>1. RunSpeed \in Int /\ Tuned(tune) /\ goat \in Goat /\ ground \in Int
    BY NumbersAssumption DEF Envelope, Setting
  <2>2. Pack(goat, "fly") \in Craft /\ Pack(goat, "fly").y = ground + goat.py
    BY <2>1, PackFits
  <2> QED BY <2>1, <2>2, StartFits DEF Started
<1>2. /\ b \in Goat /\ b.py = goat.py /\ b.speed = Started(goat).speed
      /\ b.pitch = tune.takeoffPitch
  <2>1. ground \in Int /\ goat.py \in Int /\ goat \in Goat
    BY DEF Envelope, Goat
  <2>2. Started(goat).y - ground = goat.py
    BY <1>1, <2>1
  <2> QED BY <1>1, <2>1, <2>2, ApplyFits
<1>3. energy \in Int
  <2>1. b.energy \in Int /\ tune.takeoffEnergy \in Int
    BY <1>2, TunedFields DEF Goat, Fields, Envelope, Setting
  <2> QED BY <2>1 DEF Most
<1>4. StartFlight(goat) = IF goat.capable /\ ~goat.exhausted THEN a ELSE goat
  BY DEF StartFlight
<1> HIDE DEF b, energy
<1>5. a \in Goat /\ a.py = b.py /\ a.speed = b.speed /\ a.pitch = b.pitch
  BY <1>2, <1>3 DEF Goat, Modes
<1> HIDE DEF a
<1>6. a.py = 0 /\ tune.restHeight <= 0 /\ 0 <= tune.ceiling
  <2>1. tune.ceiling \in Int /\ 1000 <= tune.ceiling
    BY TunedFields DEF Envelope, Setting, Tuned, Fields
  <2> QED BY <1>2, <1>5, <2>1 DEF Envelope, Setting, Tuned, Stands
<1>7. Aloft(a)
  BY <1>1, <1>2, <1>5, <1>6, NoseFits DEF Aloft, Envelope, Setting
<1> QED BY <1>4, <1>5, <1>7 DEF Envelope, Aloft

LEMMA UpdateStatsFits ==
  ASSUME dt \in Nat, NEW g \in Goat
  PROVE  /\ UpdateStats(g) \in Goat
         /\ UpdateStats(g).mode \in {g.mode, "dead"} /\ UpdateStats(g).py = g.py
         /\ UpdateStats(g).speed = g.speed /\ UpdateStats(g).pitch = g.pitch
<1> DEFINE Alike(h) == h \in Goat /\ h.py = g.py /\ h.speed = g.speed /\ h.pitch = g.pitch
           spent == IF g.mode = "fly" THEN 0 ELSE Times(Stats.drain, dt)
           left == Most(0, g.energy - spent)
           tired == [g EXCEPT !.energy = left]
           worn == Most(0, tired.health - Times(Stats.exhaust, dt))
           fresh == Least(Stats.max, tired.health + Times(Stats.recover, dt))
           felt == CASE tired.energy <= 0 -> [tired EXCEPT !.exhausted = TRUE, !.health = worn]
                     [] tired.energy > 0 /\ g.mode = "idle" /\ tired.energy > Stats.rested ->
                          [tired EXCEPT !.exhausted = FALSE, !.health = fresh]
                     [] OTHER -> [tired EXCEPT !.exhausted = FALSE]
<1>0. /\ Stats.drain \in Int /\ Stats.exhaust \in Int /\ Stats.max \in Int
      /\ Stats.recover \in Int /\ Stats.rested \in Int /\ dt \in Int
      /\ g.energy \in Int
  BY NumbersAssumption DEF Goat
<1>1. left \in Int
  <2>1. spent \in Int
    <3>1. Times(Stats.drain, dt) \in Int
      BY <1>0, TimesType
    <3> QED BY <3>1
  <2> HIDE DEF spent
  <2> QED BY <1>0, <2>1 DEF Most
<1>2. UpdateStats(g) = CASE Carried(g) -> g
                         [] ~Carried(g) /\ felt.health <= 0 -> Die(felt)
                         [] OTHER -> felt
  BY DEF UpdateStats
<1> HIDE DEF left
<1>3. Alike(tired) /\ tired.mode = g.mode
  BY <1>1 DEF Goat
<1> HIDE DEF tired
<1>4. worn \in Int /\ fresh \in Int
  <2>1. tired.health \in Int /\ Times(Stats.exhaust, dt) \in Int /\ Times(Stats.recover, dt) \in Int
    BY <1>0, <1>3, TimesType DEF Goat
  <2> QED BY <1>0, <2>1 DEF Most, Least
<1> HIDE DEF worn, fresh
<1>5. Alike(felt) /\ felt.mode = g.mode
  <2>1. ASSUME NEW h \in Int, NEW e \in BOOLEAN
        PROVE  LET t == [tired EXCEPT !.exhausted = e, !.health = h]
               IN Alike(t) /\ t.mode = g.mode
    BY <1>3 DEF Goat
  <2>2. ASSUME NEW e \in BOOLEAN
        PROVE  LET t == [tired EXCEPT !.exhausted = e] IN Alike(t) /\ t.mode = g.mode
    BY <1>3 DEF Goat
  <2> HIDE DEF Alike
  <2>3. TRUE \in BOOLEAN /\ FALSE \in BOOLEAN
    OBVIOUS
  <2> DEFINE t1 == [tired EXCEPT !.exhausted = TRUE, !.health = worn]
             t2 == [tired EXCEPT !.exhausted = FALSE, !.health = fresh]
             t3 == [tired EXCEPT !.exhausted = FALSE]
  <2>4. Alike(t1) /\ t1.mode = g.mode
    BY <1>4, <2>1, <2>3, Zenon
  <2>5. Alike(t2) /\ t2.mode = g.mode
    BY <1>4, <2>1, <2>3, Zenon
  <2>6. Alike(t3) /\ t3.mode = g.mode
    BY <2>2, <2>3, Zenon
  <2>7. felt = t1 \/ felt = t2 \/ felt = t3
    <3> HIDE DEF t1, t2, t3
    <3>1. felt = CASE tired.energy <= 0 -> t1
                   [] tired.energy > 0 /\ g.mode = "idle" /\ tired.energy > Stats.rested -> t2
                   [] OTHER -> t3
      BY DEF t1, t2, t3
    <3> HIDE DEF felt
    <3> QED BY <3>1
  <2> HIDE DEF t1, t2, t3, felt
  <2> QED BY <2>4, <2>5, <2>6, <2>7
<1> HIDE DEF felt
<1>6. Alike(Die(felt)) /\ Die(felt).mode = "dead"
  BY <1>5 DEF Die, Goat, Modes
<1>7. Alike(g)
  OBVIOUS
<1>8. UpdateStats(g) = g \/ UpdateStats(g) = Die(felt) \/ UpdateStats(g) = felt
  BY <1>2
<1> QED BY <1>5, <1>6, <1>7, <1>8

LEMMA IntegrateFits ==
  ASSUME dt \in Nat, NEW g \in Goat, Aloft(g), NEW under \in Int
  PROVE  Integrate(g, under) \in Goat /\ Aloft(Integrate(g, under)) /\ Stands(Integrate(g, under))
<1> DEFINE arc == g.arc + Times(FlingGravity, dt)
           base == g.base + Times(arc, dt)
           down == [g EXCEPT !.mode = "idle", !.py = 0, !.arc = 0, !.base = 0]
           up == [g EXCEPT !.py = base - under, !.arc = arc, !.base = base]
           flat == [g EXCEPT !.py = 0]
<1>1. arc \in Int /\ base \in Int /\ base - under \in Int
  <2>1. FlingGravity \in Int /\ dt \in Int /\ g.arc \in Int /\ g.base \in Int
    BY NumbersAssumption DEF Goat
  <2>2. Times(FlingGravity, dt) \in Int
    BY <2>1, TimesType
  <2>3. arc \in Int
    BY <2>1, <2>2
  <2> HIDE DEF arc
  <2>4. Times(arc, dt) \in Int
    BY <2>1, <2>3, TimesType
  <2> QED BY <2>1, <2>3, <2>4
<1>2. \/ g.mode \in {"fly", "fall"} /\ Integrate(g, under) = g
      \/ g.mode = "flung" /\ (Integrate(g, under) = down \/ Integrate(g, under) = up)
      \/ g.mode \notin {"fly", "fall", "flung"} /\ Integrate(g, under) = flat
  <2> HIDE DEF arc, base, down, up, flat
  <2>1. Integrate(g, under) =
          CASE g.mode \in {"fly", "fall"} -> g
            [] g.mode = "flung" /\ arc <= 0 /\ base - under <= 0 -> down
            [] g.mode = "flung" /\ ~(arc <= 0 /\ base - under <= 0) -> up
            [] OTHER -> flat
    BY DEF Integrate, arc, base, down, up, flat
  <2> QED BY <2>1
<1> HIDE DEF arc, base
<1>3. down \in Goat /\ down.mode = "idle" /\ down.py = 0
  <2>1. ASSUME NEW z \in Int, NEW m \in Modes
        PROVE  [g EXCEPT !.mode = m, !.py = z, !.arc = z, !.base = z] \in Goat
    BY DEF Goat
  <2>2. 0 \in Int /\ "idle" \in Modes
    BY DEF Modes
  <2>3. down \in Goat
    BY <2>1, <2>2, Zenon
  <2> QED BY <2>3 DEF Goat
<1>4. up \in Goat /\ up.mode = g.mode
  <2> DEFINE high == base - under
  <2> HIDE DEF high
  <2>1. [g EXCEPT !.py = high, !.arc = arc, !.base = base] \in Goat
    BY <1>1 DEF Goat, high
  <2> QED BY <2>1 DEF high, Goat
<1>5. flat \in Goat /\ flat.mode = g.mode /\ flat.py = 0
  BY DEF Goat
<1> HIDE DEF down, up, flat
<1>6. g.mode = "fall" \/ g.mode = "fly" => Stands(g)
  BY DEF Stands
<1> QED BY <1>2, <1>3, <1>4, <1>5, <1>6 DEF Aloft, Stands

LEMMA PlayerFrameKeeps ==
  ASSUME Envelope, PlayerFrame PROVE Envelope'
<1> PICK move \in {-1000, 0, 1000}, flap \in BOOLEAN, release \in BOOLEAN,
         under \in Terrain["player"] :
      LET in == [move |-> move, flap |-> flap, release |-> release, energy |-> goat.energy]
          moved == CASE goat.mode = "fly" -> FlyPlayer(goat, in, under)
                     [] goat.mode = "fall" -> FallPlayer(goat, under)
                     [] goat.mode = "idle" /\ flap /\ move > 0 -> StartFlight(goat)
                     [] OTHER -> goat
      IN goat' = Integrate(UpdateStats(moved), under) /\ ground' = under
  BY DEF PlayerFrame
<1> DEFINE in == [move |-> move, flap |-> flap, release |-> release, energy |-> goat.energy]
           moved == CASE goat.mode = "fly" -> FlyPlayer(goat, in, under)
                      [] goat.mode = "fall" -> FallPlayer(goat, under)
                      [] goat.mode = "idle" /\ flap /\ move > 0 -> StartFlight(goat)
                      [] OTHER -> goat
<1>1. goat' = Integrate(UpdateStats(moved), under) /\ ground' = under
  OBVIOUS
<1>2. under \in Int
  BY NumbersAssumption DEF Kinds
<1>3. in \in Input
  <2>1. goat.energy \in Int
    BY DEF Envelope, Goat
  <2> QED BY <2>1 DEF Input
<1> HIDE DEF in
<1>4. moved \in Goat /\ Aloft(moved)
  <2>1. CASE goat.mode = "fly"
    BY <1>2, <1>3, <2>1, FlyPlayerFits
  <2>2. CASE goat.mode = "fall"
    BY <1>2, <2>2, FallPlayerFits DEF Aloft
  <2>3. CASE goat.mode \notin {"fly", "fall"}
    <3>1. goat.mode # "fly" /\ goat.mode # "fall"
      BY <2>3
    <3>2. CASE goat.mode = "idle" /\ flap /\ move > 0
      <4>1. moved = StartFlight(goat)
        BY <3>1, <3>2
      <4> QED BY <3>2, <4>1, StartFlightFits
    <3>3. CASE ~(goat.mode = "idle" /\ flap /\ move > 0)
      <4>1. moved = goat
        BY <3>1, <3>3
      <4> QED BY <4>1 DEF Envelope
    <3> QED BY <3>2, <3>3
  <2> QED BY <2>1, <2>2, <2>3
<1> HIDE DEF moved
<1>5. UpdateStats(moved) \in Goat /\ Aloft(UpdateStats(moved))
  BY <1>4, UpdateStatsFits DEF Aloft, Envelope, Setting
<1>6. goat' \in Goat /\ Aloft(Integrate(UpdateStats(moved), under))
      /\ Stands(Integrate(UpdateStats(moved), under))
  BY <1>1, <1>2, <1>5, IntegrateFits DEF Envelope, Setting
<1>7. UNCHANGED <<kind, tune, dt, jolts>> /\ odd' = ~odd
  BY DEF PlayerFrame
<1>8. Setting'
  BY <1>7 DEF Envelope, Setting, Tuned
<1>9. Aloft(goat)' /\ Stands(goat)'
  BY <1>1, <1>6, <1>7 DEF Aloft, Stands, Nose
<1> QED BY <1>1, <1>2, <1>6, <1>8, <1>9 DEF Envelope

\* Steps in which nobody flies afterwards who did not before.
LEMMA Quiet ==
  ASSUME Envelope, UNCHANGED <<kind, tune, dt, odd>>, ground' \in Int, jolts' \in Nat,
         goat' \in Goat, Aloft(goat'), Stands(goat')
  PROVE  Envelope'
<1>1. Setting'
  BY DEF Envelope, Setting, Tuned
<1>2. Aloft(goat)' /\ Stands(goat)'
  BY DEF Aloft, Stands, Nose
<1> QED BY <1>1, <1>2 DEF Envelope

LEMMA BlastPlayerKeeps ==
  ASSUME Envelope, BlastPlayer PROVE Envelope'
<1>1. PICK b \in Blasts :
        goat' = [goat EXCEPT
                  !.mode = "flung", !.capable = FALSE,
                  !.speed = 0, !.vy = 0, !.pitch = 0,
                  !.health = Most(BlastFloor, @ - b.damage),
                  !.base = IF goat.mode = "flung" THEN @ ELSE ground + goat.py,
                  !.arc = @ + b.lift]
  BY DEF BlastPlayer
<1> DEFINE health == Most(BlastFloor, goat.health - b.damage)
           base == IF goat.mode = "flung" THEN goat.base ELSE ground + goat.py
           arc == goat.arc + b.lift
<1>2. health \in Int /\ base \in Int /\ arc \in Int
  <2>1. /\ goat.health \in Int /\ goat.base \in Int /\ goat.py \in Int /\ goat.arc \in Int
        /\ ground \in Int /\ b.damage \in Int /\ b.lift \in Int /\ BlastFloor \in Int
    BY NumbersAssumption DEF Envelope, Goat
  <2> QED BY <2>1 DEF Most
<1>3. goat' = [goat EXCEPT !.mode = "flung", !.capable = FALSE, !.speed = 0, !.vy = 0,
                           !.pitch = 0, !.health = health, !.base = base, !.arc = arc]
  BY <1>1
<1> HIDE DEF health, base, arc
<1>4. \A z \in Int, no \in BOOLEAN, m \in Modes :
        [goat EXCEPT !.mode = m, !.capable = no, !.speed = z, !.vy = z,
                     !.pitch = z, !.health = health, !.base = base, !.arc = arc] \in Goat
  BY <1>2 DEF Envelope, Goat
<1>5. 0 \in Int /\ FALSE \in BOOLEAN /\ "flung" \in Modes
  BY DEF Modes
<1>6. goat' \in Goat
  BY <1>3, <1>4, <1>5, Zenon
<1>7. goat'.mode = "flung"
  BY <1>3 DEF Envelope, Goat
<1>8. UNCHANGED <<kind, tune, dt, ground, odd>> /\ jolts' \in Nat
  BY DEF BlastPlayer, Envelope, Setting
<1> QED BY <1>6, <1>7, <1>8, Quiet DEF Aloft, Stands, Envelope

LEMMA RestingFits == Resting \in Goat /\ Resting.mode = "idle" /\ Resting.py = 0
<1>1. Stats.max \in Int
  BY NumbersAssumption
<1> QED BY <1>1 DEF Resting, Goat, Modes

LEMMA SetFlightKeeps ==
  ASSUME Envelope, SetFlight PROVE Envelope'
<1>1. CASE goat' = [goat EXCEPT !.capable = TRUE]
  <2>1. /\ goat' \in Goat
        /\ \A f \in {"mode", "py", "speed", "pitch"} : goat'[f] = goat[f]
    BY <1>1 DEF Envelope, Goat
  <2>2. Aloft(goat') /\ Stands(goat')
    BY <2>1 DEF Envelope, Aloft, Stands
  <2> QED BY <2>1, <2>2, Quiet DEF SetFlight, Envelope, Setting
<1>2. CASE goat' = [(IF kind = "player" THEN ReleaseFlight(goat) ELSE ReleaseBot(goat))
                      EXCEPT !.capable = FALSE]
  <2> DEFINE g == IF kind = "player" THEN ReleaseFlight(goat) ELSE ReleaseBot(goat)
  <2>1. \/ goat.mode # "fly" /\ g = goat
        \/ goat.mode = "fly" /\ g \in Goat /\ g.mode = "fall"
    <3>1. CASE goat.mode # "fly"
      BY <3>1 DEF ReleaseFlight, ReleaseBot
    <3>2. CASE goat.mode = "fly" /\ kind = "player"
      <4> DEFINE s == Released(goat)
                 b == Apply(goat, s, ground)
      <4>1. s \in Craft
        <5>1. "fall" \in {"fly", "fall", "grounded"} /\ 0 \in Int
          OBVIOUS
        <5>2. Pack(goat, "fly") \in Craft /\ Pack(goat, "fly").phase = "fly"
          BY PackFits DEF Envelope
        <5>3. [Pack(goat, "fly") EXCEPT !.phase = "fall", !.time = 0] \in Craft
          BY <5>1, <5>2, CraftIn, Zenon
        <5> QED BY <5>2, <5>3 DEF Released, Release
      <4> HIDE DEF s
      <4>2. b \in Goat
        BY <4>1, ApplyFits DEF Envelope
      <4>3. g = [b EXCEPT !.mode = "fall", !.capable = FALSE]
        BY <3>2 DEF ReleaseFlight, s
      <4> HIDE DEF b
      <4>4. [b EXCEPT !.mode = "fall", !.capable = FALSE] \in Goat
            /\ [b EXCEPT !.mode = "fall", !.capable = FALSE].mode = "fall"
        BY <4>2 DEF Goat, Modes
      <4> QED BY <3>2, <4>3, <4>4
    <3>3. CASE goat.mode = "fly" /\ kind # "player"
      <4>1. [goat EXCEPT !.mode = "fall", !.capable = FALSE] \in Goat
            /\ [goat EXCEPT !.mode = "fall", !.capable = FALSE].mode = "fall"
        BY DEF Envelope, Goat, Modes
      <4> QED BY <3>3, <4>1 DEF ReleaseBot
    <3> QED BY <3>1, <3>2, <3>3
  <2>2. goat' = [g EXCEPT !.capable = FALSE]
    BY <1>2
  <2>3. g \in Goat
    BY <2>1 DEF Envelope
  <2> HIDE DEF g
  <2>4. goat' \in Goat /\ goat'.mode = g.mode /\ goat'.py = g.py
    BY <2>2, <2>3 DEF Goat
  <2>5. Aloft(goat') /\ Stands(goat')
    BY <2>1, <2>4 DEF Envelope, Aloft, Stands
  <2> QED BY <2>4, <2>5, Quiet DEF SetFlight, Envelope, Setting
<1> QED BY <1>1, <1>2 DEF SetFlight
LEMMA RestartKeeps ==
  ASSUME Envelope, Restart PROVE Envelope'
<1>1. goat' = Resting /\ UNCHANGED <<kind, tune, dt, ground, odd, jolts>>
  BY DEF Restart
<1>2. goat' \in Goat /\ Aloft(goat') /\ Stands(goat')
  BY <1>1, RestingFits DEF Aloft, Stands
<1> QED BY <1>1, <1>2, Quiet DEF Envelope, Setting

(* A bot of the herd.                                                      *)

LEMMA NoFlightFits ==
  ASSUME NEW g \in Goat
  PROVE  /\ NoFlight(g) \in Goat
         /\ NoFlight(g).mode = g.mode /\ NoFlight(g).py = g.py
<1>1. \A z \in Int : [g EXCEPT !.pitch = z, !.speed = z, !.cool = z, !.time = z] \in Goat
  BY DEF Goat
<1>2. NoFlight(g) = [g EXCEPT !.pitch = 0, !.speed = 0, !.cool = 0, !.time = 0]
  BY DEF NoFlight
<1>3. 0 \in Int
  OBVIOUS
<1>4. NoFlight(g) \in Goat
  BY <1>1, <1>2, <1>3, Zenon
<1> QED BY <1>2, <1>4 DEF Goat

LEMMA KillBotFits ==
  ASSUME NEW g \in Goat PROVE KillBot(g) \in Goat /\ KillBot(g).mode = "dead"
<1> DEFINE n == NoFlight(g)
<1>1. n \in Goat
  BY NoFlightFits
<1>2. KillBot(g) = [n EXCEPT !.mode = "dead", !.dead = 0, !.health = 0, !.capable = FALSE]
  BY DEF KillBot
<1> HIDE DEF n
<1>3. ASSUME NEW m \in Modes, NEW z \in Int, NEW no \in BOOLEAN
      PROVE  [n EXCEPT !.mode = m, !.dead = z, !.health = z, !.capable = no] \in Goat
  BY <1>1 DEF Goat
<1>4. "dead" \in Modes /\ 0 \in Int /\ FALSE \in BOOLEAN
  BY DEF Modes
<1>5. KillBot(g) \in Goat
  BY <1>2, <1>3, <1>4, Zenon
<1> QED BY <1>1, <1>2, <1>5 DEF Goat

LEMMA GroundedFits ==
  ASSUME Tuned(tune), NEW g \in Goat
  PROVE  Grounded(g) \in Goat /\ Grounded(g).mode = "idle" /\ Grounded(g).py = 0
<1> DEFINE n == NoFlight(g)
<1>1. n \in Goat
  BY NoFlightFits
<1>2. Grounded(g) = [n EXCEPT !.mode = "idle", !.py = 0, !.base = 0,
                              !.cooldown = tune.botCooldown]
  BY DEF Grounded
<1> HIDE DEF n
<1>3. ASSUME NEW m \in Modes, NEW z \in Int, NEW wait \in Int
      PROVE  [n EXCEPT !.mode = m, !.py = z, !.base = z, !.cooldown = wait] \in Goat
  BY <1>1 DEF Goat
<1>4. "idle" \in Modes /\ 0 \in Int /\ tune.botCooldown \in Int
  BY TunedFields DEF Modes, Fields
<1>5. Grounded(g) \in Goat
  BY <1>2, <1>3, <1>4, Zenon
<1> QED BY <1>1, <1>2, <1>5 DEF Goat

LEMMA ApplyBotFits ==
  ASSUME NEW g \in Goat, NEW s \in Craft, NEW under \in Int
  PROVE  /\ ApplyBot(g, s, under) \in Goat
         /\ ApplyBot(g, s, under).py = s.y - under /\ ApplyBot(g, s, under).speed = s.speed
         /\ ApplyBot(g, s, under).pitch = s.pitch /\ ApplyBot(g, s, under).mode = g.mode
<1> DEFINE b == Apply(g, s, under)
<1>1. /\ b \in Goat /\ b.py = s.y - under /\ b.speed = s.speed /\ b.pitch = s.pitch
      /\ b.mode = g.mode
  BY ApplyFits
<1>2. ApplyBot(g, s, under) = [b EXCEPT !.base = s.y] /\ s.y \in Int
  BY DEF ApplyBot, Craft
<1> HIDE DEF b
<1> QED BY <1>1, <1>2 DEF Goat

\* The driver of a bot never lets go of the flight.
LEMMA SteeredFits ==
  ASSUME Tuned(tune), ground \in Int, NEW g \in Goat
  PROVE  Steered(g) \in Input /\ ~Steered(g).release
<1>1. Pack(g, "fly") \in Craft
  BY PackFits
<1>2. Steered(g) \in Input
  BY <1>1, BotInputFits DEF Steered
<1> QED BY <1>2 DEF Steered, BotInput

LEMMA FlyBotFits ==
  ASSUME Tuned(tune), dt \in Nat, ground \in Int, NEW g \in Goat, g.mode = "fly", Aloft(g),
         NEW under \in Int
  PROVE  /\ FlyBot(g, under) \in Goat
         /\ Aloft(FlyBot(g, under)) /\ Stands(FlyBot(g, under))
<1> DEFINE out == Stepped(g, "fly", Steered(g), under)
           a == ApplyBot(g, out.state, under)
<1>1. /\ out.state \in Craft /\ out.events \in Events /\ ~out.events.released
      /\ Flown(tune, out, under, Nose)
  BY SteeredFits, SteppedFits DEF Aloft
<1>2. FlyBot(g, under) = IF out.events.landed THEN Grounded(a) ELSE a
  BY DEF FlyBot
<1> HIDE DEF out
<1>3. /\ a \in Goat /\ a.py = out.state.y - under /\ a.speed = out.state.speed
      /\ a.pitch = out.state.pitch /\ a.mode = "fly"
  BY <1>1, ApplyBotFits
<1> HIDE DEF a
<1>4. CASE out.events.landed
  BY <1>2, <1>3, <1>4, GroundedFits DEF Aloft, Stands
<1>5. CASE ~out.events.landed
  <2>1. Within(tune, out.state, under, Nose)
    BY <1>1, <1>5 DEF Flown
  <2>2. Aloft(a) /\ Stands(a)
    BY <1>1, <1>3, <2>1, FlownIsAloft DEF Stands
  <2> QED BY <1>2, <1>3, <1>5, <2>2
<1> QED BY <1>4, <1>5

LEMMA FallBotFits ==
  ASSUME Tuned(tune), dt \in Nat, ground \in Int, NEW g \in Goat, g.mode = "fall",
         NEW under \in Int
  PROVE  /\ FallBot(g, under) \in Goat
         /\ Aloft(FallBot(g, under)) /\ Stands(FallBot(g, under))
<1> DEFINE out == Stepped(g, "fall", Coast, under)
           a == ApplyBot(g, out.state, under)
           hurt == Most(0, a.health - FallDamage(tune, out.events.impact))
           down == [Grounded(a) EXCEPT !.health = hurt]
<1>1. out.state \in Craft /\ out.events \in Events
  BY CoastFits, SteppedFits
<1>2. \/ FallBot(g, under) = a
      \/ FallBot(g, under) = down
      \/ FallBot(g, under) = KillBot(down)
  <2> HIDE DEF out, a, hurt, down
  <2>1. FallBot(g, under) = CASE ~out.events.landed -> a
                              [] out.events.landed /\ hurt > 0 -> down
                              [] OTHER -> KillBot(down)
    BY DEF FallBot, out, a, hurt, down
  <2> QED BY <2>1
<1> HIDE DEF out
<1>3. a \in Goat /\ a.mode = "fall"
  BY <1>1, ApplyBotFits
<1> HIDE DEF a
<1>4. hurt \in Int
  <2>1. out.events.impact \in Int /\ a.health \in Int
    BY <1>1, <1>3 DEF Events, Goat
  <2>2. FallDamage(tune, out.events.impact) \in Int
    BY <2>1, DamageType
  <2> QED BY <2>1, <2>2 DEF Most
<1> HIDE DEF hurt
<1>5. down \in Goat /\ down.mode = "idle" /\ down.py = 0
  <2> DEFINE n == Grounded(a)
  <2>1. n \in Goat /\ n.mode = "idle" /\ n.py = 0
    BY <1>3, GroundedFits
  <2> HIDE DEF n
  <2>2. down = [n EXCEPT !.health = hurt]
    BY DEF n
  <2> HIDE DEF down
  <2> QED BY <1>4, <2>1, <2>2 DEF Goat
<1> HIDE DEF down
<1>6. KillBot(down) \in Goat /\ KillBot(down).mode = "dead"
  BY <1>5, KillBotFits
<1> QED BY <1>2, <1>3, <1>5, <1>6 DEF Aloft, Stands

LEMMA ArcFits ==
  ASSUME dt \in Nat, NEW g \in Goat, g.mode \in {"flung", "dead"}, NEW under \in Int
  PROVE  /\ Arc(g, under) \in Goat
         /\ Arc(g, under).mode # "fly"
         /\ Arc(g, under).mode = "idle" => Arc(g, under).py = 0
<1> DEFINE vy == g.vy + Times(FlingGravity, dt)
           base == g.base + Times(vy, dt)
           high == base - under
           next == IF g.mode = "flung" THEN "idle" ELSE g.mode
           down == [g EXCEPT !.py = 0, !.vy = 0, !.base = 0, !.mode = next]
           up == [g EXCEPT !.py = high, !.vy = vy, !.base = base]
<1>1. vy \in Int /\ base \in Int /\ high \in Int
  <2>1. FlingGravity \in Int /\ dt \in Int /\ g.vy \in Int /\ g.base \in Int
    BY NumbersAssumption DEF Goat
  <2>2. Times(FlingGravity, dt) \in Int
    BY <2>1, TimesType
  <2>3. vy \in Int
    BY <2>1, <2>2
  <2> HIDE DEF vy
  <2>4. Times(vy, dt) \in Int
    BY <2>1, <2>3, TimesType
  <2> QED BY <2>1, <2>3, <2>4
<1>2. Arc(g, under) = down \/ Arc(g, under) = up
  BY DEF Arc
<1> HIDE DEF vy, base, high
<1>3. next \in Modes /\ next # "fly"
  BY DEF Modes
<1> HIDE DEF next
<1>4. down \in Goat /\ down.py = 0 /\ down.mode = next
  <2>1. ASSUME NEW z \in Int
        PROVE  [g EXCEPT !.py = z, !.vy = z, !.base = z, !.mode = next] \in Goat
    BY <1>3 DEF Goat
  <2>2. 0 \in Int
    OBVIOUS
  <2>3. down \in Goat
    BY <2>1, <2>2, Zenon
  <2> QED BY <2>3 DEF Goat
<1>5. up \in Goat /\ up.mode = g.mode
  BY <1>1 DEF Goat
<1> HIDE DEF down, up
<1> QED BY <1>2, <1>3, <1>4, <1>5

LEMMA BotFrameKeeps ==
  ASSUME Envelope, BotFrame PROVE Envelope'
<1> DEFINE g == IF goat.mode # "dead" /\ goat.cooldown > 0
                THEN [goat EXCEPT !.cooldown = @ - dt] ELSE goat
           fallen(under) == IF goat.py > 0 THEN Arc(goat, under) ELSE goat
           corpse(under) == [fallen(under) EXCEPT !.dead = @ + dt]
           frame(under) == CASE g.mode = "dead" /\ corpse(under).dead >= Linger -> Resting
                             [] g.mode = "dead" /\ corpse(under).dead < Linger -> corpse(under)
                             [] g.mode = "flung" -> Arc(g, under)
                             [] g.mode = "fly" -> FlyBot(g, under)
                             [] g.mode = "fall" -> FallBot(g, under)
                             [] OTHER -> g
<1>1. PICK under \in Terrain["bot"] : goat' = frame(under) /\ ground' = under
  BY DEF BotFrame
<1>2. under \in Int
  BY NumbersAssumption DEF Kinds
<1>3. g \in Goat /\ \A f \in {"mode", "py", "speed", "pitch"} : g[f] = goat[f]
  <2> DEFINE wait == goat.cooldown - dt
  <2>1. wait \in Int
    BY DEF Envelope, Setting, Goat
  <2>2. g = goat \/ g = [goat EXCEPT !.cooldown = wait]
    OBVIOUS
  <2> HIDE DEF wait, g
  <2> QED BY <2>1, <2>2 DEF Envelope, Goat
<1>4. Aloft(g) /\ Stands(g)
  BY <1>3 DEF Envelope, Aloft, Stands
<1>5. ASSUME goat.mode = "dead"
      PROVE  corpse(under) \in Goat /\ corpse(under).mode # "fly"
             /\ (corpse(under).mode = "idle" => corpse(under).py = 0)
  <2> DEFINE b == fallen(under)
  <2>1. b \in Goat /\ b.mode # "fly" /\ (b.mode = "idle" => b.py = 0)
    BY <1>2, <1>5, ArcFits DEF Envelope, Setting
  <2>2. corpse(under) = [b EXCEPT !.dead = @ + dt]
    OBVIOUS
  <2> HIDE DEF b, fallen, corpse
  <2> DEFINE time == b.dead + dt
  <2>3. time \in Int
    BY <2>1 DEF Envelope, Setting, Goat
  <2>4. corpse(under) = [b EXCEPT !.dead = time]
    BY <2>2
  <2> HIDE DEF time
  <2> QED BY <2>1, <2>3, <2>4 DEF Goat
<1>6. \/ goat' = Resting
      \/ goat.mode = "dead" /\ goat' = corpse(under)
      \/ goat.mode = "flung" /\ goat' = Arc(g, under)
      \/ goat.mode = "fly" /\ goat' = FlyBot(g, under)
      \/ goat.mode = "fall" /\ goat' = FallBot(g, under)
      \/ goat' = g
  <2>1. g.mode = goat.mode
    BY <1>3
  <2>2. goat' = CASE g.mode = "dead" /\ corpse(under).dead >= Linger -> Resting
                  [] g.mode = "dead" /\ corpse(under).dead < Linger -> corpse(under)
                  [] g.mode = "flung" -> Arc(g, under)
                  [] g.mode = "fly" -> FlyBot(g, under)
                  [] g.mode = "fall" -> FallBot(g, under)
                  [] OTHER -> g
    BY <1>1
  <2> HIDE DEF g, corpse
  <2>3. CASE goat.mode = "dead"
    <3>1. g.mode = "dead" /\ g.mode # "flung" /\ g.mode # "fly" /\ g.mode # "fall"
      BY <2>1, <2>3
    <3> QED BY <2>2, <2>3, <3>1
  <2>4. CASE goat.mode # "dead"
    BY <2>1, <2>2, <2>4
  <2> QED BY <2>3, <2>4
<1> HIDE DEF g, fallen, corpse, frame
<1>7. goat' \in Goat /\ Aloft(goat') /\ Stands(goat')
  <2>1. CASE goat' = Resting
    BY <2>1, RestingFits DEF Aloft, Stands
  <2>2. CASE goat.mode = "dead" /\ goat' = corpse(under)
    BY <1>5, <2>2 DEF Aloft, Stands
  <2>3. CASE goat.mode = "flung" /\ goat' = Arc(g, under)
    BY <1>2, <1>3, <2>3, ArcFits DEF Aloft, Stands, Envelope, Setting
  <2>4. CASE goat.mode = "fly" /\ goat' = FlyBot(g, under)
    BY <1>2, <1>3, <1>4, <2>4, FlyBotFits DEF Envelope, Setting
  <2>5. CASE goat.mode = "fall" /\ goat' = FallBot(g, under)
    BY <1>2, <1>3, <2>5, FallBotFits DEF Envelope, Setting
  <2>6. CASE goat' = g
    BY <1>3, <1>4, <2>6
  <2> QED BY <1>6, <2>1, <2>2, <2>3, <2>4, <2>5, <2>6
<1>8. UNCHANGED <<kind, tune, dt, jolts>> /\ odd' = ~odd
  BY DEF BotFrame
<1>9. Setting'
  BY <1>8 DEF Envelope, Setting, Tuned
<1>10. Aloft(goat)' /\ Stands(goat)'
  BY <1>7, <1>8 DEF Aloft, Stands, Nose
<1> QED BY <1>1, <1>2, <1>7, <1>9, <1>10 DEF Envelope

LEMMA TakeOffBotKeeps ==
  ASSUME Envelope, TakeOffBot PROVE Envelope'
<1> DEFINE b == ApplyBot(goat, Started(goat), ground)
<1>1. goat' = [b EXCEPT !.mode = "fly"] /\ goat.mode \in {"idle", "fly"}
  BY DEF TakeOffBot
<1>2. /\ RunSpeed \in Int /\ Tuned(tune) /\ goat \in Goat /\ ground \in Int /\ goat.py \in Int
  BY NumbersAssumption DEF Envelope, Setting, Goat
<1>3. /\ Started(goat) \in Craft /\ Started(goat).y = ground + goat.py
      /\ Started(goat).pitch = tune.takeoffPitch
      /\ tune.minSpeed <= Started(goat).speed /\ Started(goat).speed <= tune.maxSpeed
  <2>1. Pack(goat, "fly") \in Craft /\ Pack(goat, "fly").y = ground + goat.py
    BY <1>2, PackFits
  <2> QED BY <1>2, <2>1, StartFits DEF Started
<1>4. /\ b \in Goat /\ b.py = goat.py /\ b.speed = Started(goat).speed
      /\ b.pitch = tune.takeoffPitch
  <2>1. Started(goat).y - ground = goat.py
    BY <1>2, <1>3
  <2> QED BY <1>2, <1>3, <2>1, ApplyBotFits
<1> HIDE DEF b
<1>5. /\ goat' \in Goat /\ goat'.mode = "fly" /\ goat'.py = goat.py
      /\ goat'.speed = b.speed /\ goat'.pitch = b.pitch
  BY <1>1, <1>4 DEF Goat, Modes
<1>6. tune.restHeight <= goat.py /\ goat.py <= tune.ceiling
  <2>1. CASE goat.mode = "fly"
    BY <2>1 DEF Envelope, Aloft
  <2>2. CASE goat.mode = "idle"
    <3>1. tune.ceiling \in Int /\ 1000 <= tune.ceiling /\ tune.restHeight <= 0
      BY <1>2, TunedFields DEF Tuned, Fields
    <3>2. goat.py = 0
      BY <2>2 DEF Envelope, Stands
    <3> QED BY <3>1, <3>2
  <2> QED BY <1>1, <2>1, <2>2
<1>7. Aloft(goat') /\ Stands(goat')
  BY <1>2, <1>3, <1>4, <1>5, <1>6, NoseFits DEF Aloft, Stands
<1>8. UNCHANGED <<kind, tune, dt, ground, odd>> /\ jolts' \in Nat
  BY DEF TakeOffBot, Envelope, Setting
<1> QED BY <1>2, <1>5, <1>7, <1>8, Quiet

LEMMA BlastBotKeeps ==
  ASSUME Envelope, BlastBot PROVE Envelope'
<1>1. PICK blast \in Blasts :
        LET hurt == [goat EXCEPT !.health = Most(0, @ - blast.damage)]
        IN goat' = IF hurt.health <= 0 THEN KillBot(hurt)
                   ELSE [NoFlight(hurt) EXCEPT
                           !.mode = "flung", !.capable = FALSE, !.vy = @ + blast.lift,
                           !.base = IF goat.mode = "flung" THEN @ ELSE ground]
  BY DEF BlastBot
<1> DEFINE left == Most(0, goat.health - blast.damage)
           hurt == [goat EXCEPT !.health = left]
           n == NoFlight(hurt)
           vy == n.vy + blast.lift
           base == IF goat.mode = "flung" THEN n.base ELSE ground
           thrown == [n EXCEPT !.mode = "flung", !.capable = FALSE, !.vy = vy, !.base = base]
<1>2. goat' = KillBot(hurt) \/ goat' = thrown
  BY <1>1
<1>3. goat \in Goat /\ ground \in Int /\ blast.damage \in Int /\ blast.lift \in Int
      /\ goat.health \in Int
  BY NumbersAssumption DEF Envelope, Goat
<1>4. left \in Int
  BY <1>3 DEF Most
<1> HIDE DEF left
<1>5. hurt \in Goat
  BY <1>3, <1>4 DEF Goat
<1> HIDE DEF hurt
<1>6. n \in Goat
  BY <1>5, NoFlightFits
<1> HIDE DEF n
<1>7. vy \in Int /\ base \in Int
  BY <1>3, <1>6 DEF Goat
<1> HIDE DEF vy, base
<1>8. thrown \in Goat /\ thrown.mode = "flung"
  <2>1. ASSUME NEW m \in Modes, NEW no \in BOOLEAN
        PROVE  [n EXCEPT !.mode = m, !.capable = no, !.vy = vy, !.base = base] \in Goat
    BY <1>6, <1>7 DEF Goat
  <2>2. "flung" \in Modes /\ FALSE \in BOOLEAN
    BY DEF Modes
  <2>3. thrown \in Goat
    BY <2>1, <2>2, Zenon
  <2> QED BY <1>6, <2>3 DEF Goat
<1> HIDE DEF thrown
<1>9. goat' \in Goat /\ Aloft(goat') /\ Stands(goat')
  BY <1>2, <1>5, <1>8, KillBotFits DEF Aloft, Stands
<1>10. UNCHANGED <<kind, tune, dt, ground, odd>> /\ jolts' \in Nat
  BY DEF BlastBot, Envelope, Setting
<1> QED BY <1>3, <1>9, <1>10, Quiet

-----------------------------------------------------------------------------
(* The whole life of a goat.                                               *)

LEMMA EnvelopeBegins == FlightInit => Envelope
<1> SUFFICES ASSUME FlightInit PROVE Envelope
  OBVIOUS
<1>1. kind \in Kinds /\ dt \in Nat /\ odd \in BOOLEAN /\ jolts \in Nat /\ ground \in Int
  BY NumbersAssumption DEF FlightInit
<1>2. Tuned(tune)
  <2>1. PICK raw \in Tunings[kind] : tune = Validate(raw)
    BY DEF FlightInit
  <2> QED BY <1>1, <2>1, TuningAssumption, Validated
<1>3. goat \in Goat /\ Aloft(goat) /\ Stands(goat)
  BY RestingFits DEF FlightInit, Aloft, Stands
<1> QED BY <1>1, <1>2, <1>3 DEF Envelope, Setting

LEMMA EnvelopeStep == Envelope /\ [FlightNext]_flightVars => Envelope'
<1> SUFFICES ASSUME Envelope, [FlightNext]_flightVars PROVE Envelope'
  OBVIOUS
<1>1. CASE PlayerFrame
  BY <1>1, PlayerFrameKeeps
<1>2. CASE SetFlight
  BY <1>2, SetFlightKeeps
<1>3. CASE BlastPlayer
  BY <1>3, BlastPlayerKeeps
<1>4. CASE Restart
  BY <1>4, RestartKeeps
<1>5. CASE BotFrame
  BY <1>5, BotFrameKeeps
<1>6. CASE TakeOffBot
  BY <1>6, TakeOffBotKeeps
<1>7. CASE BlastBot
  BY <1>7, BlastBotKeeps
<1>8. CASE UNCHANGED flightVars
  BY <1>8 DEF flightVars, Envelope, Setting, Tuned, Aloft, Stands, Nose
<1> QED BY <1>1, <1>2, <1>3, <1>4, <1>5, <1>6, <1>7, <1>8 DEF FlightNext

LEMMA EnvelopeMeans == Envelope => EnvelopeHolds /\ FlightTypeOK
<1> SUFFICES ASSUME Envelope PROVE EnvelopeHolds /\ FlightTypeOK
  OBVIOUS
<1>1. Tuned(tune) /\ goat \in Goat /\ Aloft(goat)
  BY DEF Envelope, Setting
<1>2. tune.minSpeed \in Int /\ tune.maxSpeed \in Int /\ goat.speed \in Int
  BY <1>1, TunedFields DEF Fields, Goat
<1>3. EnvelopeHolds
  BY <1>1, <1>2 DEF EnvelopeHolds, Aloft, Nose
<1>4. FlightTypeOK
  BY DEF FlightTypeOK, Envelope, Setting, Tuned
<1> QED BY <1>3, <1>4

LEMMA AlwaysEnvelope == FlightSpec => []Envelope
BY EnvelopeBegins, EnvelopeStep, PTL DEF FlightSpec

(* Whatever the tuning, the terrain, the frame times and the blasts, a     *)
(* powered flight never leaves its envelope: not under the ground, not     *)
(* over the ceiling, not outside the band of airspeeds, not with its nose  *)
(* beyond the clamp (EnvelopeHolds; step_fly, resolve_ground, config.rs).  *)
THEOREM EnvelopeAlwaysHolds == FlightSpec => []EnvelopeHolds
BY AlwaysEnvelope, EnvelopeMeans, PTL

(* Every variable keeps its type, the validated tuning every field of its  *)
(* table (Validate, Goat).                                                 *)
THEOREM TypeCorrect == FlightSpec => []FlightTypeOK
BY AlwaysEnvelope, EnvelopeMeans, PTL

(***************************************************************************)
(* ModHost: what loads from a directory installs from its packages.        *)
(***************************************************************************)

\* What a manifest declares.
LEMMA DeclaredIs ==
  ASSUME NEW raw
  PROVE  /\ \A p \in {raw.entry, raw.tuning} : p # None => p \in Declared(raw)
         /\ raw.wasm # None => raw.wasm \in Declared(raw)
         /\ \A k \in DOMAIN raw.assets : raw.assets[k].file \in Declared(raw)
BY DEF Declared

\* A source that gives the same bytes for every name a manifest declares gives
\* the manifest the same digest (`hash_manifest`).
LEMMA SameBytesSameDigest ==
  ASSUME NEW a, NEW b, NEW raw, \A p \in Declared(raw) : Read(a, p) = Read(b, p)
  PROVE  Digest(a, raw) = Digest(b, raw)
<1>1. \A p \in {raw.entry, raw.tuning} : p # None => ReadText(a, p) = ReadText(b, p)
  BY DeclaredIs DEF ReadText
<1>2. raw.wasm # None => ReadAsset(a, raw.wasm) = ReadAsset(b, raw.wasm)
  BY DeclaredIs DEF ReadAsset
<1>3. \A k \in DOMAIN raw.assets :
        ReadAsset(a, raw.assets[k].file) = ReadAsset(b, raw.assets[k].file)
  BY DeclaredIs DEF ReadAsset
<1>4. [k \in DOMAIN raw.assets |-> <<AssetName(raw, k), ReadAsset(a, raw.assets[k].file)>>]
        = [k \in DOMAIN raw.assets |-> <<AssetName(raw, k), ReadAsset(b, raw.assets[k].file)>>]
  BY <1>3
<1> DEFINE text(s, p) == IF p = None THEN <<>> ELSE <<ReadText(s, p)>>
           wasm(s) == IF raw.wasm = None THEN <<>> ELSE <<ReadAsset(s, raw.wasm)>>
           sounds(s) == [k \in DOMAIN raw.assets |->
                           <<AssetName(raw, k), ReadAsset(s, raw.assets[k].file)>>]
           head == <<raw.id, raw.version>>
<1>5. text(a, raw.entry) = text(b, raw.entry) /\ text(a, raw.tuning) = text(b, raw.tuning)
  BY <1>1
<1>6. wasm(a) = wasm(b)
  BY <1>2
<1>7. sounds(a) = sounds(b)
  BY <1>4
<1>8. \A s \in {a, b} : Digest(s, raw) = head \o text(s, raw.entry) \o text(s, raw.tuning)
                                           \o wasm(s) \o sounds(s)
  BY Zenon DEF Digest
<1> HIDE DEF text, wasm, sounds, head
<1> QED BY <1>5, <1>6, <1>7, <1>8

\* ... and everything it declares can be read there as well (`load_source`).
LEMMA SameBytesReadable ==
  ASSUME NEW a, NEW b, NEW raw, NEW mode, Readable(a, raw, mode),
         \A p \in Declared(raw) : Read(a, p) = Read(b, p)
  PROVE  Readable(b, raw, mode)
<1>1. \A p \in {raw.entry, raw.tuning} : p # None => ReadText(a, p) = ReadText(b, p)
  BY DeclaredIs DEF ReadText
<1>2. raw.wasm # None => ReadAsset(a, raw.wasm) = ReadAsset(b, raw.wasm)
  BY DeclaredIs DEF ReadAsset
<1>3. \A k \in DOMAIN raw.assets :
        ReadAsset(a, raw.assets[k].file) = ReadAsset(b, raw.assets[k].file)
  BY DeclaredIs DEF ReadAsset
<1>4. \A p \in {raw.entry, raw.tuning} \ {None} : Inside(p) /\ ReadText(b, p) # None
  BY <1>1 DEF Readable
<1>5. \A k \in DOMAIN raw.assets :
        Inside(raw.assets[k].file) /\ ReadAsset(b, raw.assets[k].file) # None
  BY <1>3 DEF Readable
<1>6. raw.wasm # None =>
        /\ Inside(raw.wasm) /\ ReadAsset(b, raw.wasm) # None
        /\ mode # "hash" => ReadAsset(b, raw.wasm).kind = "wasm"
  BY <1>2 DEF Readable
<1> QED BY <1>4, <1>5, <1>6, Zenon DEF Readable

\* What is read there as the manifest and by its names is what was read here.
LEMMA SameBytesInstall ==
  ASSUME NEW a, NEW b, Loads(a, "keep"), b # Missing,
         Read(b, ModJson) = Read(a, ModJson),
         \A p \in Declared(Read(a, ModJson)) : Read(a, p) = Read(b, p)
  PROVE  Installs(b, a, Read(a, ModJson))
<1>1. Readable(b, Read(a, ModJson), "keep")
  BY SameBytesReadable DEF Loads
<1>2. Digest(b, Read(a, ModJson)) = Digest(a, Read(a, ModJson))
  BY SameBytesSameDigest
<1> QED BY <1>1, <1>2 DEF Installs, Loads

\* Everything a manifest that loads declares was read.
LEMMA LoadedReads ==
  ASSUME NEW a, Loads(a, "keep")
  PROVE  /\ Read(a, ModJson) # None /\ Read(a, ModJson).kind = "manifest"
         /\ \A p \in Declared(Read(a, ModJson)) : Inside(p) /\ Read(a, p) # None
<1> DEFINE raw == Read(a, ModJson)
<1>1. WellFormed(raw) /\ Readable(a, raw, "keep")
  BY DEF Loads
<1> HIDE DEF raw
<1>2. \A p \in {raw.entry, raw.tuning} \ {None} : Inside(p) /\ Read(a, p) # None
  BY <1>1 DEF Readable, ReadText
<1>3. \A k \in DOMAIN raw.assets :
        Inside(raw.assets[k].file) /\ Read(a, raw.assets[k].file) # None
  BY <1>1 DEF Readable, ReadAsset
<1>4. raw.wasm # None => Inside(raw.wasm) /\ Read(a, raw.wasm) # None
  BY <1>1 DEF Readable, ReadAsset
<1>5. \A p \in Declared(raw) : Inside(p) /\ Read(a, p) # None
  BY <1>2, <1>3, <1>4 DEF Declared
<1>6. raw # None /\ raw.kind = "manifest"
  BY <1>1 DEF WellFormed
<1> QED BY <1>5, <1>6 DEF raw

LEMMA SourceIs ==
  ASSUME NEW k \in {"dir", "zip"}, NEW files
  PROVE  /\ Source(k, files).kind = k /\ Source(k, files).files = files
         /\ Source(k, files) # Missing
BY DEF Source, Missing

\* An archive of files in place is read as the directory was (`archive_dir`).
LEMMA ArchiveReads ==
  ASSUME NEW src, src.kind # "zip", NEW p, Read(src, p) # None
  PROVE  Read(Archive(src), p) = Read(src, p)
<1>1. p \in DOMAIN src.files
  BY DEF Read
<1>2. ReadZip(src.files, p) = src.files[p]
  <2>1. Candidates(src.files, p) = {p}
    BY <1>1 DEF Candidates
  <2>2. Cardinality({p}) = 1
    BY FS_Singleton
  <2> QED BY <2>1, <2>2 DEF ReadZip
<1>3. Archive(src) = Source("zip", src.files)
  BY DEF Archive
<1>4. Archive(src).kind = "zip" /\ Archive(src).files = src.files
  BY <1>3, SourceIs
<1> QED BY <1>1, <1>2, <1>4 DEF Read

LEMMA ArchiveInstalls ==
  ASSUME NEW src, Loads(src, "keep")
  PROVE  Installs(Archive(src), src, Read(src, ModJson))
<1>1. CASE src.kind = "zip"
  <2>1. Archive(src) = src
    BY <1>1 DEF Archive
  <2> QED BY <2>1 DEF Installs
<1>2. CASE src.kind # "zip"
  <2>1. Archive(src) # Missing
    BY <1>2, SourceIs DEF Archive
  <2>2. Read(Archive(src), ModJson) = Read(src, ModJson)
    BY <1>2, LoadedReads, ArchiveReads
  <2>3. \A p \in Declared(Read(src, ModJson)) : Read(src, p) = Read(Archive(src), p)
    BY <1>2, LoadedReads, ArchiveReads
  <2> QED BY <2>1, <2>2, <2>3, SameBytesInstall
<1> QED BY <1>1, <1>2

\* A tree has every file of its archive in its place (`materialize_zip`).
LEMMA TreeHas ==
  ASSUME NEW files, MaterializeZip(files) # Missing, NEW q \in DOMAIN files
  PROVE  LET tree == MaterializeZip(files)
         IN /\ tree.kind = "dir"
            /\ Unwrapped(files, q) \in DOMAIN tree.files
            /\ tree.files[Unwrapped(files, q)] = files[q]
<1> DEFINE place == [r \in DOMAIN files |-> Unwrapped(files, r)]
           laid == [p \in {place[r] : r \in DOMAIN files} |->
                      files[CHOOSE r \in DOMAIN files : place[r] = p]]
<1>1. /\ ~\E r, t \in DOMAIN files : r # t /\ place[r] = place[t]
      /\ MaterializeZip(files) = Source("dir", laid)
  BY Zenon DEF MaterializeZip
<1>2. place[q] = Unwrapped(files, q)
  OBVIOUS
<1> HIDE DEF place
<1>3. place[q] \in DOMAIN laid /\ laid[place[q]] = files[CHOOSE r \in DOMAIN files : place[r] = place[q]]
  OBVIOUS
<1>4. (CHOOSE r \in DOMAIN files : place[r] = place[q]) = q
  BY <1>1
<1> HIDE DEF laid
<1> QED BY <1>1, <1>2, <1>3, <1>4, SourceIs

\* What an archive finds in place, its tree finds.
LEMMA TreeReads ==
  ASSUME NEW src, src.kind = "zip", MaterializeZip(src.files) # Missing, NEW p,
         NEW q, Candidates(src.files, p) = {q}, Unwrapped(src.files, q) = p
  PROVE  Read(MaterializeZip(src.files), p) = Read(src, p)
<1>1. q \in DOMAIN src.files
  BY DEF Candidates
<1>2. ReadZip(src.files, p) = src.files[q]
  <2>1. Cardinality({q}) = 1
    BY FS_Singleton
  <2>2. (CHOOSE r \in {q} : TRUE) = q
    OBVIOUS
  <2> QED BY <2>1, <2>2 DEF ReadZip
<1> DEFINE tree == MaterializeZip(src.files)
<1>3. tree.kind = "dir" /\ p \in DOMAIN tree.files /\ tree.files[p] = src.files[q]
  BY <1>1, TreeHas
<1> HIDE DEF tree
<1>4. Read(tree, p) = Read(src, p)
  BY <1>2, <1>3 DEF Read
<1> QED BY <1>4 DEF tree

\* What comes after the wrapper, when a path is a sequence of names.
LEMMA UnwrappedIs ==
  ASSUME NEW files, Wrapper(files) \in Seq(STRING), NEW p \in Seq(STRING), p # <<>>
  PROVE  Wrapper(files) # <<>> => Unwrapped(files, Wrapper(files) \o p) = p
<1> SUFFICES ASSUME Wrapper(files) # <<>>
             PROVE  Unwrapped(files, Wrapper(files) \o p) = p
  OBVIOUS
<1> DEFINE w == Wrapper(files)
<1>1. w \in Seq(STRING) /\ w # <<>>
  OBVIOUS
<1>2. Unwrapped(files, w \o p) = IF w # <<>> /\ Len(w \o p) > Len(w) /\ SubSeq(w \o p, 1, Len(w)) = w
       THEN SubSeq(w \o p, Len(w) + 1, Len(w \o p)) ELSE w \o p
  BY DEF Unwrapped
<1> HIDE DEF w
<1>3. Len(w \o p) = Len(w) + Len(p) /\ Len(p) > 0 /\ Len(w) \in Nat /\ Len(p) \in Nat
      /\ w \o p \in Seq(STRING)
  BY <1>1
<1>4. SubSeq(w \o p, 1, Len(w)) = w
  <2>1. \A i \in 1..Len(w) : SubSeq(w \o p, 1, Len(w))[i] = w[i]
    BY <1>1, <1>3
  <2>2. SubSeq(w \o p, 1, Len(w)) \in Seq(STRING) /\ Len(SubSeq(w \o p, 1, Len(w))) = Len(w)
    BY <1>1, <1>3
  <2> HIDE DEF w
  <2> QED BY <1>1, <2>1, <2>2, SeqEqual
<1>5. SubSeq(w \o p, Len(w) + 1, Len(w \o p)) = p
  <2> DEFINE s == SubSeq(w \o p, Len(w) + 1, Len(w \o p))
  <2>1. \A i \in 1..Len(p) : s[i] = p[i]
    BY <1>1, <1>3
  <2>2. s \in Seq(STRING) /\ Len(s) = Len(p)
    BY <1>1, <1>3
  <2> HIDE DEF s
  <2>3. s = p
    BY <2>1, <2>2, SeqEqual
  <2> QED BY <2>3 DEF s
<1>6. Len(w \o p) > Len(w)
  BY <1>3
<1> QED BY <1>1, <1>2, <1>4, <1>5, <1>6 DEF w

\* The one mod.json of an archive lies in its wrapper (`common_wrapper`).
LEMMA WrapperIs ==
  ASSUME NEW files, DOMAIN files \subseteq Seq(STRING), IsFiniteSet(DOMAIN files),
         ReadZip(files, ModJson) # None
  PROVE  /\ Wrapper(files) \in Seq(STRING)
         /\ \E q : Candidates(files, ModJson) = {q} /\ Unwrapped(files, q) = ModJson
<1>1. CASE ModJson \in DOMAIN files
  <2>1. Wrapper(files) = <<>>
    BY <1>1 DEF Wrapper
  <2>2. Candidates(files, ModJson) = {ModJson}
    BY <1>1 DEF Candidates
  <2>3. Unwrapped(files, ModJson) = ModJson
    BY <2>1 DEF Unwrapped
  <2> QED BY <2>1, <2>2, <2>3
<1>2. CASE ModJson \notin DOMAIN files
  <2> DEFINE ending == {r \in DOMAIN files : EndsIn(r, ModJson)}
             up(q) == SubSeq(q, 1, Len(q) - 1)
  <2>1. Candidates(files, ModJson) = ending
    BY <1>2 DEF Candidates
  <2>2. Cardinality(ending) = 1
    BY <2>1 DEF ReadZip
  <2>3. PICK q : ending = {q}
    <3>1. IsFiniteSet(ending)
      BY FS_Subset
    <3> QED BY <2>2, <3>1, FS_Singleton
  <2>4. q \in Seq(STRING) /\ EndsIn(q, ModJson)
    BY <2>3
  <2>5. Wrapper(files) = up(q)
    <3>1. {up(r) : r \in ending} = {up(q)}
      BY <2>3
    <3>2. Cardinality({up(q)}) = 1 /\ (CHOOSE w \in {up(q)} : TRUE) = up(q)
      BY FS_Singleton
    <3> QED BY <1>2, <3>1, <3>2 DEF Wrapper
  <2>6. Len(q) \in Nat /\ Len(q) > 1 /\ SubSeq(q, Len(q), Len(q)) = ModJson
    <3>1. Len(ModJson) = 1
      BY DEF ModJson
    <3>2. Len(q) \in Nat
      BY <2>4
    <3>3. Len(q) - 1 + 1 = Len(q)
      BY <3>2
    <3> QED BY <2>4, <3>1, <3>2, <3>3 DEF EndsIn
  <2>7. up(q) \in Seq(STRING) /\ Len(up(q)) = Len(q) - 1 /\ up(q) # <<>>
    <3>1. up(q) \in Seq(STRING) /\ Len(up(q)) = Len(q) - 1
      BY <2>4, <2>6
    <3>2. Len(<<>>) = 0 /\ Len(q) - 1 # 0
      BY <2>6
    <3> HIDE DEF up
    <3> QED BY <3>1, <3>2
  <2>8. SubSeq(q, 1, Len(up(q))) = up(q) /\ Len(q) > Len(up(q)) /\ Len(up(q)) + 1 = Len(q)
    BY <2>6, <2>7
  <2>9. Unwrapped(files, q) = ModJson
    <3> HIDE DEF up
    <3> QED BY <2>5, <2>6, <2>7, <2>8 DEF Unwrapped
  <2> QED BY <2>1, <2>3, <2>5, <2>7, <2>9
<1> QED BY <1>1, <1>2

\* Laid out in place, the tree of an archive installs what the archive does.
LEMMA TreeInstalls ==
  ASSUME NEW src, src.kind = "zip", Loads(src, "keep"), Proper(src),
         InPlace(src, Read(src, ModJson))
  PROVE  Installs(Shared(src), src, Read(src, ModJson))
<1> DEFINE files == src.files
           raw == Read(src, ModJson)
           w == Wrapper(files)
<1>1. /\ MaterializeZip(files) # Missing
      /\ \A p \in Declared(raw) : Candidates(files, p) = {w \o p}
      /\ Shared(src) = MaterializeZip(files)
  BY DEF InPlace, Materialize, Shared
<1>2. raw # None /\ raw.kind = "manifest" /\ \A p \in Declared(raw) : Inside(p)
  BY LoadedReads
<1>3. ReadZip(files, ModJson) # None
  <2>1. raw = IF ReadZip(files, ModJson) = Huge THEN None ELSE ReadZip(files, ModJson)
    BY DEF Read
  <2> HIDE DEF raw
  <2> QED BY <1>2, <2>1
<1>4. DOMAIN files \subseteq Seq(STRING) /\ IsFiniteSet(DOMAIN files)
  BY DEF Proper, Loads
<1>5. w \in Seq(STRING)
  BY <1>3, <1>4, WrapperIs
<1>6. Declared(raw) \subseteq Seq(STRING)
  <2>1. PICK q : Candidates(files, ModJson) = {q}
    BY <1>3, <1>4, WrapperIs
  <2>2. q \in DOMAIN files
    BY <2>1 DEF Candidates
  <2>3. ReadZip(files, ModJson) = files[q]
    <3>1. Cardinality({q}) = 1 /\ (CHOOSE r \in {q} : TRUE) = q
      BY FS_Singleton
    <3> QED BY <2>1, <3>1 DEF ReadZip
  <2>4. raw = files[q]
    <3>1. raw = IF files[q] = Huge THEN None ELSE files[q]
      BY <2>3 DEF Read
    <3> HIDE DEF raw
    <3> QED BY <1>2, <3>1
  <2> HIDE DEF raw
  <2> QED BY <1>2, <2>2, <2>4 DEF Proper, Loads
<1>7. Read(MaterializeZip(files), ModJson) = raw
  BY <1>1, <1>3, <1>4, WrapperIs, TreeReads
<1>8. ASSUME NEW p \in Declared(raw) PROVE Read(src, p) = Read(MaterializeZip(files), p)
  <2>1. p \in Seq(STRING) /\ p # <<>>
    BY <1>2, <1>6 DEF Inside
  <2>2. Candidates(files, p) = {w \o p}
    BY <1>1
  <2>3. Unwrapped(files, w \o p) = p
    <3>1. CASE w = <<>>
      <4>1. w \o p = p
        BY <2>1, <3>1
      <4> QED BY <3>1, <4>1 DEF Unwrapped
    <3>2. CASE w # <<>>
      BY <1>5, <2>1, <3>2, UnwrappedIs
    <3> QED BY <3>1, <3>2
  <2> HIDE DEF w, raw
  <2> QED BY <1>1, <2>2, <2>3, TreeReads
<1> QED BY <1>1, <1>7, <1>8, SameBytesInstall

LEMMA SharedInstalls ==
  ASSUME NEW src, Loads(src, "keep"), Proper(src), InPlace(src, Read(src, ModJson))
  PROVE  Installs(Shared(src), src, Read(src, ModJson))
<1>1. CASE src.kind = "zip"
  BY <1>1, TreeInstalls
<1>2. CASE src.kind = "dir"
  <2>1. Shared(src) = src
    BY <1>2 DEF Shared
  <2> QED BY <2>1 DEF Installs
<1>3. CASE src.kind # "zip" /\ src.kind # "dir"
  <2>1. Shared(src) = Source("dir", src.files)
    BY <1>3 DEF Shared, Materialize
  <2>2. /\ Shared(src) # Missing /\ Shared(src).kind = "dir"
        /\ Shared(src).files = src.files
    BY <2>1, SourceIs
  <2>3. ASSUME NEW p PROVE Read(Shared(src), p) = Read(src, p)
    BY <1>3, <2>2 DEF Read
  <2> QED BY <2>2, <2>3, SameBytesInstall
<1> QED BY <1>1, <1>2, <1>3

-----------------------------------------------------------------------------
(* The directory is one the process may have. *)

DiskOK ==
  /\ Len(disk) \in Nat /\ disk = [s \in 1..Len(disk) |-> disk[s]]
  /\ Slots \subseteq DOMAIN Drafts
  /\ \A s \in Slots : Proper(disk[s])

LEMMA SeqIs ==
  ASSUME NEW n \in Nat, NEW f, DOMAIN f = 1..n, f = [k \in 1..n |-> f[k]]
  PROVE  Len(f) = n
<1> DEFINE T == {f[k] : k \in 1..n}
<1>1. f \in [1..n -> T]
  OBVIOUS
<1> HIDE DEF T
<1> QED BY <1>1

LEMMA DiskInit == Init => DiskOK
BY ModHostAssumption DEF Init, DiskOK, Slots

LEMMA DiskStep == DiskOK /\ [Next]_vars => DiskOK'
<1> SUFFICES ASSUME DiskOK, [Next]_vars PROVE DiskOK'
  OBVIOUS
<1>1. CASE disk' = disk
  BY <1>1, Zenon DEF DiskOK, Slots
<1>2. ASSUME NEW s \in Slots, NEW src \in Drafts[s], Write(s, src) PROVE DiskOK'
  <2> DEFINE n == Len(disk)
  <2>1. disk' = [disk EXCEPT ![s] = src] /\ n \in Nat /\ DOMAIN disk = 1..n
    BY <1>2 DEF DiskOK, Write
  <2> HIDE DEF n
  <2>2. DOMAIN disk' = 1..n /\ disk' = [k \in 1..n |-> disk'[k]]
    BY <2>1
  <2>3. Len(disk') = n
    BY <2>1, <2>2, SeqIs
  <2>4. \A t \in 1..n : Proper(disk'[t])
    <3> SUFFICES ASSUME NEW t \in 1..n PROVE Proper(disk'[t])
      OBVIOUS
    <3>1. CASE t = s
      <4>1. disk'[t] = src
        BY <2>1, <3>1
      <4>2. s \in DOMAIN Drafts
        BY DEF DiskOK
      <4> QED BY <4>1, <4>2, ModHostAssumption
    <3>2. CASE t # s
      BY <2>1, <3>2 DEF DiskOK, Slots
    <3> QED BY <3>1, <3>2
  <2> QED BY <2>1, <2>2, <2>3, <2>4 DEF DiskOK, Slots
<1>3. UNCHANGED vars \/ (\E s \in Slots : \E src \in Drafts[s] : Write(s, src)) \/ disk' = disk
  BY DEF Next, BootFromDisk, BootFromMemory, SetEnabled, AddPulled, EditorRuns, Enter, UseSeed,
         ApplyWorldMods, Leave, PollWatch, DriveWasm
<1> QED BY <1>1, <1>2, <1>3 DEF vars

\* What the directory loads, a joiner runs, whichever package of it is
\* installed (`archive_dir`, `materialize_zip`, `hash_manifest`).
THEOREM WhatLoadsInstalls == Spec => []PackagesInstall
<1>1. DiskOK => PackagesInstall
  BY ArchiveInstalls, SharedInstalls DEF DiskOK, PackagesInstall
<1> QED BY <1>1, DiskInit, DiskStep, PTL DEF Spec

-----------------------------------------------------------------------------
(* In order.                                                               *)

Rank(S, i) == Cardinality({j \in S : j < i})

LEMMA RankIs ==
  ASSUME NEW S \in SUBSET Nat, IsFiniteSet(S)
  PROVE  /\ Cardinality(S) \in Nat
         /\ \A i \in S : Rank(S, i) \in 0..Cardinality(S) - 1
         /\ \A i, j \in S : i # j => Rank(S, i) # Rank(S, j)
         /\ \A k \in 1..Cardinality(S) : \E i \in S : Rank(S, i) = k - 1
<1> DEFINE n == Cardinality(S)
           below(i) == {j \in S : j < i}
<1>1. n \in Nat
  BY FS_CardinalityType
<1>2. ASSUME NEW i \in S PROVE IsFiniteSet(below(i)) /\ Rank(S, i) = Cardinality(below(i)) /\ Rank(S, i) \in 0..n - 1
  <2>1. IsFiniteSet(S \ {i}) /\ Cardinality(S \ {i}) = n - 1
    BY FS_RemoveElement
  <2>2. below(i) \in SUBSET (S \ {i})
    OBVIOUS
  <2>3. IsFiniteSet(below(i)) /\ Cardinality(below(i)) <= n - 1
    BY <2>1, <2>2, FS_Subset
  <2>4. Cardinality(below(i)) \in Nat
    BY <2>3, FS_CardinalityType
  <2> QED BY <1>1, <2>3, <2>4 DEF Rank
<1>2b. \A i \in S : Rank(S, i) \in Nat
  <2> HIDE DEF n
  <2>1. \A i \in S : Rank(S, i) \in 0..n - 1
    BY <1>2
  <2> QED BY <1>1, <2>1
<1>3. ASSUME NEW i \in S, NEW j \in S, i < j PROVE Rank(S, i) < Rank(S, j)
  <2>1. IsFiniteSet(below(i) \cup {i}) /\ Cardinality(below(i) \cup {i}) = Cardinality(below(i)) + 1
    <3>1. i \notin below(i)
      OBVIOUS
    <3> QED BY <1>2, <3>1, FS_AddElement
  <2>2. below(i) \cup {i} \in SUBSET below(j)
    <3>1. i \in Nat /\ j \in Nat /\ \A x \in S : x \in Nat
      OBVIOUS
    <3>2. \A x \in S : x < i => x < j
      BY <1>3, <3>1
    <3> QED BY <1>3, <3>2
  <2>3. Cardinality(below(i) \cup {i}) <= Cardinality(below(j))
    BY <1>2, <2>2, FS_Subset
  <2>4. Rank(S, i) \in Int /\ Rank(S, j) \in Int
    BY <1>2b
  <2>5. Rank(S, i) = Cardinality(below(i)) /\ Rank(S, j) = Cardinality(below(j))
    BY <1>2
  <2> HIDE DEF below
  <2> QED BY <2>1, <2>3, <2>4, <2>5
<1>4. \A i, j \in S : i # j => Rank(S, i) # Rank(S, j)
  <2> SUFFICES ASSUME NEW i \in S, NEW j \in S, i # j PROVE Rank(S, i) # Rank(S, j)
    OBVIOUS
  <2>1. Rank(S, i) \in Int /\ Rank(S, j) \in Int
    BY <1>2b
  <2>2. i < j \/ j < i
    OBVIOUS
  <2> QED BY <1>3, <2>1, <2>2
<1> DEFINE f == [i \in S |-> Rank(S, i)]
<1>5. f \in [S -> 0..n - 1]
  BY <1>2
<1>6. \A i, j \in S : f[i] = f[j] => i = j
  BY <1>4
<1>7. IsFiniteSet(0..n - 1) /\ Cardinality(0..n - 1) = n
  <2> HIDE DEF n
  <2>1. IsFiniteSet(0..n - 1) /\ Cardinality(0..n - 1) = IF 0 > n - 1 THEN 0 ELSE (n - 1) - 0 + 1
    BY <1>1, FS_Interval
  <2> QED BY <1>1, <2>1
<1>8. f \in Surjection(S, 0..n - 1)
  <2> HIDE DEF f, n
  <2>1. f \in Injection(S, 0..n - 1)
    BY <1>5, <1>6 DEF Injection, IsInjective
  <2> QED BY <1>7, <2>1, FS_Injection DEF n
<1>9. \A k \in 1..n : \E i \in S : f[i] = k - 1
  <2> HIDE DEF f
  <2>1. \A k \in 1..n : k - 1 \in 0..n - 1
    BY <1>1
  <2> QED BY <1>8, <2>1 DEF Surjection
<1> QED BY <1>1, <1>2, <1>4, <1>9

\* A finite set of numbers is listed, each of them once.
LEMMA InOrderIs ==
  ASSUME NEW S \in SUBSET Nat, IsFiniteSet(S)
  PROVE  /\ Cardinality(S) \in Nat
         /\ InOrder(S) \in [1..Cardinality(S) -> S]
         /\ \A j, k \in 1..Cardinality(S) : InOrder(S)[j] = InOrder(S)[k] => j = k
         /\ \A i \in S : \E k \in 1..Cardinality(S) : InOrder(S)[k] = i
<1> DEFINE n == Cardinality(S)
<1>1. n \in Nat
  BY RankIs
<1>2. InOrder(S) = [k \in 1..n |-> CHOOSE i \in S : Rank(S, i) = k - 1]
  BY DEF InOrder, Rank
<1>3. ASSUME NEW k \in 1..n PROVE InOrder(S)[k] \in S /\ Rank(S, InOrder(S)[k]) = k - 1
  <2>1. \E i \in S : Rank(S, i) = k - 1
    BY RankIs
  <2>2. InOrder(S)[k] = CHOOSE i \in S : Rank(S, i) = k - 1
    BY <1>2
  <2> QED BY <2>1, <2>2
<1>4. InOrder(S) \in [1..n -> S]
  BY <1>2, <1>3
<1>5. \A j, k \in 1..n : InOrder(S)[j] = InOrder(S)[k] => j = k
  <2> SUFFICES ASSUME NEW j \in 1..n, NEW k \in 1..n, InOrder(S)[j] = InOrder(S)[k] PROVE j = k
    OBVIOUS
  <2>1. j - 1 = k - 1
    BY <1>3
  <2> QED BY <2>1
<1>6. ASSUME NEW i \in S PROVE \E k \in 1..n : InOrder(S)[k] = i
  <2>1. Rank(S, i) \in 0..n - 1
    BY RankIs
  <2>2. PICK k \in 1..n : Rank(S, i) = k - 1
    <3>1. Rank(S, i) + 1 \in 1..n /\ Rank(S, i) = (Rank(S, i) + 1) - 1
      BY <1>1, <2>1
    <3> QED BY <3>1
  <2>3. InOrder(S)[k] = i
    BY <1>3, <2>2, RankIs
  <2> QED BY <2>3
<1> QED BY <1>1, <1>4, <1>5, <1>6

LEMMA InOrderFinite ==
  ASSUME NEW n \in Nat, NEW S \in SUBSET (1..n)
  PROVE  S \in SUBSET Nat /\ IsFiniteSet(S)
<1>1. IsFiniteSet(1..n)
  BY FS_Interval
<1>2. IsFiniteSet(S)
  BY <1>1, FS_Subset
<1> QED BY <1>2

\* A sequence of n elements, whatever they are.
Lists(f, n) == DOMAIN f = 1..n /\ f = [k \in 1..n |-> f[k]]

\* What is kept of a list is on the list, and what is on it at those places is
\* kept.
LEMMA ThoseIs ==
  ASSUME NEW s, NEW n \in Nat, NEW P \in SUBSET (1..n)
  PROVE  LET t == Those(s, P)
             c == Cardinality(P)
         IN /\ c \in Nat /\ Lists(t, c)
            /\ \A k \in 1..c : \E p \in P : t[k] = s[p]
            /\ \A p \in P : \E k \in 1..c : t[k] = s[p]
            /\ (\A p, q \in P : p # q => s[p] # s[q]) => \A j, k \in 1..c : t[j] = t[k] => j = k
<1> DEFINE c == Cardinality(P)
           at == InOrder(P)
           t == Those(s, P)
<1>1. /\ c \in Nat /\ at \in [1..c -> P]
      /\ \A j, k \in 1..c : at[j] = at[k] => j = k
      /\ \A i \in P : \E k \in 1..c : at[k] = i
  BY InOrderFinite, InOrderIs
<1>2. t = [k \in 1..c |-> s[at[k]]]
  <2>1. t = [k \in DOMAIN at |-> s[at[k]]]
    BY DEF Those
  <2> QED BY <1>1, <2>1
<1> HIDE DEF t, at, c
<1>3. Lists(t, c)
  BY <1>2 DEF Lists
<1>4. \A k \in 1..c : at[k] \in P /\ t[k] = s[at[k]]
  BY <1>1, <1>2
<1>5. \A p \in P : \E k \in 1..c : t[k] = s[p]
  BY <1>1, <1>4
<1>6. (\A p, q \in P : p # q => s[p] # s[q]) => \A j, k \in 1..c : t[j] = t[k] => j = k
  <2> SUFFICES ASSUME \A p, q \in P : p # q => s[p] # s[q], NEW j \in 1..c, NEW k \in 1..c, t[j] = t[k]
               PROVE  j = k
    OBVIOUS
  <2>1. at[j] \in P /\ at[k] \in P /\ s[at[j]] = s[at[k]]
    BY <1>4
  <2>2. at[j] = at[k]
    BY <2>1
  <2> QED BY <1>1, <2>2
<1> QED BY <1>1, <1>3, <1>4, <1>5, <1>6 DEF t, c

-----------------------------------------------------------------------------
(* One step after another: whatever the step is, the run of it exists, and *)
(* what every step keeps the run keeps.                                    *)

PlaceOne(waits, done) ==
  IF Ready(waits, done) = {} THEN done ELSE Append(done, LeastId(Ready(waits, done)))

Act(op, h, i) ==
  IF op = "load" THEN LoadOne(h, i)
  ELSE IF op = "reload" THEN ReloadOne(h, i)
  ELSE IF op = "insert" THEN Inserted(h, i)
  ELSE PlaceOne(i, h)

Steps(g, op, h, n, l) ==
  /\ DOMAIN g = 0..n /\ g = [i \in 0..n |-> g[i]]
  /\ g[0] = h /\ \A i \in 1..n : g[i] = Act(op, g[i - 1], l[i])

LEMMA StepsExist ==
  ASSUME NEW op, NEW h, NEW l, NEW n \in Nat
  PROVE  \E g : Steps(g, op, h, n, l)
<1> DEFINE bad == {k \in 0..n : ~\E g : Steps(g, op, h, k, l)}
<1>2. ASSUME bad # {} PROVE FALSE
  <2>0. bad \in SUBSET Nat
    OBVIOUS
  <2> HIDE DEF bad
  <2>1. PICK m \in bad : \A k \in bad : m <= k
    BY <1>2, <2>0, LeastNatural
  <2>2. m \in 0..n /\ m # 0
    <3>1. Steps([i \in 0..0 |-> h], op, h, 0, l)
      BY DEF Steps
    <3> QED BY <2>1, <3>1 DEF bad
  <2>3. PICK k \in 0..n - 1 : m = k + 1
    BY <2>2
  <2>4. k \notin bad /\ k \in 0..n
    BY <2>1, <2>3
  <2>5. PICK g : Steps(g, op, h, k, l)
    BY <2>4 DEF bad
  <2> DEFINE last == Act(op, g[k], l[m])
             f == [i \in 0..m |-> IF i = m THEN last ELSE g[i]]
  <2>8. \A i \in 1..m : f[i] = Act(op, f[i - 1], l[i])
    <3> SUFFICES ASSUME NEW i \in 1..m PROVE f[i] = Act(op, f[i - 1], l[i])
      OBVIOUS
    <3>1. f[i - 1] = g[i - 1]
      BY <2>3
    <3>2. CASE i = m
      <4>1. f[i] = Act(op, g[k], l[m]) /\ i - 1 = k
        BY <2>3, <3>2
      <4> HIDE DEF f
      <4> QED BY <3>1, <3>2, <4>1
    <3>3. CASE i # m
      <4>1. i \in 1..k /\ f[i] = g[i]
        BY <2>3, <3>3
      <4> HIDE DEF f
      <4> QED BY <2>5, <3>1, <4>1 DEF Steps
    <3> QED BY <3>2, <3>3
  <2>9. f[0] = h
    BY <2>3, <2>5 DEF Steps
  <2>10. DOMAIN f = 0..m /\ f = [i \in 0..m |-> f[i]]
    OBVIOUS
  <2> HIDE DEF f
  <2>11. Steps(f, op, h, m, l)
    BY <2>8, <2>9, <2>10 DEF Steps
  <2> QED BY <2>1, <2>11 DEF bad
<1>3. n \in 0..n
  OBVIOUS
<1> QED BY <1>2, <1>3

LEMMA Climb ==
  ASSUME NEW n \in Nat, NEW G, 0 \in G, \A i \in 1..n : i - 1 \in G => i \in G
  PROVE  \A i \in 0..n : i \in G
<1> DEFINE bad == {k \in 0..n : k \notin G}
<1>1. ASSUME bad # {} PROVE FALSE
  <2>0. bad \in SUBSET Nat
    OBVIOUS
  <2> HIDE DEF bad
  <2>1. PICK m \in bad : \A k \in bad : m <= k
    BY <1>1, <2>0, LeastNatural
  <2>2. m \in 1..n /\ m \notin G
    BY <2>1 DEF bad
  <2>3. m - 1 \notin bad /\ m - 1 \in 0..n
    BY <2>1, <2>2
  <2> QED BY <2>2, <2>3 DEF bad
<1> QED BY <1>1

PlaceRun(waits) ==
  CHOOSE f : f = [n \in 0..Cardinality(DOMAIN waits) |->
                    IF n = 0 THEN <<>> ELSE PlaceOne(waits, f[n - 1])]

LEMMA PlacedRuns ==
  ASSUME NEW waits, Cardinality(DOMAIN waits) \in Nat
  PROVE  LET all == Cardinality(DOMAIN waits)
             f == PlaceRun(waits)
         IN /\ Placed(waits) = f[all]
            /\ f[0] = <<>> /\ \A n \in 1..all : f[n] = PlaceOne(waits, f[n - 1])
<1> DEFINE all == Cardinality(DOMAIN waits)
           f == PlaceRun(waits)
           l == [n \in 1..all |-> waits]
<1>1. Placed(waits) = f[all]
  BY Zenon DEF Placed, PlaceRun, PlaceOne
<1>2. PICK g : Steps(g, "place", <<>>, all, l)
  BY StepsExist
<1>3. \A n \in 1..all : g[n] = PlaceOne(waits, g[n - 1])
  BY <1>2 DEF Steps, Act
<1>4. g = [n \in 0..all |-> IF n = 0 THEN <<>> ELSE PlaceOne(waits, g[n - 1])]
  <2> HIDE DEF all
  <2>1. \A n \in 0..all : n = 0 \/ n \in 1..all
    OBVIOUS
  <2>2. \A n \in 0..all : g[n] = IF n = 0 THEN <<>> ELSE PlaceOne(waits, g[n - 1])
    BY <1>2, <1>3, <2>1 DEF Steps
  <2> QED BY <1>2, <2>2 DEF Steps
<1>5. f = [n \in 0..all |-> IF n = 0 THEN <<>> ELSE PlaceOne(waits, f[n - 1])]
  BY <1>4, Zenon DEF PlaceRun
<1> HIDE DEF f
<1>6. \A n \in 0..all : f[n] = IF n = 0 THEN <<>> ELSE PlaceOne(waits, f[n - 1])
  BY <1>5, Zenon
<1> HIDE DEF all
<1>7. f[0] = <<>> /\ \A n \in 1..all : f[n] = PlaceOne(waits, f[n - 1])
  BY <1>6 DEF all
<1> QED BY <1>1, <1>7 DEF all, f

-----------------------------------------------------------------------------
(* The order.                                                              *)

\* done lists some of the mods once each, every one after those it waits for.
Layered(waits, done) ==
  /\ done \in Seq(DOMAIN waits)
  /\ \A j, k \in 1..Len(done) : done[j] = done[k] => j = k
  /\ \A k \in 1..Len(done) : \A i \in waits[done[k]] : \E j \in 1..k - 1 : done[j] = i

LEMMA LeastIdIs ==
  ASSUME NEW S \in SUBSET Nat, S # {}
  PROVE  LeastId(S) \in S
<1>1. \E i \in S : \A j \in S : i <= j
  BY LeastNatural
<1> QED BY <1>1 DEF LeastId

LEMMA ToSetIs ==
  ASSUME NEW T, NEW s \in Seq(T)
  PROVE  ToSet(s) = {s[i] : i \in 1..Len(s)} /\ ToSet(s) \subseteq T
BY DEF ToSet

LEMMA PlaceOneLayered ==
  ASSUME NEW waits, DOMAIN waits \in SUBSET Nat, NEW done, Layered(waits, done),
         Ready(waits, done) # {}
  PROVE  /\ Layered(waits, PlaceOne(waits, done))
         /\ Len(PlaceOne(waits, done)) = Len(done) + 1
<1> DEFINE x == LeastId(Ready(waits, done))
           n == Len(done)
           next == PlaceOne(waits, done)
           all == DOMAIN waits
<1>1. n \in Nat /\ done \in Seq(all) /\ ToSet(done) = {done[i] : i \in 1..n}
  BY ToSetIs DEF Layered
<1>2. x \in all /\ x \notin ToSet(done) /\ waits[x] \subseteq ToSet(done)
  <2>1. x \in Ready(waits, done)
    <3>1. Ready(waits, done) \in SUBSET Nat
      BY DEF Ready
    <3> QED BY <3>1, LeastIdIs
  <2> QED BY <2>1 DEF Ready
<1>3. next = Append(done, x)
  BY DEF PlaceOne
<1>4. Layered(waits, done)
  OBVIOUS
<1> HIDE DEF x, n, next, all
<1>5. /\ next \in Seq(all) /\ Len(next) = n + 1 /\ next[n + 1] = x
      /\ \A k \in 1..n : next[k] = done[k]
  BY <1>1, <1>2, <1>3 DEF n
<1>6. \A k \in 1..n + 1 : k \in 1..n \/ k = n + 1
  BY <1>1
<1>7. \A k \in 1..n : next[k] # x
  BY <1>1, <1>2, <1>5
<1>8. \A j, k \in 1..n + 1 : next[j] = next[k] => j = k
  <2> SUFFICES ASSUME NEW j \in 1..n + 1, NEW k \in 1..n + 1, next[j] = next[k] PROVE j = k
    OBVIOUS
  <2>1. CASE j \in 1..n /\ k \in 1..n
    BY <2>1, <1>4, <1>5 DEF Layered, n
  <2>2. CASE j = n + 1 /\ k \in 1..n
    BY <2>2, <1>5, <1>7
  <2>3. CASE j \in 1..n /\ k = n + 1
    BY <2>3, <1>5, <1>7
  <2> QED BY <1>6, <2>1, <2>2, <2>3
<1>9. \A k \in 1..n + 1 : \A i \in waits[next[k]] : \E j \in 1..k - 1 : next[j] = i
  <2> SUFFICES ASSUME NEW k \in 1..n + 1, NEW i \in waits[next[k]]
               PROVE  \E j \in 1..k - 1 : next[j] = i
    OBVIOUS
  <2>1. CASE k \in 1..n
    <3>1. PICK j \in 1..k - 1 : done[j] = i
      BY <2>1, <1>4, <1>5 DEF Layered, n
    <3>2. j \in 1..n
      BY <1>1, <2>1
    <3> QED BY <1>5, <3>1, <3>2
  <2>2. CASE k = n + 1
    <3>1. i \in ToSet(done)
      BY <2>2, <1>2, <1>5
    <3>2. PICK j \in 1..n : done[j] = i
      BY <1>1, <3>1
    <3>3. j \in 1..k - 1
      BY <1>1, <2>2
    <3> QED BY <1>5, <3>2, <3>3
  <2> QED BY <1>6, <2>1, <2>2
<1> QED BY <1>5, <1>8, <1>9 DEF Layered, n, next, all

\* `order` places every mod that no cycle holds up, after the ones it waits for.
LEMMA PlacedIs ==
  ASSUME NEW waits, DOMAIN waits \in SUBSET Nat, IsFiniteSet(DOMAIN waits)
  PROVE  Layered(waits, Placed(waits)) /\ Ready(waits, Placed(waits)) = {}
<1> DEFINE n == Cardinality(DOMAIN waits)
           f == PlaceRun(waits)
           good(i) == /\ Layered(waits, f[i])
                      /\ Len(f[i]) = i \/ Ready(waits, f[i]) = {}
           G == {i \in 0..n : good(i)}
<1>1. n \in Nat
  BY FS_CardinalityType
<1>2. Placed(waits) = f[n] /\ f[0] = <<>> /\ \A k \in 1..n : f[k] = PlaceOne(waits, f[k - 1])
  BY <1>1, PlacedRuns
<1> HIDE DEF n, f
<1>3. 0 \in G
  <2>1. Layered(waits, <<>>) /\ Len(<<>>) = 0
    BY DEF Layered
  <2> QED BY <1>1, <1>2, <2>1
<1>4. \A k \in 1..n : k - 1 \in G => k \in G
  <2> SUFFICES ASSUME NEW k \in 1..n, k - 1 \in G PROVE k \in G
    OBVIOUS
  <2>0. good(k - 1)
    OBVIOUS
  <2>1. f[k] = PlaceOne(waits, f[k - 1])
    BY <1>2
  <2>2. CASE Ready(waits, f[k - 1]) = {}
    <3>1. f[k] = f[k - 1]
      BY <2>1, <2>2 DEF PlaceOne
    <3>2. good(k)
      BY <2>0, <2>2, <3>1
    <3> QED BY <1>1, <3>2
  <2>3. CASE Ready(waits, f[k - 1]) # {}
    <3>1. Layered(waits, f[k]) /\ Len(f[k]) = Len(f[k - 1]) + 1
      BY <2>0, <2>1, <2>3, PlaceOneLayered
    <3>2. Len(f[k - 1]) = k - 1
      BY <2>0, <2>3
    <3>3. Len(f[k]) = k
      BY <3>1, <3>2
    <3>4. good(k)
      BY <3>1, <3>3
    <3> QED BY <1>1, <3>4
  <2> QED BY <2>2, <2>3
<1> HIDE DEF G
<1>5. n \in G
  BY <1>1, <1>3, <1>4, Climb
<1>6. good(n)
  BY <1>5 DEF G
<1> DEFINE p == f[n]
<1>7. ASSUME Len(p) = n PROVE Ready(waits, p) = {}
  <2>1. p \in Seq(DOMAIN waits) /\ \A j, k \in 1..n : p[j] = p[k] => j = k
    BY <1>6, <1>7 DEF Layered
  <2>2. p \in [1..n -> DOMAIN waits]
    BY <1>7, <2>1
  <2>3. p \in Injection(1..n, DOMAIN waits)
    BY <2>1, <2>2 DEF Injection, IsInjective
  <2>4. IsFiniteSet(1..n) /\ Cardinality(1..n) = n
    BY <1>1, FS_Interval
  <2>5. p \in Surjection(1..n, DOMAIN waits)
    BY <2>3, <2>4, FS_Injection DEF n
  <2>6. \A i \in DOMAIN waits : \E k \in 1..n : p[k] = i
    BY <2>5 DEF Surjection
  <2>7. ToSet(p) = {p[i] : i \in 1..n}
    BY <1>7, <2>1, ToSetIs
  <2> HIDE DEF p
  <2>8. DOMAIN waits \ ToSet(p) = {}
    BY <2>6, <2>7
  <2> QED BY <2>8 DEF Ready
<1> QED BY <1>2, <1>6, <1>7

\* What a cycle leaves over comes last: the order lists every mod once, and one
\* that comes before a mod it waits for is left over, as some of those are.
LEMMA OrderOfIdsIs ==
  ASSUME NEW waits, DOMAIN waits \in SUBSET Nat, IsFiniteSet(DOMAIN waits)
  PROVE  LET all == DOMAIN waits
             n == Cardinality(all)
             o == OrderOfIds(waits)
             over == all \ ToSet(Placed(waits))
         IN /\ n \in Nat /\ o \in [1..n -> all]
            /\ \A j, k \in 1..n : o[j] = o[k] => j = k
            /\ \A i \in all : \E k \in 1..n : o[k] = i
            /\ \A j, k \in 1..n : j < k /\ o[k] \in waits[o[j]] => o[j] \in over
            /\ \A i \in over : ~(waits[i] \subseteq all \ over)
<1> DEFINE all == DOMAIN waits
           p == Placed(waits)
           over == all \ ToSet(p)
           m == Len(p)
           q == InOrder(over)
           c == Cardinality(over)
           n == Cardinality(all)
           o == OrderOfIds(waits)
<1>1. /\ p \in Seq(all) /\ m \in Nat /\ ToSet(p) = {p[i] : i \in 1..m} /\ ToSet(p) \subseteq all
      /\ \A j, k \in 1..m : p[j] = p[k] => j = k
      /\ \A k \in 1..m : \A i \in waits[p[k]] : \E j \in 1..k - 1 : p[j] = i
  BY PlacedIs, ToSetIs DEF Layered
<1>2. \A i \in over : ~(waits[i] \subseteq ToSet(p))
  BY PlacedIs DEF Ready
<1>3. ToSet(p) = all \ over
  BY <1>1
<1>4. over \in SUBSET Nat /\ IsFiniteSet(over)
  BY FS_Subset
<1>5. /\ c \in Nat /\ q \in [1..c -> over]
      /\ \A j, k \in 1..c : q[j] = q[k] => j = k
      /\ \A i \in over : \E k \in 1..c : q[k] = i
  <2> HIDE DEF over
  <2> QED BY <1>4, InOrderIs
<1>6. o = p \o q
  BY Zenon DEF OrderOfIds
<1>7. over \subseteq all /\ \A i \in over : i \notin ToSet(p)
  OBVIOUS
<1> HIDE DEF p, over, m, q, c, o
<1>8. q \in Seq(all) /\ Len(q) = c /\ Len(p) = m
  BY <1>5, <1>7 DEF m
<1>9. /\ o \in [1..m + c -> all]
      /\ \A k \in 1..m : o[k] = p[k]
      /\ \A k \in 1..c : o[m + k] = q[k]
  <2>0. p \in Seq(all) /\ q \in Seq(all)
    BY <1>1, <1>8
  <2>1. o \in Seq(all) /\ Len(o) = m + c
    <3> HIDE DEF all
    <3>1. Len(p \o q) = Len(p) + Len(q) /\ p \o q \in Seq(all)
      BY <2>0
    <3> QED BY <1>6, <1>8, <3>1
  <2>2. ASSUME NEW k \in 1..m PROVE o[k] = p[k]
    <3>1. k \in 1..Len(p) + Len(q) /\ k <= Len(p)
      BY <1>1, <1>5, <1>8
    <3> QED BY <1>1, <1>6, <1>8, <3>1
  <2>3. ASSUME NEW k \in 1..c PROVE o[m + k] = q[k]
    <3>1. m + k \in 1..Len(p) + Len(q) /\ m + k > Len(p) /\ m + k - Len(p) = k
      BY <1>1, <1>5, <1>8
    <3> QED BY <1>1, <1>6, <1>8, <3>1
  <2> QED BY <1>1, <1>5, <2>1, <2>2, <2>3
<1>10. \A k \in 1..m + c : k \in 1..m \/ \E h \in 1..c : k = m + h
  <2> SUFFICES ASSUME NEW k \in 1..m + c, ~(k \in 1..m) PROVE \E h \in 1..c : k = m + h
    OBVIOUS
  <2>1. k - m \in 1..c /\ k = m + (k - m)
    BY <1>1, <1>5
  <2> QED BY <2>1
<1>11. \A k \in 1..m : o[k] \in ToSet(p)
  BY <1>1, <1>9
<1>12. \A h \in 1..c : o[m + h] \in over
  BY <1>5, <1>9
<1>13. \A j, k \in 1..m + c : o[j] = o[k] => j = k
  <2> SUFFICES ASSUME NEW j \in 1..m + c, NEW k \in 1..m + c, o[j] = o[k] PROVE j = k
    OBVIOUS
  <2>1. CASE j \in 1..m /\ k \in 1..m
    BY <2>1, <1>1, <1>9
  <2>2. CASE j \in 1..m /\ ~(k \in 1..m)
    BY <2>2, <1>7, <1>10, <1>11, <1>12
  <2>3. CASE ~(j \in 1..m) /\ k \in 1..m
    BY <2>3, <1>7, <1>10, <1>11, <1>12
  <2>4. CASE ~(j \in 1..m) /\ ~(k \in 1..m)
    <3>1. PICK x \in 1..c : j = m + x
      BY <2>4, <1>10
    <3>2. PICK y \in 1..c : k = m + y
      BY <2>4, <1>10
    <3>3. q[x] = q[y]
      BY <1>9, <3>1, <3>2
    <3>4. x = y
      BY <1>5, <3>3
    <3> QED BY <3>1, <3>2, <3>4
  <2> QED BY <2>1, <2>2, <2>3, <2>4
<1>14. \A i \in all : \E k \in 1..m + c : o[k] = i
  <2> SUFFICES ASSUME NEW i \in all PROVE \E k \in 1..m + c : o[k] = i
    OBVIOUS
  <2>1. CASE i \in over
    <3>1. PICK k \in 1..c : q[k] = i
      BY <2>1, <1>5
    <3>2. m + k \in 1..m + c
      BY <1>1, <1>5
    <3> QED BY <1>9, <3>1, <3>2
  <2>2. CASE i \notin over
    <3>1. PICK k \in 1..m : p[k] = i
      BY <2>2, <1>1, <1>3
    <3>2. k \in 1..m + c
      BY <1>1, <1>5
    <3> QED BY <1>9, <3>1, <3>2
  <2> QED BY <2>1, <2>2
<1>15. m + c = n
  <2>1. IsFiniteSet(1..m + c) /\ Cardinality(1..m + c) = m + c
    <3>1. m + c \in Nat
      BY <1>1, <1>5
    <3> QED BY <3>1, FS_Interval
  <2>2. o \in Surjection(1..m + c, all) /\ o \in Injection(1..m + c, all)
    BY <1>9, <1>13, <1>14 DEF Surjection, Injection, IsInjective
  <2>3. Cardinality(all) = Cardinality(1..m + c)
    BY <2>1, <2>2, FS_Surjection
  <2> QED BY <2>1, <2>3
<1>16. \A j, k \in 1..m + c : j < k /\ o[k] \in waits[o[j]] => o[j] \in over
  <2> SUFFICES ASSUME NEW j \in 1..m + c, NEW k \in 1..m + c, j < k, o[k] \in waits[o[j]]
               PROVE  o[j] \in over
    OBVIOUS
  <2>1. CASE j \in 1..m
    <3>1. PICK h \in 1..j - 1 : p[h] = o[k]
      BY <2>1, <1>1, <1>9
    <3>2. h \in 1..m /\ h \in 1..m + c /\ h # k
      BY <1>1, <1>5, <2>1
    <3>3. o[h] = o[k]
      BY <1>9, <3>1, <3>2
    <3> QED BY <1>13, <3>2, <3>3
  <2>2. CASE ~(j \in 1..m)
    BY <2>2, <1>10, <1>12
  <2> QED BY <2>1, <2>2
<1>17. n \in Nat
  BY FS_CardinalityType
<1>18. \A i \in over : ~(waits[i] \subseteq all \ over)
  BY <1>2, <1>3
<1> HIDE DEF n, all
<1>19. /\ n \in Nat /\ o \in [1..n -> all]
       /\ \A j, k \in 1..n : o[j] = o[k] => j = k
       /\ \A i \in all : \E k \in 1..n : o[k] = i
       /\ \A j, k \in 1..n : j < k /\ o[k] \in waits[o[j]] => o[j] \in over
  BY <1>9, <1>13, <1>14, <1>15, <1>16, <1>17
<1> QED BY <1>18, <1>19 DEF n, all, o, over, p

-----------------------------------------------------------------------------
(* The loader's list.                                                      *)

\* A list of n mods with the ids they may have.
ListOf(ms, n) ==
  Lists(ms, n) /\ \A k \in 1..n : ms[k].id \in Ids

LEMMA IdsFinite ==
  ASSUME NEW S \in SUBSET Ids
  PROVE  S \in SUBSET Nat /\ IsFiniteSet(S) /\ Cardinality(S) \in Nat
<1>1. IsFiniteSet(1..MaxId)
  BY PackagesAssumption, FS_Interval
<1>2. IsFiniteSet(S)
  BY <1>1, FS_Subset DEF Ids
<1>3. S \in SUBSET Nat
  BY DEF Ids
<1> QED BY <1>2, <1>3, FS_CardinalityType

LEMMA EmptyConcat ==
  ASSUME NEW n \in Nat, NEW f, Lists(f, n)
  PROVE  <<>> \o f = f
<1> DEFINE T == {f[k] : k \in 1..n}
<1>1. f \in Seq(T)
  <2>1. f \in [1..n -> T]
    BY DEF Lists
  <2> HIDE DEF T
  <2> QED BY <2>1
<1> HIDE DEF T
<1> QED BY <1>1

LEMMA FirstIs ==
  ASSUME NEW n \in Nat, NEW ms, ListOf(ms, n), NEW i \in IdsOf(ms)
  PROVE  /\ First(ms, i).id = i
         /\ \E k \in 1..n : First(ms, i) = ms[k]
<1> DEFINE at == {k \in 1..n : ms[k].id = i}
<1>1. at \in SUBSET Nat /\ at # {}
  BY DEF IdsOf, ListOf, Lists
<1>2. PICK k \in at : \A j \in at : k <= j
  <2> HIDE DEF at
  <2> QED BY <1>1, LeastNatural
<1>3. \E j \in DOMAIN ms : ms[j].id = i /\ \A h \in DOMAIN ms : ms[h].id = i => j <= h
  BY <1>2 DEF ListOf, Lists
<1> DEFINE c == CHOOSE j \in DOMAIN ms : ms[j].id = i /\ \A h \in DOMAIN ms : ms[h].id = i => j <= h
<1>4. c \in DOMAIN ms /\ ms[c].id = i
  BY <1>3
<1>5. First(ms, i) = ms[c]
  BY Zenon DEF First
<1> HIDE DEF c
<1> QED BY <1>4, <1>5 DEF ListOf, Lists

\* The mods wait for others on the list.
WaitsOf(ms) == [i \in IdsOf(ms) |-> Waits(ms, i)]

LEMMA WaitsOfIs ==
  ASSUME NEW n \in Nat, NEW ms, ListOf(ms, n)
  PROVE  /\ DOMAIN WaitsOf(ms) = IdsOf(ms) /\ IdsOf(ms) \in SUBSET Ids
         /\ \A i \in IdsOf(ms) : WaitsOf(ms)[i] = Waits(ms, i) /\ WaitsOf(ms)[i] \subseteq IdsOf(ms)
<1>1. IdsOf(ms) \in SUBSET Ids
  BY DEF IdsOf, ListOf, Lists
<1>2. \A i \in IdsOf(ms) : Waits(ms, i) \subseteq IdsOf(ms)
  BY DEF Waits
<1> QED BY <1>1, <1>2 DEF WaitsOf

\* `order` keeps one mod of every id, in the order of the ids.
LEMMA OrderIs ==
  ASSUME NEW n \in Nat, NEW ms, ListOf(ms, n)
  PROVE  LET r == Order(ms)
             o == OrderOfIds(WaitsOf(ms))
             c == Cardinality(IdsOf(ms))
         IN /\ c \in Nat /\ ListOf(r, c) /\ IdsOf(r) = IdsOf(ms) /\ o = [k \in 1..c |-> r[k].id]
            /\ \A k \in 1..c : r[k].id = o[k] /\ r[k] = First(ms, r[k].id)
            /\ \A j, k \in 1..c : r[j].id = r[k].id => j = k
<1> DEFINE r == Order(ms)
           o == OrderOfIds(WaitsOf(ms))
           c == Cardinality(IdsOf(ms))
           f == [k \in DOMAIN o |-> First(ms, o[k])]
<1>0. IdsOf(ms) \in SUBSET Nat /\ IsFiniteSet(IdsOf(ms)) /\ DOMAIN WaitsOf(ms) = IdsOf(ms)
      /\ IdsOf(ms) \subseteq Ids
  BY WaitsOfIs, IdsFinite
<1>1. /\ c \in Nat /\ o \in [1..c -> IdsOf(ms)]
      /\ \A j, k \in 1..c : o[j] = o[k] => j = k
      /\ \A i \in IdsOf(ms) : \E k \in 1..c : o[k] = i
  BY <1>0, OrderOfIdsIs
<1>2. r = <<>> \o f
  BY Zenon DEF Order, WaitsOf
<1> HIDE DEF o, c
<1>3. Lists(f, c)
  BY <1>1 DEF Lists
<1>4. \A k \in 1..c : f[k] = First(ms, o[k]) /\ f[k].id = o[k]
  BY <1>1, FirstIs
<1> HIDE DEF f, r
<1>5. r = f
  BY <1>1, <1>2, <1>3, EmptyConcat
<1>6. \A k \in 1..c : r[k].id = o[k] /\ r[k] = First(ms, r[k].id)
  BY <1>4, <1>5
<1>7. ListOf(r, c)
  BY <1>0, <1>1, <1>3, <1>5, <1>6 DEF ListOf, Lists
<1>8. IdsOf(r) = IdsOf(ms)
  <2>1. IdsOf(r) = {r[k].id : k \in 1..c}
    BY <1>7 DEF IdsOf, ListOf, Lists
  <2>2. \A k \in 1..c : r[k].id \in IdsOf(ms)
    BY <1>1, <1>6
  <2>3. \A i \in IdsOf(ms) : \E k \in 1..c : r[k].id = i
    BY <1>1, <1>6
  <2> QED BY <2>1, <2>2, <2>3
<1>9. \A j, k \in 1..c : r[j].id = r[k].id => j = k
  BY <1>1, <1>6
<1>10. o = [k \in 1..c |-> r[k].id]
  BY <1>1, <1>6
<1> QED BY <1>1, <1>6, <1>7, <1>8, <1>9, <1>10 DEF r, o, c

\* A mod waits in the ordered list for what it waited for before.
LEMMA OrderWaits ==
  ASSUME NEW n \in Nat, NEW ms, ListOf(ms, n), NEW i \in IdsOf(ms)
  PROVE  First(Order(ms), i) = First(ms, i) /\ Waits(Order(ms), i) = Waits(ms, i)
<1> DEFINE r == Order(ms)
           c == Cardinality(IdsOf(ms))
<1>1. /\ c \in Nat /\ ListOf(r, c) /\ IdsOf(r) = IdsOf(ms)
      /\ \A k \in 1..c : r[k] = First(ms, r[k].id)
  BY OrderIs
<1> HIDE DEF r, c
<1>2. PICK k \in 1..c : First(r, i) = r[k] /\ r[k].id = i
  BY <1>1, FirstIs
<1>3. First(r, i) = First(ms, i)
  BY <1>1, <1>2
<1>4. Waits(r, i) = Waits(ms, i)
  BY <1>1, <1>3 DEF Waits
<1> QED BY <1>3, <1>4 DEF r

\* In the ordered list what is asked for comes first, cycles aside.
LEMMA OrderPutsFirst ==
  ASSUME NEW n \in Nat, NEW ms, ListOf(ms, n), NEW j \in DOMAIN Order(ms), NEW k \in DOMAIN Order(ms),
         j < k, Order(ms)[k].id \in Waits(Order(ms), Order(ms)[j].id)
  PROVE  Order(ms)[j].id \in Stuck(Order(ms))
<1> DEFINE r == Order(ms)
           all == IdsOf(ms)
           waits == WaitsOf(ms)
           o == OrderOfIds(waits)
           c == Cardinality(all)
           over == all \ ToSet(Placed(waits))
<1>1. all \in SUBSET Nat /\ IsFiniteSet(all) /\ DOMAIN waits = all
      /\ \A i \in all : waits[i] = Waits(ms, i) /\ waits[i] \subseteq all
  BY WaitsOfIs, IdsFinite
<1>2. /\ \A x, y \in 1..c : x < y /\ o[y] \in waits[o[x]] => o[x] \in over
      /\ \A i \in over : ~(waits[i] \subseteq all \ over)
  BY <1>1, OrderOfIdsIs
<1>3. ListOf(r, c) /\ IdsOf(r) = all /\ \A x \in 1..c : r[x].id = o[x]
  BY OrderIs
<1>4. \A i \in all : Waits(r, i) = waits[i]
  BY <1>1, OrderWaits
<1>5. over \subseteq all
  OBVIOUS
<1>6. j < k /\ j \in DOMAIN r /\ k \in DOMAIN r /\ r[k].id \in Waits(r, r[j].id)
  OBVIOUS
<1> HIDE DEF r, all, waits, o, c, over
<1>7. j \in 1..c /\ k \in 1..c /\ r[j].id \in all
  BY <1>3, <1>6 DEF ListOf, IdsOf, Lists
<1>8. r[j].id \in over
  BY <1>2, <1>3, <1>4, <1>6, <1>7
<1>9. \A i \in over : Waits(r, i) \cap over # {}
  BY <1>1, <1>2, <1>4, <1>5
<1>10. over \in {S \in SUBSET IdsOf(r) : \A i \in S : Waits(r, i) \cap S # {}}
  BY <1>3, <1>5, <1>9
<1>11. r[j].id \in Stuck(r)
  BY <1>8, <1>10 DEF Stuck
<1> QED BY <1>11 DEF r

-----------------------------------------------------------------------------
(* What is discovered.                                                     *)

LEMMA ManifestId ==
  ASSUME NEW src, NEW slot, NEW mode, Loads(src, mode)
  PROVE  /\ LoadSource(src, slot, mode).id = Read(src, ModJson).id
         /\ LoadSource(src, slot, mode).id \in Ids
         /\ LoadSource(src, slot, mode).after = Read(src, ModJson).after
BY DEF LoadSource, Manifest, Loads, WellFormed

\* The list that discover_with puts in order.
Loading(d, mode) ==
  LET found == InOrder({s \in DOMAIN d : d[s] # Missing})
      considered == SubSeq(found, 1, IF Len(found) > MaxMods THEN MaxMods ELSE Len(found))
  IN Those(considered, {k \in DOMAIN considered : Loads(d[considered[k]], mode)})

LoadedFrom(d, mode) ==
  LET loading == Loading(d, mode)
  IN <<>> \o [k \in DOMAIN loading |-> LoadSource(d[loading[k]], loading[k], mode)]

\* What is loaded was found and loads; with no more sources than are
\* considered, nothing that loads is left out (`discover_with`).
LEMMA LoadingIs ==
  ASSUME NEW d, NEW n \in Nat, DOMAIN d = 1..n, NEW mode
  PROVE  LET loading == Loading(d, mode)
         IN /\ \E c \in Nat : Lists(loading, c)
            /\ \A k \in DOMAIN loading : loading[k] \in 1..n /\ Loads(d[loading[k]], mode)
            /\ \A j, k \in DOMAIN loading : loading[j] = loading[k] => j = k
            /\ Cardinality({s \in DOMAIN d : d[s] # Missing}) <= MaxMods =>
                 \A s \in 1..n : Loads(d[s], mode) => \E k \in DOMAIN loading : loading[k] = s
<1> DEFINE there == {s \in DOMAIN d : d[s] # Missing}
           found == InOrder(there)
           m == Cardinality(there)
           w == IF Len(found) > MaxMods THEN MaxMods ELSE Len(found)
           considered == SubSeq(found, 1, w)
           at == {k \in DOMAIN considered : Loads(d[considered[k]], mode)}
           loading == Loading(d, mode)
           c == Cardinality(at)
<1>1. there \in SUBSET (1..n)
  OBVIOUS
<1>2. /\ m \in Nat /\ found \in [1..m -> there]
      /\ \A j, k \in 1..m : found[j] = found[k] => j = k
      /\ \A i \in there : \E k \in 1..m : found[k] = i
  <2> HIDE DEF there
  <2>1. there \in SUBSET Nat /\ IsFiniteSet(there)
    BY <1>1, InOrderFinite
  <2> QED BY <2>1, InOrderIs
<1>3. loading = Those(considered, at)
  BY Zenon DEF Loading
<1>3b. \A s \in 1..n : Loads(d[s], mode) => s \in there
  BY DEF Loads
<1> HIDE DEF there, found, m, loading
<1>4. found \in Seq(there) /\ Len(found) = m
  BY <1>2
<1>5. w \in Nat /\ w <= m /\ (m <= MaxMods => w = m)
  BY <1>2, <1>4, PackagesAssumption
<1> HIDE DEF w
<1>6. DOMAIN considered = 1..w /\ \A k \in 1..w : considered[k] = found[k] /\ k \in 1..m
  BY <1>2, <1>4, <1>5
<1> HIDE DEF considered
<1>7. at \in SUBSET (1..w)
  BY <1>6
<1>8. \A p \in at : considered[p] \in 1..n /\ Loads(d[considered[p]], mode) /\ considered[p] = found[p]
  BY <1>1, <1>2, <1>6
<1>9. \A p, q \in at : p # q => considered[p] # considered[q]
  BY <1>2, <1>6, <1>7
<1>10. m <= MaxMods => \A s \in 1..n : Loads(d[s], mode) => \E p \in at : considered[p] = s
  <2> SUFFICES ASSUME m <= MaxMods, NEW s \in 1..n, Loads(d[s], mode)
               PROVE  \E p \in at : considered[p] = s
    OBVIOUS
  <2>1. PICK k \in 1..m : found[k] = s
    BY <1>2, <1>3b
  <2>2. k \in 1..w /\ considered[k] = s
    BY <1>5, <1>6, <2>1
  <2> QED BY <1>6, <2>2
<1> HIDE DEF at
<1>11. /\ c \in Nat /\ DOMAIN loading = 1..c /\ Lists(loading, c)
       /\ \A k \in 1..c : \E p \in at : loading[k] = considered[p]
       /\ \A p \in at : \E k \in 1..c : loading[k] = considered[p]
       /\ \A j, k \in 1..c : loading[j] = loading[k] => j = k
  <2> HIDE DEF c
  <2>1. /\ c \in Nat /\ Lists(Those(considered, at), c)
        /\ \A k \in 1..c : \E p \in at : Those(considered, at)[k] = considered[p]
        /\ \A p \in at : \E k \in 1..c : Those(considered, at)[k] = considered[p]
        /\ (\A p, q \in at : p # q => considered[p] # considered[q]) =>
             \A j, k \in 1..c : Those(considered, at)[j] = Those(considered, at)[k] => j = k
    BY <1>5, <1>7, ThoseIs DEF c
  <2> QED BY <1>3, <1>9, <2>1 DEF Lists
<1> HIDE DEF c
<1>12. \A k \in 1..c : loading[k] \in 1..n /\ Loads(d[loading[k]], mode)
  BY <1>8, <1>11
<1>13. m <= MaxMods => \A s \in 1..n : Loads(d[s], mode) => \E k \in 1..c : loading[k] = s
  BY <1>10, <1>11
<1> QED BY <1>11, <1>12, <1>13 DEF loading, m, there

LEMMA LoadedFromIs ==
  ASSUME NEW d, NEW n \in Nat, DOMAIN d = 1..n, NEW mode
  PROVE  LET loading == Loading(d, mode)
             ms == LoadedFrom(d, mode)
         IN /\ Discover(d, mode) = Order(ms)
            /\ DOMAIN ms = DOMAIN loading /\ \E c \in Nat : ListOf(ms, c)
            /\ \A k \in DOMAIN ms : ms[k] = LoadSource(d[loading[k]], loading[k], mode)
<1> DEFINE loading == Loading(d, mode)
           f == [k \in DOMAIN loading |-> LoadSource(d[loading[k]], loading[k], mode)]
           ms == LoadedFrom(d, mode)
<1>1. PICK c \in Nat : DOMAIN loading = 1..c
  <2>1. \E c \in Nat : Lists(loading, c)
    BY LoadingIs
  <2> QED BY <2>1 DEF Lists
<1>2. ms = <<>> \o f
  BY Zenon DEF LoadedFrom
<1>3. Discover(d, mode) = Order(ms)
  BY Zenon DEF Discover, LoadedFrom, Loading
<1>4. \A k \in DOMAIN loading : Loads(d[loading[k]], mode)
  BY LoadingIs
<1> HIDE DEF ms, loading
<1>5. DOMAIN f = 1..c /\ Lists(f, c)
  BY <1>1 DEF Lists
<1>6. \A k \in 1..c : f[k] = LoadSource(d[loading[k]], loading[k], mode) /\ f[k].id \in Ids
  BY <1>1, <1>4, ManifestId
<1> HIDE DEF f
<1>7. ms = f
  BY <1>2, <1>5, EmptyConcat
<1>8. ListOf(ms, c)
  BY <1>5, <1>6, <1>7 DEF ListOf, Lists
<1> QED BY <1>1, <1>3, <1>5, <1>6, <1>7, <1>8 DEF ms, loading

\* Of different ids, and none left out: what is waited for is in the manifests.
Loaded(d) == {s \in DOMAIN d : Loads(d[s], "keep")}
RawOf(d, i) == Read(d[CHOOSE s \in Loaded(d) : Read(d[s], ModJson).id = i], ModJson)

UniqueIn(d) ==
  \A s, t \in Loaded(d) : Read(d[s], ModJson).id = Read(d[t], ModJson).id => s = t

LEMMA LoadedIds ==
  ASSUME NEW d, NEW n \in Nat, DOMAIN d = 1..n, UniqueIn(d),
         Cardinality({s \in DOMAIN d : d[s] # Missing}) <= MaxMods
  PROVE  LET ms == LoadedFrom(d, "keep")
         IN /\ IdsOf(ms) = {Read(d[s], ModJson).id : s \in Loaded(d)}
            /\ \A i \in IdsOf(ms) : First(ms, i).after = RawOf(d, i).after
<1> DEFINE loading == Loading(d, "keep")
           ms == LoadedFrom(d, "keep")
<1>1. /\ \A k \in DOMAIN loading : loading[k] \in 1..n /\ Loads(d[loading[k]], "keep")
      /\ \A s \in 1..n : Loads(d[s], "keep") => \E k \in DOMAIN loading : loading[k] = s
  BY LoadingIs
<1>2. /\ DOMAIN ms = DOMAIN loading /\ \E c \in Nat : ListOf(ms, c)
      /\ \A k \in DOMAIN ms : ms[k] = LoadSource(d[loading[k]], loading[k], "keep")
  BY LoadedFromIs
<1> HIDE DEF ms, loading
<1>3. \A k \in DOMAIN ms : loading[k] \in Loaded(d) /\ ms[k].id = Read(d[loading[k]], ModJson).id
        /\ ms[k].after = Read(d[loading[k]], ModJson).after
  BY <1>1, <1>2, ManifestId DEF Loaded
<1>4. \A s \in Loaded(d) : \E k \in DOMAIN ms : loading[k] = s
  BY <1>1, <1>2 DEF Loaded
<1>5. IdsOf(ms) = {Read(d[s], ModJson).id : s \in Loaded(d)}
  BY <1>3, <1>4 DEF IdsOf
<1>6. ASSUME NEW i \in IdsOf(ms) PROVE First(ms, i).after = RawOf(d, i).after
  <2>1. PICK c \in Nat : ListOf(ms, c)
    BY <1>2
  <2>2. PICK k \in 1..c : First(ms, i) = ms[k] /\ ms[k].id = i
    BY <2>1, FirstIs
  <2>3. k \in DOMAIN ms
    BY <2>1, <2>2 DEF ListOf, Lists
  <2>4. loading[k] \in Loaded(d) /\ Read(d[loading[k]], ModJson).id = i
    BY <1>3, <2>2, <2>3
  <2>5. (CHOOSE s \in Loaded(d) : Read(d[s], ModJson).id = i) = loading[k]
    BY <2>4 DEF UniqueIn
  <2> QED BY <1>3, <2>2, <2>3, <2>5 DEF RawOf
<1> QED BY <1>5, <1>6 DEF ms

\* The order is the order of what waits for what.
LEMMA DiscoverOrder ==
  ASSUME NEW d, NEW n \in Nat, DOMAIN d = 1..n, NEW mode
  PROVE  LET found == Discover(d, mode)
         IN [k \in DOMAIN found |-> found[k].id] = OrderOfIds(WaitsOf(LoadedFrom(d, mode)))
<1> DEFINE ms == LoadedFrom(d, mode)
           r == Order(ms)
           o == OrderOfIds(WaitsOf(ms))
           c == Cardinality(IdsOf(ms))
<1>1. Discover(d, mode) = r /\ \E m \in Nat : ListOf(ms, m)
  BY LoadedFromIs
<1>2. c \in Nat /\ ListOf(r, c) /\ o = [k \in 1..c |-> r[k].id]
  BY <1>1, OrderIs
<1>3. DOMAIN r = 1..c
  BY <1>2 DEF ListOf, Lists
<1> HIDE DEF r, o, c
<1>4. [k \in DOMAIN r |-> r[k].id] = o
  BY <1>2, <1>3
<1> QED BY <1>1, <1>4 DEF o

LEMMA WaitsOfLoaded ==
  ASSUME NEW d, NEW n \in Nat, DOMAIN d = 1..n, UniqueIn(d),
         Cardinality({s \in DOMAIN d : d[s] # Missing}) <= MaxMods
  PROVE  LET all == {Read(d[s], ModJson).id : s \in Loaded(d)}
         IN WaitsOf(LoadedFrom(d, "keep")) = [i \in all |-> (RawOf(d, i).after \cap all) \ {i}]
<1> DEFINE ms == LoadedFrom(d, "keep")
           all == {Read(d[s], ModJson).id : s \in Loaded(d)}
<1>1. IdsOf(ms) = all /\ \A i \in IdsOf(ms) : First(ms, i).after = RawOf(d, i).after
  BY LoadedIds
<1> HIDE DEF ms, all
<1>2. \A i \in all : Waits(ms, i) = (RawOf(d, i).after \cap all) \ {i}
  BY <1>1 DEF Waits
<1>3. WaitsOf(ms) = [i \in all |-> (RawOf(d, i).after \cap all) \ {i}]
  BY <1>1, <1>2 DEF WaitsOf
<1> QED BY <1>3 DEF ms, all

\* Another order of the paths: the same sources, elsewhere.
LEMMA ReverseIs ==
  ASSUME NEW d, NEW n \in Nat, DOMAIN d = 1..n, Len(d) = n
  PROVE  /\ DOMAIN Reverse(d) = 1..n
         /\ \A s \in 1..n : n + 1 - s \in 1..n /\ Reverse(d)[s] = d[n + 1 - s]
                            /\ d[s] = Reverse(d)[n + 1 - s]
<1>1. Reverse(d) = [i \in 1..n |-> d[(n - i) + 1]]
  BY DEF Reverse
<1>2. \A s \in 1..n : n + 1 - s \in 1..n /\ (n - s) + 1 = n + 1 - s /\ (n - (n + 1 - s)) + 1 = s
  OBVIOUS
<1> QED BY <1>1, <1>2

LEMMA ReverseLoads ==
  ASSUME NEW d, NEW n \in Nat, DOMAIN d = 1..n, Len(d) = n, UniqueIn(d),
         Cardinality({s \in DOMAIN d : d[s] # Missing}) <= MaxMods
  PROVE  LET b == Reverse(d)
         IN /\ DOMAIN b = 1..n /\ UniqueIn(b)
            /\ Cardinality({s \in DOMAIN b : b[s] # Missing}) <= MaxMods
            /\ {Read(b[s], ModJson).id : s \in Loaded(b)} = {Read(d[s], ModJson).id : s \in Loaded(d)}
            /\ \A s \in Loaded(d) : RawOf(b, Read(d[s], ModJson).id) = RawOf(d, Read(d[s], ModJson).id)
<1> DEFINE b == Reverse(d)
           turn(s) == n + 1 - s
           A == {s \in DOMAIN d : d[s] # Missing}
           B == {s \in DOMAIN b : b[s] # Missing}
<1>1. DOMAIN b = 1..n /\ \A s \in 1..n : turn(s) \in 1..n /\ b[s] = d[turn(s)] /\ d[s] = b[turn(s)]
  BY ReverseIs
<1>2. \A s, t \in 1..n : turn(s) = turn(t) => s = t
  OBVIOUS
<1> HIDE DEF b, turn
<1>3. \A s \in 1..n : (s \in Loaded(b) => turn(s) \in Loaded(d)) /\ (s \in Loaded(d) => turn(s) \in Loaded(b))
  BY <1>1 DEF Loaded
<1>4. Loaded(b) \subseteq 1..n /\ Loaded(d) \subseteq 1..n
  BY <1>1 DEF Loaded
<1>5. UniqueIn(b)
  <2> SUFFICES ASSUME NEW s \in Loaded(b), NEW t \in Loaded(b),
                      Read(b[s], ModJson).id = Read(b[t], ModJson).id
               PROVE  s = t
    BY DEF UniqueIn
  <2>1. turn(s) \in Loaded(d) /\ turn(t) \in Loaded(d) /\ b[s] = d[turn(s)] /\ b[t] = d[turn(t)]
    BY <1>1, <1>3, <1>4
  <2>2. turn(s) = turn(t)
    BY <2>1 DEF UniqueIn
  <2> QED BY <1>2, <1>4, <2>2
<1>6. Cardinality(B) <= MaxMods
  <2> DEFINE f == [s \in A |-> turn(s)]
  <2>1. IsFiniteSet(A)
    BY InOrderFinite
  <2>2. f \in [A -> B]
    BY <1>1
  <2>3. \A s \in B : turn(s) \in A /\ turn(turn(s)) = s
    BY <1>1 DEF turn
  <2>4. \A s \in B : f[turn(s)] = s
    BY <2>3
  <2> HIDE DEF f, A, B
  <2>5. f \in Surjection(A, B)
    BY <2>2, <2>3, <2>4 DEF Surjection
  <2>6. Cardinality(B) <= Cardinality(A) /\ IsFiniteSet(B)
    BY <2>1, <2>5, FS_Surjection
  <2>7. Cardinality(A) \in Nat /\ Cardinality(B) \in Nat
    BY <2>1, <2>6, FS_CardinalityType
  <2>8. Cardinality(A) <= MaxMods
    BY DEF A
  <2> QED BY <2>6, <2>7, <2>8, PackagesAssumption
<1>7. {Read(b[s], ModJson).id : s \in Loaded(b)} = {Read(d[s], ModJson).id : s \in Loaded(d)}
  BY <1>1, <1>3, <1>4
<1>8. ASSUME NEW s \in Loaded(d)
      PROVE  RawOf(b, Read(d[s], ModJson).id) = RawOf(d, Read(d[s], ModJson).id)
  <2> DEFINE i == Read(d[s], ModJson).id
  <2>1. turn(s) \in Loaded(b) /\ b[turn(s)] = d[s]
    BY <1>1, <1>3, <1>4
  <2>2. (CHOOSE t \in Loaded(d) : Read(d[t], ModJson).id = i) = s
    BY DEF UniqueIn
  <2>3. (CHOOSE t \in Loaded(b) : Read(b[t], ModJson).id = i) = turn(s)
    BY <1>5, <2>1 DEF UniqueIn
  <2> QED BY <2>1, <2>2, <2>3 DEF RawOf
<1> QED BY <1>1, <1>5, <1>6, <1>7, <1>8 DEF b

LEMMA DisksAreOrdered == DiskOK => DependenciesFirst
<1> SUFFICES ASSUME DiskOK PROVE DependenciesFirst
  OBVIOUS
<1> DEFINE n == Len(disk)
           d == disk
           b == Reverse(disk)
           found == Discover(d, "keep")
           back == Discover(b, "keep")
           ids == [k \in DOMAIN found |-> found[k].id]
           unique == /\ Cardinality({s \in Slots : disk[s] # Missing}) <= MaxMods
                     /\ \A s, t \in {r \in Slots : Loads(disk[r], "keep")} :
                          Read(disk[s], ModJson).id = Read(disk[t], ModJson).id => s = t
<1>1. n \in Nat /\ DOMAIN d = 1..n /\ Len(d) = n
  BY DEF DiskOK
<1>2. \A j, k \in DOMAIN ids :
        j < k /\ ids[k] \in Waits(found, ids[j]) => ids[j] \in Stuck(found)
  <2> SUFFICES ASSUME NEW j \in DOMAIN found, NEW k \in DOMAIN found, j < k,
                      found[k].id \in Waits(found, found[j].id)
               PROVE  found[j].id \in Stuck(found)
    OBVIOUS
  <2>1. PICK m \in Nat : ListOf(LoadedFrom(d, "keep"), m)
    BY <1>1, LoadedFromIs
  <2>2. found = Order(LoadedFrom(d, "keep"))
    BY <1>1, LoadedFromIs
  <2> HIDE DEF found, d
  <2> QED BY <2>1, <2>2, OrderPutsFirst
<1>3. ASSUME unique PROVE ids = [k \in DOMAIN back |-> back[k].id]
  <2>1. UniqueIn(d) /\ Cardinality({s \in DOMAIN d : d[s] # Missing}) <= MaxMods
    BY <1>3 DEF UniqueIn, Loaded, Slots
  <2> HIDE DEF found, back
  <2>3. /\ DOMAIN b = 1..n /\ UniqueIn(b)
        /\ Cardinality({s \in DOMAIN b : b[s] # Missing}) <= MaxMods
        /\ {Read(b[s], ModJson).id : s \in Loaded(b)} = {Read(d[s], ModJson).id : s \in Loaded(d)}
        /\ \A s \in Loaded(d) :
             RawOf(b, Read(d[s], ModJson).id) = RawOf(d, Read(d[s], ModJson).id)
    <3> HIDE DEF n
    <3> QED BY <1>1, <2>1, ReverseLoads
  <2> HIDE DEF d, n, b
  <2> DEFINE all == {Read(d[s], ModJson).id : s \in Loaded(d)}
             waits(e) == [i \in all |-> (RawOf(e, i).after \cap all) \ {i}]
  <2>4. WaitsOf(LoadedFrom(d, "keep")) = waits(d)
    BY <1>1, <2>1, WaitsOfLoaded
  <2>5. WaitsOf(LoadedFrom(b, "keep")) = waits(b)
    <3>1. {Read(b[s], ModJson).id : s \in Loaded(b)} = all
      BY <2>3
    <3>2. WaitsOf(LoadedFrom(b, "keep"))
            = [i \in {Read(b[s], ModJson).id : s \in Loaded(b)} |->
                 (RawOf(b, i).after \cap {Read(b[s], ModJson).id : s \in Loaded(b)}) \ {i}]
      BY <1>1, <2>3, WaitsOfLoaded
    <3> HIDE DEF all
    <3> QED BY <3>1, <3>2
  <2>6. \A i \in all : RawOf(b, i) = RawOf(d, i)
    BY <2>3
  <2> HIDE DEF all
  <2>7. waits(b) = waits(d)
    BY <2>6
  <2> HIDE DEF waits
  <2>8. ids = OrderOfIds(waits(d))
    BY <1>1, <2>4, DiscoverOrder DEF found
  <2>9. [k \in DOMAIN back |-> back[k].id] = OrderOfIds(waits(b))
    BY <1>1, <2>3, <2>5, DiscoverOrder DEF back
  <2> QED BY <2>7, <2>8, <2>9
<1> HIDE DEF ids, unique
<1> QED BY <1>2, <1>3 DEF DependenciesFirst, ids, unique

\* The loader's order puts what is asked for first, whatever the directory
\* holds, and does not depend on the names of the files (`order`).
THEOREM LoadedInOrder == Spec => []DependenciesFirst
BY DisksAreOrdered, DiskInit, DiskStep, PTL DEF Spec

-----------------------------------------------------------------------------
(* The loader: what an operation on one mod leaves of the others.          *)

IsManifest(m) == m.id \in Ids /\ {"id", "side"} \subseteq DOMAIN m

ModsOf(ms, n) ==
  /\ Lists(ms, n)
  /\ \A k \in 1..n : IsManifest(ms[k])
  /\ \A j, k \in 1..n : ms[j].id = ms[k].id => j = k

Listed(ms) == \E n \in Nat : ModsOf(ms, n)

\* The mods of ms other than those of S are still in r, on the same side.
Keeps(ms, r, S) ==
  \A i \in IdsOf(ms) \ S : i \in IdsOf(r) /\ Get(r, i).side = Get(ms, i).side

LEMMA GetIs ==
  ASSUME NEW ms, NEW n \in Nat, ModsOf(ms, n), NEW k \in 1..n
  PROVE  /\ ms[k].id \in IdsOf(ms)
         /\ Position(ms, ms[k].id) = k /\ Get(ms, ms[k].id) = ms[k]
<1>1. DOMAIN ms = 1..n
  BY DEF ModsOf, Lists
<1>2. (CHOOSE j \in DOMAIN ms : ms[j].id = ms[k].id) = k
  BY <1>1 DEF ModsOf
<1> QED BY <1>1, <1>2 DEF IdsOf, Position, Get

LEMMA AtPosition ==
  ASSUME NEW ms, NEW n \in Nat, ModsOf(ms, n), NEW i \in IdsOf(ms)
  PROVE  /\ Position(ms, i) \in 1..n /\ ms[Position(ms, i)].id = i
         /\ Get(ms, i) = ms[Position(ms, i)] /\ IsManifest(Get(ms, i)) /\ i \in Ids
<1>1. PICK k \in 1..n : ms[k].id = i
  BY DEF IdsOf, ModsOf, Lists
<1>2. Position(ms, i) = k
  BY <1>1, GetIs
<1> QED BY <1>1, <1>2 DEF Get, ModsOf, IsManifest

LEMMA KeepsAll == ASSUME NEW ms, NEW S PROVE Keeps(ms, ms, S)
BY DEF Keeps

LEMMA KeepsOn ==
  ASSUME NEW ms, NEW r, NEW t, NEW S, Keeps(ms, r, S), Keeps(r, t, S)
  PROVE  Keeps(ms, t, S)
BY DEF Keeps

\* A mod in the place of one with its id.
PutAt(r, ms, i, x) == r = [ms EXCEPT ![Position(ms, i)] = x]

LEMMA InPlaceOf ==
  ASSUME NEW ms, Listed(ms), NEW i \in IdsOf(ms), NEW x, IsManifest(x), x.id = i,
         NEW r, PutAt(r, ms, i, x)
  PROVE  Listed(r) /\ IdsOf(r) = IdsOf(ms) /\ Get(r, i) = x /\ Keeps(ms, r, {i})
<1> DEFINE p == Position(ms, i)
<1>0. r = [ms EXCEPT ![p] = x]
  BY DEF PutAt
<1>1. PICK n \in Nat : ModsOf(ms, n)
  BY DEF Listed
<1>2. p \in 1..n /\ ms[p].id = i /\ DOMAIN ms = 1..n
  BY <1>1, AtPosition DEF ModsOf, Lists
<1> HIDE DEF p
<1>3. DOMAIN r = 1..n /\ r[p] = x /\ \A k \in 1..n : k # p => r[k] = ms[k]
  BY <1>0, <1>2
<1>4. Lists(r, n)
  <2>1. r = [k \in 1..n |-> r[k]]
    BY <1>0, <1>2
  <2> QED BY <1>3, <2>1 DEF Lists
<1>5. \A k \in 1..n : r[k].id = ms[k].id /\ IsManifest(r[k])
  BY <1>1, <1>2, <1>3 DEF ModsOf
<1>6. ModsOf(r, n)
  BY <1>1, <1>4, <1>5 DEF ModsOf
<1>7. IdsOf(r) = IdsOf(ms)
  BY <1>2, <1>3, <1>5 DEF IdsOf
<1>8. Get(r, i) = x
  BY <1>2, <1>3, <1>5, <1>6, GetIs
<1>9. Keeps(ms, r, {i})
  <2> SUFFICES ASSUME NEW j \in IdsOf(ms), j # i PROVE Get(r, j) = Get(ms, j)
    BY <1>7 DEF Keeps
  <2>1. PICK k \in 1..n : ms[k].id = j
    BY <1>2 DEF IdsOf
  <2>2. k # p /\ r[k] = ms[k] /\ r[k].id = j
    BY <1>2, <1>3, <1>5, <2>1
  <2>3. Get(r, j) = r[k] /\ Get(ms, j) = ms[k]
    BY <1>1, <1>6, <2>1, <2>2, GetIs
  <2> QED BY <2>2, <2>3
<1> QED BY <1>6, <1>7, <1>8, <1>9 DEF Listed

\* An operation on the bytes or the switch of a mod (`take_assets`,
\* `set_enabled`).
LEMMA TakenKeeps ==
  ASSUME NEW ms, Listed(ms), NEW i \in IdsOf(ms)
  PROVE  Listed(Taken(ms, i)) /\ IdsOf(Taken(ms, i)) = IdsOf(ms) /\ Keeps(ms, Taken(ms, i), {i})
<1>0. PICK n \in Nat : ModsOf(ms, n)
  BY DEF Listed
<1> DEFINE a == [k \in DOMAIN Get(ms, i).assets |-> Empty]
           x == [Get(ms, i) EXCEPT !.assets = a]
<1>1. IsManifest(Get(ms, i)) /\ Get(ms, i) = ms[Position(ms, i)] /\ Get(ms, i).id = i
      /\ Position(ms, i) \in DOMAIN ms
  BY <1>0, AtPosition DEF ModsOf, Lists
<1>2. Taken(ms, i) = [ms EXCEPT ![Position(ms, i)].assets = a]
  BY DEF Taken
<1> HIDE DEF a
<1>3. PutAt(Taken(ms, i), ms, i, x)
  BY <1>1, <1>2 DEF PutAt
<1>4. IsManifest(x) /\ x.id = i
  BY <1>1 DEF IsManifest
<1> HIDE DEF x
<1> QED BY <1>3, <1>4, InPlaceOf

LEMMA ToggledKeeps ==
  ASSUME NEW ms, Listed(ms), NEW i \in IdsOf(ms), NEW on
  PROVE  /\ Listed(Toggled(ms, i, on)) /\ IdsOf(Toggled(ms, i, on)) = IdsOf(ms)
         /\ Keeps(ms, Toggled(ms, i, on), {i})
<1>0. PICK n \in Nat : ModsOf(ms, n)
  BY DEF Listed
<1> DEFINE x == [Get(ms, i) EXCEPT !.enabled = on]
<1>1. IsManifest(Get(ms, i)) /\ Get(ms, i) = ms[Position(ms, i)] /\ Get(ms, i).id = i
      /\ Position(ms, i) \in DOMAIN ms
  BY <1>0, AtPosition DEF ModsOf, Lists
<1>3. PutAt(Toggled(ms, i, on), ms, i, x)
  BY <1>1 DEF Toggled, PutAt
<1>4. IsManifest(x) /\ x.id = i
  BY <1>1 DEF IsManifest
<1> HIDE DEF x
<1> QED BY <1>3, <1>4, InPlaceOf

LEMMA LoadedIsManifest ==
  ASSUME NEW src, NEW slot, NEW mode, Loads(src, mode)
  PROVE  IsManifest(LoadSource(src, slot, mode))
<1>1. LoadSource(src, slot, mode).id \in Ids
  BY ManifestId
<1>2. {"id", "side"} \subseteq DOMAIN LoadSource(src, slot, mode)
  BY DEF LoadSource, Manifest
<1> QED BY <1>1, <1>2 DEF IsManifest

LEMMA StillManifest ==
  ASSUME NEW m, IsManifest(m), NEW on
  PROVE  IsManifest([m EXCEPT !.enabled = on]) /\ [m EXCEPT !.enabled = on].id = m.id
BY DEF IsManifest

\* What is read again takes its own place, or leaves what was there (`reload`).
LEMMA ReloadedKeeps ==
  ASSUME NEW ms, Listed(ms), NEW i \in IdsOf(ms), NEW d
  PROVE  /\ Listed(Reloaded(ms, i, d)) /\ IdsOf(Reloaded(ms, i, d)) = IdsOf(ms)
         /\ Keeps(ms, Reloaded(ms, i, d), {i})
<1> DEFINE old == Get(ms, i)
           src == SourceOf(old, d)
           new == LoadSource(src, old.slot, "keep")
           x == [new EXCEPT !.enabled = old.enabled]
           stays == ~Loads(src, "keep") \/ new.id # i
<1>1. IF stays THEN Reloaded(ms, i, d) = ms ELSE PutAt(Reloaded(ms, i, d), ms, i, x)
  <2>1. Reloaded(ms, i, d) = IF stays THEN ms ELSE [ms EXCEPT ![Position(ms, i)] = x]
    BY Zenon DEF Reloaded
  <2> HIDE DEF stays, x
  <2> QED BY <2>1, Zenon DEF PutAt
<1>2. ~stays => IsManifest(new) /\ new.id = i
  BY LoadedIsManifest
<1> HIDE DEF new
<1>3. ~stays => IsManifest(x) /\ x.id = i
  BY <1>2, StillManifest
<1> HIDE DEF x, stays
<1> QED BY <1>1, <1>3, InPlaceOf, KeepsAll

\* A list put in order.
LEMMA OrderListed ==
  ASSUME NEW n \in Nat, NEW ms, Lists(ms, n), \A k \in 1..n : IsManifest(ms[k])
  PROVE  /\ Listed(Order(ms)) /\ IdsOf(Order(ms)) = IdsOf(ms)
         /\ \A i \in IdsOf(ms) : \E k \in 1..n : Get(Order(ms), i) = ms[k] /\ ms[k].id = i
<1> DEFINE r == Order(ms)
           c == Cardinality(IdsOf(ms))
<1>1. ListOf(ms, n)
  BY DEF ListOf, IsManifest
<1>2. /\ c \in Nat /\ ListOf(r, c) /\ IdsOf(r) = IdsOf(ms)
      /\ \A k \in 1..c : r[k] = First(ms, r[k].id)
      /\ \A j, k \in 1..c : r[j].id = r[k].id => j = k
  BY <1>1, OrderIs
<1> HIDE DEF r, c
<1>3. Lists(r, c) /\ \A k \in 1..c : r[k].id \in IdsOf(ms)
  BY <1>2 DEF ListOf, Lists, IdsOf
<1>4. \A k \in 1..c : IsManifest(r[k])
  BY <1>1, <1>2, <1>3, FirstIs
<1>5. ModsOf(r, c)
  BY <1>2, <1>3, <1>4 DEF ModsOf
<1>6. ASSUME NEW i \in IdsOf(ms) PROVE \E k \in 1..n : Get(r, i) = ms[k] /\ ms[k].id = i
  <2>1. PICK j \in 1..c : r[j].id = i
    BY <1>2, <1>3 DEF IdsOf, Lists
  <2>2. Get(r, i) = r[j] /\ r[j] = First(ms, i)
    BY <1>2, <1>5, <2>1, GetIs
  <2>3. \E k \in 1..n : First(ms, i) = ms[k]
    BY <1>1, FirstIs
  <2> QED BY <2>1, <2>2, <2>3
<1> QED BY <1>2, <1>5, <1>6 DEF r, Listed

IsAppended(g, f, x) == g = Append(f, x)

LEMMA AppendIs ==
  ASSUME NEW n \in Nat, NEW f, Lists(f, n), NEW x, NEW g, IsAppended(g, f, x)
  PROVE  Lists(g, n + 1) /\ g[n + 1] = x /\ \A k \in 1..n : g[k] = f[k]
<1> DEFINE T == {f[k] : k \in 1..n} \cup {x}
<1>1. f \in Seq(T) /\ x \in T /\ Len(f) = n
  <2>1. f \in [1..n -> T] /\ x \in T
    BY DEF Lists
  <2> HIDE DEF T
  <2> QED BY <2>1
<1> HIDE DEF T
<1>2. g \in Seq(T) /\ Len(g) = n + 1 /\ g[n + 1] = x /\ \A k \in 1..n : g[k] = f[k]
  BY <1>1 DEF IsAppended
<1>3. Lists(g, n + 1)
  BY <1>2 DEF Lists
<1> QED BY <1>2, <1>3

\* A mod takes the place of the one with its id, and the others stay (`insert`).
LEMMA InsertedKeeps ==
  ASSUME NEW ms, Listed(ms), NEW m, IsManifest(m)
  PROVE  /\ Listed(Inserted(ms, m)) /\ Keeps(ms, Inserted(ms, m), {m.id})
         /\ IdsOf(Inserted(ms, m)) = IdsOf(ms) \cup {m.id}
<1>1. PICK n \in Nat : ModsOf(ms, n)
  BY DEF Listed
<1> DEFINE P == {k \in DOMAIN ms : ms[k].id # m.id}
           u == Those(ms, P)
           c == Cardinality(P)
           v == Append(u, m)
           r == Inserted(ms, m)
<1>2. DOMAIN ms = 1..n
  BY <1>1 DEF ModsOf, Lists
<1>3. /\ c \in Nat /\ Lists(u, c)
      /\ \A k \in 1..c : \E p \in P : u[k] = ms[p]
      /\ \A p \in P : \E k \in 1..c : u[k] = ms[p]
  <2>1. P \in SUBSET (1..n)
    BY <1>2
  <2> HIDE DEF P
  <2> QED BY <2>1, ThoseIs
<1>4. r = Order(v)
  BY Zenon DEF Inserted
<1>5. \A p \in P : p \in 1..n /\ ms[p].id # m.id
  BY <1>2
<1>6. \A p \in 1..n : ms[p].id # m.id => p \in P
  BY <1>2
<1> HIDE DEF P, c, u, r
<1>7. Lists(v, c + 1) /\ v[c + 1] = m /\ \A k \in 1..c : v[k] = u[k]
  <2>1. c \in Nat /\ Lists(u, c)
    BY <1>3
  <2>2. IsAppended(v, u, m)
    BY DEF IsAppended
  <2> HIDE DEF v
  <2> QED BY <2>1, <2>2, AppendIs
<1> HIDE DEF v
<1>8. \A k \in 1..c + 1 : k \in 1..c \/ k = c + 1
  BY <1>3
<1>9. c + 1 \in Nat /\ c + 1 \in 1..c + 1 /\ \A k \in 1..c : k \in 1..c + 1
  BY <1>3
<1>10. \A k \in 1..c : \E p \in 1..n : v[k] = ms[p] /\ ms[p].id # m.id
  BY <1>3, <1>5, <1>7
<1>11. \A k \in 1..c + 1 : IsManifest(v[k])
  BY <1>1, <1>7, <1>8, <1>10 DEF ModsOf
<1>12. /\ Listed(r) /\ IdsOf(r) = IdsOf(v)
       /\ \A i \in IdsOf(v) : \E k \in 1..c + 1 : Get(r, i) = v[k] /\ v[k].id = i
  BY <1>4, <1>7, <1>9, <1>11, OrderListed
<1>13. IdsOf(v) = {v[k].id : k \in 1..c + 1}
  BY <1>7 DEF IdsOf, Lists
<1>14. ASSUME NEW i \in IdsOf(ms), i # m.id PROVE i \in IdsOf(v) /\ Get(r, i) = Get(ms, i)
  <2>1. PICK p \in 1..n : ms[p].id = i /\ Get(ms, i) = ms[p]
    BY <1>1, AtPosition
  <2>2. PICK k \in 1..c : u[k] = ms[p]
    BY <1>3, <1>6, <1>14, <2>1
  <2>3. i \in IdsOf(v)
    BY <1>7, <1>9, <1>13, <2>1, <2>2
  <2>4. PICK j \in 1..c + 1 : Get(r, i) = v[j] /\ v[j].id = i
    BY <1>12, <2>3
  <2>5. j \in 1..c
    BY <1>7, <1>8, <1>14, <2>4
  <2>6. PICK q \in 1..n : v[j] = ms[q]
    BY <1>10, <2>5
  <2>7. q = p
    BY <1>1, <2>1, <2>4, <2>6 DEF ModsOf
  <2> QED BY <2>1, <2>3, <2>4, <2>6, <2>7
<1>15. Keeps(ms, r, {m.id})
  BY <1>12, <1>14 DEF Keeps
<1>16. IdsOf(v) \subseteq IdsOf(ms) \cup {m.id}
  <2> SUFFICES ASSUME NEW k \in 1..c + 1 PROVE v[k].id \in IdsOf(ms) \cup {m.id}
    BY <1>13
  <2>1. CASE k = c + 1
    BY <2>1, <1>7
  <2>2. CASE k \in 1..c
    BY <2>2, <1>2, <1>10 DEF IdsOf
  <2> QED BY <1>8, <2>1, <2>2
<1>17. m.id \in IdsOf(v)
  BY <1>7, <1>9, <1>13
<1>18. IdsOf(r) = IdsOf(ms) \cup {m.id}
  BY <1>12, <1>14, <1>16, <1>17
<1> QED BY <1>12, <1>15, <1>18 DEF r

-----------------------------------------------------------------------------
(* The host: what an operation on one mod leaves of the others.            *)

HostFields == {"mods", "begun", "plugins", "outcomes", "assets"}
PluginOK(p) == p = None \/ {"side", "records"} \subseteq DOMAIN p
PluginsOK(ps) == DOMAIN ps = Ids /\ \A i \in Ids : PluginOK(ps[i])
HostOK(h) == DOMAIN h = HostFields /\ Listed(h.mods) /\ PluginsOK(h.plugins)

\* g follows h, and S are the ids that something was done to.
Follows(h, g, S) ==
  /\ HostOK(g) /\ Keeps(h.mods, g.mods, S)
  /\ \A i \in Ids \ S : g.plugins[i] = h.plugins[i]

LEMMA FollowsOn ==
  ASSUME NEW h, NEW g, NEW f, NEW S, Follows(h, g, S), Follows(g, f, S)
  PROVE  Follows(h, f, S)
BY KeepsOn DEF Follows

LEMMA FollowsMore ==
  ASSUME NEW h, NEW g, NEW S, NEW T, S \subseteq T, Follows(h, g, S)
  PROVE  Follows(h, g, T)
BY DEF Follows, Keeps

LEMMA NewPluginOK == ASSUME NEW module, NEW side PROVE PluginOK(NewPlugin(module, side))
BY DEF PluginOK, NewPlugin

LEMMA PluginAt ==
  ASSUME NEW ps, PluginsOK(ps), NEW i \in Ids, NEW p, PluginOK(p)
  PROVE  PluginsOK([ps EXCEPT ![i] = p]) /\ \A j \in Ids \ {i} : [ps EXCEPT ![i] = p][j] = ps[j]
BY DEF PluginsOK

LEMMA LoadOneFollows ==
  ASSUME NEW h, HostOK(h), NEW i \in Ids
  PROVE  Follows(h, LoadOne(h, i), {i})
<1>1. CASE i \notin IdsOf(h.mods)
  <2> DEFINE g == [h EXCEPT !.outcomes[i] = [ok |-> FALSE, of |-> None]]
  <2>1. LoadOne(h, i) = g
    BY <1>1, Zenon DEF LoadOne
  <2>2. DOMAIN g = HostFields /\ g.mods = h.mods /\ g.plugins = h.plugins
    BY DEF HostOK, HostFields
  <2> HIDE DEF g
  <2> QED BY <2>1, <2>2, KeepsAll DEF HostOK, Follows
<1>2. CASE i \in IdsOf(h.mods)
  <2> DEFINE m == Get(h.mods, i)
             ran == m.entry \notin {"garbled", "throws"}
             module == IF m.wasm = None THEN None ELSE NewPlugin(m.wasm, m.side)
             g == LoadOne(h, i)
  <2>1. /\ DOMAIN g = HostFields /\ g.mods = Taken(h.mods, i)
        /\ g.plugins = IF ran /\ m.wasm # None THEN [h.plugins EXCEPT ![i] = module] ELSE h.plugins
    BY <1>2 DEF LoadOne, HostFields
  <2>2. PluginOK(module)
    BY NewPluginOK DEF PluginOK
  <2> HIDE DEF g, module, ran
  <2>3. PluginsOK(h.plugins) /\ Listed(h.mods)
    BY DEF HostOK
  <2>4. PluginsOK(g.plugins) /\ \A j \in Ids \ {i} : g.plugins[j] = h.plugins[j]
    BY <2>1, <2>2, <2>3, PluginAt
  <2>5. Listed(g.mods) /\ Keeps(h.mods, g.mods, {i})
    BY <1>2, <2>1, <2>3, TakenKeeps
  <2>6. Follows(h, g, {i})
    BY <2>1, <2>4, <2>5 DEF Follows, HostOK
  <2> QED BY <2>6 DEF g
<1> QED BY <1>1, <1>2

LEMMA ReloadOneFollows ==
  ASSUME NEW h, HostOK(h), NEW i \in Ids
  PROVE  Follows(h, ReloadOne(h, i), {i})
<1> DEFINE ended == End(h, i)
           read == IF i \in IdsOf(h.mods) THEN Toggled(Reloaded(h.mods, i, disk), i, TRUE) ELSE h.mods
           g == [ended EXCEPT !.mods = read, !.outcomes[i] = None]
<1>1. ReloadOne(h, i) = LoadOne(g, i)
  BY Zenon DEF ReloadOne
<1>2. Listed(h.mods) /\ PluginsOK(h.plugins) /\ DOMAIN h = HostFields
  BY DEF HostOK
<1>3. Listed(read) /\ Keeps(h.mods, read, {i})
  <2>1. CASE i \in IdsOf(h.mods)
    <3> DEFINE first == Reloaded(h.mods, i, disk)
               then == Toggled(first, i, TRUE)
    <3>1. Listed(first) /\ IdsOf(first) = IdsOf(h.mods) /\ Keeps(h.mods, first, {i})
      BY <1>2, <2>1, ReloadedKeeps
    <3> HIDE DEF first
    <3>2. Listed(then) /\ Keeps(first, then, {i})
      BY <2>1, <3>1, ToggledKeeps
    <3> HIDE DEF then
    <3>3. Keeps(h.mods, then, {i})
      BY <3>1, <3>2, KeepsOn
    <3> QED BY <2>1, <3>2, <3>3 DEF then, first
  <2>2. CASE i \notin IdsOf(h.mods)
    BY <1>2, <2>2, KeepsAll
  <2> QED BY <2>1, <2>2
<1> HIDE DEF read
<1>4. DOMAIN g = HostFields /\ g.mods = read /\ g.plugins = h.plugins
  BY <1>2 DEF End, HostFields
<1> HIDE DEF g
<1>5. HostOK(g) /\ Follows(h, g, {i})
  BY <1>2, <1>3, <1>4 DEF HostOK, Follows
<1> QED BY <1>1, <1>5, LoadOneFollows, FollowsOn

LEMMA SwitchOffFollows ==
  ASSUME NEW h, HostOK(h), NEW i \in IdsOf(h.mods), i \in Ids
  PROVE  Follows(h, SwitchOff(h, i), {i})
<1> DEFINE off == Toggled(h.mods, i, FALSE)
           ps == [h.plugins EXCEPT ![i] = None]
           g == SwitchOff(h, i)
<1>1. Listed(h.mods) /\ PluginsOK(h.plugins) /\ DOMAIN h = HostFields
  BY DEF HostOK
<1>2. DOMAIN g = HostFields /\ g.mods = off /\ g.plugins = ps
  BY <1>1 DEF SwitchOff, End, HostFields
<1>3. Listed(off) /\ Keeps(h.mods, off, {i})
  BY <1>1, ToggledKeeps
<1>4. PluginsOK(ps) /\ \A j \in Ids \ {i} : ps[j] = h.plugins[j]
  <2>1. PluginOK(None)
    BY DEF PluginOK
  <2> QED BY <1>1, <2>1, PluginAt
<1> HIDE DEF g, off, ps
<1>5. Follows(h, g, {i})
  BY <1>2, <1>3, <1>4 DEF Follows, HostOK
<1> QED BY <1>5 DEF g

-----------------------------------------------------------------------------
(* One after another.                                                      *)

LEMMA SeqLen ==
  ASSUME NEW n \in Nat, NEW f, Lists(f, n)
  PROVE  Len(f) = n
BY SeqIs DEF Lists

LoadRun(h, ids) ==
  CHOOSE f : f = [n \in 0..Len(ids) |->
    IF n = 0 THEN h ELSE LET before == f[n - 1] IN LoadOne(before, ids[n])]
ReloadRun(h, ids) ==
  CHOOSE f : f = [n \in 0..Len(ids) |->
    IF n = 0 THEN h ELSE LET before == f[n - 1] IN ReloadOne(before, ids[n])]
InsertRun(h, ids) ==
  CHOOSE f : f = [n \in 0..Len(ids) |->
    IF n = 0 THEN h ELSE LET before == f[n - 1] IN Inserted(before, ids[n])]

AllLoaded(h, ids) == InTurn(h, ids, LoadOne)

LEMMA LoadRunIs ==
  ASSUME NEW h, NEW ids, Len(ids) \in Nat
  PROVE  LET f == LoadRun(h, ids)
         IN /\ AllLoaded(h, ids) = f[Len(ids)]
            /\ f[0] = h /\ \A n \in 1..Len(ids) : f[n] = LoadOne(f[n - 1], ids[n])
<1> DEFINE all == Len(ids)
           f == LoadRun(h, ids)
<1>1. AllLoaded(h, ids) = f[all]
  BY Zenon DEF AllLoaded, InTurn, LoadRun
<1>2. PICK g : Steps(g, "load", h, all, ids)
  BY StepsExist
<1>3. \A n \in 1..all : g[n] = LoadOne(g[n - 1], ids[n])
  BY <1>2 DEF Steps, Act
<1>4. g = [n \in 0..all |-> IF n = 0 THEN h ELSE LoadOne(g[n - 1], ids[n])]
  <2> HIDE DEF all
  <2>1. \A n \in 0..all : n = 0 \/ n \in 1..all
    OBVIOUS
  <2>2. \A n \in 0..all : g[n] = IF n = 0 THEN h ELSE LoadOne(g[n - 1], ids[n])
    BY <1>2, <1>3, <2>1 DEF Steps
  <2> QED BY <1>2, <2>2 DEF Steps
<1>5. f = [n \in 0..all |-> IF n = 0 THEN h ELSE LoadOne(f[n - 1], ids[n])]
  BY <1>4, Zenon DEF LoadRun
<1> HIDE DEF f
<1>6. \A n \in 0..all : f[n] = IF n = 0 THEN h ELSE LoadOne(f[n - 1], ids[n])
  BY <1>5, Zenon
<1> HIDE DEF all
<1>7. f[0] = h /\ \A n \in 1..all : f[n] = LoadOne(f[n - 1], ids[n])
  BY <1>6 DEF all
<1> QED BY <1>1, <1>7 DEF all, f
AllReloaded(h, ids) == InTurn(h, ids, ReloadOne)

LEMMA ReloadRunIs ==
  ASSUME NEW h, NEW ids, Len(ids) \in Nat
  PROVE  LET f == ReloadRun(h, ids)
         IN /\ AllReloaded(h, ids) = f[Len(ids)]
            /\ f[0] = h /\ \A n \in 1..Len(ids) : f[n] = ReloadOne(f[n - 1], ids[n])
<1> DEFINE all == Len(ids)
           f == ReloadRun(h, ids)
<1>1. AllReloaded(h, ids) = f[all]
  BY Zenon DEF AllReloaded, InTurn, ReloadRun
<1>2. PICK g : Steps(g, "reload", h, all, ids)
  BY StepsExist
<1>3. \A n \in 1..all : g[n] = ReloadOne(g[n - 1], ids[n])
  BY <1>2 DEF Steps, Act
<1>4. g = [n \in 0..all |-> IF n = 0 THEN h ELSE ReloadOne(g[n - 1], ids[n])]
  <2> HIDE DEF all
  <2>1. \A n \in 0..all : n = 0 \/ n \in 1..all
    OBVIOUS
  <2>2. \A n \in 0..all : g[n] = IF n = 0 THEN h ELSE ReloadOne(g[n - 1], ids[n])
    BY <1>2, <1>3, <2>1 DEF Steps
  <2> QED BY <1>2, <2>2 DEF Steps
<1>5. f = [n \in 0..all |-> IF n = 0 THEN h ELSE ReloadOne(f[n - 1], ids[n])]
  BY <1>4, Zenon DEF ReloadRun
<1> HIDE DEF f
<1>6. \A n \in 0..all : f[n] = IF n = 0 THEN h ELSE ReloadOne(f[n - 1], ids[n])
  BY <1>5, Zenon
<1> HIDE DEF all
<1>7. f[0] = h /\ \A n \in 1..all : f[n] = ReloadOne(f[n - 1], ids[n])
  BY <1>6 DEF all
<1> QED BY <1>1, <1>7 DEF all, f
AllInserted(h, ids) == InTurn(h, ids, Inserted)

LEMMA InsertRunIs ==
  ASSUME NEW h, NEW ids, Len(ids) \in Nat
  PROVE  LET f == InsertRun(h, ids)
         IN /\ AllInserted(h, ids) = f[Len(ids)]
            /\ f[0] = h /\ \A n \in 1..Len(ids) : f[n] = Inserted(f[n - 1], ids[n])
<1> DEFINE all == Len(ids)
           f == InsertRun(h, ids)
<1>1. AllInserted(h, ids) = f[all]
  BY Zenon DEF AllInserted, InTurn, InsertRun
<1>2. PICK g : Steps(g, "insert", h, all, ids)
  BY StepsExist
<1>3. \A n \in 1..all : g[n] = Inserted(g[n - 1], ids[n])
  BY <1>2 DEF Steps, Act
<1>4. g = [n \in 0..all |-> IF n = 0 THEN h ELSE Inserted(g[n - 1], ids[n])]
  <2> HIDE DEF all
  <2>1. \A n \in 0..all : n = 0 \/ n \in 1..all
    OBVIOUS
  <2>2. \A n \in 0..all : g[n] = IF n = 0 THEN h ELSE Inserted(g[n - 1], ids[n])
    BY <1>2, <1>3, <2>1 DEF Steps
  <2> QED BY <1>2, <2>2 DEF Steps
<1>5. f = [n \in 0..all |-> IF n = 0 THEN h ELSE Inserted(f[n - 1], ids[n])]
  BY <1>4, Zenon DEF InsertRun
<1> HIDE DEF f
<1>6. \A n \in 0..all : f[n] = IF n = 0 THEN h ELSE Inserted(f[n - 1], ids[n])
  BY <1>5, Zenon
<1> HIDE DEF all
<1>7. f[0] = h /\ \A n \in 1..all : f[n] = Inserted(f[n - 1], ids[n])
  BY <1>6 DEF all
<1> QED BY <1>1, <1>7 DEF all, f

\* What is done to mods one after another is done to those mods.
LEMMA LoadsFollow ==
  ASSUME NEW h, HostOK(h), NEW S \in SUBSET Ids, NEW ids, Len(ids) \in Nat,
         \A k \in 1..Len(ids) : ids[k] \in S
  PROVE  Follows(h, AllLoaded(h, ids), S)
<1> DEFINE n == Len(ids)
           f == LoadRun(h, ids)
           G == {k \in 0..n : Follows(h, f[k], S)}
<1>1. /\ AllLoaded(h, ids) = f[n]
      /\ f[0] = h /\ \A k \in 1..n : f[k] = LoadOne(f[k - 1], ids[k])
  BY LoadRunIs
<1>0. n \in Nat
  OBVIOUS
<1> HIDE DEF f, n
<1>2. 0 \in G
  BY <1>0, <1>1, KeepsAll DEF Follows
<1>3. ASSUME NEW k \in 1..n, k - 1 \in G PROVE k \in G
  <2>1. Follows(h, f[k - 1], S) /\ HostOK(f[k - 1]) /\ ids[k] \in Ids /\ {ids[k]} \subseteq S
    BY <1>3 DEF Follows, n
  <2>2. Follows(f[k - 1], f[k], {ids[k]})
    BY <1>1, <2>1, LoadOneFollows
  <2>3. Follows(h, f[k], S)
    BY <2>1, <2>2, FollowsMore, FollowsOn
  <2> QED BY <2>3
<1> HIDE DEF G
<1>4. n \in G
  <2>1. \A k \in 1..n : k - 1 \in G => k \in G
    BY <1>3
  <2>2. \A k \in 0..n : k \in G
    BY <1>0, <1>2, <2>1, Climb
  <2> QED BY <1>0, <2>2
<1> QED BY <1>1, <1>4 DEF G

LEMMA ReloadsFollow ==
  ASSUME NEW h, HostOK(h), NEW S \in SUBSET Ids, NEW ids, Len(ids) \in Nat,
         \A k \in 1..Len(ids) : ids[k] \in S
  PROVE  Follows(h, AllReloaded(h, ids), S)
<1> DEFINE n == Len(ids)
           f == ReloadRun(h, ids)
           G == {k \in 0..n : Follows(h, f[k], S)}
<1>1. /\ AllReloaded(h, ids) = f[n]
      /\ f[0] = h /\ \A k \in 1..n : f[k] = ReloadOne(f[k - 1], ids[k])
  BY ReloadRunIs
<1>0. n \in Nat
  OBVIOUS
<1> HIDE DEF f, n
<1>2. 0 \in G
  BY <1>0, <1>1, KeepsAll DEF Follows
<1>3. ASSUME NEW k \in 1..n, k - 1 \in G PROVE k \in G
  <2>1. Follows(h, f[k - 1], S) /\ HostOK(f[k - 1]) /\ ids[k] \in Ids /\ {ids[k]} \subseteq S
    BY <1>3 DEF Follows, n
  <2>2. Follows(f[k - 1], f[k], {ids[k]})
    BY <1>1, <2>1, ReloadOneFollows
  <2>3. Follows(h, f[k], S)
    BY <2>1, <2>2, FollowsMore, FollowsOn
  <2> QED BY <2>3
<1> HIDE DEF G
<1>4. n \in G
  <2>1. \A k \in 1..n : k - 1 \in G => k \in G
    BY <1>3
  <2>2. \A k \in 0..n : k \in G
    BY <1>0, <1>2, <2>1, Climb
  <2> QED BY <1>0, <2>2
<1> QED BY <1>1, <1>4 DEF G

LEMMA InsertsListed ==
  ASSUME NEW ms, Len(ms) \in Nat, \A k \in 1..Len(ms) : IsManifest(ms[k])
  PROVE  Listed(AllInserted(<<>>, ms))
<1> DEFINE n == Len(ms)
           f == InsertRun(<<>>, ms)
           G == {k \in 0..n : Listed(f[k])}
<1>1. /\ AllInserted(<<>>, ms) = f[n]
      /\ f[0] = <<>> /\ \A k \in 1..n : f[k] = Inserted(f[k - 1], ms[k])
  BY InsertRunIs
<1>0. n \in Nat
  OBVIOUS
<1> HIDE DEF f, n
<1>2. 0 \in G
  <2>1. ModsOf(<<>>, 0)
    BY DEF ModsOf, Lists
  <2>2. 0 \in 0..n
    BY <1>0
  <2>3. Listed(<<>>)
    BY <2>1 DEF Listed
  <2> QED BY <1>1, <2>2, <2>3
<1>3. ASSUME NEW k \in 1..n, k - 1 \in G PROVE k \in G
  <2>1. Listed(f[k - 1]) /\ IsManifest(ms[k])
    BY <1>3 DEF n
  <2>2. Listed(f[k])
    BY <1>1, <2>1, InsertedKeeps
  <2> QED BY <2>2
<1> HIDE DEF G
<1>4. n \in G
  <2>1. \A k \in 1..n : k - 1 \in G => k \in G
    BY <1>3
  <2>2. \A k \in 0..n : k \in G
    BY <1>0, <1>2, <2>1, Climb
  <2> QED BY <1>0, <2>2
<1> QED BY <1>1, <1>4 DEF G

-----------------------------------------------------------------------------
(* A mirror shows the host.                                                *)

SessionFields == {"kind", "set", "seed", "mirrored"}

SessionOK(s, b) == s # NoSession => b /\ SessionFields \subseteq DOMAIN s

\* What the session was entered with is still loaded, and the world's, but for
\* what was run or read past the guard.
SetOK(s, l, ms) ==
  s # NoSession =>
    \A m \in s.set :
      m.id \in Ids /\ (m.id \notin l => m.id \in IdsOf(ms) /\ Get(ms, m.id).side = "world")

ShownOK(s, l, ps) ==
  s # NoSession /\ s.kind = "client" /\ s.mirrored =>
    \A m \in s.set :
      m.id \notin l /\ ps[m.id] # None /\ ps[m.id].side = "world" => ps[m.id].records = "host's"

Mirror(s, b, l, ms, ps) ==
  Listed(ms) /\ PluginsOK(ps) /\ SessionOK(s, b) /\ SetOK(s, l, ms) /\ ShownOK(s, l, ps)

MirrorInv == Mirror(session, booted, loose, mods, plugins)

LEMMA HostIs ==
  /\ DOMAIN Host = HostFields
  /\ Host.mods = mods /\ Host.plugins = plugins
  /\ Listed(mods) /\ PluginsOK(plugins) => HostOK(Host)
BY DEF Host, HostFields, HostOK

LEMMA DiscoverListed ==
  ASSUME NEW d, NEW n \in Nat, DOMAIN d = 1..n, NEW mode
  PROVE  Listed(Discover(d, mode))
<1> DEFINE loading == Loading(d, mode)
           ms == LoadedFrom(d, mode)
<1>1. \A k \in DOMAIN loading : Loads(d[loading[k]], mode)
  BY LoadingIs
<1>2. /\ Discover(d, mode) = Order(ms) /\ DOMAIN ms = DOMAIN loading
      /\ \A k \in DOMAIN ms : ms[k] = LoadSource(d[loading[k]], loading[k], mode)
  BY LoadedFromIs
<1>3. PICK c \in Nat : ListOf(ms, c)
  BY LoadedFromIs
<1> HIDE DEF ms, loading
<1>4. Lists(ms, c) /\ \A k \in 1..c : IsManifest(ms[k])
  BY <1>1, <1>2, <1>3, LoadedIsManifest DEF ListOf, Lists
<1> QED BY <1>2, <1>4, OrderListed

LEMMA LoadAllOK ==
  ASSUME NEW h, HostOK(h)
  PROVE  HostOK(LoadAll(h))
<1> DEFINE ids == [k \in DOMAIN h.mods |-> h.mods[k].id]
<1>1. PICK n \in Nat : ModsOf(h.mods, n)
  BY DEF HostOK, Listed
<1>2. DOMAIN h.mods = 1..n /\ \A k \in 1..n : h.mods[k].id \in Ids
  BY <1>1 DEF ModsOf, Lists, IsManifest
<1>3. Lists(ids, n) /\ \A k \in 1..n : ids[k] \in Ids
  BY <1>2 DEF Lists
<1>4. LoadAll(h) = AllLoaded(h, ids)
  BY Zenon DEF LoadAll, AllLoaded
<1> HIDE DEF ids
<1>5. Len(ids) = n
  BY <1>3, SeqLen
<1>6. Follows(h, AllLoaded(h, ids), Ids)
  BY <1>3, <1>5, LoadsFollow
<1> QED BY <1>4, <1>6 DEF Follows

LEMMA FreshOK ==
  ASSUME NEW h, HostOK(h), NEW ms, Listed(ms)
  PROVE  HostOK(Fresh(h, ms))
<1> DEFINE g == Fresh(h, ms)
<1>1. DOMAIN g = HostFields /\ g.mods = ms /\ g.plugins = h.plugins
  BY DEF Fresh, HostOK, HostFields
<1> HIDE DEF g
<1>2. HostOK(g)
  BY <1>1 DEF HostOK
<1> QED BY <1>2 DEF g

\* What was done to some of the mods leaves the mirror, when these are not of
\* the session's world or have been set loose.
LEMMA MirrorFollows ==
  ASSUME NEW s, NEW b, NEW l, NEW h, Mirror(s, b, l, h.mods, h.plugins),
         NEW g, NEW S, Follows(h, g, S), NEW l1, l \subseteq l1,
         s # NoSession => \A m \in s.set : m.id \in S => m.id \in l1
  PROVE  Mirror(s, b, l1, g.mods, g.plugins)
<1>1. Listed(g.mods) /\ PluginsOK(g.plugins) /\ SessionOK(s, b)
  BY DEF Follows, HostOK, Mirror
<1>2. ASSUME s # NoSession, NEW m \in s.set
      PROVE  /\ m.id \in Ids /\ m.id \notin l1 => m.id \notin l /\ m.id \in Ids \ S
  BY <1>2 DEF Mirror, SetOK
<1>3. SetOK(s, l1, g.mods)
  <2> SUFFICES ASSUME s # NoSession, NEW m \in s.set
               PROVE  m.id \in Ids /\ (m.id \notin l1 => m.id \in IdsOf(g.mods) /\ Get(g.mods, m.id).side = "world")
    BY DEF SetOK
  <2>1. m.id \in Ids /\ (m.id \notin l => m.id \in IdsOf(h.mods) /\ Get(h.mods, m.id).side = "world")
    BY DEF Mirror, SetOK
  <2> QED BY <1>2, <2>1 DEF Follows, Keeps
<1>4. ShownOK(s, l1, g.plugins)
  <2> SUFFICES ASSUME s # NoSession, s.kind = "client", s.mirrored, NEW m \in s.set,
                      m.id \notin l1, g.plugins[m.id] # None, g.plugins[m.id].side = "world"
               PROVE  g.plugins[m.id].records = "host's"
    BY DEF ShownOK
  <2>0. m.id \in Ids
    BY DEF Mirror, SetOK
  <2>1. m.id \notin l /\ g.plugins[m.id] = h.plugins[m.id]
    BY <1>2, <2>0 DEF Follows
  <2> QED BY <2>1 DEF Mirror, ShownOK
<1> QED BY <1>1, <1>3, <1>4 DEF Mirror

LEMMA BootMirrors ==
  ASSUME MirrorInv, NEW g, HostOK(g), Become(g), ~booted, booted',
         UNCHANGED <<session, loose>>
  PROVE  MirrorInv'
<1>1. session = NoSession
  BY DEF MirrorInv, Mirror, SessionOK
<1>2. Listed(mods') /\ PluginsOK(plugins')
  BY DEF HostOK, Become
<1> QED BY <1>1, <1>2 DEF MirrorInv, Mirror, SessionOK, SetOK, ShownOK

LEMMA BootsMirror ==
  ASSUME MirrorInv, DiskOK, (\E watch \in BOOLEAN : BootFromDisk(watch)) \/ BootFromMemory
  PROVE  MirrorInv'
<1>1. Len(disk) \in Nat /\ DOMAIN disk = 1..Len(disk)
  BY DEF DiskOK
<1>2. HostOK(Host)
  BY HostIs DEF MirrorInv, Mirror
<1>3. ASSUME NEW watch \in BOOLEAN, BootFromDisk(watch) PROVE MirrorInv'
  <2> DEFINE h == Fresh(Host, Discover(disk, "keep"))
  <2>1. /\ ~booted /\ booted' /\ Become(LoadAll(h))
        /\ UNCHANGED <<session, loose>>
    BY <1>3, Zenon DEF BootFromDisk
  <2>2. HostOK(LoadAll(h))
    BY <1>1, <1>2, DiscoverListed, FreshOK, LoadAllOK
  <2> HIDE DEF h
  <2> QED BY <2>1, <2>2, BootMirrors
<1>4. ASSUME BootFromMemory PROVE MirrorInv'
  <2> DEFINE P == {s \in Slots : Loads(disk[s], "keep")}
             loading == InOrder(P)
             f == [k \in DOMAIN loading |-> LoadSource(disk[loading[k]], loading[k], "keep")]
             stored == <<>> \o f
             h == Fresh(Host, AllInserted(<<>>, stored))
             c == Cardinality(P)
  <2>1. /\ ~booted /\ booted' /\ Become(LoadAll(h))
        /\ UNCHANGED <<session, loose>>
    BY <1>4, Zenon DEF BootFromMemory, AllInserted
  <2>2. c \in Nat /\ loading \in [1..c -> P]
    <3>1. P \in SUBSET (1..Len(disk))
      BY <1>1 DEF Slots
    <3> HIDE DEF P
    <3>2. P \in SUBSET Nat /\ IsFiniteSet(P)
      BY <1>1, <3>1, InOrderFinite
    <3> QED BY <3>2, InOrderIs
  <2>3. \A s \in P : Loads(disk[s], "keep")
    OBVIOUS
  <2> HIDE DEF P, c, loading
  <2>4. Lists(f, c) /\ \A k \in 1..c : IsManifest(f[k])
    <3>1. DOMAIN f = 1..c /\ \A k \in 1..c : f[k] = LoadSource(disk[loading[k]], loading[k], "keep")
      BY <2>2
    <3>2. Lists(f, c)
      BY <2>2 DEF Lists
    <3>3. \A k \in 1..c : Loads(disk[loading[k]], "keep")
      BY <2>2, <2>3
    <3> HIDE DEF f
    <3> QED BY <3>1, <3>2, <3>3, LoadedIsManifest
  <2> HIDE DEF f
  <2>5. stored = f /\ Len(stored) = c
    BY <2>2, <2>4, EmptyConcat, SeqLen
  <2> HIDE DEF stored
  <2>6. Listed(AllInserted(<<>>, stored))
    BY <2>2, <2>4, <2>5, InsertsListed
  <2>7. HostOK(LoadAll(h))
    BY <1>2, <2>6, FreshOK, LoadAllOK
  <2> HIDE DEF h
  <2> QED BY <2>1, <2>7, BootMirrors
<1> QED BY <1>3, <1>4

LEMMA MirrorInit == Init => MirrorInv
<1> SUFFICES ASSUME Init PROVE MirrorInv
  OBVIOUS
<1>1. mods = <<>> /\ plugins = [i \in Ids |-> None] /\ session = NoSession
  BY DEF Init
<1>2. ModsOf(<<>>, 0)
  BY DEF ModsOf, Lists
<1>3. Listed(mods)
  BY <1>1, <1>2 DEF Listed
<1>4. PluginsOK(plugins)
  BY <1>1 DEF PluginsOK, PluginOK
<1> QED BY <1>1, <1>3, <1>4 DEF MirrorInv, Mirror, SessionOK, SetOK, ShownOK

\* What is done to the host in one step, by an operation on the mods of S.
LEMMA OperationMirrors ==
  ASSUME MirrorInv, NEW g, NEW S, Follows(Host, g, S), Become(g),
         session' = session, booted' = booted, loose \subseteq loose',
         session # NoSession => \A m \in session.set : m.id \in S => m.id \in loose'
  PROVE  MirrorInv'
<1>1. Mirror(session, booted, loose, Host.mods, Host.plugins)
  BY HostIs DEF MirrorInv
<1>2. Mirror(session, booted, loose', g.mods, g.plugins)
  BY <1>1, MirrorFollows
<1> QED BY <1>2 DEF MirrorInv, Become

LEMMA SetEnabledMirrors ==
  ASSUME MirrorInv, NEW i \in Ids, NEW on \in BOOLEAN, SetEnabled(i, on)
  PROVE  MirrorInv'
<1> DEFINE g == IF on THEN ReloadOne(Host, i) ELSE SwitchOff(Host, i)
<1>1. HostOK(Host) /\ i \in IdsOf(Host.mods)
  BY HostIs DEF MirrorInv, Mirror, SetEnabled
<1>2. Follows(Host, g, {i})
  BY <1>1, ReloadOneFollows, SwitchOffFollows
<1>3. Become(g) /\ session' = session /\ booted' = booted /\ loose' = loose
  BY Zenon DEF SetEnabled
<1>4. session # NoSession => \A m \in session.set : m.id \in {i} => m.id \in loose
  <2> SUFFICES ASSUME session # NoSession, NEW m \in session.set, m.id = i PROVE m.id \in loose
    OBVIOUS
  <2>1. Get(mods, i).side # "world"
    BY DEF SetEnabled, Refused, InSession
  <2> QED BY <2>1 DEF MirrorInv, Mirror, SetOK
<1> HIDE DEF g
<1> QED BY <1>2, <1>3, <1>4, OperationMirrors

LEMMA AddPulledMirrors ==
  ASSUME MirrorInv, DiskOK, NEW i \in Ids, AddPulled(i)
  PROVE  MirrorInv'
<1> DEFINE ms == Discover(disk, "keep")
           h == [Host EXCEPT !.mods = ms]
           g == LoadOne(h, i)
<1>1. /\ Become(g) /\ session' = session /\ booted' = booted
      /\ loose \subseteq loose' /\ IdsOf(mods) \subseteq loose'
  BY Zenon DEF AddPulled
<1>2. HostOK(h)
  <2>1. Listed(ms)
    BY DiscoverListed DEF DiskOK
  <2> HIDE DEF ms
  <2>2. DOMAIN h = HostFields /\ h.mods = ms /\ h.plugins = plugins
    BY HostIs DEF HostFields
  <2> HIDE DEF h
  <2> QED BY <2>1, <2>2 DEF HostOK, MirrorInv, Mirror
<1> HIDE DEF ms
<1>3. \A j \in Ids \ {i} : g.plugins[j] = plugins[j]
  <2>1. h.plugins = plugins
    BY HostIs DEF HostFields
  <2> HIDE DEF h
  <2> QED BY <1>2, <2>1, LoadOneFollows DEF Follows
<1>4. HostOK(g)
  BY <1>2, LoadOneFollows DEF Follows
<1> HIDE DEF g, h
<1>5. session # NoSession => \A m \in session.set : m.id \in loose'
  BY <1>1 DEF MirrorInv, Mirror, SetOK
<1>6. SetOK(session, loose', mods') /\ ShownOK(session, loose', plugins')
  <2>1. session # NoSession => \A m \in session.set : m.id \in Ids
    BY DEF MirrorInv, Mirror, SetOK
  <2> QED BY <1>5, <2>1 DEF SetOK, ShownOK
<1> QED BY <1>1, <1>4, <1>6 DEF MirrorInv, Mirror, HostOK, Become

LEMMA EditorRunsMirrors ==
  ASSUME MirrorInv, NEW src, EditorRuns(src)
  PROVE  MirrorInv'
<1> DEFINE m == LoadSource(src, 0, "keep")
           known == m.id \in IdsOf(mods)
           x == [m EXCEPT !.enabled = Get(mods, m.id).enabled]
           ms == IF known THEN Inserted(mods, x) ELSE Inserted(mods, m)
           ended == IF known THEN End(Host, m.id) ELSE Host
           held == [ended EXCEPT !.mods = IF known THEN Replaced(@, m) ELSE Inserted(@, m),
                                 !.outcomes[m.id] = None]
           g == LoadOne(held, m.id)
<1>1. /\ Become(g) /\ session' = session /\ booted' = booted
      /\ loose' = loose \cup {m.id} /\ Loads(src, "keep")
  BY Zenon DEF EditorRuns
<1>2. IsManifest(m)
  BY <1>1, LoadedIsManifest
<1>3. ended.mods = mods /\ ended.plugins = plugins /\ DOMAIN ended = HostFields
  BY HostIs DEF End, HostFields
<1>4. held.mods = ms /\ held.plugins = plugins /\ DOMAIN held = HostFields
  <2>1. (IF known THEN Replaced(ended.mods, m) ELSE Inserted(ended.mods, m)) = ms
    BY <1>3 DEF Replaced
  <2> HIDE DEF ended, ms
  <2> QED BY <1>3, <2>1 DEF HostFields
<1> HIDE DEF m, held, ended
<1>5. IsManifest(x) /\ x.id = m.id
  BY <1>2, StillManifest
<1> HIDE DEF x
<1>6. Listed(ms) /\ Keeps(mods, ms, {m.id})
  BY <1>2, <1>5, InsertedKeeps DEF MirrorInv, Mirror
<1> HIDE DEF ms, known
<1>7. Follows(Host, held, {m.id}) /\ HostOK(held)
  BY <1>4, <1>6, HostIs DEF Follows, HostOK, MirrorInv, Mirror
<1>8. Follows(Host, g, {m.id})
  BY <1>2, <1>7, LoadOneFollows, FollowsOn DEF IsManifest
<1> HIDE DEF g
<1> QED BY <1>1, <1>8, OperationMirrors

LEMMA PollWatchMirrors ==
  ASSUME MirrorInv, NEW due \in SUBSET Ids, PollWatch(due)
  PROVE  MirrorInv'
<1> DEFINE ids == InOrder(due)
           g == AllReloaded(Host, ids)
           n == Cardinality(due)
<1>1. /\ Become(g) /\ session' = session /\ booted' = booted
      /\ loose' = loose \cup (IF InSession THEN due ELSE {})
  BY Zenon DEF PollWatch, AllReloaded
<1>2. n \in Nat /\ ids \in [1..n -> due]
  BY IdsFinite, InOrderIs
<1> HIDE DEF ids, n
<1>3. Lists(ids, n) /\ \A k \in 1..n : ids[k] \in due
  BY <1>2 DEF Lists
<1>4. HostOK(Host)
  BY HostIs DEF MirrorInv, Mirror
<1>5. Follows(Host, g, due)
  BY <1>2, <1>3, <1>4, SeqLen, ReloadsFollow
<1> HIDE DEF g
<1> QED BY <1>1, <1>5, OperationMirrors DEF InSession

LEMMA EnterMirrors ==
  ASSUME MirrorInv, NEW as, Enter(as)
  PROVE  MirrorInv'
<1>1. /\ session' = [kind |-> as, set |-> WorldSet, seed |-> None, mirrored |-> FALSE]
      /\ booted /\ UNCHANGED <<booted, mods, plugins>>
  BY DEF Enter, host
<1>2. PICK n \in Nat : ModsOf(mods, n)
  BY DEF MirrorInv, Mirror, Listed
<1>3. \A m \in WorldSet : m.id \in Ids /\ m.id \in IdsOf(mods) /\ Get(mods, m.id).side = "world"
  <2> SUFFICES ASSUME NEW k \in DOMAIN mods, mods[k].side = "world"
               PROVE  LET i == mods[k].id
                      IN i \in Ids /\ i \in IdsOf(mods) /\ Get(mods, i).side = "world"
    BY DEF WorldSet
  <2>1. k \in 1..n /\ IsManifest(mods[k])
    BY <1>2 DEF ModsOf, Lists
  <2> QED BY <1>2, <2>1, GetIs DEF IsManifest
<1> HIDE DEF WorldSet
<1>4. SessionOK(session', booted')
  BY <1>1 DEF SessionOK, SessionFields
<1>5. session'.set = WorldSet /\ session'.mirrored = FALSE
  BY <1>1
<1>6. SetOK(session', loose', mods') /\ ShownOK(session', loose', plugins')
  BY <1>1, <1>3, <1>5 DEF SetOK, ShownOK
<1> QED BY <1>1, <1>4, <1>6 DEF MirrorInv, Mirror

\* What became of the modules, when the mods and who is loose stay.
LEMMA PluginsMirror ==
  ASSUME MirrorInv, PluginsOK(plugins'), booted' = booted, mods' = mods, loose' = loose,
         SessionOK(session', booted), session # NoSession, session'.set = session.set,
         ShownOK(session', loose, plugins')
  PROVE  MirrorInv'
<1>1. SetOK(session', loose, mods)
  BY DEF MirrorInv, Mirror, SetOK
<1> QED BY <1>1 DEF MirrorInv, Mirror

LEMMA UseSeedMirrors ==
  ASSUME MirrorInv, NEW seed, UseSeed(seed)
  PROVE  MirrorInv'
<1>1. /\ session # NoSession /\ session' = [session EXCEPT !.seed = seed]
      /\ plugins' = [i \in Ids |-> Seeded(plugins[i], seed)]
      /\ UNCHANGED <<mods, booted, loose>>
  BY DEF UseSeed, InSession
<1>2. booted /\ SessionFields \subseteq DOMAIN session
  BY <1>1 DEF MirrorInv, Mirror, SessionOK
<1>3. /\ session'.set = session.set /\ session'.kind = session.kind
      /\ session'.mirrored = session.mirrored /\ SessionFields \subseteq DOMAIN session'
  BY <1>1, <1>2 DEF SessionFields
<1>4. \A i \in Ids : /\ PluginOK(plugins'[i])
                     /\ plugins'[i] # None => /\ plugins[i] # None
                                              /\ plugins'[i].side = plugins[i].side
                                              /\ plugins'[i].records = plugins[i].records
  <2> SUFFICES ASSUME NEW i \in Ids, NEW p, p = plugins[i], NEW q, q = Seeded(p, seed)
               PROVE  /\ PluginOK(q)
                      /\ q # None => p # None /\ q.side = p.side /\ q.records = p.records
    BY <1>1
  <2>1. PluginOK(p)
    BY DEF MirrorInv, Mirror, PluginsOK
  <2> QED BY <2>1 DEF PluginOK, Seeded
<1>5. PluginsOK(plugins')
  BY <1>1, <1>4 DEF PluginsOK
<1>6. ShownOK(session', loose, plugins')
  <2>1. \A m \in session.set : m.id \in Ids
    BY <1>1 DEF MirrorInv, Mirror, SetOK
  <2> QED BY <1>1, <1>3, <1>4, <2>1 DEF MirrorInv, Mirror, ShownOK
<1> QED BY <1>1, <1>2, <1>3, <1>5, <1>6, PluginsMirror DEF SessionOK

LEMMA ApplyMirrors ==
  ASSUME MirrorInv, ApplyWorldMods
  PROVE  MirrorInv'
<1>1. /\ session # NoSession /\ session' = [session EXCEPT !.mirrored = TRUE]
      /\ plugins' = [i \in Ids |-> Applied(plugins[i])]
      /\ UNCHANGED <<mods, booted, loose>>
  BY DEF ApplyWorldMods, InSession
<1>2. booted /\ SessionFields \subseteq DOMAIN session
  BY <1>1 DEF MirrorInv, Mirror, SessionOK
<1>3. session'.set = session.set /\ SessionFields \subseteq DOMAIN session'
  BY <1>1, <1>2 DEF SessionFields
<1>4. \A i \in Ids : /\ PluginOK(plugins'[i])
                     /\ plugins'[i] # None /\ plugins'[i].side = "world"
                          => plugins'[i].records = "host's"
  <2> SUFFICES ASSUME NEW i \in Ids, NEW p, p = plugins[i], NEW q, q = Applied(p)
               PROVE  /\ PluginOK(q)
                      /\ q # None /\ q.side = "world" => q.records = "host's"
    BY <1>1
  <2>1. PluginOK(p)
    BY DEF MirrorInv, Mirror, PluginsOK
  <2> QED BY <2>1 DEF PluginOK, Applied
<1>5. PluginsOK(plugins')
  BY <1>1, <1>4 DEF PluginsOK
<1>6. ShownOK(session', loose, plugins')
  <2>1. \A m \in session.set : m.id \in Ids
    BY <1>1 DEF MirrorInv, Mirror, SetOK
  <2> QED BY <1>3, <1>4, <2>1 DEF ShownOK
<1> QED BY <1>1, <1>2, <1>3, <1>5, <1>6, PluginsMirror DEF SessionOK

LEMMA DriveMirrors ==
  ASSUME MirrorInv, DriveWasm
  PROVE  MirrorInv'
<1> DEFINE world == ~InSession \/ session.kind = "host"
<1>1. /\ plugins' = [i \in Ids |-> IF Ticks(plugins[i], world) THEN Tick(plugins[i]) ELSE plugins[i]]
      /\ UNCHANGED <<mods, booted, loose, session>>
  BY DEF DriveWasm
<1>2. \A i \in Ids :
        /\ PluginOK(plugins'[i])
        /\ plugins'[i] # None /\ plugins'[i].side = "world" /\ ~world => plugins'[i] = plugins[i]
  <2> HIDE DEF world
  <2> SUFFICES ASSUME NEW i \in Ids, NEW p, p = plugins[i],
                      NEW q, q = IF Ticks(p, world) THEN Tick(p) ELSE p
               PROVE  PluginOK(q) /\ (q # None /\ q.side = "world" /\ ~world => q = p)
    BY <1>1
  <2>1. PluginOK(p)
    BY DEF MirrorInv, Mirror, PluginsOK
  <2> QED BY <2>1 DEF PluginOK, Ticks, Tick
<1>3. PluginsOK(plugins')
  BY <1>1, <1>2 DEF PluginsOK
<1>4. session # NoSession /\ session.kind = "client" => ~world
  BY DEF InSession
<1> HIDE DEF world
<1>5. ShownOK(session, loose, plugins')
  <2>1. session # NoSession => \A m \in session.set : m.id \in Ids
    BY DEF MirrorInv, Mirror, SetOK
  <2> QED BY <1>2, <1>4, <2>1 DEF MirrorInv, Mirror, ShownOK
<1> QED BY <1>1, <1>3, <1>5 DEF MirrorInv, Mirror

LEMMA MirrorStep == MirrorInv /\ DiskOK /\ [Next]_vars => MirrorInv'
<1> SUFFICES ASSUME MirrorInv, DiskOK, [Next]_vars PROVE MirrorInv'
  OBVIOUS
<1>1. CASE UNCHANGED <<session, booted, loose, mods, plugins>>
  BY <1>1 DEF MirrorInv
<1>2. CASE Leave
  <2>1. session' = NoSession /\ UNCHANGED <<booted, loose, mods, plugins>>
    BY <1>2 DEF Leave, host
  <2> QED BY <2>1 DEF MirrorInv, Mirror, SessionOK, SetOK, ShownOK
<1>3. CASE \E s \in Slots : \E src \in Drafts[s] : Write(s, src)
  BY <1>1, <1>3 DEF Write, host
<1>4. CASE UNCHANGED vars
  BY <1>1, <1>4 DEF vars, host
<1> QED
  BY <1>2, <1>3, <1>4, BootsMirror, SetEnabledMirrors, AddPulledMirrors, EditorRunsMirrors,
     EnterMirrors, UseSeedMirrors, ApplyMirrors, PollWatchMirrors, DriveMirrors
  DEF Next

THEOREM MirrorsHold == Spec => []MirrorsShowTheHost
<1>1. MirrorInv => MirrorsShowTheHost
  BY DEF MirrorInv, Mirror, ShownOK, MirrorsShowTheHost, InSession
<1>2. Init => DiskOK /\ MirrorInv
  BY DiskInit, MirrorInit
<1>3. DiskOK /\ MirrorInv /\ [Next]_vars => (DiskOK /\ MirrorInv)'
  BY DiskStep, MirrorStep
<1> QED BY <1>1, <1>2, <1>3, PTL DEF Spec

=============================================================================
