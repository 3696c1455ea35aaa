------------------------------ MODULE MCRelay ------------------------------
(* Poses and worlds that each put one number at an edge of its grid.       *)
EXTENDS Relay

Still == [x |-> 0, z |-> 0, yaw |-> 0, phase |-> 0, speed |-> 0, py |-> 0,
          gait |-> "idle", pitch |-> 0, roll |-> 0]

(* Halves, the ends of a range and beyond them.                            *)
Edges(grid) ==
  <<grid.lo * grid.per - 1, grid.lo * grid.per, -1, 1, grid.per \div 2,
    -(grid.per \div 2), grid.hi * grid.per + 7>>

(* Half a turn and its neighbours, and a heading after many turns.         *)
Headings == <<Pi, Pi - 1, Pi - 427, -Pi, 1 - Pi, 3 * Pi, 7 * Tau + 31415500>>

SomePoses ==
  {[x |-> Edges(PerMetre)[i], z |-> Edges(PerMetre)[8 - i], yaw |-> Headings[i],
    phase |-> Edges(PhaseSteps)[i], speed |-> Edges(PerSpeed)[i],
    py |-> Edges(PerMetre)[1 + (i % 7)], pitch |-> Edges(PerDegree)[i],
    roll |-> Edges(PerDegree)[8 - i], gait |-> "fly"] : i \in 1..7}
  \cup {[Still EXCEPT !.pitch = NaN, !.roll = Infinity, !.gait = "moonwalk"],
        [Still EXCEPT !.x = NaN], [Still EXCEPT !.yaw = -Infinity]}

Bot == [index |-> 0, x |-> 0, z |-> 0, yaw |-> 0, phase |-> 0, gait |-> "walk",
        variant |-> 0, py |-> 0, pitch |-> 0, roll |-> 0]

Whole(head, bots) ==
  [kind |-> "world", part |-> 0, parts |-> 1, herd |-> Len(bots), head |-> head,
   bots |-> bots]

TheHead(eaten, craters, spent) ==
  <<[eaten |-> eaten, craters |-> craters, spent |-> spent]>>

SomeHeads ==
  {None, TheHead(None, None, None), TheHead(<<<<>>>>, None, None),
   TheHead(<<<<[key |-> 3, left |-> 85], [key |-> 4, left |-> 131079]>>>>,
           <<<<[x |-> 15, z |-> -15, r |-> 400000, depth |-> 4]>>>>,
           <<<<[key |-> 3, trap |-> TRUE]>>>>)}

SomeWorlds ==
  {Whole(head, <<>>) : head \in SomeHeads}
  \cup {Whole(None, <<[Bot EXCEPT !.yaw = Headings[i], !.x = Edges(PerMetre)[i],
                                  !.phase = Edges(PhaseSteps)[i]], Bot>>) : i \in 1..7}

SomeSizes == {60, MaxVoiceBytes, MaxVoiceBytes + 1, MaxDatagramBytes + 1}
=============================================================================
