-------------------------------- MODULE Wire --------------------------------
(***************************************************************************)
(* What a datagram says once it has travelled: crates/proto, `encode_...`  *)
(* and `decode_datagram` of lib.rs over the packed form of wire.rs.        *)
(*                                                                         *)
(* A number the scene hands over is an integer in a unit finer than the    *)
(* grid it is rounded to: thousandths of a metre, 1e-7 of a radian, 1024ths*)
(* of a metre a second, 510ths of a clip, eighths of a second.  The grids  *)
(* and their ranges are the code's.  A number that is not finite is beyond *)
(* every range.                                                            *)
(***************************************************************************)
EXTENDS Integers, Sequences

Infinity == 2000000000
NaN == 2000000001
IsFinite(number) == -Infinity < number /\ number < Infinity

MaxHerd == 100
MaxWorldParts == 8
MaxVoiceBytes == 512
MaxDatagramBytes == 1200

(* An optional value is the sequence of the values there are. *)
None == <<>>

(***************************************************************************)
(* The grids.  `per` is how many of the finer units make one step.         *)
(***************************************************************************)
I16(per) == [per |-> per, lo |-> -32768, hi |-> 32767]
PerMetre == I16(10)
PerTurn == I16(1000)
PerSpeed == I16(4)
PhaseSteps == [per |-> 2, lo |-> 0, hi |-> 255]
PerSecond == [per |-> 2, lo |-> 0, hi |-> 65535]

Round(number, per) ==                               \* halves away from zero
  IF number >= 0 THEN (number + per \div 2) \div per
                 ELSE -((per \div 2 - number) \div per)

Quantize(number, grid) ==
  LET units == Round(number, grid.per)
  IN CASE number = NaN -> 0
       [] units < grid.lo -> grid.lo
       [] units > grid.hi -> grid.hi
       [] OTHER -> units

Dequantize(units, grid) == units * grid.per

(* pi to the unit, in which the grid spans 3.2767 radians either way.      *)
Pi == 31415927
Tau == 2 * Pi

Unwrapped(yaw) == yaw                               \* faulty: clamped instead

WrapTurn(yaw) ==
  LET turned == yaw % Tau IN IF turned >= Pi THEN turned - Tau ELSE turned

Turns(yaw) == Quantize(IF IsFinite(yaw) THEN WrapTurn(yaw) ELSE NaN, PerTurn)

(***************************************************************************)
(* The records.  Of each the fields on a grid are named; the others, an    *)
(* index or a key or a gait or a height in whole centimetres, are copied.  *)
(***************************************************************************)
PeerState == [x |-> PerMetre, z |-> PerMetre, yaw |-> PerTurn, phase |-> PhaseSteps,
              speed |-> PerSpeed, py |-> PerMetre]
BotState == [x |-> PerMetre, z |-> PerMetre, yaw |-> PerTurn, phase |-> PhaseSteps]
Crater == [x |-> PerMetre, z |-> PerMetre, r |-> PerMetre, depth |-> PerMetre]
EatenCell == [left |-> PerSecond]

AllFinite(grids, record) ==
  \A field \in DOMAIN grids \cap DOMAIN record : IsFinite(record[field])

Each(list, Op(_)) == [i \in 1..Len(list) |-> Op(list[i])]

PackRecord(grids, record) ==
  [field \in DOMAIN record |->
     CASE field \notin DOMAIN grids -> record[field]
       [] field = "yaw" -> Turns(record[field])
       [] OTHER -> Quantize(record[field], grids[field])]

UnpackRecord(grids, record) ==
  [field \in DOMAIN record |->
     IF field \in DOMAIN grids THEN Dequantize(record[field], grids[field])
                               ELSE record[field]]

PackPeer(peer) == PackRecord(PeerState, peer)
UnpackPeer(peer) == UnpackRecord(PeerState, peer)
PackBot(bot) == PackRecord(BotState, bot)
UnpackBot(bot) == UnpackRecord(BotState, bot)
PackCrater(crater) == PackRecord(Crater, crater)
UnpackCrater(crater) == UnpackRecord(Crater, crater)
PackEaten(cell) == PackRecord(EatenCell, cell)
UnpackEaten(cell) == UnpackRecord(EatenCell, cell)

(* What was shed is absent; an empty list is empty. *)
PackHead(head) ==
  [head EXCEPT !.eaten = Each(@, LAMBDA cells : Each(cells, PackEaten)),
               !.craters = Each(@, LAMBDA list : Each(list, PackCrater))]

UnpackHead(head) ==
  [head EXCEPT !.eaten = Each(@, LAMBDA cells : Each(cells, UnpackEaten)),
               !.craters = Each(@, LAMBDA list : Each(list, UnpackCrater))]

HeadIsFinite(head) ==
  /\ \A i \in 1..Len(head.eaten) : \A j \in 1..Len(head.eaten[i]) :
       AllFinite(EatenCell, head.eaten[i][j])
  /\ \A i \in 1..Len(head.craters) : \A j \in 1..Len(head.craters[i]) :
       AllFinite(Crater, head.craters[i][j])

(***************************************************************************)
(* The four kinds of datagram: "peer", "world", "mods" and "voice".  What  *)
(* a mod publishes and what Opus makes of a voice is not looked into; the  *)
(* sizes of those two are what the limits are about.                       *)
(***************************************************************************)
Pack(datagram) ==
  CASE datagram.kind = "peer" ->
         [datagram EXCEPT !.state = PackPeer(@)]
    [] datagram.kind = "world" ->
         [datagram EXCEPT !.head = Each(@, PackHead), !.bots = Each(@, PackBot)]
    [] OTHER -> datagram

Unpack(packed) ==
  CASE packed.kind = "peer" ->
         [packed EXCEPT !.state = UnpackPeer(@)]
    [] packed.kind = "world" ->
         [packed EXCEPT !.head = Each(@, UnpackHead), !.bots = Each(@, UnpackBot)]
    [] OTHER -> packed

DatagramIsFinite(datagram) ==
  CASE datagram.kind = "peer" -> AllFinite(PeerState, datagram.state)
    [] datagram.kind = "world" ->
         /\ \A i \in 1..Len(datagram.head) : HeadIsFinite(datagram.head[i])
         /\ \A i \in 1..Len(datagram.bots) : AllFinite(BotState, datagram.bots[i])
    [] OTHER -> TRUE

VoiceIsWithinLimit(frame) == frame.size <= MaxVoiceBytes

FitsDatagram(datagram) ==
  datagram.kind = "mods" => datagram.size <= MaxDatagramBytes

(* Either is <<>> for an error and <<d>> for an answer d. *)
EncodeDatagram(datagram) ==
  IF DatagramIsFinite(datagram) THEN <<Pack(datagram)>> ELSE None

DecodeDatagram(packed) ==
  LET fine == \/ packed.kind # "world"
              \/ /\ packed.herd <= MaxHerd /\ Len(packed.bots) <= MaxHerd
                 /\ packed.parts \in 1..MaxWorldParts /\ packed.part < packed.parts
  IN IF fine THEN <<Unpack(packed)>> ELSE None
=============================================================================
