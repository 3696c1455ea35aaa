------------------------------- MODULE Relay -------------------------------
(***************************************************************************)
(* The datagrams of a session: poses, voices, worlds and world-mod states, *)
(* from the scene that has one to say to the scene that shows it.  A       *)
(* client's go up to the host, whose relay task puts the connection's name *)
(* on them, hands them to its own scene and sends them on to the others;   *)
(* the host's own go straight out.                                         *)
(*                                                                         *)
(* One client, "ann", talks; the host and another client, "bob", listen.   *)
(* The meter of ann's voice is RateLimit's.  One datagram is under way at  *)
(* a time: nothing in the code orders them or relates one to the next.     *)
(***************************************************************************)
EXTENDS RateLimit, Wire

CONSTANTS
  Poses,    \* what a scene says of its goat, some of Pose
  Worlds,   \* parts of worlds a host publishes
  Sizes     \* sizes of voice frames and of the state of mods

(* A scene says numbers; a world has lists of numbers. *)
Pose ==
  [x : Int, z : Int, yaw : Int, phase : Int, speed : Int, py : Int,
   gait : STRING, pitch : Int, roll : Int]

BotLine ==
  [index : Nat, x : Int, z : Int, yaw : Int, phase : Int, gait : STRING,
   variant : Int, py : Int, pitch : Int, roll : Int]

HeadLine ==
  [eaten : Seq(Seq([key : Int, left : Int])),
   craters : Seq(Seq([x : Int, z : Int, r : Int, depth : Int])),
   spent : Seq(Seq([key : Int, trap : BOOLEAN]))]

ASSUME MediaAssumption ==
  /\ Poses \subseteq Pose
  /\ Worlds \subseteq [kind : {"world"}, part : Nat, parts : Nat, herd : Nat,
                       head : Seq(HeadLine), bots : Seq(BotLine)]
  /\ Sizes \subseteq Nat

VARIABLES
  air,      \* the datagram under way, if any
  shown     \* what a listener was shown last, and what was meant by it

media == <<air, shown>>

(***************************************************************************)
(* A line of the scene: its numbers, a gait it spells with a string, and   *)
(* its attitude in hundredths of a degree, which becomes one byte each.    *)
(***************************************************************************)
Gaits == {"idle", "walk", "trot", "run", "jump", "flung", "sleep", "eat",
          "dead", "fly", "fall"}

ParseGait(name) == IF name \in Gaits THEN name ELSE "idle"

PerDegree == [per |-> 100, lo |-> -128, hi |-> 127]

Degrees(angle) == IF IsFinite(angle) THEN Quantize(angle, PerDegree) ELSE 0

Bridged(pose) ==
  [pose EXCEPT !.gait = ParseGait(@), !.pitch = Degrees(@), !.roll = Degrees(@)]

Peer(name, pose) == [kind |-> "peer", name |-> name, state |-> Bridged(pose)]
Voice(name, size) == [kind |-> "voice", name |-> name, size |-> size]
Mods(size) == [kind |-> "mods", size |-> size]

(* Nothing goes out that is not finite or does not fit.  `meant` is the    *)
(* history of who said what.                                               *)
Sends(datagram, to, meant) ==
  /\ FitsDatagram(datagram)
  /\ \E i \in 1..Len(EncodeDatagram(datagram)) :
       air' = <<[to |-> to, packed |-> EncodeDatagram(datagram)[i], meant |-> meant]>>

Meant(kind, name, what) == [kind |-> kind, name |-> name, what |-> what]

Quiet == air = None /\ shown' = None /\ UNCHANGED vars

(* Client::publish and Client::publish_voice leave the name blank.         *)
ClientPublish ==
  /\ Quiet
  /\ \E pose \in Poses : Sends(Peer("", pose), "host", Meant("peer", "ann", pose))

ClientPublishVoice ==
  /\ Quiet
  /\ \E size \in Sizes :
       LET frame == Voice("", size)
       IN VoiceIsWithinLimit(frame) /\ Sends(frame, "host", Meant("voice", "ann", size))

HostPublish ==
  /\ Quiet
  /\ \E pose \in Poses : Sends(Peer("host", pose), "bob", Meant("peer", "host", pose))

HostPublishVoice ==
  /\ Quiet
  /\ \E size \in Sizes :
       LET frame == Voice("host", size)
       IN VoiceIsWithinLimit(frame) /\ Sends(frame, "bob", Meant("voice", "host", size))

HostPublishWorld ==
  /\ Quiet
  /\ \E part \in Worlds : Sends(part, "bob", Meant("world", "host", part))

HostPublishMods ==
  /\ Quiet
  /\ \E size \in Sizes : Sends(Mods(size), "bob", Meant("mods", "host", size))

(***************************************************************************)
(* The relay task of ann's connection.                                     *)
(***************************************************************************)
Arrives(to, kinds) ==
  \E i \in 1..Len(air) : air[i].to = to /\ air[i].packed.kind \in kinds

Shows(listener, datagram) ==
  shown' = <<[listener |-> listener, got |-> datagram, meant |-> air[1].meant]>>

Tagged(datagram) == [datagram EXCEPT !.name = "ann"]

RelayPeer ==
  /\ Arrives("host", {"peer"})
  /\ LET tagged == Tagged(DecodeDatagram(air[1].packed)[1])
     IN Shows("host", tagged) /\ Sends(tagged, "bob", air[1].meant)
  /\ UNCHANGED vars

RelayVoice ==
  /\ Arrives("host", {"voice"})
  /\ VoiceIsWithinLimit(air[1].packed)
  /\ LET tagged == Tagged(DecodeDatagram(air[1].packed)[1])
     IN Shows("host", tagged) /\ Sends(tagged, "bob", air[1].meant)
  /\ Pass

(* One too many in this window is dropped without a word. *)
DropVoice ==
  /\ Arrives("host", {"voice"})
  /\ VoiceIsWithinLimit(air[1].packed)
  /\ air' = None
  /\ Refuse
  /\ UNCHANGED shown

(* The reader of bob's datagrams: a peer, a voice or mods as they are, a   *)
(* world once WorldGather has all of its parts.                            *)
GuestReads ==
  /\ Arrives("bob", {"peer", "voice", "world", "mods"})
  /\ \E i \in 1..Len(DecodeDatagram(air[1].packed)) :
       Shows("bob", DecodeDatagram(air[1].packed)[i])
  /\ air' = None
  /\ UNCHANGED vars

Lost ==
  /\ air # None /\ air' = None
  /\ UNCHANGED <<vars, shown>>

RelayInit == Init /\ air = None /\ shown = None

RelayNext ==
  \/ ClientPublish \/ ClientPublishVoice
  \/ HostPublish \/ HostPublishVoice \/ HostPublishWorld \/ HostPublishMods
  \/ RelayPeer \/ RelayVoice \/ DropVoice \/ GuestReads \/ Lost
  \/ (Tick /\ UNCHANGED media)

RelaySpec == RelayInit /\ [][RelayNext]_<<vars, media>>

-----------------------------------------------------------------------------
Distance(a, b) == IF a >= b THEN a - b ELSE b - a

(* A number is shown within half a step of what was meant, or at the edge  *)
(* of the grid it was beyond; a heading is, give or take whole turns.      *)
Near(grid, got, meant) ==
  LET low == grid.lo * grid.per
      high == grid.hi * grid.per
  IN CASE meant < low -> got = low
       [] meant > high -> got = high
       [] OTHER -> 2 * Distance(got, meant) <= grid.per

Faces(got, meant) ==
  LET apart == (got - meant) % Tau
  IN apart <= PerTurn.per \/ Tau - apart <= PerTurn.per

NearRecord(grids, got, meant) ==
  \A field \in DOMAIN meant :
    CASE field = "yaw" -> Faces(got.yaw, meant.yaw)
      [] field \in DOMAIN grids \ {"yaw"} -> Near(grids[field], got[field], meant[field])
      [] OTHER -> got[field] = meant[field]

NearPose(got, pose) ==
  LET copied == {"gait", "pitch", "roll"}
      Without(state) == [f \in DOMAIN state \ copied |-> state[f]]
      Level(angle) == IF IsFinite(angle) THEN angle ELSE 0
  IN /\ NearRecord(PeerState, Without(got), Without(pose))
     /\ got.gait = pose.gait \/ (pose.gait \notin Gaits /\ got.gait = "idle")
     /\ Near(PerDegree, got.pitch * PerDegree.per, Level(pose.pitch))
     /\ Near(PerDegree, got.roll * PerDegree.per, Level(pose.roll))

NearLists(grids, got, meant) ==
  /\ Len(got) = Len(meant)
  /\ \A i \in 1..Len(meant) :
       /\ Len(got[i]) = Len(meant[i])
       /\ \A j \in 1..Len(meant[i]) : NearRecord(grids, got[i][j], meant[i][j])

NearWorld(got, part) ==
  /\ NearLists(BotState, <<got.bots>>, <<part.bots>>)
  /\ Len(got.head) = Len(part.head)
  /\ \A i \in 1..Len(part.head) :
       /\ NearLists(EatenCell, got.head[i].eaten, part.head[i].eaten)
       /\ NearLists(Crater, got.head[i].craters, part.head[i].craters)
       /\ got.head[i].spent = part.head[i].spent

(* A scene shows what another meant: a goat under the name of its own      *)
(* connection, within the grain of the wire of where its owner has it,     *)
(* though it was rounded on two hops and its owner's heading is never      *)
(* wrapped; a voice under its speaker's name; of a world every bot, bite   *)
(* and crater, and what was shed as shed and not as empty.                 *)
ShownAsMeant ==
  \A i \in 1..Len(shown) :
    LET got == shown[i].got
        meant == shown[i].meant
    IN /\ got.kind = meant.kind
       /\ got.kind \in {"peer", "voice"} => got.name = meant.name
       /\ got.kind = "peer" => NearPose(got.state, meant.what)
       /\ got.kind \in {"voice", "mods"} => got.size = meant.what
       /\ got.kind = "world" => NearWorld(got, meant.what)
=============================================================================
