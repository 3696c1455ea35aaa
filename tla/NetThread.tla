----------------------------- MODULE NetThread -----------------------------
(***************************************************************************)
(* A scene and the thread that owns its sessions: the native bridges       *)
(* src/crates/goats/src/net.rs ("raylib") and src/crates/godot/src/net.rs  *)
(* ("godot").  The scene queues commands, the thread runs them one at a    *)
(* time and in between forwards what the session it runs has to say, and   *)
(* the scene drains those lines once a frame.  Neither waits for the       *)
(* other, so each acts on what the other was a while ago.                  *)
(*                                                                         *)
(* `client`'s two reader tasks (the session crate) fill the session's own  *)
(* queue; they end with its connection and each says so.                   *)
(***************************************************************************)
EXTENDS NetScene

CONSTANTS
  Patient,      \* does the player wait for the answer to a host or a connect?
  MaxSessions,  \* bound: sessions started
  CmdRoom,      \* bound: commands waiting when the player adds one
  LineRoom      \* bound: lines waiting when the world adds one

ASSUME NetAssumption ==
  /\ Patient \in BOOLEAN
  /\ {MaxSessions, CmdRoom, LineRoom} \subseteq Nat \ {0}

VARIABLES
  port,      \* which program this is
  scene,
  asked,     \* history: a host or a connect waits for its answer
  cmds,      \* commands the thread has not taken
  evs,       \* lines the scene has not drained
  live,      \* the session the thread runs
  dialing,   \* the command it is busy with: "host", "join" or "none"
  queue,     \* the live session's own events
  readers,   \* the client's reader tasks still running
  lost,      \* has the client's connection ended?
  swarm,     \* is the thread subscribed to a swarm?
  advert,    \* does the swarm hold an advert of ours?
  open,      \* sessions started and not closed
  made,      \* sessions started so far
  astray,    \* history: was something said in a session it was not meant for?
  up         \* "running", "quitting" once the scene drops the channel, "over"

thread == <<live, dialing, queue, readers, lost, open, made>>
discovery == <<swarm, advert>>
player == <<scene, asked>>
vars == <<port, player, cmds, evs, thread, discovery, astray, up>>

NoSession == [kind |-> "none", id |-> 0]
Session == [kind : {"host", "client"}, id : 1..MaxSessions]

(* What a session has to say is an event until a bridge makes it a line.   *)
EventTypes == {"Session", "Roster", "World", "Disconnected"}
Event == [type : EventTypes, session : Nat, streams : Streams]

Lines(types, id, streams) ==
  [i \in 1..Len(types) |-> [type |-> types[i], session |-> id, streams |-> streams]]

TypeOK ==
  /\ port \in Ports /\ scene \in Scene /\ asked \in BOOLEAN
  /\ cmds \in Seq(Command) /\ evs \in Seq(Line) /\ queue \in Seq(Event)
  /\ live \in Session \cup {NoSession}
  /\ dialing \in {"none", "host", "join"}
  /\ readers \in 0..2 /\ made \in 0..MaxSessions /\ open \subseteq 1..made
  /\ {lost, swarm, advert, astray} \subseteq BOOLEAN
  /\ up \in {"running", "quitting", "over"}

Init ==
  /\ port \in Ports /\ scene = Alone /\ asked = FALSE
  /\ cmds = <<>> /\ evs = <<>> /\ queue = <<>>
  /\ live = NoSession /\ dialing = "none" /\ readers = 0
  /\ lost = FALSE /\ swarm = FALSE /\ advert = FALSE /\ astray = FALSE
  /\ open = {} /\ made = 0 /\ up = "running"

(***************************************************************************)
(* The scene.  What it queues reaches the thread in order (an unbounded    *)
(* channel), and so do the lines that come back.                           *)
(***************************************************************************)
Send(type) ==
  cmds' = Append(cmds, [type |-> type, session |-> scene.session])

Queued(type) == Len(cmds) < CmdRoom /\ Send(type)

Waits == Patient /\ asked

AskHost ==
  /\ up = "running" /\ port # "browser"
  /\ MayStart(scene) /\ ~Waits
  /\ Queued("host")
  /\ scene' = IF port = "raylib" THEN NetHost(scene) ELSE CmdHost(scene)
  /\ asked' = TRUE
  /\ UNCHANGED <<port, evs, thread, discovery, astray, up>>

AskJoin ==
  /\ up = "running" /\ port # "browser"
  /\ MayStart(scene) /\ ~Waits
  /\ Queued("join")
  /\ scene' = IF port = "raylib" THEN NetJoin(scene) ELSE CmdJoin(scene)
  /\ asked' = TRUE
  /\ UNCHANGED <<port, evs, thread, discovery, astray, up>>

AskLeave ==
  /\ up = "running" /\ port # "browser"
  /\ MayLeave(scene) /\ ~Waits
  /\ Queued("close")
  /\ scene' = IF port = "raylib" THEN NetLeave(scene) ELSE CmdLeave(scene)
  /\ UNCHANGED <<port, asked, evs, thread, discovery, astray, up>>

(* A chat line, a pose, a bite, a bang, a world.  The scenes queue one in  *)
(* a session only; main.gd's cmd_say does not look.                        *)
AskTell(kind) ==
  /\ up = "running" /\ port # "browser"
  /\ InSession(scene) \/ (port = "godot" /\ kind = "say")
  /\ Queued(kind)
  /\ UNCHANGED <<port, player, evs, thread, discovery, astray, up>>

AskSwarm(verb) ==
  /\ up = "running" /\ port # "browser"
  /\ Queued(verb)
  /\ UNCHANGED <<port, player, evs, thread, discovery, astray, up>>

(* One frame: every line there is. *)
Drained(lines) ==
  /\ LET after[n \in 0..Len(lines)] ==
           IF n = 0 THEN scene
           ELSE LET before == after[n - 1]
                IN IF port = "raylib" THEN SceneNetEvent(before, lines[n])
                                      ELSE Handle(before, lines[n])
     IN scene' = after[Len(lines)]
  /\ asked' = (asked /\ \A i \in 1..Len(lines) :
                 lines[i].type \notin {"hosting", "welcome", "error"}
                   \cup (IF port = "browser" THEN {"disconnected"} ELSE {}))

PollEvents ==
  /\ port # "browser" /\ evs # <<>> /\ up # "over"
  /\ Drained(evs)
  /\ evs' = <<>>
  /\ UNCHANGED <<port, cmds, thread, discovery, astray, up>>

(* The window closes: the channel does too. *)
Shutdown ==
  /\ up = "running" /\ port # "browser"
  /\ up' = "quitting"
  /\ UNCHANGED <<port, player, cmds, evs, thread, discovery, astray>>

(***************************************************************************)
(* What the other end does to a live session.  A client's readers turn it  *)
(* into events; when the connection goes each of them reports the end.     *)
(***************************************************************************)
Room == Len(queue) + Len(evs) < LineRoom

WorldArrives ==
  /\ live.kind = "client" /\ ~lost /\ Room
  /\ queue' = queue \o Lines(<<"World">>, live.id, "theirs")
  /\ UNCHANGED <<port, player, cmds, evs, live, dialing, readers, lost, open,
                 made, discovery, astray, up>>

RosterChanges ==
  /\ live # NoSession /\ ~lost /\ Room
  /\ queue' = queue \o Lines(<<"Roster">>, live.id, "own")
  /\ UNCHANGED <<port, player, cmds, evs, live, dialing, readers, lost, open,
                 made, discovery, astray, up>>

ConnectionLost ==
  /\ live.kind = "client" /\ ~lost
  /\ lost' = TRUE
  /\ UNCHANGED <<port, player, cmds, evs, live, dialing, queue, readers, open,
                 made, discovery, astray, up>>

ReaderEndsQuietly ==                          \* faulty: nobody is told
  /\ lost /\ readers > 0 /\ readers' = readers - 1
  /\ UNCHANGED <<port, player, cmds, evs, live, dialing, queue, lost, open,
                 made, discovery, astray, up>>

(* The task of the datagrams and the task of the streams, in either order. *)
ReaderEnds ==
  /\ lost /\ readers > 0
  /\ queue' = queue \o Lines(<<"Disconnected">>, live.id, "own")
  /\ readers' = readers - 1
  /\ UNCHANGED <<port, player, cmds, evs, live, dialing, lost, open, made,
                 discovery, astray, up>>

(***************************************************************************)
(* The thread: `run`.  It waits on a command and on an event of the live   *)
(* session at once, and while it dials on neither.                         *)
(***************************************************************************)
Idle == dialing = "none" /\ up # "over"
Takes(types) == Idle /\ cmds # <<>> /\ Head(cmds).type \in types

(* Host::close, Client::close: the queue goes with the session. *)
Closed(id) ==
  /\ open' = open \ {id}
  /\ queue' = <<>> /\ readers' = 0 /\ lost' = FALSE

Withdrawn == IF live.kind = "host" THEN FALSE ELSE advert

Stop == Closed(live.id) /\ advert' = Withdrawn

ToEvent(event) ==
  [event EXCEPT !.type =
     [Session |-> "session", Roster |-> "roster", World |-> "world",
      Disconnected |-> "disconnected"][event.type]]

(* The same translation, written again for the scene that reads it.        *)
EventJson(event) ==
  LET type == CASE event.type = "Session" -> "session"
                [] event.type = "Roster" -> "roster"
                [] event.type = "World" -> "world"
                [] event.type = "Disconnected" -> "disconnected"
  IN [event EXCEPT !.type = type]

(* A roster of a host is also a reason to say how many it has. *)
Forward ==
  /\ port # "browser" /\ Idle /\ queue # <<>>
  /\ LET event == Head(queue)
     IN /\ evs' = Append(evs, IF port = "raylib" THEN ToEvent(event)
                                                ELSE EventJson(event))
        /\ advert' = (advert \/ (event.type = "Roster" /\ live.kind = "host" /\ swarm))
  /\ queue' = Tail(queue)
  /\ UNCHANGED <<port, player, cmds, live, dialing, readers, lost, open, made,
                 swarm, astray, up>>

(* next_event gives None: both readers are gone and the queue is read.     *)
Over == Idle /\ live.kind = "client" /\ readers = 0 /\ queue = <<>>

GoatsEnded ==
  /\ port = "raylib" /\ Over
  /\ Stop
  /\ live' = NoSession
  /\ UNCHANGED <<port, player, cmds, evs, dialing, made, swarm, astray, up>>

(* A last line whose key is "kind" and not "type": main.gd reports it as   *)
(* unknown.                                                                *)
GodotEnded ==
  /\ port = "godot" /\ Over
  /\ evs' = evs \o Lines(<<"unknown">>, live.id, "own")
  /\ Stop
  /\ live' = NoSession
  /\ UNCHANGED <<port, player, cmds, dialing, made, swarm, astray, up>>

(* Which side of a session sends a command of this kind, in either bridge. *)
GoatsCarries(kind) ==
  CASE kind \in {"world", "mods"} -> {"host"}
    [] kind = "consume" -> {"client"}
    [] OTHER -> {"host", "client"}

GodotCarries(kind) ==
  CASE kind = "consume" -> {"client"}
    [] kind \in {"say", "pose", "blast", "voice"} -> {"host", "client"}
    [] OTHER -> {"host"}

Carriers(kind) == IF port = "raylib" THEN GoatsCarries(kind) ELSE GodotCarries(kind)

Tell ==
  /\ port # "browser" /\ Takes(Kinds)
  /\ cmds' = Tail(cmds)
  /\ astray' = (astray \/ (/\ live.kind \in Carriers(Head(cmds).type)
                           /\ Head(cmds).session \notin {0, live.id}))
  /\ UNCHANGED <<port, player, evs, thread, discovery, up>>

SwarmJoin ==
  /\ port # "browser" /\ Takes({"swarm_join"})
  /\ cmds' = Tail(cmds)
  /\ swarm' \in BOOLEAN                                \* join_swarm may fail
  /\ advert' = (swarm' /\ live.kind = "host")
  /\ UNCHANGED <<port, player, evs, thread, astray, up>>

SwarmLeave ==
  /\ port # "browser" /\ Takes({"swarm_leave"})
  /\ cmds' = Tail(cmds)
  /\ swarm' = FALSE /\ advert' = FALSE
  /\ UNCHANGED <<port, player, evs, thread, astray, up>>

ReplaceOnly ==                                \* faulty: drops what was live
  /\ port # "browser" /\ Takes(Reconfigures)
  /\ cmds' = Tail(cmds)
  /\ queue' = <<>> /\ readers' = 0 /\ lost' = FALSE /\ advert' = Withdrawn
  /\ live' = NoSession
  /\ dialing' = IF Head(cmds).type = "close" THEN "none" ELSE Head(cmds).type
  /\ UNCHANGED <<port, player, evs, open, made, swarm, astray, up>>

(* Every other command replaces the session, and stops it first. *)
Replace ==
  /\ port # "browser" /\ Takes(Reconfigures)
  /\ cmds' = Tail(cmds)
  /\ Stop
  /\ live' = NoSession
  /\ dialing' = IF Head(cmds).type = "close" THEN "none" ELSE Head(cmds).type
  /\ UNCHANGED <<port, player, evs, made, swarm, astray, up>>

Started(kind, lines) ==
  LET id == made + 1
  IN /\ made < MaxSessions
     /\ made' = id /\ open' = open \cup {id}
     /\ live' = [kind |-> kind, id |-> id]
     /\ readers' = (IF kind = "client" THEN 2 ELSE 0) /\ lost' = FALSE
     /\ queue' = Lines(<<"Session", "Roster">>, id,
                       IF kind = "host" THEN "own" ELSE "theirs")
     /\ evs' = evs \o Lines(lines, id, "own")

RefusedSilently ==                            \* faulty: no error line
  UNCHANGED <<evs, live, queue, readers, lost, open, made>>

Refused ==
  /\ evs' = evs \o Lines(<<"error">>, 0, "own")
  /\ UNCHANGED <<live, queue, readers, lost, open, made>>

GoatsHosts ==
  /\ port = "raylib" /\ dialing = "host" /\ dialing' = "none"
  /\ \/ Started("host", <<"hosting", "ticket">>) /\ advert' = swarm
     \/ Refused /\ UNCHANGED advert
  /\ UNCHANGED <<port, player, cmds, swarm, astray, up>>

(* A player that joins is no longer a host, whatever it advertised. *)
GoatsJoins ==
  /\ port = "raylib" /\ dialing = "join" /\ dialing' = "none"
  /\ \/ Started("client", <<"welcome">>) /\ advert' = FALSE
     \/ Refused /\ UNCHANGED advert
  /\ UNCHANGED <<port, player, cmds, swarm, astray, up>>

GodotHosts ==
  /\ port = "godot" /\ dialing = "host" /\ dialing' = "none"
  /\ \/ Started("host", <<"hosting", "ticket">>) /\ advert' = swarm
     \/ Refused /\ UNCHANGED advert
  /\ UNCHANGED <<port, player, cmds, swarm, astray, up>>

GodotJoins ==
  /\ port = "godot" /\ dialing = "join" /\ dialing' = "none"
  /\ Started("client", <<"welcome">>) \/ Refused
  /\ UNCHANGED <<port, player, cmds, discovery, astray, up>>

(* The channel is closed and read out. *)
ThreadEnds ==
  /\ port # "browser" /\ Idle /\ up = "quitting" /\ cmds = <<>>
  /\ Closed(live.id)
  /\ live' = NoSession
  /\ swarm' = FALSE /\ advert' = FALSE
  /\ up' = "over"
  /\ UNCHANGED <<port, player, cmds, evs, dialing, made, astray>>

Peers == WorldArrives \/ RosterChanges \/ ConnectionLost

Player ==
  \/ AskHost \/ AskJoin \/ AskLeave \/ Shutdown
  \/ \E kind \in Tells : AskTell(kind)
  \/ \E verb \in SwarmVerbs : AskSwarm(verb)

(* The two arms of the loop's select!, which picks fairly between them. *)
Listens == Forward \/ GoatsEnded \/ GodotEnded

Serves ==
  \/ Tell \/ SwarmJoin \/ SwarmLeave \/ Replace
  \/ GoatsHosts \/ GoatsJoins \/ GodotHosts \/ GodotJoins \/ ThreadEnds

=============================================================================
