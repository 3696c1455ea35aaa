------------------------------ MODULE NetScene ------------------------------
(***************************************************************************)
(* What a scene keeps of a session, and what it does with the lines of its *)
(* networking side: src/crates/goats/src/game/net.js ("raylib") and        *)
(* src/godot/src/main.gd ("godot", and "browser" when its bridge is a      *)
(* WebSocket).  The two scenes answer the same lines but were written      *)
(* twice, and they differ: one changes its mode when it is told, the other *)
(* when the player asks.                                                   *)
(*                                                                         *)
(* Of the world only its streams are kept: they are the player's own, or   *)
(* those of the host it joined ("theirs").                                 *)
(***************************************************************************)
EXTENDS Integers, Sequences, FiniteSets

CONSTANTS
  Ports,     \* the programs under study, some of {"raylib", "godot", "browser"}
  Tells      \* the kinds of command that use a session, some of Kinds

Kinds == {"say", "pose", "consume", "blast", "voice", "world", "mods"}

ASSUME PortsAssumption == Ports \subseteq {"raylib", "godot", "browser"}
ASSUME TellsAssumption == Tells \subseteq Kinds

Streams == {"own", "theirs"}

(* `session` is a history variable: the session whose hosting or welcome   *)
(* line the scene saw last, 0 when it was reset since.                     *)
Scene == [hosting : BOOLEAN, joined : BOOLEAN, joining : BOOLEAN,
          streams : Streams, saved : Streams \cup {"nothing"},
          session : Nat]

Alone == [hosting |-> FALSE, joined |-> FALSE, joining |-> FALSE,
          streams |-> "own", saved |-> "nothing", session |-> 0]

Mode(s) == IF s.hosting THEN "host" ELSE IF s.joined THEN "client" ELSE "off"
InSession(s) == Mode(s) # "off"

Reconfigures == {"host", "join", "close"}
SwarmVerbs == {"swarm_join", "swarm_leave"}
Command == [type : Reconfigures \cup SwarmVerbs \cup Kinds, session : Nat]

LineTypes == {"session", "hosting", "ticket", "welcome", "roster", "world",
              "disconnected", "error", "unknown"}
Line == [type : LineTypes, session : Nat, streams : Streams]

(***************************************************************************)
(* The player's own streams, put aside while a session's are in use.       *)
(***************************************************************************)
SaveOwn(s) == IF s.saved = "nothing" THEN [s EXCEPT !.saved = s.streams] ELSE s

RestoreOwn(s) == IF s.saved = "nothing"
                   THEN s
                   ELSE [s EXCEPT !.streams = s.saved, !.saved = "nothing"]

DiscardOwn(s) == [s EXCEPT !.saved = "nothing"]

(***************************************************************************)
(* net.js                                                                  *)
(***************************************************************************)
NetReset(s) ==
  [(IF Mode(s) = "host" THEN DiscardOwn(s) ELSE RestoreOwn(s)) EXCEPT
     !.hosting = FALSE, !.joined = FALSE, !.joining = FALSE, !.session = 0]

SceneNetEvent(s, line) ==
  CASE line.type = "session" -> [SaveOwn(s) EXCEPT !.streams = line.streams]
    [] line.type = "hosting" ->
         [DiscardOwn(s) EXCEPT !.hosting = TRUE, !.joined = FALSE,
                               !.joining = FALSE, !.session = line.session]
    [] line.type = "welcome" ->
         [s EXCEPT !.hosting = FALSE, !.joined = TRUE, !.joining = FALSE,
                   !.session = line.session]
    [] line.type = "world" -> [s EXCEPT !.streams = "theirs"]
    [] line.type \in {"disconnected", "error"} -> NetReset(s)
    [] OTHER -> s

(***************************************************************************)
(* main.gd.  Its world handler takes the herd, the sky and the meadow of a *)
(* snapshot but not its streams: nothing calls the four use_stream.        *)
(***************************************************************************)
SessionOver(s) ==
  [(IF s.joined THEN RestoreOwn(s) ELSE DiscardOwn(s)) EXCEPT
     !.hosting = FALSE, !.joined = FALSE, !.session = 0]

Handle(s, line) ==
  CASE line.type = "session" -> [SaveOwn(s) EXCEPT !.streams = line.streams]
    [] line.type = "hosting" ->
         [DiscardOwn(s) EXCEPT !.hosting = TRUE, !.session = line.session]
    [] line.type = "welcome" -> [s EXCEPT !.joined = TRUE, !.session = line.session]
    [] line.type \in {"disconnected", "error"} -> SessionOver(s)
    [] OTHER -> s

(***************************************************************************)
(* What a player may ask of the scene: a guard, what the scene makes of    *)
(* itself, and the command it queues.                                      *)
(***************************************************************************)
NetHost(s) == s
NetJoin(s) == [s EXCEPT !.joining = TRUE]
NetLeave(s) == NetReset(s)

CmdHost(s) == [s EXCEPT !.hosting = TRUE]
CmdJoin(s) == [s EXCEPT !.joined = TRUE]
CmdLeave(s) == SessionOver(s)

MayStartAnyway(s) == TRUE                     \* faulty: no "leave first"
MayStart(s) == ~InSession(s)
MayLeave(s) == InSession(s)

=============================================================================
