------------------------------ MODULE Gateway ------------------------------
(***************************************************************************)
(* The same scene in a browser: src/crates/godot/src/net_web.rs speaks the *)
(* lines over a WebSocket to src/crates/server/src/gateway.rs, where a     *)
(* task per socket runs the session.  In this port `cmds` holds what the   *)
(* bridge keeps until the socket opens and then what is on its way to the  *)
(* gateway, `evs` what is on its way back, and `live` is the gateway's     *)
(* client.  Fewer lines than net_web.rs's MAX_LINES ever wait.             *)
(***************************************************************************)
EXTENDS NetThread

VARIABLES
  socket,   \* the bridge's socket: "none", "connecting", "open", "closed"
  hung      \* sessions of gateway tasks that still have to see theirs close

web == <<socket, hung>>
allvars == <<vars, web>>

(* A bridge that has a socket refuses, and the scene then changes nothing. *)
WebJoin ==
  /\ up = "running" /\ port = "browser"
  /\ MayStart(scene) /\ ~Waits /\ socket = "none"
  /\ Queued("join")
  /\ socket' = "connecting"
  /\ scene' = CmdJoin(scene) /\ asked' = TRUE
  /\ UNCHANGED <<port, evs, thread, discovery, astray, up, hung>>

WebLeave ==
  /\ up = "running" /\ port = "browser"
  /\ MayLeave(scene) /\ ~Waits
  /\ scene' = CmdLeave(scene)
  /\ IF socket = "none" THEN UNCHANGED cmds ELSE Queued("close")
  /\ UNCHANGED <<port, asked, evs, thread, discovery, astray, up, web>>

WebSend(kind) ==
  /\ up = "running" /\ port = "browser" /\ socket # "none"
  /\ InSession(scene) \/ kind = "say"
  /\ Queued(kind)
  /\ UNCHANGED <<port, player, evs, thread, discovery, astray, up, web>>

SocketOpens ==
  /\ socket = "connecting" /\ socket' = "open"
  /\ UNCHANGED <<vars, hung>>

(* The task's client, if it has one, is closed when the task notices. *)
Abandoned ==
  /\ hung' = hung \cup (IF live = NoSession THEN {} ELSE {live.id})
  /\ live' = NoSession /\ dialing' = "none"
  /\ queue' = <<>> /\ readers' = 0 /\ lost' = FALSE
  /\ cmds' = <<>>

(* Lines under way are lost with the socket: net_web.rs reads packets from *)
(* an open socket only.                                                    *)
SocketLost ==
  /\ socket \in {"connecting", "open"} /\ socket' = "closed"
  /\ Abandoned
  /\ evs' = <<>>
  /\ UNCHANGED <<port, player, open, made, discovery, astray, up>>

(* pump: the lines that have arrived, and no socket after one that ends    *)
(* the session; or the news that the socket has closed.                    *)
Ends(lines) ==
  \E i \in 1..Len(lines) : lines[i].type \in {"error", "disconnected"}

WebPoll ==
  /\ port = "browser" /\ socket = "open" /\ up = "running"
  /\ \E n \in 1..Len(evs) :
       LET lines == SubSeq(evs, 1, n)
       IN /\ Drained(lines)
          /\ IF Ends(lines)
               THEN socket' = "none" /\ Abandoned /\ evs' = <<>>
               ELSE /\ evs' = SubSeq(evs, n + 1, Len(evs))
                    /\ UNCHANGED <<socket, hung, live, dialing, queue, readers,
                                   lost, cmds>>
  /\ UNCHANGED <<port, open, made, discovery, astray, up>>

WebPollClosed ==
  /\ socket = "closed" /\ up = "running"
  /\ Drained(Lines(<<"disconnected">>, 0, "own"))
  /\ socket' = "none"
  /\ UNCHANGED <<port, cmds, evs, thread, discovery, astray, up, hung>>

WebShutdown ==
  /\ port = "browser" /\ up = "running" /\ up' = "over"
  /\ socket' = "none" /\ Abandoned /\ evs' = <<>>
  /\ UNCHANGED <<port, player, open, made, discovery, astray>>

(***************************************************************************)
(* The gateway's task: `handle` and `apply`.                               *)
(***************************************************************************)
AtTheGateway(types) ==
  port = "browser" /\ socket = "open" /\ Takes(types)

GatewayTakesJoin ==
  /\ AtTheGateway({"join"})
  /\ cmds' = Tail(cmds)
  /\ IF live # NoSession
       THEN evs' = evs \o Lines(<<"error">>, 0, "own") /\ UNCHANGED dialing
       ELSE dialing' = "join" /\ UNCHANGED evs
  /\ UNCHANGED <<port, player, live, queue, readers, lost, open, made,
                 discovery, astray, up, web>>

GatewayJoins ==
  /\ port = "browser" /\ dialing = "join" /\ dialing' = "none"
  /\ Started("client", <<"welcome">>) \/ Refused
  /\ UNCHANGED <<port, player, cmds, discovery, astray, up, web>>

(* The answer to a close, and the last thing this task does. *)
GatewayClose ==
  /\ AtTheGateway({"close"})
  /\ cmds' = <<>>
  /\ Closed(live.id) /\ live' = NoSession
  /\ evs' = evs \o Lines(<<"disconnected">>, live.id, "own")
  /\ UNCHANGED <<port, player, dialing, made, discovery, astray, up, web>>

(* A gateway has no world to publish and takes no voice. *)
GatewayCarries == {"say", "pose", "consume", "blast"}

GatewayTell ==
  /\ AtTheGateway(Kinds)
  /\ cmds' = Tail(cmds)
  /\ astray' = (astray \/ (/\ live # NoSession
                           /\ Head(cmds).type \in GatewayCarries
                           /\ Head(cmds).session \notin {0, live.id}))
  /\ UNCHANGED <<port, player, evs, thread, discovery, up, web>>

GatewayForward ==
  /\ port = "browser" /\ Idle /\ socket = "open" /\ queue # <<>>
  /\ evs' = Append(evs, ToEvent(Head(queue))) /\ queue' = Tail(queue)
  /\ UNCHANGED <<port, player, cmds, live, dialing, readers, lost, open, made,
                 discovery, astray, up, web>>

GatewayEnded ==
  /\ port = "browser" /\ Idle /\ socket = "open"
  /\ live.kind = "client" /\ readers = 0 /\ queue = <<>>
  /\ Closed(live.id) /\ live' = NoSession
  /\ evs' = evs \o Lines(<<"disconnected">>, live.id, "own")
  /\ UNCHANGED <<port, player, cmds, dialing, made, discovery, astray, up, web>>

HangsUp(id) ==
  /\ id \in hung /\ hung' = hung \ {id}
  /\ open' = open \ {id}
  /\ UNCHANGED <<port, player, cmds, evs, live, dialing, queue, readers, lost,
                 made, discovery, astray, up, socket>>

GatewayListens == GatewayForward \/ GatewayEnded

GatewayServes ==
  GatewayTakesJoin \/ GatewayJoins \/ GatewayClose \/ GatewayTell

Page == WebPoll \/ WebPollClosed

Browser ==
  \/ WebJoin \/ WebLeave \/ WebShutdown \/ SocketOpens \/ SocketLost
  \/ Page \/ GatewayListens \/ GatewayServes
  \/ \E id \in hung : HangsUp(id)
  \/ \E kind \in Tells : WebSend(kind)

Native == Peers \/ ReaderEnds \/ Player \/ PollEvents \/ Listens \/ Serves

NetInit == Init /\ socket = "none" /\ hung = {}
Next == (Native /\ UNCHANGED web) \/ Browser

(* Frames and tasks go on, and the loop's select! picks fairly between its *)
(* arms.  A dial has no timeout of its own: it ends when the host answers  *)
(* or when the QUIC connection is lost, and so does a socket's opening.    *)
Fairness ==
  /\ WF_allvars(PollEvents /\ UNCHANGED web)
  /\ WF_allvars(Listens /\ UNCHANGED web)
  /\ WF_allvars(Serves /\ UNCHANGED web)
  /\ WF_allvars(ReaderEnds /\ UNCHANGED web)
  /\ WF_allvars(Page)
  /\ WF_allvars(GatewayListens)
  /\ WF_allvars(GatewayServes)
  /\ WF_allvars(SocketOpens \/ SocketLost)

Spec == NetInit /\ [][Next]_allvars /\ Fairness

-----------------------------------------------------------------------------
(* Every session started is the one that is running, or a browser's whose  *)
(* socket is gone: none is left behind by a host or a connect that         *)
(* replaces it, by its own end or by the end of the thread.                *)
SessionsAreClosed == open = ({live.id} \ {0}) \cup hung

(* A swarm holds our advert exactly while we host and are in the swarm,    *)
(* whichever came first and however either ended.                          *)
AdvertsMatch == advert = (swarm /\ live.kind = "host")

(* What is said in a session reaches that session or none, though the      *)
(* thread may have replaced it by the time it takes the line.              *)
NothingGoesAstray == ~astray

Rest ==
  /\ up = "running" /\ dialing = "none" /\ ~lost
  /\ cmds = <<>> /\ evs = <<>> /\ queue = <<>>
  /\ socket \in {"none", "open"}

(* When neither side has anything left to tell the other, the scene is in  *)
(* the session that runs: it never plays on alone as a client of nothing,  *)
(* nor runs a session it thinks it left.                                   *)
AtRestTheyAgree ==
  Rest => Mode(scene) = IF live = NoSession THEN "off" ELSE live.kind

(* A host and a connect are answered: with the session, with a refusal, or *)
(* in a browser with the end of the socket.                                *)
RequestsAreAnswered == asked ~> (~asked \/ up # "running")

=============================================================================
