------------------------------ MODULE Session ------------------------------
(***************************************************************************)
(* One hosted session: crates/session/src/lib.rs.                          *)
(*                                                                         *)
(* The host runs one task per accepted connection (`handle_connection`);   *)
(* each joiner runs `Client::join_with_mods` and then a reader task.  The  *)
(* tasks share one `Server` behind a tokio mutex.  An action is a stretch  *)
(* of code between two awaits; `pc[c]` is where the handler of connection  *)
(* c stands.                                                               *)
(*                                                                         *)
(* The mutex is held across awaits in exactly one shape: the loops         *)
(* `for target in state.lock().await.targets(..) { send_to(..).await }`    *)
(* keep the guard, a temporary of the loop's head, until the loop ends.    *)
(* `lock` names the handler inside such a loop.  Every other use of the    *)
(* mutex begins and ends inside one action, guarded by lock = Nobody.      *)
(*                                                                         *)
(* Each control message travels on a unidirectional stream of its own, and *)
(* streams are accepted in the order they were opened: wire[c] is the      *)
(* queue of streams opened towards the client of c and not read by it yet. *)
(* Opening one waits while StreamLimit of them are outstanding.            *)
(*                                                                         *)
(* `roster` and `connections` are sets: the order of `Server::roster` is   *)
(* only displayed, and the loops visit the targets in some order.          *)
(***************************************************************************)
EXTENDS Names

CONSTANTS
  Conns,        \* the connections ever dialled, one per attempt to join
  Requests,     \* the names players ask for
  Kinds,        \* the kinds of greeting they send, see Greeting
  HostName,     \* the sanitized name of the local player on the host
  StreamLimit,  \* streams that may be open towards one client at a time
  SharedNode,   \* the host borrowed a node's endpoint (Accept::Routed)
  HostMayClose, \* the local player may end the session
  MaxLost,      \* bound: how many connections players leave or lose
  Nobody        \* no connection: the mutex is free, no send is half done

ASSUME SessionAssumption ==
  /\ Requests \subseteq PlayerNames
  /\ HostName \in PlayerNames
  /\ StreamLimit \in Nat \ {0}
  /\ Kinds \subseteq {"fit", "unfit", "bad"}
  /\ SharedNode \in BOOLEAN
  /\ HostMayClose \in BOOLEAN
  /\ MaxLost \in Nat
  /\ Nobody \notin Conns

VARIABLES
  hosting,      \* the accept loop runs and the local player hears events
  roster,       \* Server::roster, the names in the session
  connections,  \* Server::connections, a set of [name, conn]
  lock,         \* the handler that holds the Server mutex across an await
  hello,        \* the greeting the client sent
  pc,           \* where the handler of the connection stands
  assigned,     \* the name `Server::join` returned to the handler
  snapshot,     \* the roster the handler took under the mutex
  targets,      \* whom the handler's announce loop still has to tell
  half,         \* the target that got the first message of its pair
  hostView,     \* the last Event::Roster handed to the local player
  link,         \* the QUIC connection: "none", "up" or "down"
  wire,         \* streams opened towards the client and not read yet
  client,       \* where the client stands
  me,           \* the name the client was welcomed under
  view          \* the last Event::Roster handed to the client

serverVars == <<roster, connections, lock>>
handlerVars == <<pc, assigned, snapshot, targets, half>>
clientVars == <<client, me, view>>
vars == <<hosting, serverVars, hello, handlerVars, hostView, link, wire,
          clientVars>>

-----------------------------------------------------------------------------
(* The control messages of the server. *)

WelcomeMsg(name, names) == [kind |-> "welcome", name |-> name, names |-> names]
RosterMsg(names) == [kind |-> "roster", names |-> names]
JoinedMsg(name) == [kind |-> "joined", name |-> name]
LeftMsg(name) == [kind |-> "left", name |-> name]
ErrorMsg == [kind |-> "error"]

Message ==
  [kind : {"welcome"}, name : PlayerNames, names : SUBSET PlayerNames]
    \cup [kind : {"roster"}, names : SUBSET PlayerNames]
    \cup [kind : {"joined", "left"}, name : PlayerNames]
    \cup [kind : {"error"}]

(* A greeting is understood and fits ("fit"), presents another world-mod set
   ("unfit"), or is garbage, not a hello, or of another version ("bad").     *)
Greeting == [name : Requests, kind : Kinds]
NoGreeting == [name |-> HostName, kind |-> "none"]

(* The handler's stations.  An admitted handler is in the roster from Join to
   Leave or Evict; its announcements are made while it holds the mutex.      *)
Before == {"idle", "greeting", "comparing", "joining", "refusing"}
Admitted == {"welcoming", "evicting", "tellJoined", "awaitJoined",
             "announceJoined", "serving", "leaving"}
Departed == {"tellEvicted", "tellLeft", "awaitLeft", "announceLeft"}
Announcing == {"announceJoined", "announceLeft"}
Station == Before \cup Admitted \cup Departed \cup {"done"}

-----------------------------------------------------------------------------

Init ==
  /\ hosting = TRUE
  /\ roster = {HostName}
  /\ connections = {}
  /\ lock = Nobody
  /\ hello = [c \in Conns |-> NoGreeting]
  /\ pc = [c \in Conns |-> "idle"]
  /\ assigned = [c \in Conns |-> HostName]
  /\ snapshot = [c \in Conns |-> {}]
  /\ targets = [c \in Conns |-> {}]
  /\ half = [c \in Conns |-> Nobody]
  /\ hostView = {HostName}
  /\ link = [c \in Conns |-> "none"]
  /\ wire = [c \in Conns |-> << >>]
  /\ client = [c \in Conns |-> "out"]
  /\ me = [c \in Conns |-> HostName]
  /\ view = [c \in Conns |-> {}]

Goto(c, station) == pc' = [pc EXCEPT ![c] = station]

\* A hold of the mutex that ends before the next await only waits its turn.
LockFree == lock = Nobody

\* `open_uni` waits for credit, and fails once the connection is lost.
CanSend(c) == link[c] # "up" \/ Len(wire[c]) < StreamLimit

\* A send to a lost connection is an error the caller drops.
Sent(c, msg) ==
  IF link[c] = "up" THEN [wire EXCEPT ![c] = Append(@, msg)] ELSE wire

\* Faulty variant: the connection is forgotten in the clean-up.
DropNameOnly(name) ==
  /\ roster' = roster \ {name}
  /\ UNCHANGED connections

\* `Server::leave` removes by name whatever carries it.
DropPlayer(name) ==
  /\ roster' = roster \ {name}
  /\ connections' = {e \in connections : e.name # name}

\* Faulty variant: the filter the wrong way round.
TargetsOnly(except) == {e.conn : e \in {f \in connections : f.name = except}}

\* `Server::targets`: everyone connected, except one player by name.
Targets(except) == {e.conn : e \in {f \in connections : f.name # except}}

Everyone == {e.conn : e \in connections}

-----------------------------------------------------------------------------
(* A player dials, and greets the host on the first stream. *)

Dial(c) ==
  /\ hosting
  /\ pc[c] = "idle"
  /\ \E greeting \in Greeting : hello' = [hello EXCEPT ![c] = greeting]
  /\ client' = [client EXCEPT ![c] = "waiting"]
  /\ link' = [link EXCEPT ![c] = "up"]
  /\ Goto(c, "greeting")
  /\ UNCHANGED <<hosting, serverVars, assigned, snapshot, targets, half,
                 hostView, wire, me, view>>

-----------------------------------------------------------------------------
(* The handler of one connection, from greeting to goodbye. *)

\* The greeting has served its purpose.
Forget(c) == hello' = [hello EXCEPT ![c] = NoGreeting]

\* Sends the refusal, then waits for the peer to hang up.
Refuse(c) ==
  /\ wire' = Sent(c, ErrorMsg)
  /\ Goto(c, "refusing")
  /\ Forget(c)

Greet(c) ==
  /\ pc[c] = "greeting"
  /\ \/ /\ link[c] = "down"
        /\ Goto(c, "done")
        /\ UNCHANGED wire
        /\ Forget(c)
     \/ /\ hello[c].kind = "bad"
        /\ Refuse(c)
     \/ /\ hello[c].kind # "bad"
        /\ Goto(c, "comparing")
        /\ UNCHANGED <<hello, wire>>
  /\ UNCHANGED <<hosting, serverVars, assigned, snapshot, targets,
                 half, hostView, link, clientVars>>

Compare(c) ==
  /\ pc[c] = "comparing"
  /\ LockFree
  /\ \/ /\ hello[c].kind = "unfit"
        /\ Refuse(c)
     \/ /\ hello[c].kind = "fit"
        /\ Goto(c, "joining")
        /\ UNCHANGED <<hello, wire>>
  /\ UNCHANGED <<hosting, serverVars, assigned, snapshot, targets,
                 half, hostView, link, clientVars>>

\* The refused peer hung up, or two seconds passed; the connection is dropped.
HangUp(c) ==
  /\ pc[c] = "refusing"
  /\ Goto(c, "done")
  /\ link' = [link EXCEPT ![c] = "down"]
  /\ UNCHANGED <<hosting, serverVars, hello, assigned, snapshot, targets,
                 half, hostView, wire, clientVars>>

\* `Server::join`, under one hold of the mutex.
Join(c) ==
  /\ pc[c] = "joining"
  /\ LockFree
  /\ LET name == UniqueName(hello[c].name, roster)
     IN  /\ roster' = roster \cup {name}
         /\ connections' = connections \cup {[name |-> name, conn |-> c]}
         /\ assigned' = [assigned EXCEPT ![c] = name]
         /\ snapshot' = [snapshot EXCEPT ![c] = roster \cup {name}]
  /\ Goto(c, "welcoming")
  /\ Forget(c)
  /\ UNCHANGED <<hosting, lock, targets, half, hostView, link, wire,
                 clientVars>>

\* Faulty variant: a Welcome that fails ends the handler at once.
SendWelcomeOrStop(c) ==
  /\ pc[c] = "welcoming"
  /\ CanSend(c)
  /\ wire' = Sent(c, WelcomeMsg(assigned[c], snapshot[c]))
  /\ Goto(c, IF link[c] = "up" THEN "tellJoined" ELSE "done")
  /\ UNCHANGED <<hosting, serverVars, hello, assigned, snapshot, targets,
                 half, hostView, link, clientVars>>

\* The Welcome goes out after the mutex was released.
SendWelcome(c) ==
  /\ pc[c] = "welcoming"
  /\ CanSend(c)
  /\ wire' = Sent(c, WelcomeMsg(assigned[c], snapshot[c]))
  /\ Goto(c, IF link[c] = "up" THEN "tellJoined" ELSE "evicting")
  /\ UNCHANGED <<hosting, serverVars, hello, assigned, snapshot, targets,
                 half, hostView, link, clientVars>>

\* The Welcome could not be sent: the player is taken out again.
Evict(c) ==
  /\ pc[c] = "evicting"
  /\ LockFree
  /\ DropPlayer(assigned[c])
  /\ snapshot' = [snapshot EXCEPT ![c] = roster']
  /\ Goto(c, "tellEvicted")
  /\ UNCHANGED <<hosting, lock, hello, assigned, targets, half, hostView,
                 link, wire, clientVars>>

\* Event::Joined or Event::Left, then Event::Roster, to the local player.  The
\* eviction ends here: nobody else hears of it.
TellHost(c) ==
  /\ \/ pc[c] = "tellJoined" /\ Goto(c, "awaitJoined")
     \/ pc[c] = "tellLeft" /\ Goto(c, "awaitLeft")
     \/ pc[c] = "tellEvicted" /\ Goto(c, "done")
  /\ hostView' = IF hosting THEN snapshot[c] ELSE hostView
  /\ snapshot' = IF pc[c] = "tellEvicted"
                 THEN [snapshot EXCEPT ![c] = {}] ELSE snapshot
  /\ UNCHANGED <<hosting, serverVars, hello, assigned, targets, half, link, wire, clientVars>>

\* The head of an announce loop: the mutex is taken and kept.
StartAnnouncing(c) ==
  /\ LockFree
  /\ lock' = c
  /\ \/ /\ pc[c] = "awaitJoined"
        /\ Goto(c, "announceJoined")
        /\ targets' = [targets EXCEPT ![c] = Targets(assigned[c])]
     \/ /\ pc[c] = "awaitLeft"
        /\ Goto(c, "announceLeft")
        /\ targets' = [targets EXCEPT ![c] = Everyone]
  /\ UNCHANGED <<hosting, roster, connections, hello, assigned, snapshot,
                 half, hostView, link, wire, clientVars>>

\* The first message of a pair: who came or went.
AnnounceName(c) ==
  /\ pc[c] \in Announcing
  /\ half[c] = Nobody
  /\ \E t \in targets[c] :
       /\ CanSend(t)
       /\ wire' = Sent(t, IF pc[c] = "announceJoined"
                          THEN JoinedMsg(assigned[c])
                          ELSE LeftMsg(assigned[c]))
       /\ half' = [half EXCEPT ![c] = t]
  /\ UNCHANGED <<hosting, serverVars, hello, pc, assigned, snapshot, targets,
                 hostView, link, clientVars>>

\* The second: the roster the handler took when it came or went.
AnnounceRoster(c) ==
  /\ pc[c] \in Announcing
  /\ half[c] # Nobody
  /\ CanSend(half[c])
  /\ wire' = Sent(half[c], RosterMsg(snapshot[c]))
  /\ targets' = [targets EXCEPT ![c] = @ \ {half[c]}]
  /\ half' = [half EXCEPT ![c] = Nobody]
  /\ UNCHANGED <<hosting, serverVars, hello, pc, assigned, snapshot,
                 hostView, link, clientVars>>

\* The loop is over and the guard of its head is dropped.
StopAnnouncing(c) ==
  /\ pc[c] \in Announcing
  /\ targets[c] = {}
  /\ lock' = Nobody
  /\ Goto(c, IF pc[c] = "announceJoined" THEN "serving" ELSE "done")
  /\ snapshot' = [snapshot EXCEPT ![c] = {}]
  /\ UNCHANGED <<hosting, roster, connections, hello, assigned, targets, half, hostView, link, wire, clientVars>>

\* `accept_uni` reports the lost connection and the serve loop ends.
StopServing(c) ==
  /\ pc[c] = "serving"
  /\ link[c] = "down"
  /\ Goto(c, "leaving")
  /\ UNCHANGED <<hosting, serverVars, hello, assigned, snapshot, targets,
                 half, hostView, link, wire, clientVars>>

Leave(c) ==
  /\ pc[c] = "leaving"
  /\ LockFree
  /\ DropPlayer(assigned[c])
  /\ snapshot' = [snapshot EXCEPT ![c] = roster']
  /\ Goto(c, "tellLeft")
  /\ UNCHANGED <<hosting, lock, hello, assigned, targets, half, hostView,
                 link, wire, clientVars>>

-----------------------------------------------------------------------------
(* The client: one task joins, and a reader task takes over. *)

\* The reply the join waits for is the first stream the host opened.
ReadReply(c) ==
  /\ client[c] = "waiting"
  /\ wire[c] # << >>
  /\ LET reply == Head(wire[c])
     IN  \/ /\ reply.kind = "welcome"
            /\ client' = [client EXCEPT ![c] = "in"]
            /\ me' = [me EXCEPT ![c] = reply.name]
            /\ view' = [view EXCEPT ![c] = reply.names]
            /\ wire' = [wire EXCEPT ![c] = Tail(@)]
            /\ UNCHANGED link
         \/ /\ reply.kind # "welcome"
            /\ client' = [client EXCEPT ![c] = IF reply.kind = "error"
                                               THEN "refused" ELSE "failed"]
            /\ link' = [link EXCEPT ![c] = "down"]
            /\ wire' = [wire EXCEPT ![c] = << >>]
            /\ UNCHANGED <<me, view>>
  /\ UNCHANGED <<hosting, serverVars, hello, handlerVars, hostView>>

\* A later message; only a roster changes what the client shows.
ReadUpdate(c) ==
  /\ client[c] = "in"
  /\ wire[c] # << >>
  /\ LET update == Head(wire[c])
     IN  view' = IF update.kind = "roster"
                 THEN [view EXCEPT ![c] = update.names] ELSE view
  /\ wire' = [wire EXCEPT ![c] = Tail(@)]
  /\ UNCHANGED <<hosting, serverVars, hello, handlerVars, hostView, link,
                 client, me>>

\* The player leaves (`Client::close`), or the connection is lost ...
Lose(c) ==
  /\ link[c] = "up"
  /\ Cardinality({d \in Conns : link[d] = "down"}) < MaxLost
  /\ link' = [link EXCEPT ![c] = "down"]
  /\ UNCHANGED <<hosting, serverVars, hello, handlerVars, hostView, wire,
                 clientVars>>

\* ... and the client is gone: dropped, or told by Event::Disconnected, or by
\* the error of a join that was under way.
Disconnected(c) ==
  /\ client[c] \in {"waiting", "in"}
  /\ link[c] = "down"
  /\ client' = [client EXCEPT ![c] = "gone"]
  /\ wire' = [wire EXCEPT ![c] = << >>]
  /\ me' = [me EXCEPT ![c] = HostName]
  /\ view' = [view EXCEPT ![c] = {}]
  /\ UNCHANGED <<hosting, serverVars, hello, handlerVars, hostView, link>>

\* Faulty variant: the endpoint is never closed.
CloseHostQuietly ==
  /\ hosting
  /\ HostMayClose
  /\ hosting' = FALSE
  /\ UNCHANGED <<serverVars, hello, handlerVars, hostView, link, wire,
                 clientVars>>

\* `Host::close`: only an endpoint of its own is closed, and the connections
\* with it.  The handlers are tasks of their own and go on.
CloseHost ==
  /\ hosting
  /\ HostMayClose
  /\ hosting' = FALSE
  /\ link' = IF SharedNode
             THEN link
             ELSE [c \in Conns |-> IF link[c] = "up" THEN "down" ELSE link[c]]
  /\ UNCHANGED <<serverVars, hello, handlerVars, hostView, wire, clientVars>>

-----------------------------------------------------------------------------

Handler(c) ==
  \/ Greet(c)
  \/ Compare(c)
  \/ HangUp(c)
  \/ Join(c)
  \/ SendWelcome(c)
  \/ Evict(c)
  \/ TellHost(c)
  \/ StartAnnouncing(c)
  \/ AnnounceName(c)
  \/ AnnounceRoster(c)
  \/ StopAnnouncing(c)
  \/ StopServing(c)
  \/ Leave(c)

Player(c) ==
  \/ Dial(c)
  \/ ReadReply(c)
  \/ ReadUpdate(c)
  \/ Lose(c)
  \/ Disconnected(c)

Next ==
  \/ \E c \in Conns : Handler(c) \/ Player(c)
  \/ CloseHost

Spec == Init /\ [][Next]_vars

(* The runtime keeps running every task that can run, and the mutex is handed
   out in the order it was asked for, so a handler that waits for it gets it
   although it may be taken in between.  A client's tasks run too.  Nobody has
   to dial, to quit, to lose the connection or to close the session.         *)
TakeLock(c) == Compare(c) \/ Join(c) \/ Evict(c) \/ StartAnnouncing(c) \/ Leave(c)

Fairness ==
  \A c \in Conns :
    /\ WF_vars(Handler(c))
    /\ SF_vars(TakeLock(c))
    /\ WF_vars(ReadReply(c) \/ ReadUpdate(c) \/ Disconnected(c))

LiveSpec == Spec /\ Fairness

-----------------------------------------------------------------------------
(* Properties. *)

ServerTypeOK ==
  /\ hosting \in BOOLEAN
  /\ roster \subseteq PlayerNames
  /\ connections \subseteq [name : PlayerNames, conn : Conns]
  /\ lock \in Conns \cup {Nobody}
  /\ hostView \subseteq PlayerNames

StationTypeOK ==
  /\ hello \in [Conns -> Greeting \cup {NoGreeting}]
  /\ pc \in [Conns -> Station]

HandlerTypeOK ==
  /\ assigned \in [Conns -> PlayerNames]
  /\ snapshot \in [Conns -> SUBSET PlayerNames]
  /\ targets \in [Conns -> SUBSET Conns]
  /\ half \in [Conns -> Conns \cup {Nobody}]

WireTypeOK ==
  /\ link \in [Conns -> {"none", "up", "down"}]
  /\ wire \in [Conns -> Seq(Message)]

ClientTypeOK ==
  /\ client \in [Conns -> {"out", "waiting", "in", "refused", "failed", "gone"}]
  /\ me \in [Conns -> PlayerNames]
  /\ view \in [Conns -> SUBSET PlayerNames]

\* Every variable has the type its counterpart has in the code.
TypeOK ==
  /\ ServerTypeOK
  /\ StationTypeOK
  /\ HandlerTypeOK
  /\ WireTypeOK
  /\ ClientTypeOK

InSession(c) == pc[c] \in Admitted

\* The server's table is exactly the admitted handlers under their own names:
\* no entry outlives its handler and none is lost while its handler serves.
\* `leave` removes by name, so this fails as soon as two handlers share one.
TableMatchesHandlers ==
  connections = {[name |-> assigned[c], conn |-> c] : c \in {d \in Conns : InSession(d)}}

\* The roster is the host and the connected players, each under a name that no
\* other player and not the host has (`Server::join` and `Server::leave`).
NamesAreUnique ==
  /\ roster = {HostName} \cup {e.name : e \in connections}
  /\ \A e \in connections : e.name # HostName
  /\ \A e, f \in connections : e.name = f.name => e = f

\* Exactly the handler inside an announce loop holds the mutex, so at most one
\* is inside; a half-told target is one the loop has still to finish.
LockIsTheAnnouncer ==
  \A c \in Conns :
    /\ pc[c] \in Announcing <=> lock = c
    /\ half[c] # Nobody => pc[c] \in Announcing /\ half[c] \in targets[c]

\* Two clients that are both in a session and connected know themselves under
\* different names, the ones the host relays for them, and neither is called
\* what the host is called (`Client::name`).
ClientsAreTellable ==
  \A c \in Conns :
    client[c] = "in" /\ link[c] = "up" =>
      /\ InSession(c)
      /\ me[c] = assigned[c]
      /\ me[c] # HostName
      /\ \A d \in Conns \ {c} :
           client[d] = "in" /\ link[d] = "up" => me[c] # me[d]

\* The connections that gave up their seat.
Gone == {c \in Conns : assigned[c] # HostName /\ pc[c] \in Departed \cup {"done"}}

Identity == INSTANCE Seats WITH seats <- connections, left <- Gone

\* Every step of the session is a player taking a seat under a free name, one
\* giving up their own, or a step that seats do not see.
SeatsAreKept == Identity!Spec

\* Nothing is under way: every handler serves, has not started or is done, and
\* every client has read what was sent to it.
Settled ==
  \A c \in Conns :
    /\ pc[c] \in {"idle", "serving", "done"}
    /\ client[c] \notin {"waiting", "in"} \/ wire[c] = << >>

\* `Client::join` "completes the handshake, and returns once the server has
\* accepted us": a client whose greeting was accepted is not turned away by a
\* reply that is neither a Welcome nor a refusal.
HandshakeCompletes == \A c \in Conns : client[c] # "failed"

Listed(c) == \E e \in connections : e.conn = c

\* A player whose connection is lost leaves the server's table, whoever holds
\* the mutex in between and however far the handshake had come
\* (`handle_connection` after its serve loop, and where the Welcome fails).
LostPlayersLeave ==
  \A c \in Conns : (Listed(c) /\ link[c] = "down") ~> ~Listed(c)

\* Every attempt to join is answered: with a Welcome, with a refusal, or with the
\* end of the connection (`refuse`, and the reply `Client::join_with_mods` reads).
DialsEnd == \A c \in Conns : client[c] = "waiting" ~> client[c] # "waiting"

\* "When the host disappears, a client has to hear it": a host that closes an
\* endpoint of its own leaves no client behind that still believes to be in the
\* session (`Host::close`, and the two tasks of `Client::join_with_mods`).
HostGoneIsHeard ==
  \A c \in Conns : (~hosting /\ client[c] = "in") ~> client[c] = "gone"

\* Nobody is kept waiting: neither who dials nor whose host has gone.
EndsAreHeard == DialsEnd /\ HostGoneIsHeard

=============================================================================
