-------------------------------- MODULE Chat --------------------------------
(***************************************************************************)
(* Chat in a hosted session: `Host::say`, `Client::say`, `route_chat`,     *)
(* `within_burst` and the serve loop of `handle_connection` in             *)
(* crates/session/src/lib.rs.                                              *)
(*                                                                         *)
(* The handler of a connection reads one line at a time, counts it, works  *)
(* out under the mutex who hears it, and then sends it to one connection   *)
(* after the other without the mutex.  So handlers overtake each other     *)
(* between any two sends, and players come and go meanwhile.  The host     *)
(* says its lines through the same routing, uncounted; its own console is  *)
(* told last, by an event.  An action is the code between two awaits.      *)
(* `connections` and the targets of a send loop are sets, as in Session:   *)
(* the loop visits its targets in some order.                              *)
(* Which lines are too many is the subject of RateLimit and left open.     *)
(*                                                                         *)
(* How players are admitted is the subject of Session; of it only          *)
(* `Server::join` and `Server::leave` are repeated here.  wire[c] is the   *)
(* queue of streams towards the client of c, as there, and carries chat    *)
(* alone.  The mutex is never kept by chat, so a hold is one action.       *)
(***************************************************************************)
EXTENDS Names

CONSTANTS
  Conns,       \* the connections ever admitted
  Requests,    \* the names players ask for
  Addressees,  \* the names whispered to
  Host,        \* the local player on the host
  HostName,
  All,         \* the addressee of a line that is no whisper
  StreamLimit, \* streams that may be open towards one client at a time
  MaxLines,    \* bound: how many lines are said
  MaxLost      \* bound: how many connections are lost

ASSUME ChatAssumption ==
  /\ Requests \subseteq PlayerNames
  /\ Addressees \subseteq PlayerNames
  /\ HostName \in PlayerNames
  /\ Host \notin Conns
  /\ All \notin PlayerNames
  /\ StreamLimit \in Nat \ {0}
  /\ MaxLines \in Nat
  /\ MaxLost \in Nat

Speakers == Conns \cup {Host}

VARIABLES
  connections,  \* Server::connections, a set of [name, conn]
  named,        \* the name the connection was admitted under
  link,         \* the connection: "none", "up" or "down"
  said,         \* lines on their way to who routes them
  spoken,       \* how many lines were said
  job,          \* where a handler, or the host's `say`, stands
  wire,         \* streams opened towards the client and not read yet
  console,      \* history: what each console shows
  answered      \* history: the lines that were routed or refused

seatingVars == <<connections, named>>
chatVars == <<seatingVars, link, said, spoken, job, wire, console, answered>>

-----------------------------------------------------------------------------

Line == [from : Speakers, n : Nat, to : Addressees \cup {All}]

(* A line reaches its addressees and everybody a global line is for ("line"),
   the sender of a whisper ("echo"), or comes back to its sender because nobody
   has that name ("unknown") or the sender must slow down ("slow").          *)
Kind == {"line", "echo", "unknown", "slow"}
Messages == [line : Line, kind : Kind]

(* `to` is whom the message still has to be sent to, and how; `host` how the
   host's own console will be told at last.                                  *)
Job ==
  [stage : {"out", "settling", "waiting", "done"}]
    \cup [stage : {"routing", "unknown"}, line : Line]
    \cup [stage : {"sending"}, line : Line,
          to : SUBSET [conn : Conns, kind : Kind], host : Kind \cup {"none"}]

At(stage) == [stage |-> stage]
With(stage, line) == [stage |-> stage, line |-> line]
Sending(line, to, host) ==
  [stage |-> "sending", line |-> line, to |-> to, host |-> host]

Become(s, j) == job' = [job EXCEPT ![s] = j]

NameOf(s) == IF s = Host THEN HostName ELSE named[s]

Roster == {HostName} \cup {e.name : e \in connections}

\* `Server::connection_of`.
ConnectionOf(name) == {e.conn : e \in {f \in connections : f.name = name}}

\* `Server::every`.
Every == {e.conn : e \in connections}

For(conns, kind) == {[conn |-> c, kind |-> kind] : c \in conns}

ChatInit ==
  /\ connections = {}
  /\ named = [c \in Conns |-> HostName]
  /\ link = [c \in Conns |-> "none"]
  /\ said = [s \in Speakers |-> << >>]
  /\ spoken = 0
  /\ job = [s \in Speakers |-> At(IF s = Host THEN "waiting" ELSE "out")]
  /\ wire = [c \in Conns |-> << >>]
  /\ console = [s \in Speakers |-> << >>]
  /\ answered = {}

-----------------------------------------------------------------------------
(* Players come, are served and go. *)

\* `Server::join`.
Enter(c) ==
  /\ job[c].stage = "out"
  /\ \E desired \in Requests :
       LET name == UniqueName(desired, Roster)
       IN  /\ connections' = connections \cup {[name |-> name, conn |-> c]}
           /\ named' = [named EXCEPT ![c] = name]
  /\ link' = [link EXCEPT ![c] = "up"]
  /\ Become(c, At("settling"))
  /\ UNCHANGED <<said, spoken, wire, console, answered>>

\* The player was welcomed and announced, and the serve loop starts.
Serve(c) ==
  /\ job[c].stage = "settling"
  /\ Become(c, At("waiting"))
  /\ UNCHANGED <<seatingVars, link, said, spoken, wire, console, answered>>

Lose(c) ==
  /\ link[c] = "up"
  /\ Cardinality({d \in Conns : link[d] = "down"}) < MaxLost
  /\ link' = [link EXCEPT ![c] = "down"]
  /\ UNCHANGED <<seatingVars, said, spoken, job, wire, console, answered>>

\* `Server::leave`, when `accept_uni` reports the lost connection.  What was
\* said and had not arrived is lost with it.
Quit(c) ==
  /\ job[c].stage \in {"settling", "waiting"}
  /\ link[c] = "down"
  /\ connections' = {e \in connections : e.name # named[c]}
  /\ said' = [said EXCEPT ![c] = << >>]
  /\ Become(c, At("done"))
  /\ UNCHANGED <<named, link, spoken, wire, console, answered>>

-----------------------------------------------------------------------------
(* A line is said, counted, routed and sent. *)

\* `Client::say` opens a stream of its own per line; the host's lines wait for
\* the loop that calls `Host::say`.
Say(s) ==
  /\ spoken < MaxLines
  /\ s # Host => link[s] = "up"
  /\ spoken' = spoken + 1
  /\ \E whom \in Addressees \cup {All} :
       said' = [said EXCEPT ![s] =
                  Append(@, [from |-> s, n |-> spoken + 1, to |-> whom])]
  /\ UNCHANGED <<seatingVars, link, job, wire, console, answered>>

\* The serve loop takes the next line, which is one too many or is routed.
Read(c) ==
  /\ job[c].stage = "waiting"
  /\ said[c] # << >>
  /\ LET line == Head(said[c])
     IN  \/ /\ Become(c, With("routing", line))
            /\ UNCHANGED answered
         \/ /\ Become(c, Sending(line, For({c}, "slow"), "none"))
            /\ answered' = answered \cup {line}
  /\ said' = [said EXCEPT ![c] = Tail(@)]
  /\ UNCHANGED <<seatingVars, link, spoken, wire, console>>

\* `Host::say`: the host is not counted.
ReadHost ==
  /\ job[Host].stage = "waiting"
  /\ said[Host] # << >>
  /\ Become(Host, With("routing", Head(said[Host])))
  /\ said' = [said EXCEPT ![Host] = Tail(@)]
  /\ UNCHANGED <<seatingVars, link, spoken, wire, console, answered>>

\* How the host's own console is told of a whisper.
HostSees(target, s) ==
  IF target = HostName THEN "line" ELSE IF s = Host THEN "echo" ELSE "none"

\* The plan of `route_chat`, under one hold of the mutex.
Plan(s, line) ==
  IF line.to = All
  THEN Sending(line, For(Every, "line"), "line")
  ELSE LET target == FirstWord(line.to)
       IN  IF target \notin Roster
           THEN With("unknown", line)
           ELSE Sending(line,
                        For(ConnectionOf(target), "line")
                          \cup For(ConnectionOf(NameOf(s)), "echo"),
                        HostSees(target, s))

Route(s) ==
  /\ job[s].stage = "routing"
  /\ Become(s, Plan(s, job[s].line))
  /\ answered' = answered \cup {job[s].line}
  /\ UNCHANGED <<seatingVars, link, said, spoken, wire, console>>

\* Nobody has that name: a second hold of the mutex finds the sender, and
\* whoever is no connection is the host.
FindSender(s) ==
  /\ job[s].stage = "unknown"
  /\ LET back == ConnectionOf(NameOf(s))
     IN  Become(s, Sending(job[s].line, For(back, "unknown"),
                           IF back = {} THEN "unknown" ELSE "none"))
  /\ UNCHANGED <<seatingVars, link, said, spoken, wire, console, answered>>

\* Faulty variant: a stream on a lost connection waits for credit that never comes.
CanSendOnlyUp(c) == link[c] = "up" /\ Len(wire[c]) < StreamLimit

\* `open_uni` waits for credit, and fails once the connection is lost.
CanSend(c) == link[c] # "up" \/ Len(wire[c]) < StreamLimit

\* A send to a lost connection is an error the caller drops.
Sent(c, message) ==
  IF link[c] = "up" THEN [wire EXCEPT ![c] = Append(@, message)] ELSE wire

Message(line, kind) == [line |-> line, kind |-> kind]

SendOne(s) ==
  /\ job[s].stage = "sending"
  /\ \E d \in job[s].to :
       /\ CanSend(d.conn)
       /\ wire' = Sent(d.conn, Message(job[s].line, d.kind))
       /\ job' = [job EXCEPT ![s].to = @ \ {d}]
  /\ UNCHANGED <<seatingVars, link, said, spoken, console, answered>>

\* The host's console is told last, and the next line can be read.
Finish(s) ==
  /\ job[s].stage = "sending"
  /\ job[s].to = {}
  /\ console' = IF job[s].host = "none" THEN console
                ELSE [console EXCEPT ![Host] =
                        Append(@, Message(job[s].line, job[s].host))]
  /\ Become(s, At("waiting"))
  /\ UNCHANGED <<seatingVars, link, said, spoken, wire, answered>>

\* Faulty variant: a task per stream, and whichever is done first is shown.
HearAny(c) ==
  /\ \E i \in DOMAIN wire[c] :
       /\ console' = [console EXCEPT ![c] = Append(@, wire[c][i])]
       /\ wire' = [wire EXCEPT ![c] = SubSeq(@, 1, i - 1) \o SubSeq(@, i + 1, Len(@))]
  /\ UNCHANGED <<connections, named, link, said, spoken, job, answered>>

\* The client's reader takes the streams one after the other.
Hear(c) ==
  /\ wire[c] # << >>
  /\ console' = [console EXCEPT ![c] = Append(@, Head(wire[c]))]
  /\ wire' = [wire EXCEPT ![c] = Tail(@)]
  /\ UNCHANGED <<seatingVars, link, said, spoken, job, answered>>

\* The reader is told that the connection is gone before it read the rest.
Deaf(c) ==
  /\ link[c] = "down"
  /\ wire[c] # << >>
  /\ wire' = [wire EXCEPT ![c] = << >>]
  /\ UNCHANGED <<seatingVars, link, said, spoken, job, console, answered>>

-----------------------------------------------------------------------------

Handler(c) == Serve(c) \/ Read(c) \/ Quit(c)

Routing(s) == Route(s) \/ FindSender(s) \/ SendOne(s) \/ Finish(s)

Player(c) == Enter(c) \/ Lose(c) \/ Hear(c) \/ Deaf(c)

ChatNext ==
  \/ \E c \in Conns : Handler(c) \/ Player(c)
  \/ \E s \in Speakers : Say(s) \/ Routing(s)
  \/ ReadHost

ChatSpec == ChatInit /\ [][ChatNext]_chatVars

(* The runtime runs every task that can run: the handlers, the loop of the
   host's player and the readers of the clients.  Nobody has to join, to say
   anything or to lose the connection.                                       *)
ChatFairness ==
  /\ \A c \in Conns : WF_chatVars(Handler(c)) /\ WF_chatVars(Hear(c) \/ Deaf(c))
  /\ \A s \in Speakers : WF_chatVars(Routing(s))
  /\ WF_chatVars(ReadHost)

LiveChatSpec == ChatSpec /\ ChatFairness

-----------------------------------------------------------------------------
(* Properties. *)

\* Every variable has the type its counterpart has in the code.
ChatTypeOK ==
  /\ connections \subseteq [name : PlayerNames, conn : Conns]
  /\ named \in [Conns -> PlayerNames]
  /\ link \in [Conns -> {"none", "up", "down"}]
  /\ said \in [Speakers -> Seq(Line)]
  /\ spoken \in Nat
  /\ job \in [Speakers -> Job]
  /\ wire \in [Conns -> Seq(Messages)]
  /\ console \in [Speakers -> Seq(Messages)]
  /\ answered \subseteq Line

(* What is on its way to a console: on the wire, or still to be sent. *)

Item(line, kind, s) == [line |-> line, kind |-> kind, on |-> s]

OnTheWire ==
  UNION {{Item(wire[c][i].line, wire[c][i].kind, c) : i \in DOMAIN wire[c]} : c \in Conns}

ToBeSent(s) ==
  CASE job[s].stage = "sending" ->
         {Item(job[s].line, d.kind, d.conn) : d \in job[s].to}
           \cup {Item(job[s].line, k, Host) : k \in {job[s].host} \ {"none"}}
    [] job[s].stage = "unknown" -> {Item(job[s].line, "unknown", s)}
    [] OTHER -> {}

Abstract == INSTANCE Delivery WITH
  seats <- connections,
  away <- {c \in Conns : link[c] = "down"},
  due <- OnTheWire \cup UNION {ToBeSent(s) : s \in Speakers},
  shown <- console

\* However handlers, sends, arrivals and departures interleave, it is as if
\* every line had been routed at one moment to exactly those it was for, and
\* had then been shown to each of them once, in the order of its sender.
RoutedAtOnce == Abstract!Spec

Unanswered(s) ==
  \/ said[s] # << >>
  \/ job[s].stage \in {"routing", "unknown", "sending"}

\* Whoever says something is done with it at last, however slowly others read
\* and whoever is lost meanwhile: no send loop waits for ever (`route_chat`).
EveryoneIsHeard == \A s \in Speakers : Unanswered(s) ~> ~Unanswered(s)

=============================================================================
