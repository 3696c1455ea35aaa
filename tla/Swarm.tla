------------------------------- MODULE Swarm -------------------------------
(***************************************************************************)
(* Host adverts over gossip (src/crates/session/src/swarm.rs) and the part *)
(* of the game's network thread that advertises and withdraws              *)
(* (src/crates/goats/src/net.rs): from a session that stops to the portal  *)
(* that disappears from another player's meadow.                           *)
(*                                                                         *)
(* A node may leave a swarm and join another; each subscription is a task  *)
(* of its own and is used once.  Every hosted session has a ticket of its  *)
(* own.  Ages are in ticks of the tasks' timers, as in Registry.           *)
(***************************************************************************)
EXTENDS Integers, Sequences, FiniteSets

CONSTANTS
  Nodes,
  Subs, Owner,     \* subscriptions, [Subs -> Nodes]
  Tickets, Home,   \* hosted sessions, [Tickets -> Nodes]
  Every, TTL,      \* ADVERT_EVERY and ADVERT_TTL in ticks
  Backlog,         \* COMMAND_BACKLOG
  MaxHosts,        \* MAX_HOSTS
  Lan,             \* does the LAN beacon hold a sender of the queue?
  MaxPeers,        \* bound: peers the beacon hears
  MaxLost          \* bound: messages gossip loses

ASSUME OwnerAssumption == Owner \in [Subs -> Nodes] /\ Home \in [Tickets -> Nodes]
ASSUME NumbersAssumption ==
  /\ {Every, TTL, Backlog, MaxHosts} \subseteq Nat \ {0}
  /\ MaxPeers \in Nat /\ MaxLost \in Nat
  /\ Lan \in BOOLEAN

VARIABLES
  session,   \* [Nodes -> Tickets or None]: the network thread's live host
  current,   \* [Nodes -> Subs or None]: the network thread's swarm
  shown,     \* [Nodes -> SUBSET Tickets]: netHosts, the scene's portals
  task,      \* [Subs -> {"new", "on", "over"}]
  own,       \* [Subs -> Tickets or None]: the advert the task restates
  cmds,      \* [Subs -> Seq(Command)]
  hosts,     \* [Subs -> [Tickets -> Age]]
  since,     \* [Subs -> 0..Every]: ticks since the last broadcast
  met,       \* subscriptions with a NeighborUp to handle
  net,       \* gossip messages under way
  ticked,    \* tasks and network threads whose timer fired since time advanced
  fresh,     \* tickets not hosted yet
  over,      \* history: [Tickets -> ticks since it stopped being hosted]
  missed,    \* history: tickets whose Withdraw or Leave met a full queue
  heard, lost  \* counters for the bounds

client == <<session, current, shown>>
history == <<fresh, over, missed>>
vars == <<client, task, own, cmds, hosts, since, met, net, ticked, history,
          heard, lost>>

None == "none"
ASSUME NamesAssumption == None \notin Tickets \cup Subs /\ Nodes \cap Subs = {}

Absent == TTL + 1
Age == 0..Absent
LongOver == TTL + 2                                     \* cap of over

Command == [do : {"advert"}, ticket : Tickets]
             \cup [do : {"withdraw", "peers", "leave"}, ticket : {None}]
Message == [kind : {"advert", "gone"}, ticket : Tickets, to : Subs]

Hosted == {t \in Tickets : session[Home[t]] = t}
On == {s \in Subs : task[s] = "on"}
Listed(s) == {t \in Tickets : hosts[s][t] # Absent}

TypeOK ==
  /\ session \in [Nodes -> Tickets \cup {None}]
  /\ \A n \in Nodes : session[n] # None => Home[session[n]] = n
  /\ current \in [Nodes -> Subs \cup {None}]
  /\ \A n \in Nodes : current[n] # None => Owner[current[n]] = n /\ current[n] \in On
  /\ shown \in [Nodes -> SUBSET Tickets]
  /\ task \in [Subs -> {"new", "on", "over"}]
  /\ own \in [Subs -> Tickets \cup {None}]
  /\ \A s \in Subs : \A i \in DOMAIN cmds[s] : cmds[s][i] \in Command
  /\ hosts \in [Subs -> [Tickets -> Age]]
  /\ \A s \in Subs : Cardinality(Listed(s)) <= MaxHosts
  /\ since \in [Subs -> 0..Every]
  /\ met \subseteq Subs /\ ticked \subseteq Subs \cup Nodes /\ net \subseteq Message
  /\ fresh \subseteq Tickets /\ missed \subseteq Tickets
  /\ over \in [Tickets -> 0..LongOver]
  /\ heard \in 0..MaxPeers /\ lost \in 0..MaxLost

-----------------------------------------------------------------------------
(* The queue to a task.                                                    *)

Cmd(do) == [do |-> do, ticket |-> None]
Advert(t) == [do |-> "advert", ticket |-> t]
Room(s) == Len(cmds[s]) < Backlog

\* try_send: without room the command is dropped.
TrySend(s, c) == IF Room(s) THEN [cmds EXCEPT ![s] = Append(@, c)] ELSE cmds

\* SwarmCommands::leave, and dropping the swarm with it: without the beacon's
\* sender the queue is closed, which ends the task like a Leave.
LastWord(s) == IF Room(s) \/ ~Lan THEN [cmds EXCEPT ![s] = Append(@, Cmd("leave"))] ELSE cmds

\* advertise_host, withdraw: to the swarm of node n, if it has one.
Tell(n, c) == IF current[n] = None THEN cmds ELSE TrySend(current[n], c)
Unheard(n) == current[n] # None /\ ~Room(current[n])

-----------------------------------------------------------------------------
(* The network thread.                                                     *)

\* Command::Host, with no session left: host, and advertise.
Host(n, t) ==
  /\ session[n] = None /\ t \in fresh /\ Home[t] = n
  /\ session' = [session EXCEPT ![n] = t]
  /\ fresh' = fresh \ {t}
  /\ cmds' = Tell(n, Advert(t))
  /\ UNCHANGED <<current, shown, task, own, hosts, since, met, net, ticked, over, missed, heard, lost>>

\* Faulty Announce: the task's own timer is trusted to restate.
AnnounceNothing(n) ==
  /\ session[n] # None /\ n \notin ticked
  /\ ticked' = ticked \cup {n}
  /\ UNCHANGED <<cmds, client, task, own, hosts, since, met, net, history, heard, lost>>

\* The announce interval, which is as long as the tasks' tick.
Announce(n) ==
  /\ session[n] # None /\ n \notin ticked
  /\ ticked' = ticked \cup {n}
  /\ cmds' = Tell(n, Advert(session[n]))
  /\ UNCHANGED <<client, task, own, hosts, since, met, net, history, heard, lost>>

\* stop: withdraw the advert, then close the session.
Stop(n) ==
  /\ session[n] # None
  /\ session' = [session EXCEPT ![n] = None]
  /\ cmds' = Tell(n, Cmd("withdraw"))
  /\ over' = [over EXCEPT ![session[n]] = 0]
  /\ missed' = IF Unheard(n) THEN missed \cup {session[n]} ELSE missed
  /\ UNCHANGED <<current, shown, task, own, hosts, since, met, net, ticked, fresh, heard, lost>>

\* stop_swarm: what the node hosts is missed by a task that is not told.
StopSwarm(n) ==
  IF current[n] = None THEN UNCHANGED <<cmds, missed>>
  ELSE LET s == current[n] IN
       /\ cmds' = LastWord(s)
       /\ missed' = IF cmds' = cmds
                      THEN missed \cup {t \in Tickets : Home[t] = n /\ t \notin fresh}
                      ELSE missed

\* Command::SwarmLeave: leave, and an empty list for the scene.
SwarmLeave(n) ==
  /\ current[n] # None
  /\ StopSwarm(n)
  /\ current' = [current EXCEPT ![n] = None]
  /\ shown' = [shown EXCEPT ![n] = {}]
  /\ UNCHANGED <<session, task, own, hosts, since, met, net, ticked, fresh, over, heard, lost>>

\* Command::SwarmJoin: stop the old swarm, subscribe on a new one, advertise
\* what is hosted.  The scene's list is not touched.
SwarmJoin(n, s) ==
  /\ task[s] = "new" /\ Owner[s] = n
  /\ current' = [current EXCEPT ![n] = s]
  /\ task' = [task EXCEPT ![s] = "on"]
  /\ LET quit == IF current[n] = None THEN cmds ELSE LastWord(current[n]) IN
       cmds' = IF session[n] = None THEN quit
               ELSE [quit EXCEPT ![s] = <<Advert(session[n])>>]
  /\ missed' = IF current[n] # None /\ LastWord(current[n]) = cmds
                 THEN missed \cup {t \in Tickets : Home[t] = n /\ t \notin fresh}
                 ELSE missed
  /\ met' = met \cup {u \in On : u # s} \cup {s}
  /\ UNCHANGED <<session, shown, own, hosts, since, net, ticked, fresh, over, heard, lost>>

\* Command::SwarmJoin whose subscription fails: a notice, and no swarm.
SwarmJoinFails(n) ==
  /\ current[n] # None
  /\ StopSwarm(n)
  /\ current' = [current EXCEPT ![n] = None]
  /\ UNCHANGED <<session, shown, task, own, hosts, since, met, net, ticked, fresh, over, heard, lost>>

\* The process of node n dies: nobody says Gone.
Crash(n) ==
  /\ session[n] # None \/ \E s \in On : Owner[s] = n
  /\ session' = [session EXCEPT ![n] = None]
  /\ current' = [current EXCEPT ![n] = None]
  /\ shown' = [shown EXCEPT ![n] = {}]
  /\ over' = IF session[n] = None THEN over ELSE [over EXCEPT ![session[n]] = 0]
  /\ LET mine == {s \in On : Owner[s] = n} IN
       /\ task' = [s \in Subs |-> IF s \in mine THEN "over" ELSE task[s]]
       /\ own' = [s \in Subs |-> IF s \in mine THEN None ELSE own[s]]
       /\ cmds' = [s \in Subs |-> IF s \in mine THEN <<>> ELSE cmds[s]]
       /\ hosts' = [s \in Subs |-> IF s \in mine THEN [t \in Tickets |-> Absent] ELSE hosts[s]]
       /\ met' = met \ mine
       /\ net' = {m \in net : m.to \notin mine}
  /\ UNCHANGED <<since, ticked, fresh, missed, heard, lost>>

-----------------------------------------------------------------------------
(* The task.                                                               *)

\* Gossip brings what s says to every subscription, its own on some paths.
Broadcast(kind, t) == [kind : {kind}, ticket : {t}, to : On]

\* The drain task turns the change of a list into the scene's list, as long as
\* the subscription is the node's current one.
Discover(s, list) ==
  LET now == {t \in Tickets : list[t] # Absent} IN
  /\ hosts' = [hosts EXCEPT ![s] = list]
  /\ shown' = IF current[Owner[s]] = s /\ now # Listed(s)
                THEN [shown EXCEPT ![Owner[s]] = now] ELSE shown

\* Command::Advert and Command::Withdraw.
TakeAdvert(s, t) ==
  /\ own' = [own EXCEPT ![s] = t]
  /\ net' = net \cup Broadcast("advert", t)
  /\ since' = [since EXCEPT ![s] = 0]
  /\ UNCHANGED <<task, hosts, shown, met>>

TakeWithdraw(s) ==
  /\ own' = [own EXCEPT ![s] = None]
  /\ net' = IF own[s] = None THEN net ELSE net \cup Broadcast("gone", own[s])
  /\ UNCHANGED <<task, hosts, shown, met, since>>

\* Command::Leave: Gone for the advert, if there is one, and the end.
TakeLeave(s) ==
  /\ task' = [task EXCEPT ![s] = "over"]
  /\ own' = [own EXCEPT ![s] = None]
  /\ hosts' = [hosts EXCEPT ![s] = [t \in Tickets |-> Absent]]
  /\ met' = met \ {s}
  /\ net' = {m \in net \cup (IF own[s] = None THEN {} ELSE Broadcast("gone", own[s])) : m.to # s}
  /\ UNCHANGED <<shown, since>>

HandleCommand(s) ==
  /\ s \in On /\ cmds[s] # <<>>
  /\ LET c == Head(cmds[s]) IN
       /\ CASE c.do = "advert" -> TakeAdvert(s, c.ticket)
            [] c.do = "withdraw" -> TakeWithdraw(s)
            [] c.do = "peers" -> UNCHANGED <<task, own, hosts, shown, met, net, since>>
            [] c.do = "leave" -> TakeLeave(s)
       /\ cmds' = [cmds EXCEPT ![s] = IF c.do = "leave" THEN <<>> ELSE Tail(@)]
  /\ UNCHANGED <<session, current, ticked, history, heard, lost>>

\* The list when one more entry of age 0 is in it: over MaxHosts one of the
\* oldest goes.
Admitted(list, t) ==
  LET new == [list EXCEPT ![t] = 0]
      in == {u \in Tickets : new[u] # Absent}
      oldest == {u \in in : \A w \in in : new[w] <= new[u]}
  IN  IF Cardinality(in) <= MaxHosts THEN {new}
      ELSE {[new EXCEPT ![u] = Absent] : u \in oldest}

\* GossipEvent::Received.  A node's own advert is not a discovered host.
ReceiveAdvert(m) ==
  /\ m.kind = "advert"
  /\ IF own[m.to] = m.ticket THEN UNCHANGED <<hosts, shown>>
     ELSE \E list \in Admitted(hosts[m.to], m.ticket) : Discover(m.to, list)

ReceiveGone(m) ==
  /\ m.kind = "gone"
  /\ Discover(m.to, [hosts[m.to] EXCEPT ![m.ticket] = Absent])

Receive(m) ==
  /\ m \in net /\ m.to \in On
  /\ net' = net \ {m}
  /\ ReceiveAdvert(m) \/ ReceiveGone(m)
  /\ UNCHANGED <<session, current, task, own, cmds, since, met, ticked, history, heard, lost>>

\* GossipEvent::NeighborUp: it missed every earlier broadcast.
GreetNeighbour(s) ==
  /\ s \in met
  /\ met' = met \ {s}
  /\ IF own[s] = None THEN UNCHANGED <<net, since>>
     ELSE /\ net' = net \cup Broadcast("advert", own[s])
          /\ since' = [since EXCEPT ![s] = 0]
  /\ UNCHANGED <<client, task, own, cmds, hosts, ticked, history, heard, lost>>

\* A faulty Kept: nothing expires.
KeptForever(a) == a
Kept(a) == IF a < TTL THEN a ELSE Absent

\* The timer: prune, and restate when it is time.
TickerFires(s) ==
  /\ s \in On \ ticked
  /\ ticked' = ticked \cup {s}
  /\ Discover(s, [t \in Tickets |-> Kept(hosts[s][t])])
  /\ IF since[s] < Every THEN UNCHANGED <<net, since>>
     ELSE /\ since' = [since EXCEPT ![s] = 0]
          /\ net' = IF own[s] = None THEN net ELSE net \cup Broadcast("advert", own[s])
  /\ UNCHANGED <<session, current, task, own, cmds, met, history, heard, lost>>

\* spawn_lan: the beacon of another machine; it waits for room.
HearBeacon(s) ==
  /\ Lan /\ s \in On /\ heard < MaxPeers /\ Room(s)
  /\ heard' = heard + 1
  /\ cmds' = [cmds EXCEPT ![s] = Append(@, Cmd("peers"))]
  /\ UNCHANGED <<client, task, own, hosts, since, met, net, ticked, history, lost>>

\* External: gossip drops a message; an echo is no loss.
Lose(m) ==
  /\ m \in net
  /\ lost < MaxLost /\ lost' = lost + 1
  /\ net' = net \ {m}
  /\ UNCHANGED <<client, task, own, cmds, hosts, since, met, ticked, history, heard>>

\* A tick passes: the tasks have handled what was there.
Older(a) == IF a < TTL THEN a + 1 ELSE a
Advance ==
  /\ net = {} /\ met = {}
  /\ On \cup {n \in Nodes : session[n] # None} \subseteq ticked
  /\ \A s \in On : cmds[s] = <<>>
  /\ ticked' = {}
  /\ hosts' = [s \in Subs |-> [t \in Tickets |-> Older(hosts[s][t])]]
  /\ since' = [s \in Subs |-> IF since[s] < Every THEN since[s] + 1 ELSE Every]
  /\ over' = [t \in Tickets |-> IF t \in fresh \cup Hosted \/ over[t] = LongOver THEN over[t] ELSE over[t] + 1]
  /\ UNCHANGED <<client, task, own, cmds, met, net, fresh, missed, heard, lost>>

-----------------------------------------------------------------------------
Init ==
  /\ session = [n \in Nodes |-> None]
  /\ current = [n \in Nodes |-> None]
  /\ shown = [n \in Nodes |-> {}]
  /\ task = [s \in Subs |-> "new"]
  /\ own = [s \in Subs |-> None]
  /\ cmds = [s \in Subs |-> <<>>]
  /\ hosts = [s \in Subs |-> [t \in Tickets |-> Absent]]
  /\ since = [s \in Subs |-> Every]
  /\ met = {} /\ net = {} /\ ticked = {}
  /\ fresh = Tickets /\ over = [t \in Tickets |-> 0] /\ missed = {}
  /\ heard = 0 /\ lost = 0

Next ==
  \/ \E n \in Nodes, t \in Tickets : Host(n, t)
  \/ \E n \in Nodes, s \in Subs : SwarmJoin(n, s)
  \/ \E n \in Nodes : \/ Announce(n) \/ Stop(n) \/ SwarmLeave(n)
                      \/ SwarmJoinFails(n) \/ Crash(n)
  \/ \E s \in Subs : \/ HandleCommand(s) \/ GreetNeighbour(s)
                     \/ TickerFires(s) \/ HearBeacon(s)
  \/ \E m \in net : Receive(m) \/ Lose(m)
  \/ Advance

Spec == Init /\ [][Next]_vars

(* The runtime polls the tasks and their timers, gossip delivers what it    *)
(* does not lose, and the announce interval of a hosting node fires.        *)
Fairness ==
  /\ \A s \in Subs : /\ WF_vars(HandleCommand(s)) /\ WF_vars(GreetNeighbour(s))
                     /\ WF_vars(TickerFires(s))
  /\ \A n \in Nodes : WF_vars(Announce(n))
  /\ \A s \in Subs : WF_vars(\E m \in net : m.to = s /\ Receive(m))
  /\ WF_vars(Advance)

LiveSpec == Spec /\ Fairness

-----------------------------------------------------------------------------
(* What the swarm is for.                                                  *)

\* A list does not outlive its hosts: what a task lists is hosted, or stopped
\* within the TTL, whatever gossip did, unless the queue was full when the
\* network thread wanted to withdraw it.
NoDeadPortals ==
  \A s \in On : \A t \in Listed(s) :
    t \in Hosted \/ t \in missed \/ over[t] <= TTL + 1

\* A session that stays is found by every swarm that stays, whatever was lost
\* and although its first advert may have been dropped.
HostsAreFound ==
  \A t \in Tickets, s \in Subs :
    <>[](/\ t \in Hosted /\ current[Home[t]] # None
         /\ s \in On /\ Owner[s] # Home[t])
      => []<>(t \in Listed(s))

=============================================================================
