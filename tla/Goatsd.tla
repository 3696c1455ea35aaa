------------------------------ MODULE Goatsd -------------------------------
(***************************************************************************)
(* The dedicated server, crates/server/src/main.rs: how it comes up piece  *)
(* by piece, the one loop that steps the scene, hands the world to the     *)
(* session, answers what the players report and keeps the portal's advert  *)
(* and the status page current, and how it goes down.                      *)
(*                                                                         *)
(* The world's way to one player, Mirror, is module WorldGather: the loop  *)
(* publishes, and handles nothing else until the last part is out.  The    *)
(* players' handlers run beside the loop (see Session): they change the    *)
(* table at once and say so later, through the queue of events.            *)
(***************************************************************************)
EXTENDS WorldGather

CONSTANTS
  Mirror,      \* the player whose view of the world is followed; it stays
  Guests,      \* the other players
  Evenings,    \* the command lines, and what happens after each at most
  WorldEvery   \* WORLD_EVERY, the frames from one snapshot to the next

ASSUME GoatsdAssumption ==
  /\ Mirror \notin Guests
  /\ IsFiniteSet(Guests)
  /\ Evenings \subseteq
       [join : BOOLEAN, registry : BOOLEAN, one : BOOLEAN,
        guests : SUBSET Guests, reports : Nat, snapshots : Nat]
  /\ WorldEvery \in Nat \ {0}

Players == Guests \cup {Mirror}

VARIABLES
  stage,      \* how far `main` is
  options,    \* the command line: --nojoin, --no-registry, --one-endpoint; and
              \* bounds: the guests that come, the reports, the snapshots
  node,       \* the shared endpoint: "none", "bare", or "store" with a blob store
  shared,     \* the session is hosted on the shared endpoint
  swarm,      \* the discovery swarm was joined
  catalogue,  \* the registry is running
  quiet,      \* some player will never answer a close
  frames,     \* frames since the last snapshot was due
  guests,     \* the guests in the server's table; Mirror is in if `listening`
  saying,     \* what the handler of each player is about to say
  noted,      \* the roster's length as each handler saw it in the table
  events,     \* the queue from the handlers to the loop
  reported,   \* bites and bangs the handlers passed on
  recorded,   \* bites and bangs the scene was told
  advert,     \* the players in the last advert, 0 before the first
  page,       \* Info::clients, which the status page shows
  signalled   \* Ctrl-C or SIGTERM came

bootVars == <<options, node, shared, swarm, catalogue>>
roomVars == <<guests, saying, noted, reported>>
deskVars == <<recorded, advert, page>>
downVars == <<signalled, quiet>>
serverVars == <<stage, bootVars, frames, roomVars, events, deskVars, downVars>>

ServerInit ==
  /\ Init
  /\ stage = "node"
  /\ options \in Evenings
  /\ node = "none"
  /\ shared = FALSE
  /\ swarm = FALSE
  /\ catalogue = FALSE
  /\ quiet = FALSE
  /\ frames = 0
  /\ guests = {}
  /\ saying = [p \in Players |-> "nothing"]
  /\ noted = [p \in Players |-> 0]
  /\ events = << >>
  /\ reported = 0
  /\ recorded = 0
  /\ advert = 0
  /\ page = 0
  /\ signalled = FALSE

-----------------------------------------------------------------------------
(* Coming up.  Only a session that cannot be hosted, a scene that does not *)
(* start and a busy port end the process; the rest is done without.        *)

Boot(now, then) ==
  /\ stage = now
  /\ stage' = then
  /\ UNCHANGED <<vars, options, frames, roomVars, events, deskVars, downVars>>

\* `node_config`: the blobs are the registry's, and a router takes the session's
\* connections only if it was spawned to.
NodeConfig == [blobs |-> options.registry, session |-> options.one]

\* `Node::bind`: the store is opened, under its lock, before the router is built,
\* which cannot gain it later.
Bound(config) == IF config.blobs THEN "store" ELSE "bare"

\* A key that does not parse, a store in use or a port that is taken leave
\* discovery and the registry off.
BindNode ==
  /\ Boot("node", "host")
  /\ node' \in {Bound(NodeConfig), "none"}
  /\ UNCHANGED <<shared, swarm, catalogue>>

\* `Host::start_on` claims the queue of the router's session connections, once.
Claimable == node # "none" /\ NodeConfig.session

\* On the shared endpoint when that was asked for and there is one, else on an
\* endpoint of its own.
StartHost ==
  /\ Boot("host", "scene")
  /\ shared' = Claimable
  /\ UNCHANGED <<node, swarm, catalogue>>

\* `Sim::start`: the scene, the world mods, the herd.
StartScene ==
  /\ Boot("scene", "swarm")
  /\ UNCHANGED <<node, shared, swarm, catalogue>>

\* `start_swarm`: a topic or a peer that does not parse, and a failed join.
SwarmOutcomes == IF options.join /\ node # "none" THEN BOOLEAN ELSE {FALSE}

\* Without a swarm the session is reachable by its ticket only.
JoinSwarm ==
  /\ Boot("swarm", "registry")
  /\ swarm' \in SwarmOutcomes
  /\ UNCHANGED <<node, shared, catalogue>>

\* `start_registry`, if there is a store for it to serve from.
RegistryOutcomes == IF node = "store" THEN BOOLEAN ELSE {FALSE}

StartRegistry ==
  /\ Boot("registry", "pages")
  /\ catalogue' \in RegistryOutcomes
  /\ UNCHANGED <<node, shared, swarm>>

\* The status page and the gateway for browsers are bound before the loop.
BindPages ==
  /\ Boot("pages", "loop")
  /\ UNCHANGED <<node, shared, swarm, catalogue>>

GiveUp ==
  /\ \E now \in {"host", "scene", "pages"} : Boot(now, "failed")
  /\ UNCHANGED <<node, shared, swarm, catalogue>>

-----------------------------------------------------------------------------
(* The players' handlers, from the moment the session is hosted.           *)

Hosting == stage \in {"scene", "swarm", "registry", "pages", "loop"}

\* `Host::clients`: the roster has the host as well.
Clients == 1 + Cardinality(guests) + (IF listening THEN 1 ELSE 0)

Says(p, what) == saying' = [saying EXCEPT ![p] = what]

Room(p, now) ==
  /\ Hosting
  /\ saying[p] = now
  /\ UNCHANGED <<stage, bootVars, frames, deskVars, downVars>>

\* `Server::join`: the handler keeps the roster it saw for the announcement.
Join(p) ==
  /\ Room(p, "nothing")
  /\ p \in options.guests \cup {Mirror}
  /\ IF p = Mirror
     THEN Listen /\ UNCHANGED guests
     ELSE guests' = guests \cup {p} /\ UNCHANGED vars
  /\ noted' = [noted EXCEPT ![p] = Clients + 1]
  /\ Says(p, "joined")
  /\ UNCHANGED <<events, reported>>

\* `Server::leave`: the player is gone, or never took its Welcome.
LeaveTable(p) ==
  /\ p # Mirror
  /\ \E now \in {"joined", "serving"} : Room(p, now)
  /\ guests' = guests \ {p}
  /\ noted' = [noted EXCEPT ![p] = Clients - 1]
  /\ Says(p, "left")
  /\ UNCHANGED <<vars, events, reported>>

\* The handler's roster goes up to the loop, after the table was let go of.
Announce(p) ==
  /\ \/ Room(p, "joined") /\ Says(p, "serving")
     \/ Room(p, "left") /\ Says(p, "gone")
  /\ events' = Append(events, [kind |-> "roster", players |-> noted[p]])
  /\ UNCHANGED <<vars, guests, noted, reported>>

\* A bite, or a bang that went off under the player's goat.
ReportUp(p) ==
  /\ Room(p, "serving")
  /\ reported < options.reports
  /\ reported' = reported + 1
  /\ \E kind \in {"bite", "bang"} :
       events' = Append(events, [kind |-> kind, players |-> 0])
  /\ UNCHANGED <<vars, guests, saying, noted>>

-----------------------------------------------------------------------------
(* The loop.  A handler of its `select!` runs to its end before the next   *)
(* one is chosen, so while a snapshot is being sent nothing else is done.  *)

AtDesk == stage = "loop" /\ SentAll

\* `publish_world`; then the mods' state rides a datagram of its own, which is
\* not followed.
PublishWorld ==
  IF Len(published) < options.snapshots THEN Publish ELSE UNCHANGED vars

\* A frame of the scene, and every WORLD_EVERY frames the world as it is now.
Tick ==
  /\ AtDesk
  /\ frames' = (frames + 1) % WorldEvery
  /\ IF frames' = 0 THEN PublishWorld ELSE UNCHANGED vars
  /\ UNCHANGED <<stage, bootVars, roomVars, events, deskVars, downVars>>

SendPart ==
  /\ stage = "loop"
  /\ Send
  /\ UNCHANGED serverVars

\* Faulty variant: the advert repeats the roster the event carries.
AsListed(event) == IF swarm THEN event.players ELSE advert

\* `advertise`: the players in the table now, whatever roster was announced.
AsCounted(event) == IF swarm THEN Clients ELSE advert

\* The rest of the queue.
Rest == Tail(events)

\* `Sim::consume`: the scene has the meadow.
Bite(event) ==
  /\ event.kind = "bite"
  /\ recorded' = recorded + 1
  /\ UNCHANGED <<advert, page>>

\* `relay_blast`: the scene spends the device; whom it is relayed to is module
\* Meadow's.
Bang(event) ==
  /\ event.kind = "bang"
  /\ recorded' = recorded + 1
  /\ UNCHANGED <<advert, page>>

\* `report` tells the page, which does not count the host, and before it the
\* portal is told.
Roster(event) ==
  /\ event.kind = "roster"
  /\ advert' = AsCounted(event)
  /\ page' = event.players - 1
  /\ UNCHANGED recorded

\* The `next_event` branch.
TakeEvent ==
  /\ AtDesk
  /\ events # << >>
  /\ Bite(events[1]) \/ Bang(events[1]) \/ Roster(events[1])
  /\ events' = Rest
  /\ UNCHANGED <<vars, stage, bootVars, frames, roomVars, downVars>>

\* The advert's own clock, ADVERT_EVERY; its first tick is immediate.
Restate ==
  /\ AtDesk
  /\ swarm
  /\ advert' = Clients
  /\ UNCHANGED <<vars, stage, bootVars, frames, roomVars, events, recorded, page, downVars>>

Signal ==
  /\ stage = "loop"
  /\ ~signalled
  /\ signalled' = TRUE
  /\ UNCHANGED <<vars, stage, bootVars, frames, roomVars, events, deskVars, quiet>>

GoDown(now, then) ==
  /\ stage = now
  /\ stage' = then
  /\ UNCHANGED <<vars, bootVars, frames, roomVars, events, deskVars, signalled>>

\* The loop is left for a signal, or because the scene failed a step.  By then
\* a player may have gone quiet.
LeaveLoop ==
  /\ SentAll
  /\ GoDown("loop", "close")
  /\ quiet' \in IF guests = {} /\ ~listening THEN {FALSE} ELSE BOOLEAN

StopLoop == signalled /\ LeaveLoop
FailStep == LeaveLoop

-----------------------------------------------------------------------------
(* Going down.  The swarm is told first (see Swarm), then the session is   *)
(* closed, then the catalogue, then the shared endpoint.                   *)

\* Faulty variant: the session is waited for, however long that takes.
GivesUpWaiting == FALSE

\* Two seconds are what a quiet player can hold the process up for.
TimesOut == TRUE

\* `host.close`.  A borrowed endpoint is not the host's to close.
CloseHost ==
  /\ shared \/ ~quiet \/ TimesOut
  /\ GoDown("close", "unlist")
  /\ UNCHANGED quiet

StopRegistry == GoDown("unlist", "unbind") /\ UNCHANGED quiet

\* `node.shutdown` waits for the endpoint, and with it for a session on it.
CloseNode ==
  /\ shared => ~quiet
  /\ GoDown("unbind", "ended")
  /\ UNCHANGED quiet

-----------------------------------------------------------------------------

OnTheWay ==
  /\ \E p \in flight : Drop(p) \/ Receive(p)
  /\ UNCHANGED serverVars

ServerNext ==
  \/ BindNode \/ StartHost \/ StartScene \/ JoinSwarm \/ StartRegistry \/ BindPages
  \/ GiveUp
  \/ \E p \in Players : Join(p) \/ LeaveTable(p) \/ Announce(p) \/ ReportUp(p)
  \/ Tick \/ SendPart \/ TakeEvent \/ Restate
  \/ Signal \/ StopLoop \/ FailStep
  \/ CloseHost \/ StopRegistry \/ CloseNode
  \/ OnTheWay

\* The runtime runs whatever task can run, so a snapshot that was begun is sent
\* and a shutdown goes on.  `select!` picks among the ready branches at random:
\* one that is ready again and again, though not while a part is being sent, is
\* picked in the end.
ServerFairness ==
  /\ WF_<<stage, next>>(SendPart)
  /\ SF_<<stage, events>>(TakeEvent)
  /\ SF_stage(StopLoop)
  /\ WF_stage(CloseHost)
  /\ WF_stage(StopRegistry)
  /\ WF_stage(CloseNode)

allVars == <<vars, serverVars>>
ServerSpec == ServerInit /\ [][ServerNext]_allVars /\ ServerFairness

-----------------------------------------------------------------------------
(* Properties.                                                             *)

\* Nobody is between the table and the queue, and the queue is empty.
AtRest ==
  /\ AtDesk
  /\ events = << >>
  /\ \A p \in Players : saying[p] \notin {"joined", "left"}

\* A portal says how many players are in the session behind it: once the last
\* coming or going was handled the advert counts the table, in whatever order
\* the handlers of several players got to announce theirs (`advertise`).
PortalCountsThePlayers == AtRest /\ advert # 0 => advert = Clients

\* A bite or a bang that reached the server is told to the scene, unless the
\* server is going down: a long snapshot or a flood of rosters delays it and
\* does not lose it (the loop's `next_event` branch).
ReportsAreRecorded ==
  \A n \in UNION {1 .. evening.reports : evening \in Evenings} :
    reported >= n /\ stage = "loop" ~> recorded >= n \/ stage = "close"

\* "Never let a peer that has gone quiet hold the process open": a server that
\* was told to stop does, with the session on an endpoint of its own.
ServerStops == signalled /\ ~shared ~> stage = "ended"

\* The one loop of the server is starved by nothing that comes into it: it takes
\* what the session reports, and it ends when it is told to (`main`).
ServerGoesOn == ReportsAreRecorded /\ ServerStops

=============================================================================
