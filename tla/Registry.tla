------------------------------ MODULE Registry ------------------------------
(***************************************************************************)
(* The catalogue of mods (src/crates/session/src/registry.rs).  Every node *)
(* keeps a catalogue, records by root and the providers that restated each *)
(* root, behind a mutex, and runs one task that owns what the node itself  *)
(* restates.  The handle (share, withdraw, mirror) changes the catalogue   *)
(* at once and tells the task through a bounded queue of commands.         *)
(*                                                                         *)
(* Time is relative: an entry carries its age in ticks of the task's       *)
(* timer, and an entry that is not there has the age Absent.  Gossip loses *)
(* and reorders, and delivers within MaxDelay ticks what it delivers.      *)
(* There are fewer packages and nodes than MAX_REGISTRY_RECORDS and        *)
(* MAX_PROVIDERS, so nothing is crowded out.                               *)
(***************************************************************************)
EXTENDS Integers, Sequences, FiniteSets

CONSTANTS
  Nodes,        \* the nodes subscribed to the topic
  Roots,        \* the packages
  Author,       \* [Roots -> Nodes], part of a package's record
  Size,         \* [Roots -> Nat], bytes
  Budget,       \* the mirror's ceiling; 0 is none
  Every, TTL,   \* RECORD_EVERY and RECORD_TTL in ticks
  Backlog,      \* COMMAND_BACKLOG
  MaxDelay,     \* bound: ticks a gossip message may be under way
  MaxOps,       \* bound: calls of the handle, leaves and crashes
  MaxLost,      \* bound: messages gossip loses
  Forwards      \* does gossip deliver through other neighbours?

ASSUME AuthorAssumption == Author \in [Roots -> Nodes]
ASSUME SizeAssumption == Size \in [Roots -> Nat] /\ Budget \in Nat
ASSUME TimeAssumption ==
  /\ Every \in Nat \ {0} /\ TTL \in Nat \ {0} /\ MaxDelay \in Nat
  /\ Backlog \in Nat \ {0} /\ MaxOps \in Nat /\ MaxLost \in Nat
  /\ Forwards \in BOOLEAN

VARIABLES
  up,        \* [Nodes -> BOOLEAN]: the task runs
  cmds,      \* [Nodes -> Seq(Command)]: the queue to the task
  sending,   \* [Nodes -> Seq(Roots)]: Publish commands awaiting room in it
  own,       \* [Nodes -> SUBSET Roots]: records the task restates
  haves,     \* [Nodes -> SUBSET Roots]: haves the task restates
  recs,      \* [Nodes -> [Roots -> Age]]: Catalogue.records
  prov,      \* [Nodes -> [Roots -> [Nodes -> Age]]]: Catalogue.haves
  since,     \* [Nodes -> 0..Every]: ticks since the last restatement
  store,     \* [Nodes -> SUBSET Roots]: packages whose bytes are here
  pins,      \* [Nodes -> Seq(Roots)]: mirror pins, oldest first
  fetching,  \* [Nodes -> Roots or NoRoot]: the package mirror is downloading
  met,       \* nodes with a NeighborUp to handle
  net,       \* gossip messages under way
  ticked,    \* nodes whose timer has fired since time last advanced
  vouched,   \* history: [Nodes -> [Roots -> ticks since it last vouched]]
  ops, lost  \* counters for the bounds

task == <<own, haves, since>>
catalogue == <<recs, prov>>
mirror == <<store, pins, fetching>>
vars == <<up, cmds, sending, task, catalogue, mirror, met, net, ticked,
          vouched, ops, lost>>

NoRoot == "none"
Absent == TTL + 1
Age == 0..Absent
Stale == TTL + MaxDelay + 2                          \* cap of vouched

Command == [do : {"publish", "have", "withdraw"}, root : Roots]
Message == [kind : {"record", "have", "gone"}, root : Roots, from : Nodes,
            to : Nodes, age : 0..MaxDelay]

Listed(n, r) == recs[n][r] # Absent
Providers(n, r) == {p \in Nodes : prov[n][r][p] # Absent}
SizeOf(roots) ==
  LET sum[S \in SUBSET Roots] ==
        IF S = {} THEN 0
        ELSE LET r == CHOOSE r \in S : TRUE IN Size[r] + sum[S \ {r}]
  IN  sum[roots]
PinnedBy(seq) == {seq[i] : i \in DOMAIN seq}

TypeOK ==
  /\ up \in [Nodes -> BOOLEAN]
  /\ cmds \in [Nodes -> Seq(Command)] /\ sending \in [Nodes -> Seq(Roots)]
  /\ pins \in [Nodes -> Seq(Roots)] /\ fetching \in [Nodes -> Roots \cup {NoRoot}]
  /\ \A n \in Nodes : /\ Len(cmds[n]) <= Backlog
                      /\ sending[n] # <<>> => Len(cmds[n]) = Backlog
                      /\ PinnedBy(pins[n]) \subseteq store[n]
  /\ own \in [Nodes -> SUBSET Roots]
  /\ haves \in [Nodes -> SUBSET Roots]
  /\ recs \in [Nodes -> [Roots -> Age]]
  /\ prov \in [Nodes -> [Roots -> [Nodes -> Age]]]
  /\ since \in [Nodes -> 0..Every]
  /\ store \in [Nodes -> SUBSET Roots]
  /\ met \subseteq Nodes /\ ticked \subseteq Nodes
  /\ net \subseteq Message
  /\ vouched \in [Nodes -> [Roots -> 0..Stale]]
  /\ ops \in 0..MaxOps /\ lost \in 0..MaxLost

-----------------------------------------------------------------------------
(* Gossip: what n broadcasts is under way to every other running node.     *)

Broadcast(n, kinds, roots) ==
  {[kind |-> k, root |-> r, from |-> n, to |-> m, age |-> 0]
     : k \in kinds, r \in roots, m \in {m \in Nodes \ {n} : up[m]}}

\* message.delivered_from: the neighbour that handed the message over, which
\* is its sender unless gossip forwarded it.
DeliveredFrom(m) ==
  {m.from} \cup (IF Forwards THEN {n \in Nodes : up[n] /\ n # m.to} ELSE {})

\* Faulty variants of Restated, with which the properties below must fail.
RestateListed(n) ==
  Broadcast(n, {"record"}, {r \in Roots : Listed(n, r)}) \cup Broadcast(n, {"have"}, haves[n])

\* The restatement of a task: its records, and its haves.
Restated(n) == Broadcast(n, {"record"}, own[n]) \cup Broadcast(n, {"have"}, haves[n])

\* An entry of age a, a tick later.
Older(a) == IF a < TTL THEN a + 1 ELSE a

Vouch(n, roots) ==
  [vouched EXCEPT ![n] = [r \in Roots |-> IF r \in roots THEN 0 ELSE @[r]]]

-----------------------------------------------------------------------------
(* The catalogue.                                                          *)

Insert(n, r) == [recs EXCEPT ![n][r] = 0]
Have(n, r, p) == [prov EXCEPT ![n][r][p] = 0]

\* Catalogue::withdraw: the author takes the record down, anybody its own have.
WithdrawFrom(n, r, sender) ==
  /\ recs' = IF Author[r] = sender THEN [recs EXCEPT ![n][r] = Absent] ELSE recs
  /\ prov' = [prov EXCEPT ![n][r][sender] = Absent]

\* A faulty Kept.
KeptForever(a) == a

\* Catalogue::prune.
Kept(a) == IF a < TTL THEN a ELSE Absent

-----------------------------------------------------------------------------
(* The handle.                                                             *)

\* A command is queued, if there is room, or dropped: mpsc::Sender::try_send.
\* A send waits only for a full queue, and takes the place that becomes free.
Room(n) == Len(cmds[n]) < Backlog
TrySend(queue, room, c) == IF room THEN Append(queue, c) ELSE queue

Cmd(do, r) == [do |-> do, root |-> r]
Op == ops < MaxOps /\ ops' = ops + 1

\* import_tree: the tree becomes blobs of this node's store.
Imported(n, r) == store' = [store EXCEPT ![n] = @ \cup {r}]

\* share: import the tree, list the record and this node as a provider, and
\* wait for room to tell the task.
Share(n, r) ==
  /\ Op /\ up[n] /\ Author[r] = n
  /\ Imported(n, r)
  /\ recs' = Insert(n, r)
  /\ prov' = Have(n, r, n)
  /\ vouched' = Vouch(n, {r})
  /\ IF Room(n)
       THEN /\ cmds' = [cmds EXCEPT ![n] = Append(@, Cmd("publish", r))]
            /\ UNCHANGED sending
       ELSE /\ sending' = [sending EXCEPT ![n] = Append(@, r)]
            /\ UNCHANGED cmds
  /\ UNCHANGED <<up, task, pins, fetching, met, net, ticked, lost>>

\* The pins without the one of r, if it has one: mirror.pins.remove.
Unpinned(seq, r) ==
  IF \E i \in DOMAIN seq : seq[i] = r
    THEN LET i == CHOOSE i \in DOMAIN seq : seq[i] = r
         IN  SubSeq(seq, 1, i - 1) \o SubSeq(seq, i + 1, Len(seq))
    ELSE seq

\* withdraw: out of the catalogue and the pins at once; the task is told if
\* the queue has room.
Withdraw(n, r) ==
  /\ Op /\ up[n] /\ r \in store[n]
  /\ WithdrawFrom(n, r, n)
  /\ pins' = [pins EXCEPT ![n] = Unpinned(@, r)]
  /\ cmds' = [cmds EXCEPT ![n] = TrySend(@, Room(n), Cmd("withdraw", r))]
  /\ UNCHANGED <<up, sending, task, store, fetching, met, net, ticked, vouched, lost>>

\* mirror, first half: a record found in the catalogue, not over the budget.
\* Without the bytes, somebody must be listed to download them from.
MirrorStart(n, r) ==
  /\ Op /\ up[n] /\ fetching[n] = NoRoot
  /\ Listed(n, r)
  /\ Budget > 0 => Size[r] <= Budget
  /\ r \in store[n] \/ Providers(n, r) # {}
  /\ fetching' = [fetching EXCEPT ![n] = r]
  /\ UNCHANGED <<up, cmds, sending, task, catalogue, store, pins, met, net, ticked, vouched, lost>>

\* The pins that stay when r is pinned anew: the oldest others are dropped
\* until the rest fits, or there are no others.
Evict(seq, r) ==
  LET others == Unpinned(seq, r)
      fits(k) == \/ Budget = 0 \/ k = Len(others) + 1
                 \/ SizeOf(PinnedBy(SubSeq(others, k, Len(others))) \cup {r}) <= Budget
      k == CHOOSE k \in 1..Len(others) + 1 : fits(k) /\ \A j \in 1..k - 1 : ~fits(j)
  IN  Append(SubSeq(others, k, Len(others)), r)

\* serve and relay, as far as the queue is concerned: the one drops its
\* command when the queue is full, the other waits.
Served(n, r) == TrySend(cmds[n], Room(n), Cmd("have", r))
Relayed(n, queue, r) ==
  LET room == Len(queue) < Backlog
  IN  /\ cmds' = [cmds EXCEPT ![n] = TrySend(queue, room, Cmd("publish", r))]
      /\ sending' = [sending EXCEPT ![n] = IF room THEN @ ELSE Append(@, r)]

\* download: some provider that is up has the bytes.
Downloads(n, r) == r \in store[n] \/ \E p \in Nodes : up[p] /\ r \in store[p]

\* mirror, second half: the download succeeded from a provider that has the
\* bytes; pin, evict, serve (try_send) and relay (which waits for room).
MirrorEnd(n) ==
  LET r == fetching[n]
  IN  /\ r # NoRoot /\ up[n] /\ Downloads(n, r)
      /\ store' = [store EXCEPT ![n] = @ \cup {r}]
      /\ pins' = [pins EXCEPT ![n] = Evict(@, r)]
      /\ fetching' = [fetching EXCEPT ![n] = NoRoot]
      /\ recs' = Insert(n, r)
      /\ prov' = Have(n, r, n)
      /\ vouched' = Vouch(n, {r})
      /\ Relayed(n, Served(n, r), r)
      /\ UNCHANGED <<up, task, met, net, ticked, ops, lost>>

\* mirror gives up: no provider answered.
MirrorFails(n) ==
  /\ fetching[n] # NoRoot /\ up[n] /\ fetching[n] \notin store[n]
  /\ fetching' = [fetching EXCEPT ![n] = NoRoot]
  /\ UNCHANGED <<up, cmds, sending, task, catalogue, store, pins, met, net, ticked, vouched, ops, lost>>

-----------------------------------------------------------------------------
(* The task.                                                               *)

\* A waiting send takes the place the task just made.
Received(n) ==
  LET rest == Tail(cmds[n]) IN
  /\ cmds' = [cmds EXCEPT ![n] =
       IF sending[n] = <<>> THEN rest ELSE Append(rest, Cmd("publish", Head(sending[n])))]
  /\ sending' = [sending EXCEPT ![n] = IF @ = <<>> THEN @ ELSE Tail(@)]

\* A faulty Publish, which relies on the Have that may have been dropped.
PublishRecordOnly(n, r) ==
  /\ own' = [own EXCEPT ![n] = @ \cup {r}]
  /\ prov' = Have(n, r, n)
  /\ net' = net \cup Broadcast(n, {"record", "have"}, {r})
  /\ since' = [since EXCEPT ![n] = 0]
  /\ vouched' = Vouch(n, {r})
  /\ UNCHANGED <<recs, haves>>

\* Command::Publish: restate it from now on, and at once.
Publish(n, r) ==
  /\ own' = [own EXCEPT ![n] = @ \cup {r}]
  /\ haves' = [haves EXCEPT ![n] = @ \cup {r}]
  /\ prov' = Have(n, r, n)
  /\ net' = net \cup Broadcast(n, {"record", "have"}, {r})
  /\ since' = [since EXCEPT ![n] = 0]
  /\ vouched' = Vouch(n, {r})
  /\ UNCHANGED recs

\* Command::Have.
Serve(n, r) ==
  /\ haves' = [haves EXCEPT ![n] = @ \cup {r}]
  /\ prov' = Have(n, r, n)
  /\ net' = net \cup Broadcast(n, {"have"}, {r})
  /\ since' = [since EXCEPT ![n] = 0]
  /\ vouched' = Vouch(n, {r})
  /\ UNCHANGED <<own, recs>>

\* Command::Withdraw: the catalogue was changed by the caller.
Unserve(n, r) ==
  /\ own' = [own EXCEPT ![n] = @ \ {r}]
  /\ haves' = [haves EXCEPT ![n] = @ \ {r}]
  /\ net' = net \cup Broadcast(n, {"gone"}, {r})
  /\ UNCHANGED <<catalogue, since, vouched>>

HandleCommand(n) ==
  /\ up[n] /\ cmds[n] # <<>>
  /\ Received(n)
  /\ LET c == Head(cmds[n]) IN
       CASE c.do = "publish" -> Publish(n, c.root)
         [] c.do = "have" -> Serve(n, c.root)
         [] c.do = "withdraw" -> Unserve(n, c.root)
  /\ UNCHANGED <<up, mirror, met, ticked, ops, lost>>

\* GossipEvent::Received.
Receive(m) ==
  /\ m \in net /\ up[m.to]
  /\ net' = net \ {m}
  /\ \E via \in DeliveredFrom(m) :
       CASE m.kind = "record" -> recs' = Insert(m.to, m.root) /\ UNCHANGED prov
         [] m.kind = "have" -> prov' = Have(m.to, m.root, via) /\ UNCHANGED recs
         [] m.kind = "gone" -> WithdrawFrom(m.to, m.root, via)
  /\ UNCHANGED <<up, cmds, sending, task, mirror, met, ticked, vouched, ops, lost>>

\* GossipEvent::NeighborUp: it missed every earlier restatement.
GreetNeighbour(n) ==
  /\ n \in met /\ up[n]
  /\ met' = met \ {n}
  /\ net' = net \cup Restated(n)
  /\ since' = [since EXCEPT ![n] = 0]
  /\ vouched' = Vouch(n, own[n] \cup haves[n])
  /\ UNCHANGED <<up, cmds, sending, own, haves, catalogue, mirror, ticked, ops, lost>>

\* The timer: refresh what is this node's own, prune, restate when it is time.
TickerFires(n) ==
  /\ up[n] /\ n \notin ticked
  /\ ticked' = ticked \cup {n}
  /\ recs' = [recs EXCEPT ![n] = [r \in Roots |-> IF r \in own[n] THEN 0 ELSE Kept(@[r])]]
  /\ prov' = [prov EXCEPT ![n] = [r \in Roots |-> [p \in Nodes |->
                IF p = n /\ r \in haves[n] THEN 0 ELSE Kept(@[r][p])]]]
  /\ vouched' = Vouch(n, own[n] \cup haves[n])
  /\ IF since[n] >= Every
       THEN net' = net \cup Restated(n) /\ since' = [since EXCEPT ![n] = 0]
       ELSE UNCHANGED <<net, since>>
  /\ UNCHANGED <<up, cmds, sending, own, haves, mirror, met, ops, lost>>

-----------------------------------------------------------------------------
(* Leaving, crashing and joining.  A node's catalogue lives in its memory. *)

Forgets(n) ==
  /\ up' = [up EXCEPT ![n] = FALSE]
  /\ cmds' = [cmds EXCEPT ![n] = <<>>]
  /\ sending' = [sending EXCEPT ![n] = <<>>]
  /\ own' = [own EXCEPT ![n] = {}]
  /\ haves' = [haves EXCEPT ![n] = {}]
  /\ since' = [since EXCEPT ![n] = Every]
  /\ recs' = [recs EXCEPT ![n] = [r \in Roots |-> Absent]]
  /\ prov' = [prov EXCEPT ![n] = [r \in Roots |-> [p \in Nodes |-> Absent]]]
  /\ pins' = [pins EXCEPT ![n] = <<>>]
  /\ fetching' = [fetching EXCEPT ![n] = NoRoot]
  /\ met' = met \ {n}
  /\ UNCHANGED <<store, ticked, vouched, lost>>

Deaf(n) == {m \in net : m.to # n}

\* The end of run: Gone for its records, not for what it only has.
Farewell(n) == Broadcast(n, {"gone"}, own[n])

\* shutdown: the Leave command is behind every other.
Leave(n) ==
  /\ Op /\ up[n] /\ cmds[n] = <<>> /\ sending[n] = <<>> /\ fetching[n] = NoRoot
  /\ Forgets(n)
  /\ net' = Deaf(n) \cup Farewell(n)

Crash(n) == Op /\ up[n] /\ Forgets(n) /\ net' = Deaf(n)

\* start_on: an empty catalogue, and a NeighborUp for everybody there.
Join(n) ==
  /\ ~up[n]
  /\ up' = [up EXCEPT ![n] = TRUE]
  /\ met' = {m \in Nodes : m = n \/ up[m]}
  /\ UNCHANGED <<cmds, sending, task, catalogue, mirror, net, ticked, vouched, ops, lost>>

\* External: gossip drops a message.
Lose(m) ==
  /\ lost < MaxLost /\ lost' = lost + 1
  /\ m \in net /\ net' = net \ {m}
  /\ UNCHANGED <<up, cmds, sending, task, catalogue, mirror, met, ticked, vouched, ops>>

\* A tick's worth of time passes: every running task's timer has fired, and
\* no message has been under way for longer than MaxDelay.
Advance ==
  /\ \A n \in Nodes : up[n] => n \in ticked
  /\ \A m \in net : m.age < MaxDelay
  /\ ticked' = {}
  /\ recs' = [n \in Nodes |-> [r \in Roots |-> Older(recs[n][r])]]
  /\ prov' = [n \in Nodes |-> [r \in Roots |-> [p \in Nodes |-> Older(prov[n][r][p])]]]
  /\ since' = [n \in Nodes |-> IF since[n] < Every THEN since[n] + 1 ELSE Every]
  /\ net' = {[m EXCEPT !.age = @ + 1] : m \in net}
  /\ vouched' = [n \in Nodes |-> [r \in Roots |->
                   IF vouched[n][r] < Stale THEN vouched[n][r] + 1 ELSE Stale]]
  /\ UNCHANGED <<up, cmds, sending, own, haves, mirror, met, ops, lost>>

-----------------------------------------------------------------------------
Init ==
  /\ up = [n \in Nodes |-> TRUE]
  /\ cmds = [n \in Nodes |-> <<>>]
  /\ sending = [n \in Nodes |-> <<>>]
  /\ own = [n \in Nodes |-> {}] /\ haves = [n \in Nodes |-> {}]
  /\ recs = [n \in Nodes |-> [r \in Roots |-> Absent]]
  /\ prov = [n \in Nodes |-> [r \in Roots |-> [p \in Nodes |-> Absent]]]
  /\ since = [n \in Nodes |-> Every]
  /\ store = [n \in Nodes |-> {}]
  /\ pins = [n \in Nodes |-> <<>>]
  /\ fetching = [n \in Nodes |-> NoRoot]
  /\ met = {} /\ net = {} /\ ticked = {}
  /\ vouched = [n \in Nodes |-> [r \in Roots |-> Stale]]
  /\ ops = 0 /\ lost = 0

Next ==
  \/ \E n \in Nodes, r \in Roots : Share(n, r) \/ Withdraw(n, r) \/ MirrorStart(n, r)
  \/ \E n \in Nodes : \/ MirrorEnd(n) \/ MirrorFails(n) \/ HandleCommand(n)
                      \/ GreetNeighbour(n) \/ TickerFires(n)
                      \/ Leave(n) \/ Crash(n) \/ Join(n)
  \/ \E m \in net : Receive(m) \/ Lose(m)
  \/ Advance

Spec == Init /\ [][Next]_vars

(* The tasks and their timers run, time passes, and gossip delivers what it *)
(* does not lose.  Nothing obliges anybody to share, mirror, leave or fail. *)
Fairness ==
  /\ \A n \in Nodes : /\ WF_vars(HandleCommand(n)) /\ WF_vars(GreetNeighbour(n))
                      /\ WF_vars(TickerFires(n))
  /\ \A n \in Nodes : WF_vars(\E m \in net : m.to = n /\ Receive(m))
  /\ WF_vars(Advance)

LiveSpec == Spec /\ Fairness

-----------------------------------------------------------------------------
(* What the catalogue is for.                                              *)

\* Nothing outlives its provider: what any catalogue lists was vouched for,
\* the have by the provider itself, no longer ago than the entry is old and
\* gossip may have taken.  Forwarding breaks this for haves, which are
\* credited to delivered_from.
EntriesAreVouched ==
  \A n \in Nodes, r \in Roots :
    /\ Listed(n, r) => \E p \in Nodes : vouched[p][r] <= recs[n][r] + MaxDelay
    /\ \A p \in Providers(n, r) : vouched[p][r] <= prov[n][r][p] + MaxDelay

\* What has a pin is restated, or will be: a Publish or Have for it is queued
\* behind every Withdraw of it, although mirror's Have may have been dropped.
Promised(n, r) ==
  \/ \E i \in DOMAIN sending[n] : sending[n][i] = r
  \/ \E i \in DOMAIN cmds[n] :
       /\ cmds[n][i].root = r /\ cmds[n][i].do # "withdraw"
       /\ \A j \in i + 1..Len(cmds[n]) : cmds[n][j] # Cmd("withdraw", r)
  \/ /\ r \in haves[n]
     /\ \A i \in DOMAIN cmds[n] : cmds[n][i] # Cmd("withdraw", r)
PinnedIsServed == \A n \in Nodes : \A r \in PinnedBy(pins[n]) : Promised(n, r)

\* A record nobody restates any more is forgotten by every catalogue.
UnstatedIsForgotten ==
  \A r \in Roots :
    <>[](\A n \in Nodes : r \notin own[n]) => <>[](\A n \in Nodes : ~Listed(n, r))

=============================================================================
