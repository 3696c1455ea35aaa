---------------------------- MODULE WorldGather ----------------------------
(***************************************************************************)
(* The host's world on its way to one client: `Host::publish_world` and    *)
(* `WorldGather` of crates/session/src/lib.rs, `split_world` and           *)
(* `join_world` of crates/proto/src/lib.rs.                                *)
(*                                                                         *)
(* A snapshot goes out as parts, one datagram each.  Datagrams get lost    *)
(* and overtake each other; QUIC does not duplicate them.  Every client    *)
(* gathers for itself, so one stands for all.                              *)
(*                                                                         *)
(* The n-th snapshot carries the data n: the head rides part 0, and part j *)
(* carries the bots from cut[j] to cut[j + 1] - 1.  Where the packing cuts *)
(* the herd depends on encoded sizes and is left open, up to the rule that *)
(* a part carries at least one bot of a herd that has any.                 *)
(***************************************************************************)
EXTENDS Naturals, Sequences, FiniteSets

CONSTANTS
  MaxPublished,  \* bound: how many snapshots the host publishes
  MaxParts,      \* MAX_WORLD_PARTS
  MaxHerd,       \* MAX_HERD
  SeqSpan,       \* 2^32, the values of the u32 a snapshot is stamped with
  None           \* no snapshot is being gathered; no part fills the slot

\* The shape of a part, see Part.
AnyPart ==
  [of : Nat, seq : Nat, part : Nat, parts : Nat, herd : Nat, bots : SUBSET Nat]

ASSUME GatherAssumption ==
  /\ MaxPublished \in Nat
  /\ MaxParts \in Nat \ {0}
  /\ MaxHerd \in Nat
  /\ SeqSpan \in Nat /\ SeqSpan >= MaxPublished
  /\ None \notin Nat
  /\ None \notin AnyPart

VARIABLES
  published,  \* the snapshots, each with its herd and where it was cut
  next,       \* the next part of the last one that is to be sent
  listening,  \* the client's connection is in the server's table
  flight,     \* parts on their way to the client
  seq,        \* WorldGather::seq
  slots,      \* WorldGather::parts
  heard,      \* history: the parts the client read
  worlds      \* history: the worlds handed to the scene, as Event::World

gatherVars == <<seq, slots>>
vars == <<published, next, listening, flight, gatherVars, heard, worlds>>

-----------------------------------------------------------------------------
(* Splitting and joining. *)

Cuts(count, herd) ==
  {cut \in [0 .. count -> 0 .. herd] :
     /\ cut[0] = 0
     /\ cut[count] = herd
     /\ \A j \in 0 .. count - 1 : cut[j] < cut[j + 1] \/ count = 1}

Snapshot ==
  UNION {[count : {count}, herd : 0 .. MaxHerd, cut : [0 .. count -> 0 .. MaxHerd]] :
           count \in 1 .. MaxParts}

\* Faulty variant: the counter is never advanced.
StampForgotten(n) == 0

\* `world_seq` before it was advanced for the n-th snapshot.
Stamp(n) == (n - 1) % SeqSpan

\* Part j of the n-th snapshot: `of` stands for the data.
Part(n, j) ==
  LET s == published[n]
  IN  [of |-> n, seq |-> Stamp(n), part |-> j, parts |-> s.count,
       herd |-> s.herd, bots |-> s.cut[j] .. s.cut[j + 1] - 1]

PartsOf(n) == {Part(n, j) : j \in 0 .. published[n].count - 1}

\* The n-th snapshot as the scene of the host saw it.
World(n) == [head |-> n, bots |-> {n} \X (0 .. published[n].herd - 1)]

\* The parts are one snapshot: as many as they say, each once, of one stamp and
\* one herd, the herd complete.
Joinable(parts, first) ==
  /\ first.part = 0
  /\ \E count \in {p.parts : p \in parts} :
       /\ \A p \in parts : p.parts <= count /\ p.part < count
       /\ Cardinality(parts) = count
  /\ \A p \in parts : p.seq = first.seq /\ p.herd = first.herd
  /\ \A p, q \in parts : p # q => p.part # q.part /\ p.bots \cap q.bots = {}
  /\ UNION {p.bots : p \in parts} = 0 .. first.herd - 1

\* `join_world`: the head of part 0 and everybody's bots, or nothing.
JoinWorld(parts) ==
  {[head |-> first.of,
    bots |-> UNION {{p.of} \X p.bots : p \in parts}] :
     first \in {p \in parts : Joinable(parts, p)}}

-----------------------------------------------------------------------------

Init ==
  /\ published = << >>
  /\ next = 0
  /\ listening = FALSE
  /\ flight = {}
  /\ seq = None
  /\ slots = << >>
  /\ heard = {}
  /\ worlds = << >>

\* How many parts the last snapshot has.
ToSend == IF published = << >> THEN 0 ELSE published[Len(published)].count

SentAll == next = ToSend

\* The herd is fitted and split, and the snapshot gets the next stamp.  The
\* caller waits for `publish_world`, so the one before has been sent.
Publish ==
  /\ Len(published) < MaxPublished
  /\ SentAll
  /\ \E count \in 1 .. MaxParts, herd \in 0 .. MaxHerd :
       \E cut \in Cuts(count, herd) :
         published' =
           Append(published, [count |-> count, herd |-> herd, cut |-> cut])
  /\ next' = 0
  /\ UNCHANGED <<listening, flight, gatherVars, heard, worlds>>

\* `broadcast` of one part, to whoever is in the server's table by now.
Send ==
  /\ ~SentAll
  /\ flight' = IF listening THEN flight \cup {Part(Len(published), next)} ELSE flight
  /\ next' = next + 1
  /\ UNCHANGED <<published, listening, gatherVars, heard, worlds>>

\* The client is admitted, maybe in the middle of a snapshot.
Listen ==
  /\ ~listening
  /\ listening' = TRUE
  /\ UNCHANGED <<published, next, flight, gatherVars, heard, worlds>>

Drop(p) ==
  /\ flight' = flight \ {p}
  /\ UNCHANGED <<published, next, listening, gatherVars, heard, worlds>>

-----------------------------------------------------------------------------
(* `WorldGather::feed`. *)

\* The part belongs to a snapshot that was passed.
Stale(p) == seq # None /\ p.seq < seq

\* Faulty variant: a newer snapshot goes into the slots of the one before.
KeptSlots(p) ==
  IF seq # None /\ DOMAIN slots = 0 .. p.parts - 1
  THEN slots
  ELSE [k \in 0 .. p.parts - 1 |-> None]

\* Slots already filled for the snapshot of p, or new ones.
SlotsFor(p) ==
  IF seq = p.seq /\ DOMAIN slots = 0 .. p.parts - 1
  THEN slots
  ELSE [k \in 0 .. p.parts - 1 |-> None]

\* The slot of p is filled, if it was not.
Filled(p) == [SlotsFor(p) EXCEPT ![p.part] = IF @ = None THEN p ELSE @]

IsComplete(filled) == \A k \in DOMAIN filled : filled[k] # None

\* The snapshot is handed over when no part is missing, and its slots are
\* given up; then nothing is gathered until the next part.
Feed(p) ==
  LET filled == Filled(p)
      parts == {filled[k] : k \in DOMAIN filled} \ {None}
  IN  \/ /\ ~IsComplete(filled)
         /\ seq' = p.seq
         /\ slots' = filled
         /\ UNCHANGED worlds
      \/ /\ IsComplete(filled)
         /\ seq' = None
         /\ slots' = << >>
         /\ \/ \E world \in JoinWorld(parts) : worlds' = Append(worlds, world)
            \/ JoinWorld(parts) = {} /\ UNCHANGED worlds

\* The client reads a datagram.
Receive(p) ==
  /\ flight' = flight \ {p}
  /\ heard' = heard \cup {p}
  /\ \/ Stale(p) /\ UNCHANGED <<gatherVars, worlds>>
     \/ ~Stale(p) /\ Feed(p)
  /\ UNCHANGED <<published, next, listening>>

-----------------------------------------------------------------------------

Next ==
  \/ Publish
  \/ Send
  \/ Listen
  \/ \E p \in flight : Drop(p) \/ Receive(p)

Spec == Init /\ [][Next]_vars

-----------------------------------------------------------------------------
(* Properties. *)

Snaps == 1 .. Len(published)
SomePart == UNION {PartsOf(n) : n \in Snaps}

\* Every variable has the type its counterpart has in the code.
TypeOK ==
  /\ published \in Seq(Snapshot)
  /\ next \in 0 .. ToSend
  /\ listening \in BOOLEAN
  /\ flight \subseteq SomePart
  /\ heard \subseteq SomePart
  /\ seq \in 0 .. SeqSpan - 1 \cup {None}
  /\ \E k \in 0 .. MaxParts : DOMAIN slots = 0 .. k - 1
  /\ \A k \in DOMAIN slots : slots[k] \in SomePart \cup {None}

\* The slots hold parts of the snapshot being gathered alone, each in its own
\* place, one at least is in and one is missing: whatever came before the
\* snapshot was abandoned whole (`WorldGather::feed`).
GatherIsOfOneSnapshot ==
  IF seq = None
  THEN slots = << >>
  ELSE \E n \in Snaps :
         /\ seq = Stamp(n)
         /\ DOMAIN slots = 0 .. published[n].count - 1
         /\ \A k \in DOMAIN slots : slots[k] \in {None, Part(n, k)}
         /\ {None} # {slots[k] : k \in DOMAIN slots}
         /\ ~IsComplete(slots)

IsShown(n) == \E i \in 1 .. Len(worlds) : worlds[i] = World(n)

Newest(n) == \A p \in heard : p.of <= n

\* Of all snapshots the client heard of, the newest is in its scene as soon as
\* every part has arrived and not before, whatever else was lost or late: an
\* older part never keeps it out (`WorldGather::feed`).
NewestIsShown ==
  \A n \in {p.of : p \in heard} :
    Newest(n) => (PartsOf(n) \subseteq heard <=> IsShown(n))

Promise == INSTANCE Snapshots
  WITH Worlds <- [head : Nat, bots : SUBSET (Nat \X Nat)],
       published <- [n \in Snaps |-> World(n)],
       shown <- worlds

\* "A client only ever sees a whole one": each world the scene is handed is a
\* snapshot the host published, bot for bot, and none comes twice
\* (`WorldGather`, `join_world`).
OnlyWholeWorlds == Promise!Spec

=============================================================================
