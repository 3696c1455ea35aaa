---------------------------- MODULE GoatsdProofs ----------------------------
(***************************************************************************)
(* The server keeps what WorldGather promises whatever else its loop does: *)
(* whole worlds, each once, the newest not kept out; and its portal counts *)
(* the players, for any number of players, evenings and snapshots.         *)
(***************************************************************************)
EXTENDS Goatsd, SequenceTheorems, FiniteSetTheorems, WellFoundedInduction, TLAPS

-----------------------------------------------------------------------------
(* WorldGather implements Snapshots, for any number of snapshots, parts    *)
(* and bots, as long as the stamp has not come round: every world handed   *)
(* to the scene is one the host published, and none is handed over twice.  *)

AllWorlds == [head : Nat, bots : SUBSET (Nat \X Nat)]

\* Part p is part j of the n-th snapshot, and it was sent.
Sent(p, n, j) ==
  /\ p = Part(n, j)
  /\ j \in 0 .. published[n].count - 1
  /\ n = Len(published) => j < next

IsSent(p) == \E n \in Snaps : \E j \in Nat : Sent(p, n, j)

\* What the host published, and what the scene was handed.
Record ==
  /\ published \in Seq(Snapshot)
  /\ Len(published) <= MaxPublished
  /\ next \in 0 .. ToSend
  /\ worlds \in Seq(AllWorlds)

\* A part travels once: what the client has read is not on its way again.
Travel ==
  /\ \A p \in flight \cup heard : IsSent(p)
  /\ flight \cap heard = {}

Gathers(n) ==
  /\ seq = Stamp(n)
  /\ slots \in [0 .. published[n].count - 1 -> SomePart \cup {None}]
  /\ \A k \in 0 .. published[n].count - 1 :
       slots[k] = None \/ (slots[k] = Part(n, k) /\ slots[k] \in heard)

\* What is gathered was read, and belongs to one snapshot.
Gathered == seq = None \/ \E n \in Snaps : Gathers(n)

\* A snapshot the scene was handed has nothing left to come.
ShownWhole ==
  \A i \in 1 .. Len(worlds) : \E n \in Snaps :
    worlds[i] = World(n) /\ PartsOf(n) \subseteq heard

Inv == Record /\ Travel /\ Gathered /\ ShownWhole

-----------------------------------------------------------------------------

LEMMA StampIsExact ==
  ASSUME NEW n \in 1 .. MaxPublished PROVE Stamp(n) = n - 1 /\ Stamp(n) \in Nat
<1>1. n \in Nat /\ n - 1 \in Nat /\ SeqSpan \in Nat /\ n - 1 < SeqSpan
  BY GatherAssumption
<1>2. (n - 1) % SeqSpan = n - 1
  BY <1>1
<1>3. QED
  BY <1>1, <1>2 DEF Stamp

LEMMA SnapshotFields ==
  ASSUME NEW s \in Snapshot
  PROVE  s.count \in 1 .. MaxParts /\ s.herd \in 0 .. MaxHerd
BY DEF Snapshot

LEMMA PublishAppends ==
  ASSUME Publish
  PROVE  \E s \in Snapshot : published' = Append(published, s)
<1>1. PICK count \in 1 .. MaxParts, herd \in 0 .. MaxHerd :
        \E cut \in Cuts(count, herd) :
          published' =
            Append(published, [count |-> count, herd |-> herd, cut |-> cut])
  BY DEF Publish
<1>2. PICK cut \in Cuts(count, herd) :
        published' =
          Append(published, [count |-> count, herd |-> herd, cut |-> cut])
  BY <1>1
<1>3. cut \in [0 .. count -> 0 .. MaxHerd]
  BY <1>2, GatherAssumption DEF Cuts
<1>4. [count |-> count, herd |-> herd, cut |-> cut] \in Snapshot
  BY <1>3 DEF Snapshot
<1>5. QED
  BY <1>2, <1>4

LEMMA WorldIsTyped ==
  ASSUME Record, NEW n \in Snaps
  PROVE  World(n) \in AllWorlds /\ published[n] \in Snapshot
<1>1. published[n] \in Snapshot
  BY DEF Record, Snaps
<1>2. published[n].herd \in Nat
  BY <1>1, SnapshotFields, GatherAssumption
<1>3. n \in Nat
  BY DEF Snaps
<1>4. QED
  BY <1>1, <1>2, <1>3 DEF World, AllWorlds

LEMMA InitInv == Init => Inv
BY GatherAssumption
DEF Init, Inv, Record, Travel, Gathered, ShownWhole, AllWorlds, ToSend

\* Publishing leaves the snapshots before as they were.
LEMMA PublishKeeps ==
  ASSUME Record, Publish, NEW n \in Snaps
  PROVE  /\ n \in Snaps' /\ n # Len(published')
         /\ published'[n] = published[n]
         /\ World(n)' = World(n)
         /\ PartsOf(n)' = PartsOf(n)
         /\ \A j : Part(n, j)' = Part(n, j)
<1>1. PICK s \in Snapshot : published' = Append(published, s)
  BY PublishAppends
<1>2. /\ published'[n] = published[n]
      /\ Len(published') = Len(published) + 1
  BY <1>1 DEF Record, Snaps
<1>3. QED
  BY <1>2 DEF Record, Snaps, World, PartsOf, Part

LEMMA PublishInv ==
  ASSUME Inv, Publish PROVE Inv'
<1> USE DEF Inv
<1>1. /\ Len(published') = Len(published) + 1
      /\ published' \in Seq(Snapshot)
      /\ Len(published') <= MaxPublished
  <2>1. Len(published) < MaxPublished /\ published \in Seq(Snapshot)
    BY DEF Record, Publish
  <2>2. QED
    BY <2>1, PublishAppends, GatherAssumption
<1>2. /\ next' = 0
      /\ UNCHANGED <<flight, seq, slots, heard, worlds>>
  BY DEF Publish, gatherVars
<1>3. Record'
  <2>1. published' # << >> /\ published'[Len(published')] \in Snapshot
    BY <1>1 DEF Record
  <2>2. next' \in 0 .. ToSend'
    BY <1>2, <2>1, SnapshotFields, GatherAssumption DEF ToSend
  <2>3. QED
    BY <1>1, <1>2, <2>2 DEF Record
<1>4. ASSUME NEW p, IsSent(p) PROVE IsSent(p)'
  <2>1. PICK n \in Snaps, j \in Nat : Sent(p, n, j)
    BY <1>4 DEF IsSent
  <2>2. /\ n \in Snaps' /\ n # Len(published')
        /\ published'[n] = published[n]
        /\ Part(n, j)' = Part(n, j)
    BY PublishKeeps
  <2>3. Sent(p, n, j)'
    BY <2>1, <2>2 DEF Sent
  <2>4. QED
    BY <2>2, <2>3 DEF IsSent
<1>5. Travel'
  BY <1>2, <1>4 DEF Travel
<1>6. SomePart \subseteq SomePart'
  BY PublishKeeps DEF SomePart
<1>7. Gathered'
  <2>1. CASE seq = None
    BY <1>2, <2>1 DEF Gathered
  <2>2. ASSUME NEW n \in Snaps, Gathers(n) PROVE Gathered'
    <3>1. /\ n \in Snaps'
          /\ published'[n] = published[n]
          /\ \A j : Part(n, j)' = Part(n, j)
      BY PublishKeeps
    <3>2. Gathers(n)'
      BY <1>2, <1>6, <2>2, <3>1 DEF Gathers
    <3>3. QED
      BY <3>1, <3>2 DEF Gathered
  <2>3. QED
    BY <2>1, <2>2 DEF Gathered
<1>8. ShownWhole'
  <2>1. ASSUME NEW i \in 1 .. Len(worlds)
        PROVE  \E n \in Snaps' : worlds[i] = World(n)' /\ PartsOf(n)' \subseteq heard
    BY PublishKeeps DEF ShownWhole
  <2>2. QED
    BY <1>2, <2>1 DEF ShownWhole
<1>9. QED
  BY <1>3, <1>5, <1>7, <1>8

\* Nothing but publishing changes what the snapshots are.
LEMMA SameSnapshots ==
  ASSUME published' = published
  PROVE  /\ Snaps' = Snaps /\ SomePart' = SomePart
         /\ \A n : World(n)' = World(n) /\ PartsOf(n)' = PartsOf(n)
         /\ \A n, j : Part(n, j)' = Part(n, j)
<1>1. \A n, j : Part(n, j)' = Part(n, j)
  BY DEF Part, Stamp
<1>2. \A n : World(n)' = World(n) /\ PartsOf(n)' = PartsOf(n)
  BY <1>1 DEF World, PartsOf
<1>3. Snaps' = Snaps /\ SomePart' = SomePart
  BY <1>2 DEF Snaps, SomePart
<1>4. QED
  BY <1>1, <1>2, <1>3

\* What was gathered and shown stays so while the client reads nothing.
LEMMA QuietGather ==
  ASSUME Gathered, ShownWhole, UNCHANGED <<published, seq, slots, heard, worlds>>
  PROVE  Gathered' /\ ShownWhole'
<1>1. Gathered'
  <2>1. ASSUME NEW n \in Snaps, Gathers(n) PROVE Gathers(n)'
    BY <2>1, SameSnapshots DEF Gathers
  <2>2. QED
    BY <2>1, SameSnapshots DEF Gathered
<1>2. ShownWhole'
  BY SameSnapshots DEF ShownWhole
<1>3. QED
  BY <1>1, <1>2

\* A part that was sent stays sent while the next one goes out.
LEMMA StillSent ==
  ASSUME NEW p, IsSent(p), published' = published,
         next' = next \/ (next \in Nat /\ next' = next + 1)
  PROVE  IsSent(p)'
<1>1. PICK n \in Snaps, j \in Nat : Sent(p, n, j)
  BY DEF IsSent
<1>2. n \in Snaps' /\ Part(n, j)' = Part(n, j)
  BY SameSnapshots
<1>3. Sent(p, n, j)'
  BY <1>1, <1>2 DEF Sent
<1>4. QED
  BY <1>2, <1>3 DEF IsSent

LEMMA SendInv ==
  ASSUME Inv, Send PROVE Inv'
<1> USE DEF Inv
<1>1. PICK last, at, new :
        last = Len(published) /\ at = next /\ new = Part(last, at)
  OBVIOUS
<1>2. /\ next' = at + 1
      /\ UNCHANGED <<published, seq, slots, heard, worlds>>
      /\ flight' \subseteq flight \cup {new}
  BY <1>1 DEF Send, gatherVars
<1>3. /\ last \in Snaps /\ published[last] \in Snapshot
      /\ at \in 0 .. published[last].count - 1
      /\ ToSend = published[last].count
  <2>1. published # << >> /\ ToSend = published[last].count
    BY <1>1 DEF Record, Send, SentAll, ToSend
  <2>2. last \in Snaps /\ published[last] \in Snapshot
    BY <1>1, <2>1 DEF Record, Snaps
  <2>3. QED
    BY <1>1, <2>1, <2>2, SnapshotFields, GatherAssumption
    DEF Record, Send, SentAll
<1>4. Record'
  BY <1>1, <1>2, <1>3, SnapshotFields, GatherAssumption DEF Record, ToSend
<1>5. ASSUME NEW p, IsSent(p) PROVE IsSent(p)'
  BY <1>1, <1>2, <1>3, <1>5, StillSent
<1>6. IsSent(new)'
  <2>1. last \in Snaps' /\ Part(last, at)' = new
    BY <1>1, <1>2, <1>3, SameSnapshots
  <2>2. at \in Nat /\ Sent(new, last, at)'
    BY <1>1, <1>2, <1>3, <2>1 DEF Sent
  <2>3. QED
    BY <2>1, <2>2 DEF IsSent
<1>7. new \notin heard
  <2> SUFFICES ASSUME new \in heard PROVE FALSE
    OBVIOUS
  <2>1. PICK n \in Snaps, j \in Nat : Sent(new, n, j)
    BY DEF Travel, IsSent
  <2>2. Part(last, at) = Part(n, j)
    BY <1>1, <2>1 DEF Sent
  <2>3. last = n /\ at = j
    BY <2>2 DEF Part
  <2>4. QED
    BY <1>1, <1>3, <2>1, <2>3 DEF Sent
<1>8. Travel'
  <2>1. \A p \in flight' \cup heard' : IsSent(p)'
    BY <1>2, <1>5, <1>6 DEF Travel
  <2>2. flight' \cap heard' = {}
    BY <1>2, <1>7 DEF Travel
  <2>3. QED
    BY <2>1, <2>2 DEF Travel
<1>9. Gathered' /\ ShownWhole'
  BY <1>2, QuietGather
<1>10. QED
  BY <1>4, <1>8, <1>9

\* Reading nothing: a part is lost, the client is admitted, or nothing happens.
LEMMA QuietInv ==
  ASSUME Inv, flight' \subseteq flight,
         UNCHANGED <<published, next, seq, slots, heard, worlds>>
  PROVE  Inv'
<1>1. Record'
  BY DEF Inv, Record, ToSend
<1>2. Travel'
  BY StillSent DEF Inv, Travel
<1>3. Gathered' /\ ShownWhole'
  BY QuietGather DEF Inv
<1>4. QED
  BY <1>1, <1>2, <1>3 DEF Inv

-----------------------------------------------------------------------------
(* Reading a part. *)

\* What join_world makes of all the parts of one snapshot is that snapshot.
LEMMA JoinIsWorld ==
  ASSUME NEW n \in Snaps, NEW world \in JoinWorld(PartsOf(n))
  PROVE  world = World(n)
<1> DEFINE herd == published[n].herd
<1>1. \A p \in PartsOf(n) : p.of = n /\ p.herd = herd
  BY DEF PartsOf, Part
<1>2. PICK first \in PartsOf(n) :
        /\ Joinable(PartsOf(n), first)
        /\ world = [head |-> first.of,
                    bots |-> UNION {{p.of} \X p.bots : p \in PartsOf(n)}]
  BY DEF JoinWorld
<1>3. UNION {p.bots : p \in PartsOf(n)} = 0 .. herd - 1
  BY <1>1, <1>2 DEF Joinable
<1>4. UNION {{p.of} \X p.bots : p \in PartsOf(n)} = {n} \X (0 .. herd - 1)
  <2> HIDE DEF herd
  <2>1. ASSUME NEW b \in UNION {{p.of} \X p.bots : p \in PartsOf(n)}
        PROVE  b \in {n} \X (0 .. herd - 1)
    <3>1. PICK p \in PartsOf(n) : b \in {p.of} \X p.bots
      OBVIOUS
    <3>2. p.bots \subseteq 0 .. herd - 1
      BY <1>3
    <3>3. QED
      BY <1>1, <3>1, <3>2
  <2>2. ASSUME NEW b \in {n} \X (0 .. herd - 1)
        PROVE  b \in UNION {{p.of} \X p.bots : p \in PartsOf(n)}
    <3>1. b = <<n, b[2]>> /\ b[2] \in UNION {p.bots : p \in PartsOf(n)}
      BY <1>3, <2>2
    <3>2. PICK p \in PartsOf(n) : b[2] \in p.bots
      BY <3>1
    <3>3. b \in {p.of} \X p.bots
      BY <1>1, <3>1, <3>2
    <3>4. QED
      BY <3>3
  <2>3. QED
    BY <2>1, <2>2
<1>5. QED
  BY <1>1, <1>2, <1>4 DEF World

\* A part on its way was never read.
LEMMA PartInFlight ==
  ASSUME Inv, NEW p \in flight
  PROVE  \E n \in Snaps : \E j \in 0 .. published[n].count - 1 :
           /\ p = Part(n, j) /\ p \in PartsOf(n) /\ p \in SomePart
           /\ p.seq = Stamp(n) /\ p.parts = published[n].count /\ p.part = j
           /\ p \notin heard
<1>1. PICK n \in Snaps, j \in Nat : Sent(p, n, j)
  BY DEF Inv, Travel, IsSent
<1>2. j \in 0 .. published[n].count - 1 /\ p = Part(n, j)
  BY <1>1 DEF Sent
<1>3. p \in PartsOf(n)
  BY <1>2 DEF PartsOf
<1>4. p \in SomePart
  BY <1>3 DEF SomePart
<1>5. p \notin heard
  BY DEF Inv, Travel
<1>6. p.seq = Stamp(n) /\ p.parts = published[n].count /\ p.part = j
  BY <1>2 DEF Part
<1>7. QED
  BY <1>2, <1>3, <1>4, <1>5, <1>6

\* The stamps of different snapshots differ.
LEMMA StampsDiffer ==
  ASSUME Record, NEW m \in Snaps, NEW n \in Snaps, Stamp(m) = Stamp(n)
  PROVE  m = n
<1>1. m \in 1 .. MaxPublished /\ n \in 1 .. MaxPublished
  BY GatherAssumption DEF Record, Snaps
<1>2. QED
  BY <1>1, StampIsExact

\* Once p is in, the slots hold parts of the snapshot of p and of no other.
LEMMA FilledSlots ==
  ASSUME Inv, NEW n \in Snaps, NEW p \in PartsOf(n), p \in SomePart,
         p.seq = Stamp(n), p.parts = published[n].count,
         p.part \in 0 .. published[n].count - 1, p = Part(n, p.part)
  PROVE  /\ Filled(p) \in [0 .. published[n].count - 1 -> SomePart \cup {None}]
         /\ \A k \in 0 .. published[n].count - 1 :
              \/ Filled(p)[k] = None
              \/ Filled(p)[k] = Part(n, k) /\ Filled(p)[k] \in heard \cup {p}
<1> DEFINE places == 0 .. published[n].count - 1
           before == SlotsFor(p)
<1>1. n \in 1 .. MaxPublished
  BY GatherAssumption DEF Inv, Record, Snaps
<1>2. p.seq # None
  BY <1>1, StampIsExact, GatherAssumption
<1>3. /\ before \in [places -> SomePart \cup {None}]
      /\ \A k \in places :
           \/ before[k] = None
           \/ before[k] = Part(n, k) /\ before[k] \in heard
  <2>1. CASE seq = p.seq /\ DOMAIN slots = 0 .. p.parts - 1
    <3>1. PICK m \in Snaps : Gathers(m)
      BY <1>2, <2>1 DEF Inv, Gathered
    <3>2. m = n
      BY <2>1, <3>1, StampsDiffer DEF Gathers, Inv
    <3>3. before = slots
      BY <2>1 DEF SlotsFor
    <3>4. QED
      BY <3>1, <3>2, <3>3 DEF Gathers
  <2>2. CASE ~(seq = p.seq /\ DOMAIN slots = 0 .. p.parts - 1)
    <3>1. before = [k \in places |-> None]
      BY <2>2 DEF SlotsFor
    <3>2. QED
      BY <3>1
  <2>3. QED
    BY <2>1, <2>2
<1>4. Filled(p) = [before EXCEPT ![p.part] = IF before[p.part] = None
                                             THEN p ELSE before[p.part]]
  BY DEF Filled
<1> HIDE DEF before
<1>5. QED
  BY <1>3, <1>4

\* Nothing is handed to the scene, or a world it was not handed before and of
\* which every part was read by now; and what is gathered is of one snapshot.
LEMMA ReceiveGathers ==
  ASSUME Inv, NEW p \in flight, Receive(p)
  PROVE  /\ \/ worlds' = worlds
            \/ \E n \in Snaps :
                 /\ worlds' = Append(worlds, World(n))
                 /\ \A i \in 1 .. Len(worlds) : worlds[i] # World(n)
                 /\ PartsOf(n) \subseteq heard'
         /\ Gathered'
<1>1. PICK n \in Snaps : \E j \in 0 .. published[n].count - 1 :
        /\ p = Part(n, j) /\ p \in PartsOf(n) /\ p \in SomePart
        /\ p.seq = Stamp(n) /\ p.parts = published[n].count /\ p.part = j
        /\ p \notin heard
  BY PartInFlight
<1> DEFINE places == 0 .. published[n].count - 1
           filled == Filled(p)
           parts == {filled[k] : k \in DOMAIN filled} \ {None}
<1>2. /\ published' = published
      /\ heard' = heard \cup {p}
  BY DEF Receive
<1>3. CASE UNCHANGED <<gatherVars, worlds>>
  <2>1. ASSUME NEW m \in Snaps, Gathers(m) PROVE Gathers(m)'
    BY <1>2, <1>3, <2>1, SameSnapshots DEF Gathers, gatherVars
  <2>2. Gathered'
    BY <1>2, <1>3, <2>1, SameSnapshots DEF Inv, Gathered, gatherVars
  <2>3. QED
    BY <1>3, <2>2
<1>4. CASE Feed(p)
  <2>1. /\ filled \in [places -> SomePart \cup {None}]
        /\ \A k \in places :
             \/ filled[k] = None
             \/ filled[k] = Part(n, k) /\ filled[k] \in heard \cup {p}
    BY <1>1, FilledSlots
  <2> HIDE DEF filled
  <2>2. CASE ~IsComplete(filled)
    <3>1. seq' = Stamp(n) /\ slots' = filled /\ worlds' = worlds
      BY <1>1, <1>4, <2>2 DEF Feed, filled
    <3>2. Gathers(n)'
      BY <1>2, <2>1, <3>1, SameSnapshots DEF Gathers
    <3>3. QED
      BY <1>1, <1>2, <3>1, <3>2, SameSnapshots DEF Gathered
  <2>3. CASE IsComplete(filled)
    <3>1. /\ seq' = None
          /\ \/ \E world \in JoinWorld(parts) : worlds' = Append(worlds, world)
             \/ worlds' = worlds
      BY <1>4, <2>3 DEF Feed, filled
    <3>2. \A k \in places :
            filled[k] # None /\ filled[k] = Part(n, k) /\ filled[k] \in heard'
      BY <1>2, <2>1, <2>3 DEF IsComplete
    <3>3. parts = PartsOf(n)
      BY <2>1, <3>2 DEF PartsOf
    <3>4. PartsOf(n) \subseteq heard'
      BY <3>2 DEF PartsOf
    <3>5. \A i \in 1 .. Len(worlds) : worlds[i] # World(n)
      <4> SUFFICES ASSUME NEW i \in 1 .. Len(worlds), worlds[i] = World(n)
                   PROVE  FALSE
        OBVIOUS
      <4>1. PICK m \in Snaps : worlds[i] = World(m) /\ PartsOf(m) \subseteq heard
        BY DEF Inv, ShownWhole
      <4>2. m = n
        BY <4>1 DEF World
      <4>3. QED
        BY <1>1, <4>1, <4>2
    <3>6. Gathered'
      BY <3>1 DEF Gathered
    <3>7. QED
      BY <3>1, <3>3, <3>4, <3>5, <3>6, JoinIsWorld
  <2>4. QED
    BY <2>2, <2>3
<1>5. QED
  BY <1>3, <1>4 DEF Receive

LEMMA ReceiveInv ==
  ASSUME Inv, NEW p \in flight, Receive(p) PROVE Inv'
<1>1. /\ UNCHANGED <<published, next>>
      /\ heard' = heard \cup {p}
      /\ flight' = flight \ {p}
  BY DEF Receive
<1>2. Gathered'
  BY ReceiveGathers
<1>3. Travel'
  <2>1. \A q \in flight' \cup heard' : IsSent(q)'
    BY <1>1, StillSent DEF Inv, Travel
  <2>2. flight' \cap heard' = {}
    BY <1>1 DEF Inv, Travel
  <2>3. QED
    BY <2>1, <2>2 DEF Travel
<1>4. Record' /\ ShownWhole'
  <2>1. CASE worlds' = worlds
    BY <1>1, <2>1, SameSnapshots DEF Inv, Record, ShownWhole, ToSend
  <2>2. ASSUME NEW n \in Snaps, worlds' = Append(worlds, World(n)),
               PartsOf(n) \subseteq heard'
        PROVE  Record' /\ ShownWhole'
    <3>1. World(n) \in AllWorlds /\ worlds \in Seq(AllWorlds)
      BY WorldIsTyped DEF Inv, Record
    <3>2. Record'
      BY <1>1, <2>2, <3>1 DEF Inv, Record, ToSend
    <3>3. ASSUME NEW i \in 1 .. Len(worlds')
          PROVE  \E m \in Snaps' :
                   worlds'[i] = World(m)' /\ PartsOf(m)' \subseteq heard'
      <4>1. CASE i \in 1 .. Len(worlds)
        <5>1. worlds'[i] = worlds[i]
          BY <2>2, <3>1, <4>1
        <5>2. QED
          BY <1>1, <4>1, <5>1, SameSnapshots DEF Inv, ShownWhole
      <4>2. CASE i \notin 1 .. Len(worlds)
        <5>1. worlds'[i] = World(n)
          BY <2>2, <3>1, <3>3, <4>2
        <5>2. QED
          BY <1>1, <2>2, <5>1, SameSnapshots
      <4>3. QED
        BY <4>1, <4>2
    <3>4. QED
      BY <3>2, <3>3 DEF ShownWhole
  <2>3. QED
    BY <2>1, <2>2, ReceiveGathers
<1>5. QED
  BY <1>2, <1>3, <1>4 DEF Inv

LEMMA NextInv == Inv /\ [Next]_vars => Inv'
<1> SUFFICES ASSUME Inv, [Next]_vars PROVE Inv'
  OBVIOUS
<1>1. CASE Publish
  BY <1>1, PublishInv
<1>2. CASE Send
  BY <1>2, SendInv
<1>3. CASE Listen \/ UNCHANGED vars
  BY <1>3, QuietInv DEF Listen, vars, gatherVars
<1>4. ASSUME NEW p \in flight, Drop(p) PROVE Inv'
  BY <1>4, QuietInv DEF Drop, gatherVars
<1>5. ASSUME NEW p \in flight, Receive(p) PROVE Inv'
  BY <1>5, ReceiveInv
<1>6. QED
  BY <1>1, <1>2, <1>3, <1>4, <1>5 DEF Next

-----------------------------------------------------------------------------
(* Types, and what the slots hold. *)

LEMMA BoundedValue ==
  ASSUME NEW c, NEW h \in Nat, NEW f \in [c -> 0 .. h], NEW i \in c
  PROVE  f[i] \in Nat
OBVIOUS

LEMMA PartIsPart ==
  ASSUME Record, NEW n \in Snaps, NEW j \in 0 .. published[n].count - 1
  PROVE  Part(n, j) \in AnyPart /\ Part(n, j) # None
<1> DEFINE s == published[n]
           bots == s.cut[j] .. s.cut[j + 1] - 1
<1>1. s \in Snapshot /\ s.cut \in [0 .. s.count -> 0 .. MaxHerd]
  BY DEF Record, Snaps, Snapshot
<1>2. n \in 1 .. MaxPublished
  BY GatherAssumption DEF Record, Snaps
<1>3. j \in Nat /\ s.count \in Nat /\ s.herd \in Nat
  BY <1>1, SnapshotFields, GatherAssumption
<1>4. bots \subseteq Nat
  <2>1. j \in 0 .. s.count /\ j + 1 \in 0 .. s.count
    BY <1>3
  <2> HIDE DEF s
  <2>2. s.cut[j] \in Nat /\ s.cut[j + 1] \in Nat
    BY <1>1, <2>1, BoundedValue, GatherAssumption
  <2>3. QED
    BY <2>2
<1>5. Stamp(n) \in Nat
  BY <1>2, StampIsExact
<1>6. Part(n, j) = [of |-> n, seq |-> Stamp(n), part |-> j,
                    parts |-> s.count, herd |-> s.herd, bots |-> bots]
  BY DEF Part
<1> HIDE DEF s, bots
<1>7. Part(n, j) \in AnyPart
  BY <1>2, <1>3, <1>4, <1>5, <1>6 DEF AnyPart
<1>8. QED
  BY <1>7, GatherAssumption

\* What is gathered stays so while the snapshots and the slots do not change.
LEMMA QuietSlots ==
  ASSUME GatherIsOfOneSnapshot, UNCHANGED <<published, seq, slots>>
  PROVE  GatherIsOfOneSnapshot'
BY SameSnapshots DEF GatherIsOfOneSnapshot, Stamp, IsComplete

LEMMA PublishSlots ==
  ASSUME Record, GatherIsOfOneSnapshot, Publish
  PROVE  GatherIsOfOneSnapshot'
<1>1. UNCHANGED <<seq, slots>>
  BY DEF Publish, gatherVars
<1>2. CASE seq = None
  BY <1>1, <1>2 DEF GatherIsOfOneSnapshot
<1>3. CASE seq # None
  <2>1. PICK n \in Snaps :
          /\ seq = Stamp(n)
          /\ DOMAIN slots = 0 .. published[n].count - 1
          /\ \A k \in DOMAIN slots : slots[k] \in {None, Part(n, k)}
          /\ {None} # {slots[k] : k \in DOMAIN slots}
          /\ ~IsComplete(slots)
    BY <1>3 DEF GatherIsOfOneSnapshot
  <2>2. /\ n \in Snaps' /\ published'[n] = published[n]
        /\ \A k : Part(n, k)' = Part(n, k)
    BY PublishKeeps
  <2>3. Stamp(n)' = Stamp(n) /\ (~IsComplete(slots))'
    BY <1>1, <2>1 DEF Stamp, IsComplete
  <2>4. /\ seq' = Stamp(n)'
        /\ DOMAIN slots' = 0 .. published'[n].count - 1
        /\ \A k \in DOMAIN slots' : slots'[k] \in {None, Part(n, k)'}
    BY <1>1, <2>1, <2>2, <2>3
  <2>5. {None} # {slots'[k] : k \in DOMAIN slots'}
    BY <1>1, <2>1
  <2>6. seq' # None
    BY <1>1, <1>3
  <2>7. QED
    BY <2>2, <2>3, <2>4, <2>5, <2>6 DEF GatherIsOfOneSnapshot
<1>4. QED
  BY <1>2, <1>3

\* After a part was fed to it the gatherer is empty, or it lacks a part and has
\* the one it was fed.
LEMMA ReceiveSlots ==
  ASSUME Inv, GatherIsOfOneSnapshot, NEW p \in flight, Receive(p)
  PROVE  GatherIsOfOneSnapshot'
<1>1. PICK n \in Snaps : \E j \in 0 .. published[n].count - 1 :
        /\ p = Part(n, j) /\ p \in PartsOf(n) /\ p \in SomePart
        /\ p.seq = Stamp(n) /\ p.parts = published[n].count /\ p.part = j
        /\ p \notin heard
  BY PartInFlight
<1>2. published' = published
  BY DEF Receive
<1>3. CASE UNCHANGED gatherVars
  BY <1>2, <1>3, QuietSlots DEF gatherVars
<1>4. CASE Feed(p)
  <2> DEFINE places == 0 .. published[n].count - 1
             filled == Filled(p)
  <2>1. /\ filled \in [places -> SomePart \cup {None}]
        /\ \A k \in places : filled[k] = None \/ filled[k] = Part(n, k)
    BY <1>1, FilledSlots
  <2>2. filled[p.part] # None /\ p.part \in places
    <3>1. p # None /\ p.part \in places
      BY <1>1, PartIsPart DEF Inv
    <3>2. p.part \in DOMAIN filled
      BY <2>1, <3>1
    <3>3. filled[p.part] = IF SlotsFor(p)[p.part] = None
                           THEN p ELSE SlotsFor(p)[p.part]
      BY <3>2 DEF Filled
    <3>4. QED
      BY <3>1, <3>3
  <2> HIDE DEF filled
  <2>3. CASE ~IsComplete(filled)
    <3>1. seq' = Stamp(n) /\ slots' = filled
      BY <1>1, <1>4, <2>3 DEF Feed, filled
    <3>2. {None} # {filled[k] : k \in DOMAIN filled}
      BY <2>1, <2>2
    <3>3. /\ n \in Snaps' /\ Stamp(n)' = Stamp(n)
          /\ published'[n] = published[n]
          /\ \A k : Part(n, k)' = Part(n, k)
      BY <1>2, SameSnapshots DEF Stamp
    <3>4. (~IsComplete(slots))'
      BY <2>3, <3>1 DEF IsComplete
    <3>5. seq' # None
      <4>1. n \in 1 .. MaxPublished
        BY GatherAssumption DEF Inv, Record, Snaps
      <4>2. QED
        BY <3>1, <4>1, StampIsExact, GatherAssumption
    <3>6. DOMAIN slots' = 0 .. published'[n].count - 1
      BY <2>1, <3>1, <3>3
    <3>7. \A k \in DOMAIN slots' : slots'[k] \in {None, Part(n, k)'}
      BY <2>1, <3>1, <3>3
    <3>8. QED
      BY <3>1, <3>2, <3>3, <3>4, <3>5, <3>6, <3>7 DEF GatherIsOfOneSnapshot
  <2>4. CASE IsComplete(filled)
    <3>1. seq' = None /\ slots' = << >>
      BY <1>4, <2>4 DEF Feed, filled
    <3>2. QED
      BY <3>1 DEF GatherIsOfOneSnapshot
  <2>5. QED
    BY <2>3, <2>4
<1>5. QED
  BY <1>3, <1>4 DEF Receive

LEMMA NextSlots ==
  Inv /\ GatherIsOfOneSnapshot /\ [Next]_vars => GatherIsOfOneSnapshot'
<1> SUFFICES ASSUME Inv, GatherIsOfOneSnapshot, [Next]_vars
             PROVE  GatherIsOfOneSnapshot'
  OBVIOUS
<1>1. CASE Publish
  BY <1>1, PublishSlots DEF Inv
<1>2. CASE Send \/ Listen \/ UNCHANGED vars
  BY <1>2, QuietSlots DEF Send, Listen, vars, gatherVars
<1>3. ASSUME NEW p \in flight, Drop(p) PROVE GatherIsOfOneSnapshot'
  BY <1>3, QuietSlots DEF Drop, gatherVars
<1>4. ASSUME NEW p \in flight, Receive(p) PROVE GatherIsOfOneSnapshot'
  BY <1>4, ReceiveSlots
<1>5. QED
  BY <1>1, <1>2, <1>3, <1>4 DEF Next

\* The slots hold parts of one snapshot alone, at least one of them and never
\* all: what came before was abandoned whole.
THEOREM SlotsAreOfOneSnapshot == Spec => []GatherIsOfOneSnapshot
<1>1. Init => Inv /\ GatherIsOfOneSnapshot
  BY InitInv DEF Init, GatherIsOfOneSnapshot
<1>2. Inv /\ GatherIsOfOneSnapshot /\ [Next]_vars
        => Inv' /\ GatherIsOfOneSnapshot'
  BY NextInv, NextSlots
<1>3. QED
  BY <1>1, <1>2, PTL DEF Spec

LEMMA InvIsTyped ==
  ASSUME Inv, GatherIsOfOneSnapshot, listening \in BOOLEAN PROVE TypeOK
<1>1. flight \subseteq SomePart /\ heard \subseteq SomePart
  BY DEF Inv, Travel, IsSent, Sent, SomePart, PartsOf
<1>2. CASE seq = None
  <2>1. slots = << >> /\ DOMAIN slots = 0 .. 0 - 1 /\ 0 \in 0 .. MaxParts
    BY <1>2, GatherAssumption DEF GatherIsOfOneSnapshot
  <2>2. QED
    BY <1>1, <1>2, <2>1 DEF TypeOK, Inv, Record
<1>3. CASE seq # None
  <2>1. PICK n \in Snaps :
          /\ seq = Stamp(n)
          /\ DOMAIN slots = 0 .. published[n].count - 1
          /\ \A k \in DOMAIN slots : slots[k] \in {None, Part(n, k)}
    BY <1>3 DEF GatherIsOfOneSnapshot
  <2>2. published[n].count \in 0 .. MaxParts
    BY SnapshotFields, GatherAssumption DEF Inv, Record, Snaps
  <2>3. seq \in 0 .. SeqSpan - 1
    <3>1. n \in 1 .. MaxPublished
      BY GatherAssumption DEF Inv, Record, Snaps
    <3>2. QED
      BY <2>1, <3>1, StampIsExact, GatherAssumption
  <2>4. \A k \in DOMAIN slots : slots[k] \in SomePart \cup {None}
    BY <2>1 DEF SomePart, PartsOf
  <2>5. QED
    BY <1>1, <2>1, <2>2, <2>3, <2>4 DEF TypeOK, Inv, Record
<1>4. QED
  BY <1>2, <1>3

\* Every variable of the gatherer and the channel keeps its type.
THEOREM GatherTypeCorrect == Spec => []TypeOK
<1>1. Init => Inv /\ GatherIsOfOneSnapshot /\ listening \in BOOLEAN
  BY InitInv DEF Init, GatherIsOfOneSnapshot
<1>2. Inv /\ GatherIsOfOneSnapshot /\ listening \in BOOLEAN /\ [Next]_vars
        => Inv' /\ GatherIsOfOneSnapshot' /\ (listening \in BOOLEAN)'
  <2>1. listening \in BOOLEAN /\ [Next]_vars => (listening \in BOOLEAN)'
    BY DEF Next, Publish, Send, Listen, Drop, Receive, vars
  <2>2. QED
    BY <2>1, NextInv, NextSlots
<1>3. Inv /\ GatherIsOfOneSnapshot /\ listening \in BOOLEAN => TypeOK
  BY InvIsTyped
<1>4. QED
  BY <1>1, <1>2, <1>3, PTL DEF Spec

-----------------------------------------------------------------------------
(* The refinement. *)

Told == [n \in Snaps |-> World(n)]

ToldTyped ==
  /\ \A n \in Snaps : World(n) \in AllWorlds
  /\ Told \in Seq(AllWorlds)
  /\ Len(Told) = Len(published)

LEMMA ToldIsSeq == Record => ToldTyped
<1> SUFFICES ASSUME Record PROVE ToldTyped
  OBVIOUS
<1>1. Len(published) \in Nat /\ \A n \in Snaps : World(n) \in AllWorlds
  BY WorldIsTyped DEF Record
<1>2. QED
  BY <1>1, IsASeq DEF Told, ToldTyped, Snaps

LEMMA ToldIsSeqNext == Record' => ToldTyped'
BY ToldIsSeq, PTL

LEMMA InitPromise == Init => Promise!Init
BY DEF Init, Promise!Init, Snaps

LEMMA QuietPromise ==
  ASSUME published' = published, worlds' = worlds
  PROVE  UNCHANGED Promise!snapshotVars
BY SameSnapshots DEF Promise!snapshotVars

LEMMA NextPromise ==
  Inv /\ Inv' /\ [Next]_vars => [Promise!Next]_Promise!snapshotVars
<1> SUFFICES ASSUME Inv, Inv', [Next]_vars
             PROVE  [Promise!Next]_Promise!snapshotVars
  OBVIOUS
<1>1. CASE Publish
  <2>1. PICK last : last = Len(published')
    OBVIOUS
  <2>2. PICK world : world = World(last)'
    OBVIOUS
  <2>3. /\ Len(published') = Len(published) + 1 /\ worlds' = worlds
        /\ Len(published) \in Nat
    BY <1>1, PublishAppends DEF Inv, Record, Publish
  <2>4. last \in Snaps' /\ world \in AllWorlds
    <3>1. last \in Snaps'
      BY <2>1, <2>3 DEF Snaps
    <3>2. \A n \in Snaps' : World(n)' \in AllWorlds
      BY ToldIsSeqNext DEF Inv, ToldTyped
    <3>3. QED
      BY <2>2, <3>1, <3>2
  <2>5. /\ Told \in Seq(AllWorlds) /\ Len(Told) = Len(published)
        /\ Told' \in Seq(AllWorlds) /\ Len(Told') = Len(published')
    BY ToldIsSeq, ToldIsSeqNext DEF Inv, ToldTyped
  <2>6. \A n \in 1 .. Len(published') : Told'[n] = Append(Told, world)[n]
    <3> SUFFICES ASSUME NEW n \in 1 .. Len(published')
                 PROVE  Told'[n] = Append(Told, world)[n]
      OBVIOUS
    <3>1. Told'[n] = World(n)'
      BY DEF Told, Snaps
    <3>2. CASE n = last
      BY <2>1, <2>2, <2>3, <2>4, <2>5, <3>1, <3>2
    <3>3. CASE n # last
      <4>1. n \in Snaps /\ World(n)' = World(n)
        BY <1>1, <2>1, <2>3, <3>3, PublishKeeps DEF Inv, Snaps
      <4>2. Told[n] = World(n) /\ n \in 1 .. Len(Told)
        BY <2>5, <4>1 DEF Told, Snaps
      <4>3. QED
        BY <2>4, <2>5, <3>1, <4>1, <4>2
    <3>4. QED
      BY <3>2, <3>3
  <2>7. Told' = Append(Told, world)
    BY <2>3, <2>4, <2>5, <2>6, SeqEqual
  <2>8. Told'[Len(Told')] = world /\ Len(Told') > Len(Told)
    BY <2>3, <2>4, <2>5, <2>7
  <2>9. QED
    BY <2>3, <2>4, <2>7, <2>8
    DEF Promise!Next, Promise!Publish, Told, AllWorlds
<1>2. CASE Send \/ Listen \/ UNCHANGED vars
  BY <1>2, QuietPromise DEF Send, Listen, vars
<1>3. ASSUME NEW p \in flight, Drop(p)
      PROVE  [Promise!Next]_Promise!snapshotVars
  BY <1>3, QuietPromise DEF Drop
<1>4. ASSUME NEW p \in flight, Receive(p)
      PROVE  [Promise!Next]_Promise!snapshotVars
  <2>1. published' = published /\ Told' = Told
    BY <1>4, SameSnapshots DEF Receive, Told
  <2>2. CASE worlds' = worlds
    BY <2>1, <2>2, QuietPromise
  <2>3. ASSUME NEW n \in Snaps,
               worlds' = Append(worlds, World(n)),
               \A i \in 1 .. Len(worlds) : worlds[i] # World(n)
        PROVE  Promise!Next
    <3>1. World(n) \in AllWorlds /\ worlds \in Seq(AllWorlds)
      BY WorldIsTyped DEF Inv, Record
    <3>2. worlds'[Len(worlds')] = World(n) /\ Len(worlds') > Len(worlds)
      BY <2>3, <3>1
    <3>3. Len(Told) = Len(published) /\ Told[n] = World(n)
      BY ToldIsSeq DEF Inv, ToldTyped, Told
    <3>4. Promise!Show(World(n))
      BY <2>1, <2>3, <3>3 DEF Promise!Show, Told, Snaps
    <3>5. QED
      BY <3>2, <3>4 DEF Promise!Next
  <2>4. QED
    BY <1>4, <2>2, <2>3, ReceiveGathers
<1>5. QED
  BY <1>1, <1>2, <1>3, <1>4 DEF Next

\* Whatever is lost, late or overtaken, each world the client's scene is handed
\* is a snapshot the host published, bot for bot, and none is handed over twice.
THEOREM WorldsAreWhole == Spec => OnlyWholeWorlds
<1>1. Init => Inv /\ Promise!Init
  BY InitInv, InitPromise
<1>2. Inv /\ [Next]_vars => Inv'
  BY NextInv
<1>3. QED
  BY <1>1, <1>2, NextPromise, PTL DEF Spec, OnlyWholeWorlds, Promise!Spec

-----------------------------------------------------------------------------
(* All the parts of a snapshot make it up. *)

LEMMA LeastOf ==
  ASSUME NEW T \in SUBSET Nat, T # {}
  PROVE  \E x \in T : \A y \in T : x <= y
<1>1. IsWellFoundedOn(OpToRel(<, Nat), Nat)
  BY NatLessThanWellFounded
<1>2. PICK x \in T : \A y \in T : ~(<<y, x>> \in OpToRel(<, Nat))
  BY <1>1, WFMin
<1>3. \A y \in T : ~(y < x)
  <2> SUFFICES ASSUME NEW y \in T, y < x PROVE FALSE
    OBVIOUS
  <2>1. y \in Nat /\ x \in Nat
    OBVIOUS
  <2>2. <<y, x>> \in {ss \in Nat \X Nat : ss[1] < ss[2]}
    BY <2>1
  <2>3. <<y, x>> \in OpToRel(<, Nat)
    BY <2>2, Zenon DEF OpToRel
  <2>4. QED
    BY <1>2, <2>3
<1>4. QED
  BY <1>3, SMT

\* A cut never goes back.
LEMMA CutsAscend ==
  ASSUME NEW count \in Nat \ {0}, NEW herd \in Nat, NEW cut \in Cuts(count, herd),
         NEW j \in 0 .. count, NEW k \in 0 .. count, j <= k
  PROVE  cut[j] <= cut[k]
<1>1. /\ cut \in [0 .. count -> 0 .. herd] /\ cut[0] = 0 /\ cut[count] = herd
      /\ \A i \in 0 .. count - 1 : cut[i] < cut[i + 1] \/ count = 1
  BY DEF Cuts
<1>2. \A i \in 0 .. count : cut[i] \in Nat /\ 0 <= cut[i] /\ cut[i] <= herd
  BY <1>1
<1>3. \A i \in 0 .. count - 1 : cut[i] <= cut[i + 1]
  <2>1. CASE count = 1
    BY <1>1, <1>2, <2>1
  <2>2. CASE count # 1
    <3>1. ASSUME NEW i \in 0 .. count - 1 PROVE cut[i] <= cut[i + 1]
      <4>1. i \in 0 .. count /\ i + 1 \in 0 .. count
        OBVIOUS
      <4>2. cut[i] < cut[i + 1]
        BY <1>1, <2>2
      <4>3. cut[i] \in Nat /\ cut[i + 1] \in Nat
        BY <1>2, <4>1
      <4>4. QED
        BY <4>2, <4>3
    <3>2. QED
      BY <3>1
  <2>3. QED
    BY <2>1, <2>2
<1> DEFINE bad == {i \in 0 .. count : j <= i /\ ~(cut[j] <= cut[i])}
<1>4. bad \in SUBSET Nat
  OBVIOUS
<1>5. SUFFICES bad = {}
  OBVIOUS
<1>6. SUFFICES ASSUME bad # {} PROVE FALSE
  OBVIOUS
<1> HIDE DEF bad
<1>7. PICK i \in bad : \A y \in bad : i <= y
  BY <1>4, <1>6, LeastOf
<1> USE DEF bad
<1>8. i \in 0 .. count /\ j <= i /\ ~(cut[j] <= cut[i])
  OBVIOUS
<1>9. i # j
  BY <1>2, <1>8
<1>10. i - 1 \in 0 .. count - 1 /\ i - 1 \in 0 .. count /\ j <= i - 1 /\ i - 1 + 1 = i
       /\ ~(i <= i - 1)
  BY <1>8, <1>9
<1>11. cut[j] <= cut[i - 1]
  BY <1>7, <1>10
<1>12. cut[i - 1] <= cut[i]
  BY <1>3, <1>10
<1>13. cut[j] \in Nat /\ cut[i - 1] \in Nat /\ cut[i] \in Nat
  BY <1>2, <1>8, <1>10
<1> HIDE DEF bad
<1>14. QED
  BY <1>8, <1>11, <1>12, <1>13

\* Every bot of the herd rides one part.
LEMMA CutsCover ==
  ASSUME NEW count \in Nat \ {0}, NEW herd \in Nat, NEW cut \in Cuts(count, herd),
         NEW b \in 0 .. herd - 1
  PROVE  \E j \in 0 .. count - 1 : b \in cut[j] .. cut[j + 1] - 1
<1>1. cut \in [0 .. count -> 0 .. herd] /\ cut[0] = 0 /\ cut[count] = herd
  BY DEF Cuts
<1>2. \A i \in 0 .. count : cut[i] \in Nat
  BY <1>1
<1> DEFINE past == {i \in 0 .. count : b < cut[i]}
<1>3. past \in SUBSET Nat
  OBVIOUS
<1>4. past # {}
  <2>1. count \in 0 .. count /\ b < cut[count]
    BY <1>1
  <2>2. QED
    BY <2>1
<1> HIDE DEF past
<1>5. PICK k \in past : \A y \in past : k <= y
  BY <1>3, <1>4, LeastOf
<1> USE DEF past
<1>6. k \in 0 .. count /\ b < cut[k] /\ k # 0
  BY <1>1
<1>7. k - 1 \in 0 .. count - 1 /\ k - 1 \in 0 .. count /\ k - 1 + 1 = k /\ ~(k <= k - 1)
  BY <1>6
<1>8. ~(b < cut[k - 1])
  BY <1>5, <1>7
<1>9. cut[k - 1] \in Nat /\ cut[k] \in Nat /\ b \in Nat
  BY <1>2, <1>6, <1>7
<1>10. b \in cut[k - 1] .. cut[k] - 1
  BY <1>6, <1>8, <1>9
<1>11. QED
  BY <1>7, <1>10

\* What was published was cut by the rule.
Fits == \A n \in Snaps : published[n].cut \in Cuts(published[n].count, published[n].herd)

LEMMA FitsIsKept ==
  ASSUME Record, Fits, [Next]_vars PROVE Fits'
<1>1. CASE UNCHANGED published
  BY <1>1 DEF Fits, Snaps, Cuts
<1>2. CASE Publish
  <2>1. PICK count \in 1 .. MaxParts, herd \in 0 .. MaxHerd :
          \E cut \in Cuts(count, herd) :
            published' = Append(published, [count |-> count, herd |-> herd, cut |-> cut])
    BY <1>2 DEF Publish
  <2>2. PICK cut \in Cuts(count, herd) :
          published' = Append(published, [count |-> count, herd |-> herd, cut |-> cut])
    BY <2>1
  <2> DEFINE s == [count |-> count, herd |-> herd, cut |-> cut]
  <2>3. s.cut \in Cuts(s.count, s.herd)
    OBVIOUS
  <2> HIDE DEF s
  <2>4. published' = Append(published, s)
    BY <2>2 DEF s
  <2>5. ASSUME NEW n \in Snaps' PROVE n \in Snaps \/ published'[n] = s
    BY <2>4 DEF Snaps, Record
  <2>6. ASSUME NEW n \in Snaps PROVE published'[n] = published[n]
    BY <1>2, PublishKeeps
  <2>7. QED
    BY <2>3, <2>5, <2>6 DEF Fits, Cuts
<1>3. QED
  BY <1>1, <1>2 DEF Next, Send, Listen, Drop, Receive, vars

\* All the parts of a snapshot can be joined.
LEMMA PartsAreJoinable ==
  ASSUME Record, Fits, NEW n \in Snaps
  PROVE  JoinWorld(PartsOf(n)) = {World(n)}
<1> DEFINE count == published[n].count
           herd == published[n].herd
           cut == published[n].cut
           places == 0 .. count - 1
           parts == PartsOf(n)
<1>1. count \in Nat \ {0} /\ herd \in Nat /\ cut \in Cuts(count, herd)
  <2>1. published[n] \in Snapshot
    BY DEF Record, Snaps
  <2>2. QED
    BY <2>1, SnapshotFields, GatherAssumption DEF Fits
<1>2. /\ parts = {Part(n, j) : j \in places}
      /\ \A j \in places : /\ Part(n, j).of = n /\ Part(n, j).seq = Stamp(n)
                           /\ Part(n, j).part = j /\ Part(n, j).parts = count
                           /\ Part(n, j).herd = herd
                           /\ Part(n, j).bots = cut[j] .. cut[j + 1] - 1
  BY DEF PartsOf, Part
<1>3. 0 \in places
  BY <1>1
<1>4. \A i \in 0 .. count : cut[i] \in Nat /\ cut[i] <= herd
  <2>1. cut \in [0 .. count -> 0 .. herd]
    BY <1>1 DEF Cuts
  <2> HIDE DEF cut, count, herd
  <2>2. QED
    BY <1>1, <2>1
<1> HIDE DEF count, herd, cut, parts
<1>5. Cardinality(parts) = count
  <2> DEFINE f == [j \in places |-> Part(n, j)]
  <2>1. f \in Bijection(places, parts)
    <3>1. \A i, j \in places : f[i] = f[j] => i = j
      BY <1>2
    <3>2. f \in Injection(places, parts)
      BY <1>2, <3>1 DEF Injection, IsInjective
    <3>3. \A p \in parts : \E j \in places : f[j] = p
      BY <1>2
    <3>4. QED
      BY <1>2, <3>2, <3>3 DEF Bijection, Surjection
  <2>2. IsFiniteSet(places) /\ Cardinality(places) = count
    BY <1>1, FS_Interval
  <2>3. QED
    BY <2>1, <2>2, FS_Bijection DEF ExistsBijection
<1>6. \A p, q \in parts : p # q => p.part # q.part /\ p.bots \cap q.bots = {}
  <2>1. ASSUME NEW i \in places, NEW j \in places, i < j
        PROVE  (cut[i] .. cut[i + 1] - 1) \cap (cut[j] .. cut[j + 1] - 1) = {}
    <3>1. i \in 0 .. count /\ j \in 0 .. count /\ i + 1 \in 0 .. count /\ j + 1 \in 0 .. count
          /\ i + 1 <= j
      BY <1>1, <2>1
    <3>2. cut[i + 1] <= cut[j]
      BY <1>1, <3>1, CutsAscend
    <3>3. cut[i] \in Nat /\ cut[j] \in Nat /\ cut[i + 1] \in Nat /\ cut[j + 1] \in Nat
      BY <1>4, <3>1
    <3>4. QED
      BY <3>2, <3>3
  <2>2. ASSUME NEW i \in places, NEW j \in places, Part(n, i) # Part(n, j)
        PROVE  /\ Part(n, i).part # Part(n, j).part
               /\ Part(n, i).bots \cap Part(n, j).bots = {}
    <3>1. i # j
      BY <2>2
    <3>2. i < j \/ j < i
      BY <1>1, <3>1
    <3>3. (cut[i] .. cut[i + 1] - 1) \cap (cut[j] .. cut[j + 1] - 1) = {}
      BY <2>1, <3>2
    <3>4. QED
      BY <1>2, <3>1, <3>3
  <2>3. QED
    BY <1>2, <2>2
<1>7. UNION {p.bots : p \in parts} = 0 .. herd - 1
  <2>1. ASSUME NEW j \in places, NEW b \in cut[j] .. cut[j + 1] - 1
        PROVE  b \in 0 .. herd - 1
    <3>1. j \in 0 .. count /\ j + 1 \in 0 .. count
      BY <1>1
    <3>2. cut[j] \in Nat /\ cut[j + 1] \in Nat /\ cut[j + 1] <= herd
      BY <1>4, <3>1
    <3>3. QED
      BY <1>1, <3>2
  <2>2. ASSUME NEW b \in 0 .. herd - 1
        PROVE  \E j \in places : b \in cut[j] .. cut[j + 1] - 1
    BY <1>1, CutsCover
  <2>3. ASSUME NEW p \in parts PROVE p.bots \subseteq 0 .. herd - 1
    <3>1. PICK j \in places : p.bots = cut[j] .. cut[j + 1] - 1
      BY <1>2
    <3>2. QED
      BY <2>1, <3>1
  <2>4. ASSUME NEW b \in 0 .. herd - 1 PROVE \E p \in parts : b \in p.bots
    <3>1. PICK j \in places : b \in cut[j] .. cut[j + 1] - 1
      BY <2>2
    <3>2. Part(n, j) \in parts /\ Part(n, j).bots = cut[j] .. cut[j + 1] - 1
      BY <1>2
    <3>3. QED
      BY <3>1, <3>2
  <2>5. QED
    BY <2>3, <2>4
<1>8. Joinable(parts, Part(n, 0)) /\ Part(n, 0) \in parts
  <2>1. /\ \A p \in parts : p.parts = count /\ p.part \in places /\ p.seq = Stamp(n) /\ p.herd = herd
        /\ Part(n, 0) \in parts /\ Part(n, 0).part = 0
        /\ Part(n, 0).seq = Stamp(n) /\ Part(n, 0).herd = herd
    BY <1>2, <1>3
  <2>2. \E c \in {p.parts : p \in parts} :
           /\ \A p \in parts : p.parts <= c /\ p.part < c
           /\ Cardinality(parts) = c
    <3>1. count \in {p.parts : p \in parts}
      BY <2>1
    <3>2. \A p \in parts : p.parts <= count /\ p.part < count
      BY <1>1, <2>1
    <3>3. QED
      BY <1>5, <3>1, <3>2
  <2>3. QED
    BY <1>6, <1>7, <2>1, <2>2 DEF Joinable
<1>9. JoinWorld(parts) # {}
  BY <1>8 DEF JoinWorld
<1>10. QED
  BY <1>9, JoinIsWorld DEF parts

-----------------------------------------------------------------------------
(* The newest is shown. *)

Holds(n) == \A k \in 0 .. published[n].count - 1 : Part(n, k) \in heard => slots[k] = Part(n, k)

HeardOf(n) == \E p \in heard : p.of = n

\* The newest snapshot the client heard of was shown, or every part of it that
\* has come is in its slot.
Latest ==
  \A n \in Snaps : HeardOf(n) /\ Newest(n) => IsShown(n) \/ (seq = Stamp(n) /\ Holds(n))

WholeView == Inv /\ GatherIsOfOneSnapshot /\ Fits /\ Latest

LEMMA HeardAreParts ==
  ASSUME Inv, NEW p \in heard
  PROVE  p.of \in Snaps /\ \E j \in 0 .. published[p.of].count - 1 : p = Part(p.of, j)
<1>1. PICK n \in Snaps, j \in Nat : Sent(p, n, j)
  BY DEF Inv, Travel, IsSent
<1>2. p = Part(n, j) /\ j \in 0 .. published[n].count - 1 /\ p.of = n
  BY <1>1 DEF Sent, Part
<1>3. QED
  BY <1>1, <1>2

\* Who is being gathered was heard of.
LEMMA GatheredIsHeard ==
  ASSUME Inv, GatherIsOfOneSnapshot, seq # None
  PROVE  \E n \in Snaps : seq = Stamp(n) /\ HeardOf(n) /\ DOMAIN slots = 0 .. published[n].count - 1
<1>1. PICK n \in Snaps :
        /\ seq = Stamp(n) /\ DOMAIN slots = 0 .. published[n].count - 1
        /\ \A k \in DOMAIN slots : slots[k] \in {None, Part(n, k)}
        /\ {None} # {slots[k] : k \in DOMAIN slots}
  BY DEF GatherIsOfOneSnapshot
<1>2. PICK m \in Snaps : Gathers(m)
  BY DEF Inv, Gathered
<1>3. m = n
  BY <1>1, <1>2, StampsDiffer DEF Inv, Gathers
<1>4. published[n].count \in Nat \ {0}
  BY SnapshotFields, GatherAssumption DEF Inv, Record, Snaps
<1>5. PICK k \in DOMAIN slots : slots[k] # None
  BY <1>1, <1>4
<1>6. slots[k] \in heard /\ slots[k] = Part(n, k)
  BY <1>1, <1>2, <1>3, <1>5 DEF Gathers
<1>7. Part(n, k).of = n
  BY DEF Part
<1>8. QED
  BY <1>1, <1>6, <1>7 DEF HeardOf

\* What is shown and heard of does not change while the client reads nothing.
LEMMA QuietLatest ==
  ASSUME Latest, UNCHANGED <<published, seq, slots, heard, worlds>>
  PROVE  Latest'
<1>1. \A n \in Snaps : /\ Holds(n)' <=> Holds(n)
                       /\ HeardOf(n)' <=> HeardOf(n)
                       /\ Newest(n)' <=> Newest(n)
                       /\ IsShown(n)' <=> IsShown(n)
                       /\ Stamp(n)' = Stamp(n)
  BY SameSnapshots DEF Holds, HeardOf, Newest, IsShown, Stamp
<1>2. QED
  BY <1>1, SameSnapshots DEF Latest

LEMMA PublishLatest ==
  ASSUME Inv, Latest, Publish
  PROVE  Latest'
<1>1. UNCHANGED <<seq, slots, heard, worlds>>
  BY DEF Publish, gatherVars
<1>2. ASSUME NEW n \in Snaps', HeardOf(n)', Newest(n)'
      PROVE  (IsShown(n) \/ (seq = Stamp(n) /\ Holds(n)))'
  <2>1. HeardOf(n) /\ Newest(n)
    BY <1>1, <1>2 DEF HeardOf, Newest
  <2>2. n \in Snaps
    BY <2>1, HeardAreParts DEF HeardOf
  <2>3. /\ published'[n] = published[n] /\ World(n)' = World(n)
        /\ \A j : Part(n, j)' = Part(n, j)
    BY <2>2, PublishKeeps DEF Inv
  <2>4. IsShown(n) \/ (seq = Stamp(n) /\ Holds(n))
    BY <2>1, <2>2 DEF Latest
  <2>5. IsShown(n) => IsShown(n)'
    BY <1>1, <2>3 DEF IsShown
  <2>6. seq = Stamp(n) /\ Holds(n) => (seq = Stamp(n) /\ Holds(n))'
    BY <1>1, <2>3 DEF Holds, Stamp
  <2>7. QED
    BY <2>4, <2>5, <2>6
<1>3. QED
  BY <1>2 DEF Latest

LEMMA ReceiveLatest ==
  ASSUME WholeView, NEW p \in flight, Receive(p)
  PROVE  Latest'
<1> USE DEF WholeView
<1>0. PICK n \in Snaps : \E j \in 0 .. published[n].count - 1 :
        /\ p = Part(n, j) /\ p \in PartsOf(n) /\ p \in SomePart
        /\ p.seq = Stamp(n) /\ p.parts = published[n].count /\ p.part = j
        /\ p \notin heard
  BY PartInFlight
<1>1. PICK j \in 0 .. published[n].count - 1 :
        /\ p = Part(n, j) /\ p \in PartsOf(n) /\ p \in SomePart
        /\ p.seq = Stamp(n) /\ p.parts = published[n].count /\ p.part = j
        /\ p \notin heard
  BY <1>0
<1>2. p.of = n /\ p # None
  BY <1>1, PartIsPart DEF Part, Inv
<1>3. UNCHANGED published /\ heard' = heard \cup {p}
  BY DEF Receive
<1>4. \A m \in Snaps : Stamp(m) = m - 1 /\ Stamp(m) \in Nat /\ m \in Nat /\ Stamp(m)' = Stamp(m)
  <2>1. \A m \in Snaps : m \in 1 .. MaxPublished
    BY GatherAssumption DEF Inv, Record, Snaps
  <2>2. QED
    BY <2>1, StampIsExact, GatherAssumption DEF Stamp
<1>5. ASSUME NEW m \in Snaps, HeardOf(m)', Newest(m)'
      PROVE  (IsShown(m) \/ (seq = Stamp(m) /\ Holds(m)))'
  <2>1. n <= m /\ \A k \in Snaps : HeardOf(k) => k <= m
    BY <1>2, <1>3, <1>5 DEF Newest, HeardOf
  <2>2. worlds \in Seq(AllWorlds) /\ \A k \in Snaps : World(k)' = World(k) /\ World(k) \in AllWorlds
    BY <1>3, SameSnapshots, WorldIsTyped DEF Inv, Record
  <2>3. CASE m # n
    <3>1. HeardOf(m) /\ Newest(m)
      BY <1>2, <1>3, <1>5, <2>3 DEF HeardOf, Newest
    <3>2. CASE IsShown(m)
      <4>1. PICK i \in 1 .. Len(worlds) : worlds[i] = World(m)
        BY <3>2 DEF IsShown
      <4>2. worlds' = worlds \/ \E w \in AllWorlds : worlds' = Append(worlds, w)
        BY <2>2, ReceiveGathers
      <4>3. i \in 1 .. Len(worlds') /\ worlds'[i] = worlds[i]
        BY <2>2, <4>1, <4>2
      <4>4. QED
        BY <2>2, <4>1, <4>3 DEF IsShown
    <3>3. CASE seq = Stamp(m) /\ Holds(m)
      <4>1. Stale(p)
        BY <1>1, <1>4, <2>1, <2>3, <3>3, GatherAssumption DEF Stale
      <4>2. UNCHANGED <<seq, slots>>
        BY <4>1 DEF Receive, gatherVars
      <4>3. \A k \in 0 .. published[m].count - 1 : Part(m, k) \in heard' => Part(m, k) \in heard
        <5>1. \A k : Part(m, k).of = m
          BY DEF Part
        <5>2. QED
          BY <1>2, <1>3, <2>3, <5>1
      <4>4. Holds(m)'
        BY <1>3, <3>3, <4>2, <4>3, SameSnapshots DEF Holds
      <4>5. QED
        BY <1>4, <3>3, <4>2, <4>4
    <3>4. QED
      BY <3>1, <3>2, <3>3 DEF Latest
  <2>4. CASE m = n
    <3> DEFINE places == 0 .. published[n].count - 1
               filled == Filled(p)
               parts == {filled[k] : k \in DOMAIN filled} \ {None}
    <3>1. ~Stale(p)
      <4>1. CASE seq # None
        <5>1. PICK k \in Snaps : seq = Stamp(k) /\ HeardOf(k)
          BY <4>1, GatheredIsHeard
        <5>2. k <= n
          BY <2>1, <2>4, <5>1
        <5>3. QED
          BY <1>1, <1>4, <5>1, <5>2 DEF Stale
      <4>2. QED
        BY <4>1 DEF Stale
    <3>2. Feed(p)
      BY <3>1 DEF Receive
    <3>3. /\ filled \in [places -> SomePart \cup {None}]
          /\ \A k \in places : filled[k] = None \/ filled[k] = Part(n, k)
      BY <1>1, FilledSlots
    <3>4. filled[j] = Part(n, j)
      <4>1. j \in DOMAIN filled
        BY <1>1, <3>3
      <4>2. filled[j] = IF SlotsFor(p)[j] = None THEN p ELSE SlotsFor(p)[j]
        BY <1>1, <4>1 DEF Filled
      <4>3. filled[j] # None
        BY <1>2, <4>2
      <4>4. QED
        BY <3>3, <4>3
    <3>5. \A k \in places : Part(n, k) \in heard' => filled[k] = Part(n, k)
      <4> SUFFICES ASSUME NEW k \in places, Part(n, k) \in heard', k # j
                   PROVE  filled[k] = Part(n, k)
        BY <3>4
      <4>1. Part(n, k).of = n /\ Part(n, k).part = k
        BY DEF Part
      <4>2. Part(n, k) \in heard
        BY <1>1, <1>3, <4>1
      <4>3. HeardOf(n) /\ Newest(n)
        BY <1>3, <1>5, <2>4, <4>1, <4>2 DEF HeardOf, Newest
      <4>4. ~IsShown(n)
        <5> SUFFICES ASSUME NEW i \in 1 .. Len(worlds), worlds[i] = World(n) PROVE FALSE
          BY DEF IsShown
        <5>1. PICK q \in Snaps : worlds[i] = World(q) /\ PartsOf(q) \subseteq heard
          BY DEF Inv, ShownWhole
        <5>2. q = n
          BY <5>1 DEF World
        <5>3. QED
          BY <1>1, <5>1, <5>2
      <4>5. seq = Stamp(n) /\ Holds(n)
        BY <4>3, <4>4 DEF Latest
      <4>6. seq # None
        BY <1>4, <4>5, GatherAssumption
      <4>7. DOMAIN slots = places
        <5>1. PICK q \in Snaps : seq = Stamp(q) /\ DOMAIN slots = 0 .. published[q].count - 1
          BY <4>6, GatheredIsHeard
        <5>2. q = n
          BY <4>5, <5>1, StampsDiffer DEF Inv
        <5>3. QED
          BY <5>1, <5>2
      <4>8. SlotsFor(p) = slots
        BY <1>1, <4>5, <4>7 DEF SlotsFor
      <4>9. filled = [slots EXCEPT ![j] = IF slots[j] = None THEN p ELSE slots[j]]
        BY <1>1, <4>8 DEF Filled
      <4>10. filled[k] = slots[k]
        BY <4>7, <4>9
      <4>11. QED
        BY <4>2, <4>5, <4>10 DEF Holds
    <3> HIDE DEF filled
    <3>6. CASE ~IsComplete(filled)
      <4>1. seq' = Stamp(n) /\ slots' = filled
        BY <1>1, <3>2, <3>6 DEF Feed, filled
      <4>2. Holds(n)'
        BY <1>3, <3>5, <4>1, SameSnapshots DEF Holds
      <4>3. QED
        BY <1>4, <2>4, <4>1, <4>2
    <3>7. CASE IsComplete(filled)
      <4>1. parts = PartsOf(n)
        BY <1>1, <3>3, <3>7, PartIsPart DEF PartsOf, IsComplete, Inv
      <4>2. JoinWorld(parts) = {World(n)}
        BY <4>1, PartsAreJoinable DEF Inv
      <4>3. worlds' = Append(worlds, World(n))
        <5>1. \/ \E world \in JoinWorld(parts) : worlds' = Append(worlds, world)
              \/ JoinWorld(parts) = {} /\ UNCHANGED worlds
          BY <3>2, <3>7 DEF Feed, filled
        <5> HIDE DEF parts
        <5>2. QED
          BY <4>2, <5>1
      <4>4. Len(worlds') \in 1 .. Len(worlds') /\ worlds'[Len(worlds')] = World(n)
        BY <2>2, <4>3
      <4>5. IsShown(n)'
        BY <2>2, <4>4 DEF IsShown
      <4>6. QED
        BY <2>4, <4>5
    <3>8. QED
      BY <3>6, <3>7
  <2>5. QED
    BY <2>3, <2>4
<1>6. QED
  BY <1>3, <1>5, SameSnapshots DEF Latest

LEMMA ViewIsKept == WholeView /\ [Next]_vars => WholeView'
<1> SUFFICES ASSUME WholeView, [Next]_vars PROVE WholeView'
  OBVIOUS
<1>1. Inv' /\ GatherIsOfOneSnapshot'
  BY NextInv, NextSlots DEF WholeView
<1>2. Fits'
  BY FitsIsKept DEF WholeView, Inv
<1>3. Latest'
  <2>1. CASE Publish
    BY <2>1, PublishLatest DEF WholeView
  <2>2. CASE Send \/ Listen \/ (\E p \in flight : Drop(p)) \/ UNCHANGED vars
    BY <2>2, QuietLatest DEF WholeView, Send, Listen, Drop, vars, gatherVars
  <2>3. ASSUME NEW p \in flight, Receive(p) PROVE Latest'
    BY <2>3, ReceiveLatest
  <2>4. QED
    BY <2>1, <2>2, <2>3 DEF Next
<1>4. QED
  BY <1>1, <1>2, <1>3 DEF WholeView

LEMMA ViewSays == WholeView => NewestIsShown
<1> SUFFICES ASSUME WholeView, NEW q \in heard, Newest(q.of)
             PROVE  PartsOf(q.of) \subseteq heard <=> IsShown(q.of)
  BY DEF NewestIsShown
<1> DEFINE n == q.of
<1>1. n \in Snaps /\ HeardOf(n) /\ Inv /\ GatherIsOfOneSnapshot /\ Latest
  BY HeardAreParts DEF HeardOf, WholeView
<1> HIDE DEF n
<1>2. ASSUME IsShown(n) PROVE PartsOf(n) \subseteq heard
  <2>1. PICK i \in 1 .. Len(worlds) : worlds[i] = World(n)
    BY <1>2 DEF IsShown
  <2>2. PICK m \in Snaps : worlds[i] = World(m) /\ PartsOf(m) \subseteq heard
    BY <1>1 DEF Inv, ShownWhole
  <2>3. m = n
    BY <2>1, <2>2 DEF World
  <2>4. QED
    BY <2>2, <2>3
<1>3. ASSUME PartsOf(n) \subseteq heard, ~IsShown(n) PROVE FALSE
  <2>1. seq = Stamp(n) /\ Holds(n)
    BY <1>1, <1>3 DEF Latest, n
  <2>2. seq # None
    <3>1. n \in 1 .. MaxPublished
      BY <1>1, GatherAssumption DEF Inv, Record, Snaps
    <3>2. QED
      BY <2>1, <3>1, StampIsExact, GatherAssumption
  <2>3. PICK m \in Snaps : /\ seq = Stamp(m) /\ DOMAIN slots = 0 .. published[m].count - 1
                           /\ ~IsComplete(slots)
    BY <1>1, <2>2 DEF GatherIsOfOneSnapshot
  <2>4. m = n
    BY <1>1, <2>1, <2>3, StampsDiffer DEF Inv
  <2>5. \A k \in 0 .. published[n].count - 1 : slots[k] = Part(n, k) /\ Part(n, k) # None
    BY <1>1, <1>3, <2>1, PartIsPart DEF Holds, PartsOf, Inv
  <2>6. QED
    BY <2>3, <2>4, <2>5 DEF IsComplete
<1>4. QED
  BY <1>2, <1>3 DEF n

LEMMA ViewAtFirst == Init => WholeView
<1> SUFFICES ASSUME Init PROVE WholeView
  OBVIOUS
<1>1. Inv /\ GatherIsOfOneSnapshot
  BY InitInv DEF Init, GatherIsOfOneSnapshot
<1>2. Fits /\ Latest
  BY DEF Init, Fits, Latest, Snaps
<1>3. QED
  BY <1>1, <1>2 DEF WholeView

\* Of all the snapshots a client heard of the newest is in its scene exactly
\* when every part of it has come, whatever was lost, late or overtaken
\* (`WorldGather::feed`, `join_world`).
THEOREM NewestIsAlwaysShown == Spec => []NewestIsShown
BY ViewAtFirst, ViewIsKept, ViewSays, PTL DEF Spec

-----------------------------------------------------------------------------
(* The server, whose loop publishes.                                       *)
\* A step of the server is a step of the world's way to a player, or none.
LEMMA ServerSteps == [ServerNext]_allVars => [Next]_vars
<1> SUFFICES ASSUME [ServerNext]_allVars PROVE Next \/ UNCHANGED vars
  OBVIOUS
<1>1. CASE BindNode \/ StartHost \/ StartScene \/ JoinSwarm \/ StartRegistry \/ BindPages \/ GiveUp
  BY <1>1 DEF BindNode, StartHost, StartScene, JoinSwarm, StartRegistry, BindPages, GiveUp, Boot
<1>2. ASSUME NEW p \in Players, Join(p) \/ LeaveTable(p) \/ Announce(p) \/ ReportUp(p)
      PROVE  Next \/ UNCHANGED vars
  BY <1>2 DEF Join, LeaveTable, Announce, ReportUp, Next
<1>3. CASE Tick \/ SendPart \/ TakeEvent \/ Restate
  BY <1>3 DEF Tick, PublishWorld, SendPart, TakeEvent, Restate, Next
<1>4. CASE Signal \/ StopLoop \/ FailStep
  BY <1>4 DEF Signal, StopLoop, FailStep, LeaveLoop, GoDown
<1>5. CASE CloseHost \/ StopRegistry \/ CloseNode
  BY <1>5 DEF CloseHost, StopRegistry, CloseNode, GoDown
<1>6. CASE OnTheWay
  BY <1>6 DEF OnTheWay, Next
<1>7. CASE UNCHANGED allVars
  BY <1>7 DEF allVars
<1>8. QED
  BY <1>1, <1>2, <1>3, <1>4, <1>5, <1>6, <1>7 DEF ServerNext

LEMMA ServerGathers == ServerSpec => Spec
<1>1. ServerInit => Init
  BY DEF ServerInit
<1>2. QED
  BY <1>1, ServerSteps, PTL DEF ServerSpec, Spec

\* Through the whole server, from the loop that publishes to the scene of a
\* player: only whole worlds, each once.
THEOREM ServedWorldsAreWhole == ServerSpec => OnlyWholeWorlds
BY ServerGathers, WorldsAreWhole, PTL

\* The same of the server, whose loop publishes between all else it does.
THEOREM ServedNewestIsShown == ServerSpec => []NewestIsShown
BY ServerGathers, NewestIsAlwaysShown, PTL

-----------------------------------------------------------------------------

\* Somebody has come or gone, and the loop has still to handle it.
Pending ==
  \/ \E p \in Players : saying[p] \in {"joined", "left"}
  \/ \E i \in 1 .. Len(events) : events[i].kind = "roster"

(* The advert is wrong only while its correction is under way.  The table  *)
(* is changed in the step that gives a handler its announcement to make,   *)
(* the announcement becomes an event in one step, and the event is taken   *)
(* by the step that counts anew, so nothing is lost in between.  Only who  *)
(* is in the swarm has an advert, and none before the loop.                *)
Kinds == {"roster", "bite", "bang"}

Counted ==
  /\ guests \subseteq Guests
  /\ listening \in BOOLEAN
  /\ saying \in [Players -> {"nothing", "joined", "serving", "left", "gone"}]
  /\ noted \in [Players -> Int]
  /\ events \in Seq([kind : Kinds, players : Int])
  /\ stage \in {"node", "host", "scene", "swarm", "registry", "pages"} => advert = 0
  /\ advert # 0 => swarm
  /\ advert \notin {0, Clients} => Pending

LEMMA ClientsType == ASSUME guests \subseteq Guests PROVE Clients \in Nat
<1>1. IsFiniteSet(guests)
  BY FS_Subset, GoatsdAssumption
<1>2. Cardinality(guests) \in Nat
  BY <1>1, FS_CardinalityType
<1>3. QED
  BY <1>2 DEF Clients

LEMMA InitCounted == ServerInit => Counted
<1> SUFFICES ASSUME ServerInit PROVE Counted
  OBVIOUS
<1>1. /\ guests = {} /\ listening = FALSE /\ advert = 0 /\ events = << >>
      /\ saying = [p \in Players |-> "nothing"]
      /\ noted = [p \in Players |-> 0]
  BY DEF ServerInit, Init
<1>2. events \in Seq([kind : Kinds, players : Int])
  BY <1>1
<1>3. saying \in [Players -> {"nothing", "joined", "serving", "left", "gone"}]
  BY <1>1
<1>4. noted \in [Players -> Int]
  BY <1>1
<1>5. advert = 0 /\ guests \subseteq Guests /\ listening \in BOOLEAN
  BY <1>1
<1>6. QED
  BY <1>2, <1>3, <1>4, <1>5 DEF Counted

\* The players' handlers: the table is never changed in silence.
LEMMA RoomCounted ==
  ASSUME Counted, NEW p \in Players, Join(p) \/ LeaveTable(p) \/ Announce(p) \/ ReportUp(p)
  PROVE  Counted'
<1>0. Clients \in Nat
  BY ClientsType DEF Counted
<1>1. UNCHANGED <<stage, swarm, advert>> /\ listening' \in BOOLEAN
  BY DEF Counted, Join, LeaveTable, Announce, ReportUp, Room, bootVars, deskVars, Listen, vars
<1>2. CASE Join(p)
  <2>1. /\ guests' \subseteq Guests
        /\ saying' = [saying EXCEPT ![p] = "joined"]
        /\ noted' = [noted EXCEPT ![p] = Clients + 1]
        /\ UNCHANGED events
    BY <1>2 DEF Join, Says, Counted, Players
  <2>2. saying'[p] = "joined"
    BY <2>1 DEF Counted
  <2>3. Pending'
    BY <2>2 DEF Pending
  <2>4. QED
    BY <1>0, <1>1, <2>1, <2>3 DEF Counted
<1>3. CASE LeaveTable(p)
  <2>1. /\ guests' \subseteq Guests
        /\ saying' = [saying EXCEPT ![p] = "left"]
        /\ noted' = [noted EXCEPT ![p] = Clients - 1]
        /\ UNCHANGED events
    BY <1>3 DEF LeaveTable, Says, Counted, Players
  <2>2. saying'[p] = "left"
    BY <2>1 DEF Counted
  <2>3. Pending'
    BY <2>2 DEF Pending
  <2>4. QED
    BY <1>0, <1>1, <2>1, <2>3 DEF Counted
<1>4. CASE Announce(p)
  <2>1. /\ UNCHANGED <<guests, listening, noted>>
        /\ saying' \in [Players -> {"nothing", "joined", "serving", "left", "gone"}]
        /\ events' = Append(events, [kind |-> "roster", players |-> noted[p]])
    BY <1>4 DEF Announce, Says, Counted, vars
  <2>2. events' \in Seq([kind : Kinds, players : Int])
    BY <2>1 DEF Counted, Kinds
  <2>3. Len(events') \in 1 .. Len(events') /\ events'[Len(events')].kind = "roster"
    BY <2>1 DEF Counted
  <2>4. Pending'
    BY <2>3 DEF Pending
  <2>5. QED
    BY <1>1, <2>1, <2>2, <2>4 DEF Counted
<1>5. CASE ReportUp(p)
  <2>1. UNCHANGED <<guests, listening, saying, noted>>
    BY <1>5 DEF ReportUp, vars
  <2>2. PICK kind \in {"bite", "bang"} :
          events' = Append(events, [kind |-> kind, players |-> 0])
    BY <1>5 DEF ReportUp
  <2>3. events' \in Seq([kind : Kinds, players : Int])
    BY <2>2 DEF Counted, Kinds
  <2>4. \A i \in 1 .. Len(events) : i \in 1 .. Len(events') /\ events'[i] = events[i]
    BY <2>2 DEF Counted
  <2>5. Pending => Pending'
    BY <2>1, <2>4 DEF Pending
  <2>6. Clients' = Clients
    BY <2>1 DEF Clients
  <2>7. QED
    BY <1>1, <2>1, <2>3, <2>5, <2>6 DEF Counted
<1>6. QED
  BY <1>2, <1>3, <1>4, <1>5

\* An event that is taken is a roster, and the advert counts anew, or it is not
\* the one that is waited for.
LEMMA TakeCounted == Counted /\ TakeEvent => Counted'
<1> SUFFICES ASSUME Counted, TakeEvent PROVE Counted'
  OBVIOUS
<1>1. /\ UNCHANGED <<guests, listening, saying, noted, stage, swarm>>
      /\ stage = "loop"
      /\ events # << >>
      /\ events' = Tail(events)
  BY DEF TakeEvent, AtDesk, roomVars, bootVars, vars, Rest
<1>2. Clients' = Clients
  BY <1>1 DEF Clients
<1>3. events' \in Seq([kind : Kinds, players : Int])
  BY <1>1 DEF Counted
<1>4. CASE Roster(events[1])
  <2>1. advert' = IF swarm THEN Clients ELSE advert
    BY <1>4 DEF Roster, AsCounted
  <2>2. QED
    BY <1>1, <1>2, <1>3, <2>1 DEF Counted
<1>5. CASE Bite(events[1]) \/ Bang(events[1])
  <2>1. advert' = advert /\ events[1].kind # "roster"
    BY <1>5 DEF Bite, Bang
  <2>2. \A i \in 1 .. Len(events) :
          events[i].kind = "roster" => i - 1 \in 1 .. Len(events') /\ events'[i - 1] = events[i]
    BY <1>1, <2>1 DEF Counted
  <2>3. Pending => Pending'
    BY <1>1, <2>2 DEF Pending
  <2>4. QED
    BY <1>1, <1>2, <1>3, <2>1, <2>3 DEF Counted
<1>6. QED
  BY <1>4, <1>5 DEF TakeEvent

LEMMA NextCounted == Counted /\ [ServerNext]_allVars => Counted'
<1> SUFFICES ASSUME Counted, [ServerNext]_allVars PROVE Counted'
  OBVIOUS
<1> DEFINE Kept == UNCHANGED <<guests, listening, saying, noted, events>>
<1>1. ASSUME Kept PROVE Clients' = Clients /\ Pending' = Pending
  BY <1>1 DEF Clients, Pending
<1>2. CASE BindNode \/ StartHost \/ StartScene \/ JoinSwarm \/ StartRegistry \/ BindPages \/ GiveUp
  <2>1. Kept /\ UNCHANGED advert
    BY <1>2 DEF BindNode, StartHost, StartScene, JoinSwarm, StartRegistry, BindPages, GiveUp,
                Boot, roomVars, deskVars, vars
  <2>2. stage \in {"node", "host", "scene", "swarm", "registry", "pages"}
    BY <1>2 DEF BindNode, StartHost, StartScene, JoinSwarm, StartRegistry, BindPages, GiveUp, Boot
  <2>3. QED
    BY <1>1, <2>1, <2>2 DEF Counted
<1>3. CASE Tick \/ SendPart \/ OnTheWay
  <2>1. Kept /\ UNCHANGED <<stage, swarm, advert>>
    BY <1>3 DEF Tick, PublishWorld, Publish, SendPart, Send, OnTheWay, Drop, Receive,
                serverVars, roomVars, bootVars, deskVars, vars
  <2>2. QED
    BY <1>1, <2>1 DEF Counted
<1>4. CASE Restate
  <2>1. Kept /\ UNCHANGED <<stage, swarm>> /\ advert' = Clients /\ swarm /\ stage = "loop"
    BY <1>4 DEF Restate, AtDesk, roomVars, bootVars, vars
  <2>2. QED
    BY <1>1, <2>1 DEF Counted
<1>5. CASE Signal \/ StopLoop \/ FailStep \/ CloseHost \/ StopRegistry \/ CloseNode
  <2>1. Kept /\ UNCHANGED <<swarm, advert>>
    BY <1>5 DEF Signal, StopLoop, FailStep, LeaveLoop, CloseHost, StopRegistry, CloseNode,
                GoDown, roomVars, bootVars, deskVars, vars
  <2>2. stage' \notin {"node", "host", "scene", "swarm", "registry", "pages"}
    BY <1>5 DEF Signal, StopLoop, FailStep, LeaveLoop, CloseHost, StopRegistry, CloseNode, GoDown
  <2>3. QED
    BY <1>1, <2>1, <2>2 DEF Counted
<1>6. CASE UNCHANGED allVars
  <2>1. Kept /\ UNCHANGED <<stage, swarm, advert>>
    BY <1>6 DEF allVars, serverVars, roomVars, bootVars, deskVars, vars
  <2>2. QED
    BY <1>1, <2>1 DEF Counted
<1>7. QED
  BY <1>2, <1>3, <1>4, <1>5, <1>6, RoomCounted, TakeCounted DEF ServerNext

\* For any number of players, in whatever order their handlers get to announce
\* them: when nothing is left to be handled, the portal's advert counts them.
THEOREM PortalsCount == ServerSpec => []PortalCountsThePlayers
<1>1. Counted => PortalCountsThePlayers
  BY DEF Counted, PortalCountsThePlayers, AtRest, Pending
<1>2. QED
  BY <1>1, InitCounted, NextCounted, PTL DEF ServerSpec

=============================================================================
