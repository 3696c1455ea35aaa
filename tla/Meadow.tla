------------------------------- MODULE Meadow -------------------------------
(***************************************************************************)
(* The ground a session shares: the tufts that are eaten, the devices that *)
(* have gone off, the craters.  Each process runs the scene                *)
(* (src/crates/goats/src/game/food.js, explosions.js, net.js); the host's  *)
(* is the authority.  A bite and a bang go up as frames                    *)
(* (src/crates/session/src/lib.rs), the host (the game's network thread or *)
(* src/crates/server/src/main.rs) records them, relays bangs as frames and *)
(* publishes the whole ground as datagrams.                                *)
(*                                                                         *)
(* A device is a kind and a cell.  The layout is derived from the seed and *)
(* so is where a fired device moves: Ring lists the candidates for each.   *)
(* The host's handler, event queue, loop and (in a game) outbox are FIFOs  *)
(* in a row and one step here; the frame waits in "up" instead.            *)
(***************************************************************************)
EXTENDS Integers, Sequences, FiniteSets, SequencesExt

CONSTANTS
  Clients, Early,       \* Early: those in the session from the start
  Cells, Tufts,         \* Tufts: the cells the meadow grows a tuft in
  Laid,                 \* the derived field: SUBSET Device
  Ring,                 \* [Device -> Seq(Cells)]: the draws of relocateDevice
  Reach,                \* [Cells -> Seq(Cells)]: cells a bang there reaches
  Under,                \* [Cells -> SUBSET Tufts]: tufts a crater there covers
  Leftovers,            \* what a joiner may have spent in its own world
  Dedicated,            \* is the host goatsd?
  ChainDepth,           \* TUNING.explosions.chainDepth
  Budget,               \* entries a snapshot has room for
  MaxAir,               \* bound: snapshots under way to a client
  MaxBangs,             \* bound: bangs after which nobody sets one off
  MaxTurns              \* bound: tufts grazed, tufts regrown, craters healed

Authority == "host"
Scenes == {Authority} \cup Clients
Device == [kind : {"mine", "trap"}, cell : Cells]
Mine(c) == [kind |-> "mine", cell |-> c]
Trap(c) == [kind |-> "trap", cell |-> c]

ASSUME PlacesAssumption ==
  /\ Authority \notin Clients /\ Early \subseteq Clients
  /\ Tufts \subseteq Cells /\ Laid \subseteq Device
  /\ \A c \in Cells : Trap(c) \in Laid => c \in Tufts
  /\ DOMAIN Ring = Device /\ \A d \in Device : Ring[d] \in Seq(Cells)
  /\ DOMAIN Reach = Cells /\ \A c \in Cells : Reach[c] \in Seq(Cells)
  /\ Under \in [Cells -> SUBSET Tufts]
  /\ \A l \in Leftovers : l \in Seq(Laid) /\ IsInjective(l)
ASSUME NumbersAssumption ==
  /\ MaxAir \in Nat \ {0}
  /\ {ChainDepth, Budget, MaxBangs, MaxTurns} \subseteq Nat
  /\ Dedicated \in BOOLEAN
\* relocate.min is at least blast.radius
ASSUME RingAssumption ==
  \A d \in Device : ToSet(Ring[d]) \cap ToSet(Reach[d.cell]) = {}

VARIABLES
  present,  \* clients in the session
  ground,   \* [Scenes -> Ground]: what each process holds of the ground
  fuses,    \* [Scenes -> SUBSET Fuse]: PENDING
  up,       \* [Clients -> Seq(Frame)]: frames on their way to the host
  down,     \* [Clients -> Seq(Bang)]: bangs relayed to the client
  aloft,    \* [Clients -> SUBSET Snapshot]: datagrams
  felt,     \* history: [Scenes -> SUBSET Bangs]: bangs applied
  again,    \* history: [Scenes -> SUBSET Bangs]: ... a second time
  owed,     \* history: [Clients -> SUBSET Bangs]: fired while it was present
  untold,   \* history: bangs whose report was not passed on
  bangs, turns \* counters for the bounds

history == <<felt, again, owed, untold>>
counters == <<bangs, turns>>
meadowVars == <<present, ground, fuses, up, down, aloft, history, counters>>

LastBang == MaxBangs * (1 + Cardinality(Cells))
Bangs == 1..LastBang
Fuse == [n : Bangs, device : Device, depth : 0..ChainDepth]
Bang == [n : Bangs, device : Device]
Fresh == [eaten |-> {}, mines |-> <<>>, traps |-> <<>>, moved |-> {}, craters |-> {}]

-----------------------------------------------------------------------------
(* The field of devices.                                                   *)

\* What has gone off where it was laid: SPENT and TRAP_SPENT.
Spent(g) == ToSet(g.mines) \cup ToSet(g.traps)

Armed(g, d) == d \notin Spent(g) /\ (d \in g.moved \/ d \in Laid)

\* Can a device of this kind move to cell c?
Vacant(g, kind, c) ==
  LET d == [kind |-> kind, cell |-> c]
  IN d \notin Spent(g) /\ ~Armed(g, d)
       /\ (kind = "trap" => c \in Tufts \ g.eaten)

\* The first draw that fits, or none: the device is then not replaced.
Relocated(g, d) ==
  LET fits == {i \in DOMAIN Ring[d] : Vacant(g, d.kind, Ring[d][i])}
  IN IF fits = {} THEN g
     ELSE [g EXCEPT !.moved = @ \cup {[kind |-> d.kind, cell |-> Ring[d][Min(fits)]]}]

Spend(g, d) ==
  IF ~Armed(g, d) THEN g
  ELSE Relocated(IF d \in g.moved THEN [g EXCEPT !.moved = @ \ {d}]
                 ELSE IF d.kind = "mine" THEN [g EXCEPT !.mines = Append(@, d)]
                 ELSE [g EXCEPT !.traps = Append(@, d)], d)

SpendAll(g, list) ==
  LET after[i \in 0..Len(list)] ==
        IF i = 0 THEN g ELSE LET before == after[i - 1] IN Spend(before, list[i])
  IN after[Len(list)]

\* A scene with what is on a fuse there: s.ground, s.fuses, s.n (bangs so far).
Trip(s, d, depth) ==
  IF ~Armed(s.ground, d) THEN s
  ELSE [ground |-> Spend(s.ground, d), n |-> s.n + 1,
        fuses |-> s.fuses \cup {[n |-> s.n + 1, device |-> d, depth |-> depth]}]

ChainFrom(s, cell, depth) ==
  LET near == Reach[cell]
      after[i \in 0..Len(near)] ==
        IF i = 0 THEN s
        ELSE LET before == after[i - 1] IN Trip(before, Mine(near[i]), depth)
  IN after[Len(near)]

(* The ground.  Only the host's craters kill and release grass.            *)
AddCrater(p, g, c) ==
  [g EXCEPT !.craters = @ \cup {c},
            !.eaten = IF p = Authority THEN @ \cup Under[c] ELSE @]

RetireCrater(g, c) ==
  LET left == g.craters \ {c}
  IN [g EXCEPT !.craters = left,
               !.eaten = @ \ (Under[c] \ UNION {Under[o] : o \in left})]

\* A bang from elsewhere: spend and dig, but set nothing else off.
RemoteBlast(p, g, d) == AddCrater(p, Spend(g, d), d.cell)

(* A snapshot of the host's ground.  What does not fit is left out whole:  *)
(* the spent devices first, then the meadow, then the craters.             *)
Fit(g) ==
  LET a == Len(g.mines) + Len(g.traps)  b == Cardinality(g.eaten)  c == Cardinality(g.craters)
  IN (IF a + b + c <= Budget THEN {"spent"} ELSE {})
       \cup (IF b + c <= Budget \/ a + b + c <= Budget THEN {"eaten"} ELSE {})
       \cup (IF c <= Budget THEN {"craters"} ELSE {})

\* What is not in "has" does not travel; the properties look at it.
Snapshot(g) ==
  [has |-> Fit(g), eaten |-> g.eaten, craters |-> g.craters, spent |-> g.mines \o g.traps]

AppliedAsMore(g, s) ==                                            \* mutant
  LET h == [g EXCEPT !.eaten = IF "eaten" \in s.has THEN @ \cup s.eaten ELSE @,
                     !.craters = IF "craters" \in s.has THEN s.craters ELSE @]
  IN IF "spent" \in s.has THEN SpendAll(h, s.spent) ELSE h

AppliedCut(g, s) ==                                               \* mutant
  LET h == [g EXCEPT !.eaten = IF "eaten" \in s.has THEN s.eaten ELSE {},
                     !.craters = IF "craters" \in s.has THEN s.craters ELSE @]
  IN IF "spent" \in s.has THEN SpendAll(h, s.spent) ELSE h

Applied(g, s) ==
  LET h == [g EXCEPT !.eaten = IF "eaten" \in s.has THEN s.eaten ELSE @,
                     !.craters = IF "craters" \in s.has THEN s.craters ELSE @]
  IN IF "spent" \in s.has THEN SpendAll(h, s.spent) ELSE h

-----------------------------------------------------------------------------
MeadowInit ==
  /\ present = Early
  /\ ground = [p \in Scenes |-> Fresh]
  /\ fuses = [p \in Scenes |-> {}]
  /\ up = [c \in Clients |-> <<>>] /\ down = [c \in Clients |-> <<>>]
  /\ aloft = [c \in Clients |-> {}]
  /\ felt = [p \in Scenes |-> {}] /\ again = [p \in Scenes |-> {}]
  /\ owed = [c \in Clients |-> {}] /\ untold = {}
  /\ bangs = 0 /\ turns = 0

Playing == {Authority} \cup present
Scene(p) == [ground |-> ground[p], fuses |-> fuses[p], n |-> bangs]
Update(p, s) ==
  /\ ground' = [ground EXCEPT ![p] = s.ground]
  /\ fuses' = [fuses EXCEPT ![p] = s.fuses]
  /\ bangs' = s.n

Report(p, frame) ==
  up' = IF p = Authority THEN up ELSE [up EXCEPT ![p] = Append(@, frame)]

TargetsAll(by) == present                                         \* mutant
TargetsOfGuests(by) == IF by = Authority THEN {} ELSE present \ {by}    \* mutant

\* Everyone the relay names; a host's own bang excepts nobody.
Targets(by) == present \ {by}

Relay(by, n, d) ==
  down' = [c \in Clients |->
             IF c \in Targets(by) THEN Append(down[c], [n |-> n, device |-> d])
             ELSE down[c]]

Feels(p, n) ==
  /\ felt' = [felt EXCEPT ![p] = @ \cup {n}]
  /\ again' = [again EXCEPT ![p] = IF n \in felt[p] THEN @ \cup {n} ELSE @]

(* A goat (a bot, on the host) eats a tuft; a trapped one goes off instead *)
(* of feeding it.                                                          *)
Graze(p, t) ==
  /\ p \in Playing /\ t \in Tufts \ ground[p].eaten /\ turns < MaxTurns
  /\ Armed(ground[p], Trap(t)) => bangs < MaxBangs
  /\ LET s == [Scene(p) EXCEPT !.ground.eaten = @ \cup {t}]
     IN Update(p, Trip(s, Trap(t), 0))
  /\ Report(p, [kind |-> "consume", cell |-> t])
  /\ turns' = turns + 1
  /\ UNCHANGED <<present, down, aloft, history>>

(* A goat steps on a device.  A trap is met at its tuft, if that is there. *)
StepOn(p, d) ==
  /\ p \in Playing /\ Armed(ground[p], d) /\ bangs < MaxBangs
  /\ d.kind = "trap" => d.cell \in Tufts \ ground[p].eaten
  /\ Update(p, Trip(Scene(p), d, 0))
  /\ UNCHANGED <<present, up, down, aloft, history, turns>>

(* The fuse ends.  A game that hosts relays its own bang; goatsd's scene   *)
(* is in no session and tells nobody.                                      *)
GoOff(p, f) ==
  /\ p \in Playing /\ f \in fuses[p]
  /\ LET s == [Scene(p) EXCEPT !.ground = AddCrater(p, @, f.device.cell),
                               !.fuses = @ \ {f}]
     IN Update(p, IF f.depth < ChainDepth
                  THEN ChainFrom(s, f.device.cell, f.depth + 1) ELSE s)
  /\ Feels(p, f.n)
  /\ owed' = [c \in Clients |-> owed[c] \cup (IF c \in present THEN {f.n} ELSE {})]
  /\ Report(p, [kind |-> "blast", n |-> f.n, device |-> f.device])
  /\ IF p = Authority /\ ~Dedicated THEN Relay(Authority, f.n, f.device) ELSE UNCHANGED down
  /\ untold' = IF p = Authority /\ Dedicated THEN untold \cup {f.n} ELSE untold
  /\ UNCHANGED <<present, aloft, turns>>

(* The host reads a client's frame: a bite is recorded unless the tuft is  *)
(* gone already; a bang is applied, wherever the device is by now, and     *)
(* relayed.                                                                *)
HearBite(c) ==
  /\ up[c] # <<>> /\ Head(up[c]).kind = "consume"
  /\ up' = [up EXCEPT ![c] = Tail(@)]
  /\ ground' = [ground EXCEPT ![Authority].eaten = @ \cup {Head(up[c]).cell}]
  /\ UNCHANGED <<present, fuses, down, aloft, history, counters>>

\* deviceAt: a trap is only where a tuft is.
Known(d) == d.kind = "trap" => d.cell \in Tufts

HearBang(c) ==
  /\ up[c] # <<>> /\ Head(up[c]).kind = "blast"
  /\ up' = [up EXCEPT ![c] = Tail(@)]
  /\ LET bang == Head(up[c])
     IN IF Known(bang.device)
        THEN /\ ground' = [ground EXCEPT ![Authority] = RemoteBlast(Authority, @, bang.device)]
             /\ Feels(Authority, bang.n)
             /\ Relay(c, bang.n, bang.device)
        ELSE UNCHANGED <<ground, felt, again, down>>
  /\ UNCHANGED <<present, fuses, aloft, owed, untold, counters>>

(* Over its burst a report is dropped without a word.  RateLimit says when *)
(* that is; here it may be any.                                            *)
DropReport(c) ==
  /\ up[c] # <<>>
  /\ up' = [up EXCEPT ![c] = Tail(@)]
  /\ untold' = untold \cup {f.n : f \in {g \in {Head(up[c])} : g.kind = "blast"}}
  /\ UNCHANGED <<present, ground, fuses, down, aloft, felt, again, owed, counters>>

(* A client applies a relayed bang.                                        *)
ApplyBang(c) ==
  /\ down[c] # <<>>
  /\ LET bang == Head(down[c])
     IN /\ ground' = [ground EXCEPT ![c] = RemoteBlast(c, @, bang.device)]
        /\ Feels(c, bang.n)
  /\ down' = [down EXCEPT ![c] = Tail(@)]
  /\ UNCHANGED <<present, fuses, up, aloft, owed, untold, counters>>

(* The host publishes; what is under way may be lost meanwhile.            *)
Publish ==
  /\ present # {}
  /\ \E kept \in SUBSET UNION {aloft[c] : c \in present} :
       /\ Cardinality(kept) < MaxAir
       /\ aloft' = [c \in Clients |->
                    IF c \in present
                    THEN (aloft[c] \cap kept) \cup {Snapshot(ground[Authority])} ELSE {}]
  /\ UNCHANGED <<present, ground, fuses, up, down, history, counters>>

Mirror(c, s) ==
  /\ s \in aloft[c]
  /\ ground' = [ground EXCEPT ![c] = Applied(@, s)]
  /\ aloft' = [aloft EXCEPT ![c] = @ \ {s}]
  /\ UNCHANGED <<present, fuses, up, down, history, counters>>

(* The host's clock: a tuft grows back, a crater heals.                    *)
Regrow(t) ==
  /\ t \in ground[Authority].eaten /\ turns < MaxTurns
  /\ ground' = [ground EXCEPT ![Authority].eaten = @ \ {t}]
  /\ turns' = turns + 1
  /\ UNCHANGED <<present, fuses, up, down, aloft, history, bangs>>

Heal(x) ==
  /\ x \in ground[Authority].craters /\ turns < MaxTurns
  /\ ground' = [ground EXCEPT ![Authority] = RetireCrater(@, x)]
  /\ turns' = turns + 1
  /\ UNCHANGED <<present, fuses, up, down, aloft, history, bangs>>

(* A joiner comes with the ground of its own world: joining clears none of *)
(* it, the first snapshot replaces the meadow and the craters.             *)
Join(c) ==
  /\ c \in Clients \ present
  /\ present' = present \cup {c}
  /\ \E left \in Leftovers :
       ground' = [ground EXCEPT ![c] = SpendAll(Fresh, left)]
  /\ UNCHANGED <<fuses, up, down, aloft, history, counters>>

MeadowNext ==
  \/ \E p \in Scenes, t \in Tufts : Graze(p, t)
  \/ \E p \in Scenes, d \in Device : StepOn(p, d)
  \/ \E p \in Scenes : \E f \in fuses[p] : GoOff(p, f)
  \/ \E c \in Clients : HearBite(c) \/ HearBang(c) \/ DropReport(c)
  \/ \E c \in Clients : ApplyBang(c) \/ Join(c)
  \/ Publish
  \/ \E c \in Clients : \E s \in aloft[c] : Mirror(c, s)
  \/ \E t \in Tufts : Regrow(t)
  \/ \E x \in Cells : Heal(x)

MeadowSpec == MeadowInit /\ [][MeadowNext]_meadowVars

(* Frames of forwarding loops that run for as long as the session, frames  *)
(* of the scene, and a publisher that never stops; some snapshot arrives.  *)
LiveMeadowSpec ==
  /\ MeadowSpec
  /\ \A p \in Scenes : WF_meadowVars(\E f \in fuses[p] : GoOff(p, f))
  /\ \A c \in Clients :
       /\ WF_meadowVars(HearBite(c) \/ HearBang(c) \/ DropReport(c))
       /\ WF_meadowVars(ApplyBang(c))
       /\ WF_meadowVars(\E s \in aloft[c] : Mirror(c, s))
  /\ WF_meadowVars(Publish)

-----------------------------------------------------------------------------
LaidAs(kind) == {d \in Laid : d.kind = kind}
GroundType == [eaten : SUBSET Tufts, mines : Seq(LaidAs("mine")), traps : Seq(LaidAs("trap")),
               moved : SUBSET Device, craters : SUBSET Cells]

(* Every process's field is one the code means: a device goes off at most  *)
(* once where it was laid, whoever else trips it or tells of it, and no    *)
(* replacement stands where one was laid, or has gone off: that cell stays *)
(* empty for the session (explosions.js:470-533).                          *)
FieldsAreSound ==
  \A p \in Scenes :
    /\ ground[p] \in GroundType
    /\ IsInjective(ground[p].mines) /\ IsInjective(ground[p].traps)
    /\ ground[p].moved \cap Laid = {}

(* The type of every variable.                                             *)
MeadowTypeOK ==
  /\ present \subseteq Clients
  /\ FieldsAreSound
  /\ \A p \in Scenes : fuses[p] \subseteq Fuse
  /\ \A c \in Clients :
       /\ ToSet(down[c]) \subseteq Bang
       /\ Cardinality(aloft[c]) <= MaxAir
  /\ felt \in [Scenes -> SUBSET Bangs] /\ again \in [Scenes -> SUBSET Bangs]
  /\ owed \in [Clients -> SUBSET Bangs] /\ untold \subseteq Bangs
  /\ bangs \in 0..LastBang /\ turns \in 0..MaxTurns

(* No goat feels a bang twice: whoever fired it is left out of the relay,  *)
(* and the host does not hear of its own (ROADMAP.md:2710-2727).           *)
NobodyFeelsItTwice == \A p \in Scenes : again[p] = {}

(* A tuft comes back for a client only on the host's word: a snapshot that *)
(* had no room for the meadow leaves it alone (food.js:129-134,            *)
(* proto/src/lib.rs fit_world).                                            *)
TuftsComeBackOnWord ==
  [][\A c \in Clients :
       LET back == ground[c].eaten \ ground'[c].eaten
       IN c \in present /\ back # {} => \E s \in aloft[c] : back \cap s.eaten = {}]_meadowVars

(* A bang is felt by everyone who was in the session when it went off,     *)
(* unless its report was over the reporter's burst, or it was goatsd's own *)
(* (net.js:834-840).                                                       *)
EveryBangIsFelt ==
  \A c \in Clients, n \in Bangs :
    n \in owed[c] ~> n \in felt[c] \/ n \in untold

(* When everybody stands still, every client ends up on the host's ground, *)
(* as far as a snapshot has room for it: same meadow, same craters, and    *)
(* nothing the host has seen go off still armed where it was laid.         *)
OnTheHostsGround(c, part) ==
  CASE part = "spent" -> Spent(ground[Authority]) \subseteq Spent(ground[c])
    [] OTHER -> ground[c][part] = ground[Authority][part]

GroundSettles ==
  <>[](\A c \in present : \A part \in Fit(ground[Authority]) : OnTheHostsGround(c, part))

=============================================================================
