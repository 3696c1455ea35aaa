------------------------------- MODULE ModHost -------------------------------
(***************************************************************************)
(* The mod runtime of the Godot client: ModHost of                         *)
(* src/crates/godot/src/lib.rs, the compiled mods of                       *)
(* src/crates/plugin/src/lib.rs, the watcher of src/crates/mods/src/       *)
(* watch.rs, and the scene's guards in src/godot/src/mods.gd.  Everything  *)
(* runs on the engine's main thread; the files may change under it at any  *)
(* time, and the browser's editor may hand over a mod of its own.          *)
(*                                                                         *)
(* An entry whose text is "garbled" does not parse and one that is         *)
(* "throws" throws after it began; a module that is "belly" imports the    *)
(* client's capability, "old" speaks another ABI and "trapping" traps when *)
(* it is stepped.  Every other text runs.                                  *)
(***************************************************************************)
EXTENDS Packages

CONSTANTS
  Disks,     \* the mods directories a process may start with, Seq(Source or Missing)
  Drafts,    \* [slots -> sets of sources or Missing]: what may be written there
  Edited,    \* sources the browser's editor may run
  Platforms, \* "desktop", "web"
  Seeds,     \* session seeds
  MaxEdits   \* bound: writes to the directory, and editor runs

\* The paths a manifest names.
Declared(raw) ==
  ({raw.entry, raw.tuning, raw.wasm} \ {None})
    \cup {raw.assets[k].file : k \in DOMAIN raw.assets}

\* A path is a sequence of names, in a source and in a manifest.
Proper(src) ==
  src # Missing =>
    /\ DOMAIN src.files \subseteq Seq(STRING) /\ IsFiniteSet(DOMAIN src.files)
    /\ \A q \in DOMAIN src.files :
         src.files[q].kind = "manifest" => Declared(src.files[q]) \subseteq Seq(STRING)

ASSUME ModHostAssumption ==
  /\ MaxEdits \in Nat /\ Platforms \subseteq {"desktop", "web"}
  /\ \A d \in Disks :
       /\ Len(d) \in Nat /\ d = [s \in 1..Len(d) |-> d[s]] /\ DOMAIN d \subseteq DOMAIN Drafts
       /\ \A s \in DOMAIN d : Proper(d[s])
  /\ \A s \in DOMAIN Drafts : \A src \in Drafts[s] : Proper(src)

VARIABLES
  platform, disk,
  mods,      \* the loader's manifests, in order; the scene's table shows them
  begun,     \* SUBSET Ids: live instances in the facade
  plugins,   \* [Ids -> Plugin or None]
  outcomes,  \* [Ids -> [ok, of] or None]; of, the digest that ran, is history
  assets,    \* the engine's bytes, by opaque name
  booted, watching,
  changed,   \* SUBSET slots: reported by the watcher's thread
  settling,  \* SUBSET Ids: mods waiting for their writes to stop
  session,   \* the session the scene is in
  loose,     \* history: ids run or read past the guard of this session
  edits      \* counter for the bound

host == <<mods, begun, plugins, outcomes, assets>>
reports == <<changed, settling>>
watcher == <<watching, reports>>
vars == <<platform, disk, host, booted, watcher, session, loose, edits>>

Slots == DOMAIN disk
NoSession == [kind |-> "none"]

-----------------------------------------------------------------------------
(* Compiled mods.                                                          *)

\* Plugin::new: the capabilities link and the ABI is this build's.
NewPlugin(module, side) ==
  IF module.text = "old" \/ (module.text = "belly" /\ side = "world") THEN None
  ELSE [module |-> module.text, side |-> side, ok |-> TRUE, seed |-> None, records |-> "initial"]

\* seed: a client module's streams do not follow the session.
Seeded(p, seed) ==
  IF p # None /\ p.side = "world" THEN [p EXCEPT !.seed = seed] ELSE p

\* tick: one that trapped is not stepped again.
Tick(p) ==
  IF ~p.ok THEN p
  ELSE IF p.module = "trapping" THEN [p EXCEPT !.ok = FALSE]
  ELSE [p EXCEPT !.records = "stepped"]

\* A faulty Ticks: a mirroring client steps the world too.
TicksAll(p, world) == p # None

\* tick_all: who is stepped, and who is the host's to step.
Ticks(p, world) == p # None /\ (p.side = "world" => world)

\* apply: the host's records, whatever became of the module.
Applied(p) == IF p # None /\ p.side = "world" THEN [p EXCEPT !.records = "host's"] ELSE p

-----------------------------------------------------------------------------
(* One entry.  A state of the host is a record of its five variables.      *)

Host == [mods |-> mods, begun |-> begun, plugins |-> plugins,
         outcomes |-> outcomes, assets |-> assets]
Become(h) ==
  /\ mods' = h.mods /\ begun' = h.begun /\ plugins' = h.plugins
  /\ outcomes' = h.outcomes /\ assets' = h.assets

\* __end: the facade's instance goes, and what it registered.
End(h, i) == [h EXCEPT !.begun = @ \ {i}]

\* load_one, then record: the assets to the engine, the entry, the module.
LoadOne(h, i) ==
  IF i \notin IdsOf(h.mods)
    THEN [h EXCEPT !.outcomes[i] = [ok |-> FALSE, of |-> None]]
  ELSE LET m == Get(h.mods, i)
           ran == m.entry \notin {"garbled", "throws"}
           module == IF m.wasm = None THEN None ELSE NewPlugin(m.wasm, m.side)
       IN [mods |-> Taken(h.mods, i),
           assets |-> m.assets @@ h.assets,
           begun |-> h.begun \cup (IF m.entry \in {None, "garbled"} THEN {} ELSE {i}),
           plugins |-> IF ran /\ m.wasm # None THEN [h.plugins EXCEPT ![i] = module]
                       ELSE h.plugins,
           outcomes |-> [h.outcomes EXCEPT ![i] =
                           [ok |-> ran /\ (m.wasm = None \/ module # None), of |-> m.digest]]]

\* One after another.
InTurn(h, ids, Do(_, _)) ==
  LET after[n \in 0..Len(ids)] ==
        IF n = 0 THEN h ELSE LET before == after[n - 1] IN Do(before, ids[n])
  IN after[Len(ids)]

\* load_all.
LoadAll(h) == InTurn(h, [k \in DOMAIN h.mods |-> h.mods[k].id], LoadOne)

\* reload_one, and set_enabled(true), which is the same: a source that no
\* longer loads leaves the manifest that was there, and that is run.
ReloadOne(h, i) ==
  LET ended == End(h, i)
      read == IF i \in IdsOf(h.mods) THEN Toggled(Reloaded(h.mods, i, disk), i, TRUE) ELSE h.mods
  IN LoadOne([ended EXCEPT !.mods = read, !.outcomes[i] = None], i)

\* set_enabled(false).
SwitchOff(h, i) ==
  [End(h, i) EXCEPT !.plugins[i] = None, !.mods = Toggled(@, i, FALSE)]

-----------------------------------------------------------------------------
(* Boot.                                                                   *)

Fresh(h, ms) == [h EXCEPT !.mods = ms, !.outcomes = [i \in Ids |-> None]]

\* mods.gd _discover and _run on a desktop: load_mods, load_all, and the
\* watcher if the player asked for one.
BootFromDisk(watch) ==
  LET h == Fresh(Host, Discover(disk, "keep"))
  IN /\ platform = "desktop" /\ ~booted
     /\ booted' = TRUE
     /\ Become(LoadAll(h))
     /\ watching' = watch /\ changed' = {} /\ settling' = {}
     /\ UNCHANGED <<platform, disk, session, loose, edits>>

\* In a tab: load_mod_files for every stored mod, load_all.
BootFromMemory ==
  LET loading == InOrder({s \in Slots : Loads(disk[s], "keep")})
      stored == <<>> \o [k \in DOMAIN loading |-> LoadSource(disk[loading[k]], loading[k], "keep")]
      h == Fresh(Host, InTurn(<<>>, stored, Inserted))
  IN /\ platform = "web" /\ ~booted
     /\ booted' = TRUE
     /\ Become(LoadAll(h))
     /\ UNCHANGED <<platform, disk, watcher, session, loose, edits>>

-----------------------------------------------------------------------------
(* The scene's operations.                                                 *)

InSession == session # NoSession

\* The row's side, as the table has it.
Refused(i) == InSession /\ Get(mods, i).side = "world"

\* mods.gd set_enabled, reload_mod; enabling and reloading are one path.
SetEnabled(i, on) ==
  /\ booted /\ i \in IdsOf(mods) /\ ~Refused(i)
  /\ Become(IF on THEN ReloadOne(Host, i) ELSE SwitchOff(Host, i))
  /\ UNCHANGED <<platform, disk, booted, watcher, session, loose, edits>>

\* mods.gd add_pulled: an id the table has is refused before the host looks;
\* the host's look is a fresh walk over everything.
AddPulled(i) ==
  LET h == [Host EXCEPT !.mods = Discover(disk, "keep")]
  IN /\ platform = "desktop" /\ booted
     /\ i \notin IdsOf(mods) /\ i \in IdsOf(h.mods)
     /\ Become(LoadOne(h, i))
     /\ loose' = loose \cup IdsOf(mods) \cup IdsOf(h.mods)
     /\ UNCHANGED <<platform, disk, booted, watcher, session, edits>>

\* reload_mod_files: validated before anything is torn down; on or off, it runs.
EditorRuns(src) ==
  LET m == LoadSource(src, 0, "keep")
      known == m.id \in IdsOf(mods)
      ended == IF known THEN End(Host, m.id) ELSE Host
      held == [ended EXCEPT !.mods = IF known THEN Replaced(@, m) ELSE Inserted(@, m),
                            !.outcomes[m.id] = None]
  IN /\ platform = "web" /\ booted /\ Loads(src, "keep")
     /\ edits < MaxEdits /\ edits' = edits + 1
     /\ Become(LoadOne(held, m.id))
     /\ loose' = loose \cup {m.id}
     /\ UNCHANGED <<platform, disk, booted, watcher, session>>

\* main.gd cmd_host, cmd_join: the set is presented and the scene is in.
WorldSet == {[id |-> mods[k].id, digest |-> mods[k].digest] :
               k \in {j \in DOMAIN mods : mods[j].side = "world"}}

Enter(as) ==
  /\ booted /\ ~InSession
  /\ session' = [kind |-> as, set |-> WorldSet, seed |-> None, mirrored |-> FALSE]
  /\ loose' = {}
  /\ UNCHANGED <<platform, disk, host, booted, watcher, edits>>

\* The session event: use_seed, seed_all.
UseSeed(seed) ==
  /\ InSession /\ session.seed = None
  /\ session' = [session EXCEPT !.seed = seed]
  /\ plugins' = [i \in Ids |-> Seeded(plugins[i], seed)]
  /\ UNCHANGED <<platform, disk, mods, begun, outcomes, assets, booted, watcher, loose, edits>>

\* The mods event: apply_world_mods, which only a joined client hears.
ApplyWorldMods ==
  /\ InSession /\ session.kind = "client" /\ session.seed # None
  /\ session' = [session EXCEPT !.mirrored = TRUE]
  /\ plugins' = [i \in Ids |-> Applied(plugins[i])]
  /\ UNCHANGED <<platform, disk, mods, begun, outcomes, assets, booted, watcher, loose, edits>>

Leave ==
  /\ InSession /\ session' = NoSession
  /\ UNCHANGED <<platform, disk, host, booted, watcher, loose, edits>>

-----------------------------------------------------------------------------
(* A frame: the watcher is polled, then the compiled mods are driven.      *)

TouchedNow == Touching(mods, changed)

\* A faulty Settle: what was reported while others were due is forgotten.
SettleOnlyDue(due) == settling \ due
\* poll_watch: what was reported starts its wait anew.
Settle(due) == (settling \ due) \cup TouchedNow

\* poll_watch: those that waited long enough are reloaded, in id order.
Poll(due) ==
  /\ watching /\ due \subseteq settling \ TouchedNow
  /\ changed # {} \/ due # {}
  /\ changed' = {} /\ settling' = Settle(due)

PollWatch(due) ==
  /\ Poll(due)
  /\ Become(InTurn(Host, InOrder(due), ReloadOne))
  /\ loose' = loose \cup (IF InSession THEN due ELSE {})
  /\ UNCHANGED <<platform, disk, booted, watching, session, edits>>

\* drive_wasm: the world is stepped by whoever simulates it.
DriveWasm ==
  /\ booted
  /\ LET world == ~InSession \/ session.kind = "host"
     IN plugins' = [i \in Ids |-> IF Ticks(plugins[i], world) THEN Tick(plugins[i]) ELSE plugins[i]]
  /\ UNCHANGED <<platform, disk, mods, begun, outcomes, assets, booted, watcher, session,
                 loose, edits>>

-----------------------------------------------------------------------------
(* The directory.                                                          *)

\* Somebody writes a file; the watcher's thread notes the path.
Write(s, src) ==
  /\ platform = "desktop"
  /\ edits < MaxEdits /\ edits' = edits + 1
  /\ src # disk[s]
  /\ disk' = [disk EXCEPT ![s] = src]
  /\ changed' = IF watching THEN changed \cup {s} ELSE changed
  /\ UNCHANGED <<platform, host, booted, watching, settling, session, loose>>

Init ==
  /\ platform \in Platforms
  /\ disk \in {d \in Disks : \A s \in DOMAIN d :
                 d[s] = Missing \/ (d[s].kind = "memory" <=> platform = "web")}
  /\ mods = <<>> /\ begun = {} /\ assets = <<>>
  /\ plugins = [i \in Ids |-> None] /\ outcomes = [i \in Ids |-> None]
  /\ booted = FALSE /\ watching = FALSE /\ changed = {} /\ settling = {}
  /\ session = NoSession /\ loose = {} /\ edits = 0

Next ==
  \/ \E watch \in BOOLEAN : BootFromDisk(watch)
  \/ BootFromMemory
  \/ \E i \in Ids, on \in BOOLEAN : SetEnabled(i, on)
  \/ \E i \in Ids : AddPulled(i)
  \/ \E src \in Edited : EditorRuns(src)
  \/ \E as \in {"host", "client"} : Enter(as)
  \/ \E seed \in Seeds : UseSeed(seed)
  \/ ApplyWorldMods \/ Leave
  \/ \E due \in SUBSET Ids : PollWatch(due)
  \/ DriveWasm
  \/ \E s \in Slots : \E src \in Drafts[s] : Write(s, src)

Spec == Init /\ [][Next]_vars

\* The scene polls every frame, and a quarter of a second passes.
Fairness ==
  /\ WF_reports(\E due \in SUBSET Ids : Poll(due))
  /\ \A i \in Ids : WF_reports(\E due \in SUBSET Ids : i \in due /\ Poll(due))

LiveSpec == Spec /\ Fairness

-----------------------------------------------------------------------------
(* Properties.                                                             *)

Plugin == [module : STRING, side : {"client", "world"}, ok : BOOLEAN,
           seed : Seeds \cup {None}, records : {"initial", "stepped", "host's"}]

\* The loader has every id once, and what the host keeps has the expected
\* shape.
TypeOK ==
  /\ \A j, k \in DOMAIN mods : mods[j].id = mods[k].id => j = k
  /\ \A k \in DOMAIN mods : mods[k].id \in Ids
  /\ begun \subseteq Ids /\ settling \subseteq Ids
  /\ loose \subseteq Ids
  /\ changed \subseteq Slots
  /\ \A i \in Ids : plugins[i] = None \/ plugins[i] \in Plugin
  /\ InSession => session.kind \in {"host", "client"} /\ session.seed \in Seeds \cup {None}
  /\ edits \in 0..MaxEdits

\* Once a joined client has the host's state, its world modules show that
\* state and nothing they worked out themselves.
MirrorsShowTheHost ==
  InSession /\ session.kind = "client" /\ session.mirrored =>
    \A m \in session.set :
      m.id \notin loose /\ plugins[m.id] # None /\ plugins[m.id].side = "world"
        => plugins[m.id].records = "host's"

\* The mods that are in a cycle, or wait for one that is.
Stuck(ms) ==
  UNION {S \in SUBSET IdsOf(ms) : \A i \in S : Waits(ms, i) \cap S # {}}

\* A directory is loaded in an order that puts every mod after the ones it
\* asks for, cycles aside, and that does not depend on what the files are
\* called.
DependenciesFirst ==
  LET found == Discover(disk, "keep")
      ids == [k \in DOMAIN found |-> found[k].id]
      loading == {s \in Slots : Loads(disk[s], "keep")}
      unique == /\ Cardinality({s \in Slots : disk[s] # Missing}) <= MaxMods
                /\ \A s, t \in loading :
                     Read(disk[s], ModJson).id = Read(disk[t], ModJson).id => s = t
  IN /\ \A j, k \in DOMAIN ids :
          j < k /\ ids[k] \in Waits(found, ids[j]) => ids[j] \in Stuck(found)
     /\ unique => LET back == Discover(Reverse(disk), "keep")
                  IN ids = [k \in DOMAIN back |-> back[k].id]

\* An archive lies as its tree will: no two of its files would share a place,
\* and every name the manifest gives is found there, not by its ending.
InPlace(src, raw) ==
  src.kind = "zip" =>
    /\ Materialize(src) # Missing
    /\ \A p \in Declared(raw) : Candidates(src.files, p) = {Wrapper(src.files) \o p}

\* src loads, and with the digest that raw has in from.
Installs(src, from, raw) ==
  Loads(src, "keep") /\ Digest(src, Read(src, ModJson)) = Digest(from, raw)

\* What loads from the directory loads with the same digest from the archive a
\* host packs of it, and, laid out in place, from the tree that is shared: a
\* joiner who installs either runs what the host runs.
PackagesInstall ==
  \A s \in Slots :
    LET src == disk[s]
        raw == Read(src, ModJson)
    IN Loads(src, "keep") =>
         /\ Installs(Archive(src), src, raw)
         /\ InPlace(src, raw) => Installs(Shared(src), src, raw)

\* A change the watcher saw is in what runs sooner or later, unless the file
\* does not load or now holds another mod.
Arrived(i) ==
  i \in IdsOf(mods) =>
    LET src == SourceOf(Get(mods, i), disk)
        m == LoadSource(src, Get(mods, i).slot, "keep")
    IN ~Loads(src, "keep") \/ m.id # i \/ (outcomes[i] # None /\ outcomes[i].of = m.digest)

EditsArrive == \A i \in Ids : (i \in TouchedNow \cup settling) ~> Arrived(i)

=============================================================================
