------------------------------ MODULE ModJoin ------------------------------
(***************************************************************************)
(* From a refused join to a world that runs the host's mods: the network   *)
(* thread of the game (src/crates/goats/src/net.rs), the fetch and install *)
(* of what is missing (src/crates/pull/src/lib.rs), the mods directory,    *)
(* and the frame loop that loads what was pulled before the scene hears of *)
(* the join (src/crates/goats/src/lib.rs).  The process may die between    *)
(* any two steps, the host may go, restart with other mods or serve only   *)
(* some of them, and the player may change the directory at any time.      *)
(*                                                                         *)
(* A mod is an id with a version, which stands for its version label and   *)
(* digest.                                                                 *)
(***************************************************************************)
EXTENDS Integers, Sequences, FiniteSets

CONSTANTS
  Ids, Versions,
  None,         \* no such mod; no session
  Client,       \* a mod that never travels, but occupies its id
  HostSets,     \* the world-mod sets a host may run, [Ids -> Versions or None]
  Registry,     \* [Ids -> SUBSET Versions]: what the catalogue has a provider for
  OwnFirst,     \* SUBSET Ids: where the player's file sorts before the pulled one
  MaxFaults, MaxEdits \* bounds: failures, and meddling by the player

ASSUME HostSetsAssumption == HostSets \subseteq [Ids -> Versions \cup {None}]
ASSUME RegistryAssumption == Registry \in [Ids -> SUBSET Versions]
ASSUME NamesAssumption == None \notin Versions \cup {Client} /\ Client \notin Versions
ASSUME BoundsAssumption == MaxFaults \in Nat /\ MaxEdits \in Nat /\ OwnFirst \subseteq Ids

VARIABLES
  hostSet,    \* the world mods the host demands of a joiner
  served,     \* SUBSET Ids: those it could package for a fetch
  mine,       \* [Ids -> Content]: the player's files in the mods directory
  pulled,     \* [Ids -> Content]: pulled-<id>.zip or the directory pulled-<id>
  staged,     \* SUBSET Ids: pulled-<id>.zip.part and .staging/<id>
  inventory,  \* SUBSET Ids: the ids pulled.json has an entry for
  pc,         \* where the network thread is
  asked,      \* may this join fetch?
  worldMods,  \* world_mods: the set the next host or join presents
  before,     \* the directory as discovered when the recovery began
  want,       \* [Ids -> Versions or None]: what the recovery is after
  blobs,      \* SUBSET Ids: answered by the host, not installed yet
  missing,    \* SUBSET Ids: unavailable at the host, for the registry
  got,        \* SUBSET Ids: installed by this recovery
  session,    \* the live session: nothing, a host or a client
  events,     \* Seq(Event): emitted, not yet seen by the frame loop
  loaded,     \* [Ids -> Content]: what runs in the scene
  scene,      \* the set of the host the scene believes to be in session with
  answer,     \* history: how the last command ended
  presented,  \* history: the set the first dial of this join presented
  touched,    \* history: ids on disk or in the scene that changed behind the
              \* network thread's back since the process started
  upset,      \* history: a failure or a change of the host during this join
  faults, edits \* counters for the bounds

host == <<hostSet, served>>
disk == <<mine, pulled, staged, inventory>>
recovery == <<before, want, blobs, missing, got>>
thread == <<pc, asked, worldMods, session>>
frame == <<loaded, scene>>
history == <<answer, presented, touched, upset>>
joinVars == <<host, disk, recovery, thread, events, frame, history, faults, edits>>

Content == Versions \cup {Client, None}
Nothing == [i \in Ids |-> None]
NoSession == [kind |-> "none"]

\* Loader::discover: one mod per id, in the order of the paths.
Discovered ==
  [i \in Ids |-> IF mine[i] = None \/ (pulled[i] # None /\ i \notin OwnFirst)
                   THEN pulled[i] ELSE mine[i]]

\* world_mod_refs: the mods that travel.
World(mods) == [i \in Ids |-> IF mods[i] \in Versions THEN mods[i] ELSE None]

Steps == {"idle", "dial", "catalogue", "fetch", "install", "registry", "record",
          "reread", "redial"}
Pulled(ids) == [kind |-> "pulled", ids |-> ids]
Welcome(set) == [kind |-> "welcome", set |-> set]
Error == [kind |-> "error"]

JoinTypeOK ==
  /\ hostSet \in HostSets /\ served \subseteq Ids
  /\ mine \in [Ids -> Content] /\ pulled \in [Ids -> Versions \cup {None}]
  /\ staged \subseteq Ids /\ inventory \subseteq Ids
  /\ pc \in Steps /\ asked \in BOOLEAN
  /\ worldMods \in [Ids -> Versions \cup {None}]
  /\ before \in [Ids -> Content] /\ want \in [Ids -> Versions \cup {None}]
  /\ blobs \subseteq Ids /\ missing \subseteq Ids /\ got \subseteq Ids
  /\ \A i \in blobs \cup missing \cup got : want[i] \in Versions /\ before[i] = None
  /\ session.kind \in {"none", "client", "host"}
  /\ pc # "idle" => session = NoSession
  /\ \A e \in {events[k] : k \in DOMAIN events} : e.kind \in {"pulled", "welcome", "error"}
  /\ loaded \in [Ids -> Content]
  /\ scene = None \/ scene \in HostSets
  /\ touched \subseteq Ids /\ upset \in BOOLEAN
  /\ faults \in 0..MaxFaults /\ edits \in 0..MaxEdits

-----------------------------------------------------------------------------
(* Ends of a command.                                                      *)

Forget ==
  /\ before' = Nothing /\ want' = Nothing
  /\ blobs' = {} /\ missing' = {} /\ got' = {}

\* An Error event, and no session.
GiveUp ==
  /\ pc' = "idle" /\ answer' = "error"
  /\ events' = Append(events, Error)
  /\ Forget
  /\ UNCHANGED <<asked, session, presented>>

\* The session is up: a Welcome event.
BeIn ==
  /\ pc' = "idle" /\ answer' = "in"
  /\ session' = [kind |-> "client", set |-> hostSet]
  /\ events' = Append(events, Welcome(hostSet))
  /\ Forget
  /\ UNCHANGED <<asked, presented>>

\* Something went wrong that this join did not cause.
Fault == faults < MaxFaults /\ faults' = faults + 1 /\ upset' = TRUE

-----------------------------------------------------------------------------
(* The network thread.  It handles one command at a time.                  *)

\* start: the live session is stopped first, whatever becomes of the join.
StartJoin(ask) ==
  /\ pc = "idle" /\ events = <<>>
  /\ pc' = "dial" /\ asked' = ask
  /\ session' = NoSession
  /\ presented' = worldMods /\ upset' = FALSE /\ answer' = "none"
  /\ UNCHANGED <<host, disk, recovery, worldMods, events, frame, touched, faults, edits>>

\* Command::Host: the archives are packaged from the directory as it is now,
\* the session's set is world_mods.
Host ==
  /\ pc = "idle" /\ events = <<>>
  /\ session' = [kind |-> "host", set |-> worldMods, archives |-> World(Discovered)]
  /\ UNCHANGED <<host, disk, recovery, pc, asked, worldMods, events, frame, history, faults, edits>>

Close ==
  /\ pc = "idle" /\ session # NoSession
  /\ session' = NoSession
  /\ UNCHANGED <<host, disk, recovery, pc, asked, worldMods, events, frame, history, faults, edits>>

\* The first dial.  compare_world_mods is exact.
Accepted ==
  /\ pc = "dial" /\ worldMods = hostSet
  /\ BeIn
  /\ UNCHANGED <<host, disk, worldMods, frame, touched, upset, faults, edits>>

Refused ==
  /\ pc = "dial" /\ worldMods # hostSet
  /\ IF asked
       THEN /\ pc' = "catalogue" /\ before' = Discovered
            /\ UNCHANGED <<asked, session, events, answer, presented, want, blobs, missing, got>>
       ELSE GiveUp
  /\ UNCHANGED <<host, disk, worldMods, frame, touched, upset, faults, edits>>

\* Any dial, fetch or download that fails in another way.
NetworkFails ==
  /\ pc \in {"dial", "catalogue", "fetch", "redial"}
  /\ Fault /\ GiveUp
  /\ UNCHANGED <<host, disk, worldMods, frame, touched, edits>>

\* recover_with: what the host serves against what is on disk.  Only a pure
\* lack can be fixed by pulling.
Catalogue == [i \in Ids |-> IF i \in served THEN hostSet[i] ELSE None]

Lacking == [i \in Ids |-> IF World(before)[i] = None THEN Catalogue[i] ELSE None]

\* A faulty Fixable: a client mod counts as one the host lacks.
FixableAll == \A i \in Ids : before[i] \in {None, Catalogue[i]}
Fixable == \A i \in Ids : World(before)[i] \in {None, Catalogue[i]}

AskCatalogue ==
  /\ pc = "catalogue"
  /\ IF Fixable /\ Lacking # Nothing
       THEN /\ pc' = "fetch" /\ want' = Lacking
            /\ UNCHANGED <<asked, session, events, answer, presented, before, blobs, missing, got>>
       ELSE GiveUp
  /\ UNCHANGED <<host, disk, worldMods, frame, touched, upset, faults, edits>>

\* A faulty Wanted: an id that is taken is fetched all the same.
WantedAll == {i \in Ids : want[i] # None}

\* unowned: an id that is loaded is refused, not replaced.
Wanted == {i \in Ids : want[i] # None /\ before[i] = None}

\* pull: one answer per wanted mod, all read before the first is installed.
\* A host that changed since says unavailable.
Fetch ==
  /\ pc = "fetch"
  /\ blobs' = {i \in Wanted : i \in served /\ hostSet[i] = want[i]}
  /\ missing' = Wanted \ blobs'
  /\ pc' = "install"
  /\ UNCHANGED <<host, disk, before, want, got, asked, worldMods, session, events,
                 frame, history, faults, edits>>

\* A short answer ends the list: nothing more comes, and nothing is reported.
FetchShort ==
  /\ pc = "fetch"
  /\ Fault
  /\ \E some \in SUBSET Wanted \ {Wanted} :
       /\ blobs' = {i \in some : i \in served /\ hostSet[i] = want[i]}
       /\ missing' = some \ blobs'
  /\ pc' = "install"
  /\ UNCHANGED <<host, disk, before, want, got, asked, worldMods, session, events,
                 frame, answer, presented, touched, edits>>

\* install: written under a name discovery ignores, read back by the loader
\* and compared, and only then renamed into place.
Stage(i) ==
  /\ pc = "install" /\ i \in blobs
  /\ staged' = staged \cup {i}
  /\ UNCHANGED <<host, mine, pulled, inventory, recovery, thread, events, frame, history, faults, edits>>

\* Registry::fetch: the tree, below a directory of its own.
StageTree(i) ==
  /\ pc = "registry" /\ i \in missing /\ want[i] \in Registry[i]
  /\ staged' = staged \cup {i}
  /\ UNCHANGED <<host, mine, pulled, inventory, recovery, thread, events, frame, history, faults, edits>>

Placed(i) ==
  /\ i \in staged /\ staged' = staged \ {i}
  /\ pulled' = [pulled EXCEPT ![i] = want[i]]
  /\ got' = got \cup {i}
  /\ UNCHANGED <<host, mine, inventory, before, want, thread, events, frame, history, faults, edits>>

Place(i) ==
  /\ pc = "install" /\ i \in blobs
  /\ Placed(i)
  /\ blobs' = blobs \ {i}
  /\ UNCHANGED missing

\* install_tree: not over what is there.
PlaceTree(i) ==
  /\ pc = "registry" /\ i \in missing /\ pulled[i] = None
  /\ Placed(i)
  /\ missing' = missing \ {i}
  /\ UNCHANGED blobs

\* It does not verify, or cannot be written: the staged copy goes, and the id
\* is refused.  The registry without a provider reports it unavailable.
NotInstalled(i) ==
  /\ \/ pc = "install" /\ i \in blobs /\ Fault
     \/ pc = "registry" /\ i \in missing /\ want[i] \in Registry[i] /\ Fault
     \/ /\ pc = "registry" /\ i \in missing
        /\ want[i] \notin Registry[i] \/ pulled[i] # None
        /\ UNCHANGED <<faults, upset>>
  /\ staged' = staged \ {i}
  /\ blobs' = blobs \ {i} /\ missing' = missing \ {i}
  /\ UNCHANGED <<host, mine, pulled, inventory, before, want, got, thread, events,
                 frame, answer, presented, touched, edits>>

\* record, after the host's answers and again after the registry's.
Installed ==
  /\ pc \in {"install", "registry"}
  /\ IF pc = "install" THEN blobs = {} ELSE missing = {}
  /\ pc' = IF pc = "install" /\ missing # {} THEN "registry"
           ELSE IF got = {} THEN "record" ELSE "reread"
  /\ inventory' = inventory \cup got
  /\ UNCHANGED <<host, mine, pulled, staged, recovery, asked, worldMods, session, events,
                 frame, history, faults, edits>>

\* record fails: the join ends with an error although the mods are installed.
RecordFails ==
  /\ pc \in {"install", "registry"} /\ got # {}
  /\ IF pc = "install" THEN blobs = {} ELSE missing = {}
  /\ Fault /\ GiveUp
  /\ touched' = touched \cup got
  /\ UNCHANGED <<host, disk, worldMods, frame, edits>>

\* A faulty NothingInstalled: it dials again.
NothingInstalledRetry ==
  /\ pc = "record" /\ pc' = "dial"
  /\ Forget
  /\ UNCHANGED <<host, disk, events, answer, asked, session, presented, worldMods, frame,
                 touched, upset, faults, edits>>

\* Nothing was installed, so a second dial would meet the same refusal.
NothingInstalled ==
  /\ pc = "record" /\ GiveUp
  /\ UNCHANGED <<host, disk, worldMods, frame, touched, upset, faults, edits>>

\* A faulty Reread: the frame loop is told when the join is through.
RereadOnly ==
  /\ pc = "reread"
  /\ pc' = "redial"
  /\ worldMods' = World(Discovered)
  /\ UNCHANGED <<events, host, disk, recovery, asked, session, frame, history, faults, edits>>

\* The frame loop is told what to load, and the directory is read again.
Reread ==
  /\ pc = "reread"
  /\ pc' = "redial"
  /\ events' = Append(events, Pulled(got))
  /\ worldMods' = World(Discovered)
  /\ UNCHANGED <<host, disk, recovery, asked, session, frame, history, faults, edits>>

\* The second dial, and the last.
Redial ==
  /\ pc = "redial"
  /\ IF worldMods = hostSet THEN BeIn ELSE GiveUp
  /\ UNCHANGED <<host, disk, worldMods, frame, touched, upset, faults, edits>>

\* registry_fetch, the console's "mods fetch": from the catalogue into the
\* directory and the scene, whatever session is live.
ModsFetch(i, v) ==
  /\ pc = "idle" /\ events = <<>>
  /\ v \in Registry[i] /\ Discovered[i] = None
  /\ pulled' = [pulled EXCEPT ![i] = v]
  /\ inventory' = inventory \cup {i}
  /\ events' = <<Pulled({i})>>
  /\ worldMods' = [World(Discovered) EXCEPT ![i] = v]
  /\ touched' = IF session = NoSession THEN touched ELSE touched \cup {i}
  /\ UNCHANGED <<host, mine, staged, recovery, pc, asked, session, frame,
                 answer, presented, upset, faults, edits>>

-----------------------------------------------------------------------------
(* The frame loop: one event at a time, in the order they were emitted.    *)

\* load_pulled: a fresh walk, and the ids of the event into the scene.
SeePulled ==
  /\ events # <<>> /\ Head(events).kind = "pulled"
  /\ loaded' = [i \in Ids |-> IF i \in Head(events).ids THEN Discovered[i] ELSE loaded[i]]
  /\ events' = Tail(events)
  /\ UNCHANGED <<host, disk, recovery, thread, scene, history, faults, edits>>

SeeWelcome ==
  /\ events # <<>> /\ Head(events).kind = "welcome"
  /\ scene' = Head(events).set
  /\ events' = Tail(events)
  /\ UNCHANGED <<host, disk, recovery, thread, loaded, history, faults, edits>>

SeeError ==
  /\ events # <<>> /\ Head(events).kind = "error"
  /\ scene' = None
  /\ events' = Tail(events)
  /\ UNCHANGED <<host, disk, recovery, thread, loaded, history, faults, edits>>

-----------------------------------------------------------------------------
(* What happens around it.                                                 *)

\* The player adds, changes or removes a mod's files.
Edit(i, c) ==
  /\ edits < MaxEdits /\ edits' = edits + 1
  /\ mine[i] # c /\ mine' = [mine EXCEPT ![i] = c]
  /\ touched' = touched \cup {i}
  /\ UNCHANGED <<host, pulled, staged, inventory, recovery, thread, events, frame,
                 answer, presented, upset, faults>>

\* handle_mod_intent: disable drops the mod from the scene, enable and reload
\* read it again; the network thread is not told.
Reload(i) ==
  /\ edits < MaxEdits /\ edits' = edits + 1
  /\ loaded[i] # None
  /\ \E c \in {None, Discovered[i]} : loaded' = [loaded EXCEPT ![i] = c]
  /\ touched' = touched \cup {i}
  /\ UNCHANGED <<host, disk, recovery, thread, events, scene, answer, presented, upset, faults>>

\* The host stops and comes back with other mods, or fewer archives.
HostChanges ==
  /\ Fault
  /\ hostSet' \in HostSets
  /\ served' \in SUBSET {i \in Ids : hostSet'[i] # None}
  /\ UNCHANGED <<disk, recovery, thread, events, frame, answer, presented, touched, edits>>

\* The process dies and is started again: what is on disk is what it loads
\* and presents.
Restart ==
  /\ faults < MaxFaults /\ faults' = faults + 1
  /\ pc' = "idle" /\ asked' = FALSE /\ session' = NoSession
  /\ worldMods' = World(Discovered) /\ loaded' = Discovered
  /\ events' = <<>> /\ scene' = None
  /\ Forget
  /\ answer' = "none" /\ presented' = Nothing /\ touched' = {} /\ upset' = FALSE
  /\ UNCHANGED <<host, disk, edits>>

-----------------------------------------------------------------------------
JoinInit ==
  /\ hostSet \in HostSets
  /\ served \in SUBSET {i \in Ids : hostSet[i] # None}
  /\ mine \in [Ids -> Content]
  /\ pulled = Nothing /\ staged = {} /\ inventory = {}
  /\ pc = "idle" /\ asked = FALSE
  /\ worldMods = World(Discovered) /\ loaded = Discovered
  /\ before = Nothing /\ want = Nothing /\ blobs = {} /\ missing = {} /\ got = {}
  /\ session = NoSession /\ events = <<>> /\ scene = None
  /\ answer = "none" /\ presented = Nothing /\ touched = {} /\ upset = FALSE
  /\ faults = 0 /\ edits = 0

Working ==
  \/ Accepted \/ Refused \/ AskCatalogue \/ Fetch
  \/ \E i \in Ids : \/ Stage(i) \/ Place(i) \/ NotInstalled(i)
                    \/ StageTree(i) \/ PlaceTree(i)
  \/ Installed \/ NothingInstalled \/ Reread \/ Redial

JoinNext ==
  \/ \E ask \in BOOLEAN : StartJoin(ask)
  \/ Host \/ Close \/ \E i \in Ids, v \in Versions : ModsFetch(i, v)
  \/ Working
  \/ NetworkFails \/ FetchShort \/ RecordFails
  \/ SeePulled \/ SeeWelcome \/ SeeError
  \/ \E i \in Ids : Reload(i) \/ \E c \in Content : Edit(i, c)
  \/ HostChanges \/ Restart

JoinSpec == JoinInit /\ [][JoinNext]_joinVars
LiveJoinSpec == JoinSpec /\ WF_joinVars(Working) /\ WF_joinVars(SeePulled \/ SeeWelcome \/ SeeError)
-----------------------------------------------------------------------------
(* Properties.                                                             *)

\* Whoever is in a session runs the world mods of its host, and the scene was
\* told to load what was pulled before it was told of the welcome.  Excepted
\* are the ids that the player or a failed record changed behind the network
\* thread's back, which presents the directory and not what runs, and those
\* fetched by name in the middle of a session.
MembersRunTheHostsMods ==
  session.kind = "client" /\ pc = "idle" /\ events = <<>> =>
    /\ scene = session.set
    /\ \A i \in Ids \ touched : World(loaded)[i] = session.set[i]

\* Can this directory be completed with the mods in offer to run the host's set?
Completable(offer) ==
  \A i \in Ids :
    IF hostSet[i] = None THEN Discovered[i] \in {None, Client}
    ELSE Discovered[i] = hostSet[i] \/ (Discovered[i] = None /\ i \in offer)

\* A join that may fetch, from a host that does not change and serves all it
\* runs, gets in whenever adding mods is enough and nothing fails.
PullIsEnough ==
  answer = "error" /\ asked /\ ~upset /\ touched = {} /\ pc = "idle" =>
    ~(served = {i \in Ids : hostSet[i] # None} /\ Completable(served))

\* Whatever discovery chose for an id, only the player makes it choose another:
\* a pull, a crash in the middle of one and a second one replace nothing.
PullsReplaceNothing ==
  [][\A i \in Ids : Discovered[i] # None /\ mine'[i] = mine[i] /\ i \notin touched =>
       Discovered'[i] = Discovered[i]]_joinVars

\* A join ends, with an answer the scene has heard of.
JoinsEnd == (pc # "idle") ~> (pc = "idle" /\ events = <<>>)

=============================================================================
