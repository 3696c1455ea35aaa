---------------------------- MODULE ModsProofs -----------------------------
(***************************************************************************)
(* The mods a node runs and the packages it finds, for any mods and        *)
(* versions, any hosts and registry, any nodes, packages, budget, queue    *)
(* length, TTL and delay, any number of faults and of edits.               *)
(*                                                                         *)
(* ModJoin: who is in a session runs its host's mods, a pull that can help *)
(* does, and a pull replaces nothing of the player's.                      *)
(*                                                                         *)
(* Registry: nothing is listed that was not vouched for, and what is       *)
(* pinned is served.                                                       *)
(*                                                                         *)
(* One name space, hence JoinInit, JoinSpec and their like in ModJoin.     *)
(***************************************************************************)
EXTENDS ModJoin, Registry, SequenceTheorems, WellFoundedInduction, TLAPS

-----------------------------------------------------------------------------
(* ModJoin. *)

Sets == [Ids -> Versions \cup {None}]
Event == [kind : {"pulled"}, ids : SUBSET Ids]
           \cup [kind : {"welcome"}, set : HostSets] \cup {Error}
Session == {NoSession} \cup [kind : {"client"}, set : HostSets]
             \cup [kind : {"host"}, set : Sets, archives : Sets]

(* Types.                                                                  *)
Typed == JoinTypeOK /\ events \in Seq(Event) /\ session \in Session

(* A recovery's answers are there only while it installs them.             *)
RestOK ==
  /\ pc \in {"idle", "dial", "catalogue", "fetch"} => got = {} /\ blobs = {} /\ missing = {}
  /\ pc = "record" => got = {}
  /\ answer = "error" => pc = "idle"

(* Until it asks, a recovery knows the directory as it is.                 *)
BeforeIsDisk ==
  pc \in {"catalogue", "fetch"} => \A i \in Ids \ touched : before[i] = Discovered[i]

(* What is still to be installed is not there yet.                         *)
FreshOnly ==
  /\ blobs \cap missing = {} /\ (blobs \cup missing) \cap got = {}
  /\ \A i \in (blobs \cup missing) \ touched : Discovered[i] = None

(* Installed, and the frame loop not told yet.                             *)
Untold == IF pc = "redial" THEN {} ELSE got

(* The frame loop was told and has not come to it.                         *)
Announced(i) == \E k \in DOMAIN events : events[k].kind = "pulled" /\ i \in events[k].ids

(* The network thread presents what the directory has ...                  *)
PresentedIsDisk ==
  \A i \in Ids \ touched : i \notin Untold => worldMods[i] = World(Discovered)[i]

(* ... and the scene runs it, but for what it is about to load.            *)
RunsIsDisk ==
  \A i \in Ids \ touched : i \notin Untold /\ ~Announced(i) => loaded[i] = Discovered[i]

(* Who is in a session presented its host's set.                           *)
SessionIsPresented ==
  session.kind = "client" =>
    /\ pc = "idle"
    /\ \A i \in Ids \ touched : session.set[i] = worldMods[i]

(* The scene has heard of the session, or the Welcome is the last event.   *)
SceneFollows ==
  session.kind = "client" =>
    \/ events # <<>> /\ events[Len(events)] = Welcome(session.set)
    \/ scene = session.set /\ \A k \in DOMAIN events : events[k].kind = "pulled"

Members ==
  /\ RestOK /\ BeforeIsDisk /\ FreshOnly
  /\ PresentedIsDisk /\ RunsIsDisk /\ SessionIsPresented /\ SceneFollows

(* A join that ought to get in: see PullIsEnough.                          *)
Hopeful ==
  /\ asked /\ ~upset /\ touched = {}
  /\ served = {i \in Ids : hostSet[i] # None} /\ Completable(served)

(* Where such a join is, it is on its way in.                              *)
OnTheWay ==
  Hopeful =>
    /\ pc = "catalogue" => worldMods # hostSet
    /\ pc = "fetch" => want = Lacking /\ Wanted # {}
    /\ pc = "install" =>
         /\ missing = {} /\ blobs \cup got # {}
         /\ \A i \in blobs : want[i] = hostSet[i]
         /\ \A i \in Ids \ blobs : World(Discovered)[i] = hostSet[i]
    /\ pc \notin {"registry", "record"}
    /\ pc = "reread" => World(Discovered) = hostSet
    /\ pc = "redial" => worldMods = hostSet
    /\ answer # "error"

-----------------------------------------------------------------------------
RecoveryTyped ==
  /\ before \in [Ids -> Content] /\ want \in Sets
  /\ blobs \subseteq Ids /\ missing \subseteq Ids /\ got \subseteq Ids
  /\ \A i \in blobs \cup missing \cup got : want[i] \in Versions /\ before[i] = None

EventsTyped ==
  /\ events \in Seq(Event)
  /\ \A e \in {events[k] : k \in DOMAIN events} : e.kind \in {"pulled", "welcome", "error"}

SessionTyped ==
  /\ session \in Session /\ session.kind \in {"none", "client", "host"}
  /\ pc \in Steps /\ (pc # "idle" => session = NoSession)

OthersTyped ==
  /\ hostSet \in HostSets /\ served \subseteq Ids
  /\ mine \in [Ids -> Content] /\ pulled \in Sets
  /\ staged \subseteq Ids /\ inventory \subseteq Ids
  /\ asked \in BOOLEAN /\ worldMods \in Sets
  /\ loaded \in [Ids -> Content] /\ (scene = None \/ scene \in HostSets)
  /\ touched \subseteq Ids /\ upset \in BOOLEAN
  /\ faults \in 0..MaxFaults /\ edits \in 0..MaxEdits

LEMMA PartsAreTyped ==
  ASSUME RecoveryTyped', EventsTyped', SessionTyped', OthersTyped'
  PROVE  Typed'
BY DEF Typed, JoinTypeOK, RecoveryTyped, EventsTyped, SessionTyped, OthersTyped, Sets

LEMMA EndsTypes ==
  ASSUME Typed, GiveUp \/ BeIn
  PROVE  RecoveryTyped' /\ EventsTyped' /\ SessionTyped'
<1>1. RecoveryTyped'
  BY DEF GiveUp, BeIn, Forget, Nothing, RecoveryTyped, Content, Sets
<1>2. EventsTyped'
  <2>1. PICK e \in Event : events' = Append(events, e)
    BY DEF GiveUp, BeIn, Event, Welcome, Typed, JoinTypeOK
  <2>2. \A f \in Event : f.kind \in {"pulled", "welcome", "error"}
    BY DEF Event, Error
  <2> QED BY <2>1, <2>2 DEF EventsTyped, Typed
<1>3. SessionTyped'
  BY DEF GiveUp, BeIn, SessionTyped, Typed, JoinTypeOK, Session, NoSession, Steps
<1> QED BY <1>1, <1>2, <1>3

LEMMA DiskTypes ==
  ASSUME Typed
  PROVE  /\ Discovered \in [Ids -> Content]
         /\ \A mods \in [Ids -> Content] : World(mods) \in Sets
BY NamesAssumption DEF Typed, JoinTypeOK, Content, Discovered, World, Sets

LEMMA RestIsKept == Typed /\ RestOK /\ [JoinNext]_joinVars => RestOK'
<1> SUFFICES ASSUME Typed, RestOK, [JoinNext]_joinVars PROVE RestOK'
  OBVIOUS
<1> USE DEF RestOK, Typed, JoinTypeOK, Steps, disk, recovery, thread, history, Forget,
        GiveUp, BeIn, Fault
<1>1. ASSUME NEW ask \in BOOLEAN, StartJoin(ask) PROVE RestOK'
  BY <1>1 DEF StartJoin
<1>2. ASSUME Host \/ Close PROVE RestOK'
  BY <1>2 DEF Host, Close
<1>3. ASSUME Accepted \/ Refused PROVE RestOK'
  BY <1>3 DEF Accepted, Refused
<1>4. ASSUME NetworkFails \/ AskCatalogue PROVE RestOK'
  BY <1>4 DEF NetworkFails, AskCatalogue
<1>5. ASSUME Fetch \/ FetchShort PROVE RestOK'
  BY <1>5 DEF Fetch, FetchShort
<1>6. ASSUME NEW i \in Ids, Stage(i) \/ StageTree(i) \/ NotInstalled(i) PROVE RestOK'
  BY <1>6 DEF Stage, StageTree, NotInstalled
<1>7. ASSUME NEW i \in Ids, Place(i) \/ PlaceTree(i) PROVE RestOK'
  BY <1>7 DEF Place, PlaceTree, Placed
<1>8. ASSUME Installed \/ RecordFails \/ NothingInstalled PROVE RestOK'
  BY <1>8 DEF Installed, RecordFails, NothingInstalled
<1>9. ASSUME Reread \/ Redial PROVE RestOK'
  BY <1>9 DEF Reread, Redial
<1>10. ASSUME NEW i \in Ids, NEW v \in Versions, ModsFetch(i, v) PROVE RestOK'
  BY <1>10 DEF ModsFetch
<1>11. ASSUME SeePulled \/ SeeWelcome \/ SeeError PROVE RestOK'
  BY <1>11 DEF SeePulled, SeeWelcome, SeeError
<1>12. ASSUME NEW i \in Ids, NEW c \in Content, Reload(i) \/ Edit(i, c) PROVE RestOK'
  BY <1>12 DEF Reload, Edit
<1>13. ASSUME NEW i \in Ids, Reload(i) PROVE RestOK'
  BY <1>13 DEF Reload
<1>14. ASSUME HostChanges \/ Restart PROVE RestOK'
  BY <1>14 DEF HostChanges, Restart
<1>15. ASSUME UNCHANGED joinVars PROVE RestOK'
  BY <1>15 DEF joinVars
<1> QED
  BY <1>1, <1>2, <1>3, <1>4, <1>5, <1>6, <1>7, <1>8, <1>9, <1>10, <1>11, <1>12, <1>13,
     <1>14, <1>15 DEF JoinNext, Working

LEMMA JoinTypesKept == Typed /\ RestOK /\ [JoinNext]_joinVars => Typed'
<1> SUFFICES ASSUME Typed, RestOK, [JoinNext]_joinVars PROVE Typed'
  OBVIOUS
<1> USE HostSetsAssumption, RegistryAssumption, NamesAssumption, BoundsAssumption
    DEF Typed, JoinTypeOK, Content, Steps, Sets, Event, Session, NoSession, Error, Nothing,
        host, disk, recovery, thread, frame, history, Forget, GiveUp, BeIn, Fault,
        Welcome, Pulled, World, Discovered
<1>1. ASSUME NEW ask \in BOOLEAN, StartJoin(ask) PROVE Typed'
  <2>1. SessionTyped' /\ EventsTyped'
    BY <1>1 DEF StartJoin, SessionTyped, EventsTyped
  <2>2. RecoveryTyped' /\ OthersTyped'
    BY <1>1 DEF StartJoin, RecoveryTyped, OthersTyped
  <2> QED BY <2>1, <2>2, PartsAreTyped
<1>2. ASSUME Host PROVE Typed'
  BY <1>2 DEF Host
<1>3. ASSUME Close PROVE Typed'
  BY <1>3 DEF Close
<1>4. ASSUME Accepted PROVE Typed'
  BY <1>4 DEF Accepted
<1>5. ASSUME Refused PROVE Typed'
  <2>1. CASE asked
    <3>1. SessionTyped' /\ EventsTyped'
      BY <1>5, <2>1 DEF Refused, SessionTyped, EventsTyped
    <3>2. got = {} /\ blobs = {} /\ missing = {}
      BY <1>5 DEF Refused, RestOK
    <3>3. RecoveryTyped' /\ OthersTyped'
      BY <1>5, <2>1, <3>2, DiskTypes DEF Refused, RecoveryTyped, OthersTyped
    <3> QED BY <3>1, <3>3, PartsAreTyped
  <2>2. CASE ~asked
      <3>1. GiveUp \/ BeIn
        BY <1>5, <2>2 DEF Refused
      <3>2. OthersTyped'
        BY <1>5, <2>2 DEF Refused, OthersTyped
      <3> QED BY <3>1, <3>2, EndsTypes, PartsAreTyped
  <2> QED BY <2>1, <2>2
<1>6. ASSUME NetworkFails PROVE Typed'
  BY <1>6 DEF NetworkFails
<1>7. ASSUME AskCatalogue PROVE Typed'
  <2>1. CASE pc' = "fetch"
    <3>1. want' \in Sets
      BY <1>7, <2>1 DEF AskCatalogue, Lacking, Catalogue
    <3>2. RecoveryTyped'
      <4>1. got = {} /\ blobs = {} /\ missing = {}
        BY <1>7 DEF AskCatalogue, RestOK
      <4> QED BY <1>7, <2>1, <3>1, <4>1 DEF AskCatalogue, RecoveryTyped
    <3>3. SessionTyped' /\ EventsTyped' /\ OthersTyped'
      BY <1>7, <2>1 DEF AskCatalogue, SessionTyped, EventsTyped, OthersTyped
    <3> QED BY <3>2, <3>3, PartsAreTyped
  <2>2. CASE pc' # "fetch"
      <3>1. GiveUp \/ BeIn
        BY <1>7, <2>2 DEF AskCatalogue
      <3>2. OthersTyped'
        BY <1>7, <2>2 DEF AskCatalogue, OthersTyped
      <3> QED BY <3>1, <3>2, EndsTypes, PartsAreTyped
  <2> QED BY <2>1, <2>2
<1>8. ASSUME Fetch PROVE Typed'
  BY <1>8 DEF Fetch, Wanted
<1>9. ASSUME FetchShort PROVE Typed'
  BY <1>9 DEF FetchShort, Wanted
<1>10. ASSUME NEW i \in Ids, Stage(i) \/ StageTree(i) PROVE Typed'
  BY <1>10 DEF Stage, StageTree
<1>11. ASSUME NEW i \in Ids, Place(i) \/ PlaceTree(i) PROVE Typed'
  BY <1>11 DEF Place, PlaceTree, Placed
<1>12. ASSUME NEW i \in Ids, NotInstalled(i) PROVE Typed'
  <2>1. upset' \in BOOLEAN /\ faults' \in 0..MaxFaults
    <3>1. CASE Fault
      BY <3>1
    <3>2. CASE UNCHANGED <<faults, upset>>
      BY <3>2
    <3> QED BY <1>12, <3>1, <3>2 DEF NotInstalled
  <2>2. RecoveryTyped'
    BY <1>12 DEF NotInstalled, RecoveryTyped
  <2>3. SessionTyped' /\ EventsTyped' /\ OthersTyped'
    BY <1>12, <2>1 DEF NotInstalled, SessionTyped, EventsTyped, OthersTyped
  <2> QED BY <2>2, <2>3, PartsAreTyped
<1>13. ASSUME Installed PROVE Typed'
  BY <1>13 DEF Installed
<1>14. ASSUME RecordFails PROVE Typed'
  BY <1>14 DEF RecordFails
<1>15. ASSUME NothingInstalled PROVE Typed'
  BY <1>15 DEF NothingInstalled
<1>16. ASSUME Reread PROVE Typed'
  BY <1>16 DEF Reread, Pulled
<1>17. ASSUME Redial PROVE Typed'
    <2>1. GiveUp \/ BeIn
      BY <1>17 DEF Redial
    <2>2. OthersTyped'
      BY <1>17 DEF Redial, OthersTyped
    <2> QED BY <2>1, <2>2, EndsTypes, PartsAreTyped
<1>18. ASSUME NEW i \in Ids, NEW v \in Versions, ModsFetch(i, v) PROVE Typed'
  BY <1>18 DEF ModsFetch, Pulled
<1>19. ASSUME SeePulled PROVE Typed'
  BY <1>19 DEF SeePulled
<1>20. ASSUME SeeWelcome PROVE Typed'
  BY <1>20 DEF SeeWelcome
<1>21. ASSUME SeeError PROVE Typed'
  BY <1>21 DEF SeeError
<1>22. ASSUME NEW i \in Ids, Reload(i) PROVE Typed'
  BY <1>22 DEF Reload
<1>23. ASSUME NEW i \in Ids, NEW c \in Content, Edit(i, c) PROVE Typed'
  BY <1>23 DEF Edit
<1>24. ASSUME HostChanges PROVE Typed'
  BY <1>24 DEF HostChanges
<1>25. ASSUME Restart PROVE Typed'
  <2>1. RecoveryTyped' /\ SessionTyped' /\ EventsTyped'
    BY <1>25 DEF Restart, RecoveryTyped, SessionTyped, EventsTyped
  <2>2. OthersTyped'
    <3>1. Discovered \in [Ids -> Content] /\ World(Discovered) \in Sets
      BY ONLY Typed, DiskTypes
    <3>2. loaded' \in [Ids -> Content] /\ worldMods' \in Sets
      BY <1>25, <3>1 DEF Restart
    <3>3. touched' = {} /\ upset' = FALSE /\ asked' = FALSE /\ scene' = None
      BY <1>25 DEF Restart
    <3>4. faults' \in 0..MaxFaults /\ UNCHANGED <<host, disk, edits>>
      BY <1>25 DEF Restart
    <3> HIDE DEF World, Discovered
    <3> QED BY <3>2, <3>3, <3>4 DEF OthersTyped
  <2> QED BY <2>1, <2>2, PartsAreTyped
<1>26. ASSUME UNCHANGED joinVars PROVE Typed'
  BY <1>26 DEF joinVars
<1> QED
  BY <1>1, <1>2, <1>3, <1>4, <1>5, <1>6, <1>7, <1>8, <1>9, <1>10, <1>11, <1>12, <1>13, <1>14, <1>15, <1>16, <1>17, <1>18, <1>19, <1>20, <1>21, <1>22, <1>23, <1>24, <1>25, <1>26 DEF JoinNext, Working

LEMMA BeforeIsKept == Typed /\ RestOK /\ BeforeIsDisk /\ [JoinNext]_joinVars => BeforeIsDisk'
<1> SUFFICES ASSUME Typed, RestOK, BeforeIsDisk, [JoinNext]_joinVars PROVE BeforeIsDisk'
  OBVIOUS
<1> USE DEF JoinTypeOK, Typed, RestOK, Steps, host, disk, recovery, thread, frame, history, Forget, GiveUp, BeIn, Fault, BeforeIsDisk, Discovered
<1>1. ASSUME NEW ask \in BOOLEAN, StartJoin(ask) PROVE BeforeIsDisk'
  BY <1>1 DEF StartJoin
<1>2. ASSUME Host \/ Close PROVE BeforeIsDisk'
  BY <1>2 DEF Host, Close
<1>3. ASSUME Accepted PROVE BeforeIsDisk'
  BY <1>3 DEF Accepted
<1>4. ASSUME Refused PROVE BeforeIsDisk'
  BY <1>4 DEF Refused
<1>5. ASSUME NetworkFails PROVE BeforeIsDisk'
  BY <1>5 DEF NetworkFails
<1>6. ASSUME AskCatalogue PROVE BeforeIsDisk'
  BY <1>6 DEF AskCatalogue
<1>7. ASSUME Fetch \/ FetchShort PROVE BeforeIsDisk'
  BY <1>7 DEF Fetch, FetchShort, Wanted
<1>8. ASSUME NEW i \in Ids, Stage(i) \/ StageTree(i) \/ NotInstalled(i) PROVE BeforeIsDisk'
  BY <1>8 DEF Stage, StageTree, NotInstalled
<1>9. ASSUME NEW i \in Ids, Place(i) \/ PlaceTree(i) PROVE BeforeIsDisk'
  BY <1>9 DEF Place, PlaceTree, Placed
<1>10. ASSUME Installed PROVE BeforeIsDisk'
  BY <1>10 DEF Installed
<1>11. ASSUME RecordFails PROVE BeforeIsDisk'
  BY <1>11 DEF RecordFails
<1>12. ASSUME NothingInstalled PROVE BeforeIsDisk'
  BY <1>12 DEF NothingInstalled
<1>13. ASSUME Reread PROVE BeforeIsDisk'
  BY <1>13 DEF Reread
<1>14. ASSUME Redial PROVE BeforeIsDisk'
  BY <1>14 DEF Redial
<1>15. ASSUME NEW i \in Ids, NEW v \in Versions, ModsFetch(i, v) PROVE BeforeIsDisk'
  BY <1>15 DEF ModsFetch
<1>16. ASSUME SeePulled PROVE BeforeIsDisk'
  BY <1>16 DEF SeePulled
<1>17. ASSUME SeeWelcome \/ SeeError PROVE BeforeIsDisk'
  BY <1>17 DEF SeeWelcome, SeeError
<1>18. ASSUME NEW i \in Ids, Reload(i) PROVE BeforeIsDisk'
  BY <1>18 DEF Reload
<1>19. ASSUME NEW i \in Ids, NEW c \in Content, Edit(i, c) PROVE BeforeIsDisk'
  BY <1>19 DEF Edit
<1>20. ASSUME HostChanges PROVE BeforeIsDisk'
  BY <1>20 DEF HostChanges
<1>21. ASSUME Restart PROVE BeforeIsDisk'
  BY <1>21 DEF Restart
<1>22. ASSUME UNCHANGED joinVars PROVE BeforeIsDisk'
  BY <1>22 DEF joinVars
<1> QED
  BY <1>1, <1>2, <1>3, <1>4, <1>5, <1>6, <1>7, <1>8, <1>9, <1>10, <1>11, <1>12, <1>13, <1>14, <1>15, <1>16, <1>17, <1>18, <1>19, <1>20, <1>21, <1>22 DEF JoinNext, Working

LEMMA FreshIsKept == Typed /\ RestOK /\ BeforeIsDisk /\ FreshOnly /\ [JoinNext]_joinVars => FreshOnly'
<1> SUFFICES ASSUME Typed, RestOK, BeforeIsDisk, FreshOnly, [JoinNext]_joinVars PROVE FreshOnly'
  OBVIOUS
<1> USE DEF JoinTypeOK, Typed, RestOK, Steps, host, disk, recovery, thread, frame, history, Forget, GiveUp, BeIn, Fault, BeforeIsDisk, FreshOnly, Discovered
<1>1. ASSUME NEW ask \in BOOLEAN, StartJoin(ask) PROVE FreshOnly'
  BY <1>1 DEF StartJoin
<1>2. ASSUME Host \/ Close PROVE FreshOnly'
  BY <1>2 DEF Host, Close
<1>3. ASSUME Accepted PROVE FreshOnly'
  BY <1>3 DEF Accepted
<1>4. ASSUME Refused PROVE FreshOnly'
  BY <1>4 DEF Refused
<1>5. ASSUME NetworkFails PROVE FreshOnly'
  BY <1>5 DEF NetworkFails
<1>6. ASSUME AskCatalogue PROVE FreshOnly'
  BY <1>6 DEF AskCatalogue
<1>7. ASSUME Fetch \/ FetchShort PROVE FreshOnly'
  BY <1>7 DEF Fetch, FetchShort, Wanted
<1>8. ASSUME NEW i \in Ids, Stage(i) \/ StageTree(i) \/ NotInstalled(i) PROVE FreshOnly'
  BY <1>8 DEF Stage, StageTree, NotInstalled
<1>9. ASSUME NEW i \in Ids, Place(i) \/ PlaceTree(i) PROVE FreshOnly'
  <2>1. /\ i \in blobs \cup missing /\ got' = got \cup {i} /\ touched' = touched
        /\ mine' = mine /\ pulled' = [pulled EXCEPT ![i] = want[i]]
        /\ \/ blobs' = blobs \ {i} /\ missing' = missing /\ i \in blobs
           \/ missing' = missing \ {i} /\ blobs' = blobs /\ i \in missing
    BY <1>9 DEF Place, PlaceTree, Placed
  <2>2. i \notin blobs' \cup missing'
    BY <2>1
  <2>3. \A j \in Ids \ {i} : Discovered'[j] = Discovered[j]
    BY <2>1
  <2>4. \A j \in (blobs' \cup missing') \ touched' : Discovered'[j] = None
    BY <2>1, <2>2, <2>3
  <2>5. blobs' \cap missing' = {} /\ (blobs' \cup missing') \cap got' = {}
    BY <2>1
  <2> HIDE DEF Discovered
  <2> QED BY <2>4, <2>5
<1>10. ASSUME Installed PROVE FreshOnly'
  BY <1>10 DEF Installed
<1>11. ASSUME RecordFails PROVE FreshOnly'
  BY <1>11 DEF RecordFails
<1>12. ASSUME NothingInstalled PROVE FreshOnly'
  BY <1>12 DEF NothingInstalled
<1>13. ASSUME Reread PROVE FreshOnly'
  BY <1>13 DEF Reread
<1>14. ASSUME Redial PROVE FreshOnly'
  BY <1>14 DEF Redial
<1>15. ASSUME NEW i \in Ids, NEW v \in Versions, ModsFetch(i, v) PROVE FreshOnly'
  BY <1>15 DEF ModsFetch
<1>16. ASSUME SeePulled PROVE FreshOnly'
  BY <1>16 DEF SeePulled
<1>17. ASSUME SeeWelcome \/ SeeError PROVE FreshOnly'
  BY <1>17 DEF SeeWelcome, SeeError
<1>18. ASSUME NEW i \in Ids, Reload(i) PROVE FreshOnly'
  BY <1>18 DEF Reload
<1>19. ASSUME NEW i \in Ids, NEW c \in Content, Edit(i, c) PROVE FreshOnly'
  BY <1>19 DEF Edit
<1>20. ASSUME HostChanges PROVE FreshOnly'
  BY <1>20 DEF HostChanges
<1>21. ASSUME Restart PROVE FreshOnly'
  BY <1>21 DEF Restart
<1>22. ASSUME UNCHANGED joinVars PROVE FreshOnly'
  BY <1>22 DEF joinVars
<1> QED
  BY <1>1, <1>2, <1>3, <1>4, <1>5, <1>6, <1>7, <1>8, <1>9, <1>10, <1>11, <1>12, <1>13, <1>14, <1>15, <1>16, <1>17, <1>18, <1>19, <1>20, <1>21, <1>22 DEF JoinNext, Working

LEMMA PresentedIsKept == Typed /\ RestOK /\ PresentedIsDisk /\ [JoinNext]_joinVars => PresentedIsDisk'
<1> SUFFICES ASSUME Typed, RestOK, PresentedIsDisk, [JoinNext]_joinVars PROVE PresentedIsDisk'
  OBVIOUS
<1> USE DEF JoinTypeOK, Typed, RestOK, Steps, host, disk, recovery, thread, frame, history, Forget, GiveUp, BeIn, Fault, PresentedIsDisk, Untold, World, Discovered
<1>1. ASSUME NEW ask \in BOOLEAN, StartJoin(ask) PROVE PresentedIsDisk'
  BY <1>1 DEF StartJoin
<1>2. ASSUME Host \/ Close PROVE PresentedIsDisk'
  BY <1>2 DEF Host, Close
<1>3. ASSUME Accepted PROVE PresentedIsDisk'
  BY <1>3 DEF Accepted
<1>4. ASSUME Refused PROVE PresentedIsDisk'
  BY <1>4 DEF Refused
<1>5. ASSUME NetworkFails PROVE PresentedIsDisk'
  BY <1>5 DEF NetworkFails
<1>6. ASSUME AskCatalogue PROVE PresentedIsDisk'
  BY <1>6 DEF AskCatalogue
<1>7. ASSUME Fetch \/ FetchShort PROVE PresentedIsDisk'
  BY <1>7 DEF Fetch, FetchShort, Wanted
<1>8. ASSUME NEW i \in Ids, Stage(i) \/ StageTree(i) \/ NotInstalled(i) PROVE PresentedIsDisk'
  BY <1>8 DEF Stage, StageTree, NotInstalled
<1>9. ASSUME NEW i \in Ids, Place(i) \/ PlaceTree(i) PROVE PresentedIsDisk'
  BY <1>9 DEF Place, PlaceTree, Placed
<1>10. ASSUME Installed PROVE PresentedIsDisk'
  BY <1>10 DEF Installed
<1>11. ASSUME RecordFails PROVE PresentedIsDisk'
  BY <1>11 DEF RecordFails
<1>12. ASSUME NothingInstalled PROVE PresentedIsDisk'
  BY <1>12 DEF NothingInstalled
<1>13. ASSUME Reread PROVE PresentedIsDisk'
  BY <1>13 DEF Reread
<1>14. ASSUME Redial PROVE PresentedIsDisk'
  BY <1>14 DEF Redial
<1>15. ASSUME NEW i \in Ids, NEW v \in Versions, ModsFetch(i, v) PROVE PresentedIsDisk'
  BY <1>15 DEF ModsFetch
<1>16. ASSUME SeePulled PROVE PresentedIsDisk'
  BY <1>16 DEF SeePulled
<1>17. ASSUME SeeWelcome \/ SeeError PROVE PresentedIsDisk'
  BY <1>17 DEF SeeWelcome, SeeError
<1>18. ASSUME NEW i \in Ids, Reload(i) PROVE PresentedIsDisk'
  BY <1>18 DEF Reload
<1>19. ASSUME NEW i \in Ids, NEW c \in Content, Edit(i, c) PROVE PresentedIsDisk'
  BY <1>19 DEF Edit
<1>20. ASSUME HostChanges PROVE PresentedIsDisk'
  BY <1>20 DEF HostChanges
<1>21. ASSUME Restart PROVE PresentedIsDisk'
  BY <1>21 DEF Restart
<1>22. ASSUME UNCHANGED joinVars PROVE PresentedIsDisk'
  BY <1>22 DEF joinVars
<1> QED
  BY <1>1, <1>2, <1>3, <1>4, <1>5, <1>6, <1>7, <1>8, <1>9, <1>10, <1>11, <1>12, <1>13, <1>14, <1>15, <1>16, <1>17, <1>18, <1>19, <1>20, <1>21, <1>22 DEF JoinNext, Working

LEMMA TailSees ==
  ASSUME Typed, events # <<>>, events' = Tail(events)
  PROVE  /\ Len(events) \in Nat \ {0} /\ Len(events') = Len(events) - 1
         /\ DOMAIN events = 1..Len(events) /\ DOMAIN events' = 1..Len(events')
         /\ Head(events) = events[1]
         /\ \A k \in 1..Len(events') : k + 1 \in 1..Len(events) /\ events'[k] = events[k + 1]
<1>1. events \in Seq(Event)
  BY DEF Typed
<1> QED BY <1>1, HeadTailProperties, EmptySeq

LEMMA LastStays ==
  ASSUME Typed, events # <<>>, events' = Tail(events), Len(events) # 1
  PROVE  events' # <<>> /\ events'[Len(events')] = events[Len(events)]
<1>1. Len(events') \in 1..Len(events') /\ Len(events') + 1 = Len(events)
  BY TailSees
<1> QED BY <1>1, TailSees

LEMMA AppendAnnounces ==
  ASSUME Typed, NEW e \in Event, events' = Append(events, e)
  PROVE  \A i \in Ids : Announced(i)' <=> Announced(i) \/ (e.kind = "pulled" /\ i \in e.ids)
<1>1. events \in Seq(Event)
  BY DEF Typed
<1>2. /\ DOMAIN events = 1..Len(events) /\ DOMAIN events' = 1..(Len(events) + 1)
      /\ events'[Len(events) + 1] = e /\ \A k \in 1..Len(events) : events'[k] = events[k]
      /\ Len(events) \in Nat
  BY <1>1, AppendProperties
<1> QED BY <1>2 DEF Announced

LEMMA TailAnnounces ==
  ASSUME Typed, events # <<>>, events' = Tail(events)
  PROVE  \A i \in Ids : Announced(i) =>
           Announced(i)' \/ (Head(events).kind = "pulled" /\ i \in Head(events).ids)
<1> SUFFICES ASSUME NEW i \in Ids, Announced(i)
             PROVE  Announced(i)' \/ (Head(events).kind = "pulled" /\ i \in Head(events).ids)
  OBVIOUS
<1>1. PICK k \in DOMAIN events : events[k].kind = "pulled" /\ i \in events[k].ids
  BY DEF Announced
<1>2. CASE k = 1
  BY <1>1, <1>2, TailSees
<1>3. CASE k # 1
  <2>1. k - 1 \in DOMAIN events' /\ events'[k - 1] = events[k]
    BY <1>3, TailSees
  <2> QED BY <1>1, <2>1 DEF Announced
<1> QED BY <1>2, <1>3

LEMMA FramePrimes ==
  ASSUME Typed, RunsIsDisk, pc' = pc, got' = got, touched' = touched,
         mine' = mine, pulled' = pulled, events # <<>>, events' = Tail(events),
         \A i \in Ids : Head(events).kind = "pulled" /\ i \in Head(events).ids
                         => loaded'[i] = Discovered[i],
         \A i \in Ids : ~(Head(events).kind = "pulled" /\ i \in Head(events).ids)
                         => loaded'[i] = loaded[i]
  PROVE  RunsIsDisk'
BY TailAnnounces DEF RunsIsDisk, Untold, Discovered

LEMMA RunsIsKept == Typed /\ RestOK /\ RunsIsDisk /\ [JoinNext]_joinVars => RunsIsDisk'
<1> SUFFICES ASSUME Typed, RestOK, RunsIsDisk, [JoinNext]_joinVars PROVE RunsIsDisk'
  OBVIOUS
<1> USE DEF JoinTypeOK, Typed, RestOK, Steps, host, disk, recovery, thread, frame, history, Forget, GiveUp, BeIn, Fault, RunsIsDisk, Untold, Discovered
<1>1. ASSUME NEW ask \in BOOLEAN, StartJoin(ask) PROVE RunsIsDisk'
  BY <1>1 DEF Announced, StartJoin
<1>2. ASSUME Host \/ Close PROVE RunsIsDisk'
  BY <1>2 DEF Announced, Host, Close
<1>3. ASSUME Accepted PROVE RunsIsDisk'
  <2>1. PICK e \in Event : e.kind # "pulled" /\ events' = Append(events, e)
    BY <1>3 DEF Accepted, Event, Welcome, Error
  <2>2. \A i \in Ids : Announced(i)' <=> Announced(i)
    BY <2>1, AppendAnnounces
  <2> QED BY <1>3, <2>2 DEF Accepted
<1>4. ASSUME Refused PROVE RunsIsDisk'
  <2>1. CASE UNCHANGED events
    BY <1>4, <2>1 DEF Refused, Announced
  <2>2. CASE GiveUp
    <3>1. PICK e \in Event : e.kind # "pulled" /\ events' = Append(events, e)
      BY <2>2 DEF Event, Error
    <3>2. \A i \in Ids : Announced(i)' <=> Announced(i)
      BY <3>1, AppendAnnounces
    <3> QED BY <1>4, <2>2, <3>2 DEF Refused
  <2> QED BY <1>4, <2>1, <2>2 DEF Refused
<1>5. ASSUME NetworkFails PROVE RunsIsDisk'
  <2>1. PICK e \in Event : e.kind # "pulled" /\ events' = Append(events, e)
    BY <1>5 DEF NetworkFails, Event, Welcome, Error
  <2>2. \A i \in Ids : Announced(i)' <=> Announced(i)
    BY <2>1, AppendAnnounces
  <2> QED BY <1>5, <2>2 DEF NetworkFails
<1>6. ASSUME AskCatalogue PROVE RunsIsDisk'
  <2>1. CASE UNCHANGED events
    BY <1>6, <2>1 DEF AskCatalogue, Announced
  <2>2. CASE GiveUp
    <3>1. PICK e \in Event : e.kind # "pulled" /\ events' = Append(events, e)
      BY <2>2 DEF Event, Error
    <3>2. \A i \in Ids : Announced(i)' <=> Announced(i)
      BY <3>1, AppendAnnounces
    <3> QED BY <1>6, <2>2, <3>2 DEF AskCatalogue
  <2> QED BY <1>6, <2>1, <2>2 DEF AskCatalogue
<1>7. ASSUME Fetch \/ FetchShort PROVE RunsIsDisk'
  BY <1>7 DEF Announced, Fetch, FetchShort, Wanted
<1>8. ASSUME NEW i \in Ids, Stage(i) \/ StageTree(i) \/ NotInstalled(i) PROVE RunsIsDisk'
  BY <1>8 DEF Announced, Stage, StageTree, NotInstalled
<1>9. ASSUME NEW i \in Ids, Place(i) \/ PlaceTree(i) PROVE RunsIsDisk'
  BY <1>9 DEF Announced, Place, PlaceTree, Placed
<1>10. ASSUME Installed PROVE RunsIsDisk'
  BY <1>10 DEF Announced, Installed
<1>11. ASSUME RecordFails PROVE RunsIsDisk'
  <2>1. PICK e \in Event : e.kind # "pulled" /\ events' = Append(events, e)
    BY <1>11 DEF RecordFails, Event, Welcome, Error
  <2>2. \A i \in Ids : Announced(i)' <=> Announced(i)
    BY <2>1, AppendAnnounces
  <2> QED BY <1>11, <2>2 DEF RecordFails
<1>12. ASSUME NothingInstalled PROVE RunsIsDisk'
  <2>1. PICK e \in Event : e.kind # "pulled" /\ events' = Append(events, e)
    BY <1>12 DEF NothingInstalled, Event, Welcome, Error
  <2>2. \A i \in Ids : Announced(i)' <=> Announced(i)
    BY <2>1, AppendAnnounces
  <2> QED BY <1>12, <2>2 DEF NothingInstalled
<1>13. ASSUME Reread PROVE RunsIsDisk'
  <2>1. Pulled(got) \in Event /\ events' = Append(events, Pulled(got))
    BY <1>13 DEF Event, Reread, Pulled
  <2>2. \A i \in Ids : Announced(i)' <=> Announced(i) \/ (Pulled(got).kind = "pulled" /\ i \in Pulled(got).ids)
    BY <2>1, AppendAnnounces
  <2> QED BY <1>13, <2>2 DEF Reread, Pulled
<1>14. ASSUME Redial PROVE RunsIsDisk'
  <2>1. PICK e \in Event : e.kind # "pulled" /\ events' = Append(events, e)
    BY <1>14 DEF Redial, Event, Welcome, Error
  <2>2. \A i \in Ids : Announced(i)' <=> Announced(i)
    BY <2>1, AppendAnnounces
  <2> QED BY <1>14, <2>2 DEF Redial
<1>15. ASSUME NEW i \in Ids, NEW v \in Versions, ModsFetch(i, v) PROVE RunsIsDisk'
  BY <1>15 DEF Announced, Pulled, ModsFetch
<1>16. ASSUME SeePulled PROVE RunsIsDisk'
  <2>1. /\ \A i \in Ids : Head(events).kind = "pulled" /\ i \in Head(events).ids
                             => loaded'[i] = Discovered[i]
        /\ \A i \in Ids : ~(Head(events).kind = "pulled" /\ i \in Head(events).ids)
                             => loaded'[i] = loaded[i]
        /\ events # <<>> /\ events' = Tail(events)
    BY <1>16 DEF SeePulled
  <2>2. UNCHANGED <<pc, got, touched, mine, pulled>>
    BY <1>16 DEF SeePulled
  <2> QED BY ONLY <2>1, <2>2, Typed, RunsIsDisk, FramePrimes
<1>17. ASSUME SeeWelcome \/ SeeError PROVE RunsIsDisk'
  <2>1. /\ Head(events).kind # "pulled" /\ UNCHANGED <<loaded, pc, got, touched, mine, pulled>>
        /\ events # <<>> /\ events' = Tail(events)
    BY <1>17 DEF SeeWelcome, SeeError
  <2> QED BY ONLY <2>1, Typed, RunsIsDisk, FramePrimes
<1>18. ASSUME NEW i \in Ids, Reload(i) PROVE RunsIsDisk'
  BY <1>18 DEF Announced, Reload
<1>19. ASSUME NEW i \in Ids, NEW c \in Content, Edit(i, c) PROVE RunsIsDisk'
  BY <1>19 DEF Announced, Edit
<1>20. ASSUME HostChanges PROVE RunsIsDisk'
  BY <1>20 DEF Announced, HostChanges
<1>21. ASSUME Restart PROVE RunsIsDisk'
  BY <1>21 DEF Announced, Restart
<1>22. ASSUME UNCHANGED joinVars PROVE RunsIsDisk'
  BY <1>22 DEF Announced, joinVars
<1> QED
  BY <1>1, <1>2, <1>3, <1>4, <1>5, <1>6, <1>7, <1>8, <1>9, <1>10, <1>11, <1>12, <1>13, <1>14, <1>15, <1>16, <1>17, <1>18, <1>19, <1>20, <1>21, <1>22 DEF JoinNext, Working

LEMMA SessionIsKept == Typed /\ RestOK /\ PresentedIsDisk /\ SessionIsPresented /\ [JoinNext]_joinVars => SessionIsPresented'
<1> SUFFICES ASSUME Typed, RestOK, PresentedIsDisk, SessionIsPresented, [JoinNext]_joinVars PROVE SessionIsPresented'
  OBVIOUS
<1> USE DEF JoinTypeOK, Typed, RestOK, Steps, host, disk, recovery, thread, frame, history, Forget, GiveUp, BeIn, Fault, PresentedIsDisk, SessionIsPresented, Untold, NoSession, World, Discovered, Session, Sets
<1>1. ASSUME NEW ask \in BOOLEAN, StartJoin(ask) PROVE SessionIsPresented'
  BY <1>1 DEF StartJoin
<1>2. ASSUME Host \/ Close PROVE SessionIsPresented'
  BY <1>2 DEF Host, Close
<1>3. ASSUME Accepted PROVE SessionIsPresented'
  <2>1. session'.kind = "client" /\ session'.set = hostSet /\ pc' = "idle"
        /\ worldMods' = worldMods /\ worldMods = hostSet
    BY <1>3 DEF Accepted
  <2> QED BY <2>1 DEF SessionIsPresented
<1>4. ASSUME Refused PROVE SessionIsPresented'
  BY <1>4 DEF Refused
<1>5. ASSUME NetworkFails PROVE SessionIsPresented'
  BY <1>5 DEF NetworkFails
<1>6. ASSUME AskCatalogue PROVE SessionIsPresented'
  BY <1>6 DEF AskCatalogue
<1>7. ASSUME Fetch \/ FetchShort PROVE SessionIsPresented'
  BY <1>7 DEF Fetch, FetchShort, Wanted
<1>8. ASSUME NEW i \in Ids, Stage(i) \/ StageTree(i) \/ NotInstalled(i) PROVE SessionIsPresented'
  BY <1>8 DEF Stage, StageTree, NotInstalled
<1>9. ASSUME NEW i \in Ids, Place(i) \/ PlaceTree(i) PROVE SessionIsPresented'
  BY <1>9 DEF Place, PlaceTree, Placed
<1>10. ASSUME Installed PROVE SessionIsPresented'
  BY <1>10 DEF Installed
<1>11. ASSUME RecordFails PROVE SessionIsPresented'
  BY <1>11 DEF RecordFails
<1>12. ASSUME NothingInstalled PROVE SessionIsPresented'
  BY <1>12 DEF NothingInstalled
<1>13. ASSUME Reread PROVE SessionIsPresented'
  BY <1>13 DEF Reread
<1>14. ASSUME Redial PROVE SessionIsPresented'
  BY <1>14 DEF Redial
<1>15. ASSUME NEW i \in Ids, NEW v \in Versions, ModsFetch(i, v) PROVE SessionIsPresented'
  BY <1>15 DEF ModsFetch
<1>16. ASSUME SeePulled PROVE SessionIsPresented'
  BY <1>16 DEF SeePulled
<1>17. ASSUME SeeWelcome \/ SeeError PROVE SessionIsPresented'
  BY <1>17 DEF SeeWelcome, SeeError
<1>18. ASSUME NEW i \in Ids, Reload(i) PROVE SessionIsPresented'
  BY <1>18 DEF Reload
<1>19. ASSUME NEW i \in Ids, NEW c \in Content, Edit(i, c) PROVE SessionIsPresented'
  BY <1>19 DEF Edit
<1>20. ASSUME HostChanges PROVE SessionIsPresented'
  BY <1>20 DEF HostChanges
<1>21. ASSUME Restart PROVE SessionIsPresented'
  BY <1>21 DEF Restart
<1>22. ASSUME UNCHANGED joinVars PROVE SessionIsPresented'
  BY <1>22 DEF joinVars
<1> QED
  BY <1>1, <1>2, <1>3, <1>4, <1>5, <1>6, <1>7, <1>8, <1>9, <1>10, <1>11, <1>12, <1>13, <1>14, <1>15, <1>16, <1>17, <1>18, <1>19, <1>20, <1>21, <1>22 DEF JoinNext, Working

LEMMA SceneIsKept == Typed /\ RestOK /\ SceneFollows /\ [JoinNext]_joinVars => SceneFollows'
<1> SUFFICES ASSUME Typed, RestOK, SceneFollows, [JoinNext]_joinVars PROVE SceneFollows'
  OBVIOUS
<1> USE DEF JoinTypeOK, Typed, RestOK, Steps, host, disk, recovery, thread, frame, history, Forget, GiveUp, BeIn, Fault, SceneFollows, NoSession, Pulled, Welcome, Error
<1>1. ASSUME NEW ask \in BOOLEAN, StartJoin(ask) PROVE SceneFollows'
  BY <1>1 DEF StartJoin
<1>2. ASSUME Host \/ Close PROVE SceneFollows'
  BY <1>2 DEF Host, Close
<1>3. ASSUME Accepted PROVE SceneFollows'
  <2>1. events \in Seq(Event) /\ Welcome(hostSet) \in Event
    BY DEF Event, Welcome
  <2>2. events' # <<>> /\ events'[Len(events')] = Welcome(hostSet)
    BY <1>3, <2>1, AppendProperties DEF Accepted
  <2> QED BY <1>3, <2>2 DEF Accepted
<1>4. ASSUME Refused PROVE SceneFollows'
  BY <1>4 DEF Refused
<1>5. ASSUME NetworkFails PROVE SceneFollows'
  BY <1>5 DEF NetworkFails
<1>6. ASSUME AskCatalogue PROVE SceneFollows'
  BY <1>6 DEF AskCatalogue
<1>7. ASSUME Fetch \/ FetchShort PROVE SceneFollows'
  BY <1>7 DEF Fetch, FetchShort, Wanted
<1>8. ASSUME NEW i \in Ids, Stage(i) \/ StageTree(i) \/ NotInstalled(i) PROVE SceneFollows'
  BY <1>8 DEF Stage, StageTree, NotInstalled
<1>9. ASSUME NEW i \in Ids, Place(i) \/ PlaceTree(i) PROVE SceneFollows'
  BY <1>9 DEF Place, PlaceTree, Placed
<1>10. ASSUME Installed PROVE SceneFollows'
  BY <1>10 DEF Installed
<1>11. ASSUME RecordFails PROVE SceneFollows'
  BY <1>11 DEF RecordFails
<1>12. ASSUME NothingInstalled PROVE SceneFollows'
  BY <1>12 DEF NothingInstalled
<1>13. ASSUME Reread PROVE SceneFollows'
  BY <1>13 DEF Reread
<1>14. ASSUME Redial PROVE SceneFollows'
  <2>1. CASE BeIn
    <3>1. events \in Seq(Event) /\ Welcome(hostSet) \in Event
      BY DEF Event, Welcome
    <3>2. events' # <<>> /\ events'[Len(events')] = Welcome(hostSet)
      BY <2>1, <3>1, AppendProperties
    <3> QED BY <2>1, <3>2
  <2>2. CASE GiveUp
    BY <1>14, <2>2 DEF Redial
  <2> QED BY <1>14, <2>1, <2>2 DEF Redial
<1>15. ASSUME NEW i \in Ids, NEW v \in Versions, ModsFetch(i, v) PROVE SceneFollows'
  BY <1>15 DEF ModsFetch
<1>16. ASSUME SeePulled PROVE SceneFollows'
  <2>1. session' = session
    BY <1>16 DEF SeePulled
  <2>2. SceneFollows'
    <3>1. CASE Len(events) = 1
      BY <1>16, <3>1, TailSees DEF SeePulled
    <3>2. CASE Len(events) # 1
      <4>1. events' # <<>> /\ events'[Len(events')] = events[Len(events)]
        BY <1>16, <3>2, LastStays DEF SeePulled
      <4>2. CASE session.kind = "client" /\ events[Len(events)] = Welcome(session.set)
        BY <2>1, <4>1, <4>2
      <4>3. CASE \A k \in DOMAIN events : events[k].kind = "pulled"
        BY <1>16, <4>3, TailSees DEF SeePulled
      <4> QED BY <2>1, <4>2, <4>3
    <3> QED BY <3>1, <3>2
  <2> QED BY <2>2
<1>17. ASSUME SeeWelcome \/ SeeError PROVE SceneFollows'
  <2>1. session' = session
    BY <1>17 DEF SeeWelcome, SeeError
  <2>2. SceneFollows'
    <3>1. CASE Len(events) = 1
      BY <1>17, <3>1, TailSees DEF SeeWelcome, SeeError
    <3>2. CASE Len(events) # 1
      <4>1. events' # <<>> /\ events'[Len(events')] = events[Len(events)]
        BY <1>17, <3>2, LastStays DEF SeeWelcome, SeeError
      <4>2. CASE session.kind = "client" /\ events[Len(events)] = Welcome(session.set)
        BY <2>1, <4>1, <4>2
      <4>3. CASE \A k \in DOMAIN events : events[k].kind = "pulled"
        BY <1>17, <4>3, TailSees DEF SeeWelcome, SeeError
      <4> QED BY <2>1, <4>2, <4>3
    <3> QED BY <3>1, <3>2
  <2> QED BY <2>2
<1>18. ASSUME NEW i \in Ids, Reload(i) PROVE SceneFollows'
  BY <1>18 DEF Reload
<1>19. ASSUME NEW i \in Ids, NEW c \in Content, Edit(i, c) PROVE SceneFollows'
  BY <1>19 DEF Edit
<1>20. ASSUME HostChanges PROVE SceneFollows'
  BY <1>20 DEF HostChanges
<1>21. ASSUME Restart PROVE SceneFollows'
  BY <1>21 DEF Restart
<1>22. ASSUME UNCHANGED joinVars PROVE SceneFollows'
  BY <1>22 DEF joinVars
<1> QED
  BY <1>1, <1>2, <1>3, <1>4, <1>5, <1>6, <1>7, <1>8, <1>9, <1>10, <1>11, <1>12, <1>13, <1>14, <1>15, <1>16, <1>17, <1>18, <1>19, <1>20, <1>21, <1>22 DEF JoinNext, Working

-----------------------------------------------------------------------------
LEMMA InitMembers == JoinInit => Typed /\ Members
<1> SUFFICES ASSUME JoinInit PROVE Typed /\ Members
  OBVIOUS
<1>1. Typed
  <2>1. mine \in [Ids -> Content] /\ pulled \in Sets
    BY DEF JoinInit, Nothing, Sets
  <2>2. Discovered \in [Ids -> Content]
    BY <2>1 DEF Discovered, Content, Sets
  <2>3. World(Discovered) \in Sets
    BY <2>2 DEF World, Sets
  <2>4. events \in Seq(Event) /\ \A e \in {events[k] : k \in DOMAIN events} : FALSE
    BY DEF JoinInit
  <2>5. JoinTypeOK
    <3>1. RecoveryTyped
      BY DEF JoinInit, RecoveryTyped, Nothing, Sets, Content
    <3>2. EventsTyped /\ SessionTyped
      BY <2>4 DEF JoinInit, EventsTyped, SessionTyped, Session, NoSession, Steps
    <3>3. OthersTyped
      <4>1. served \subseteq Ids /\ 0 \in 0..MaxFaults /\ 0 \in 0..MaxEdits
        BY BoundsAssumption DEF JoinInit
      <4> QED BY <2>1, <2>2, <2>3, <4>1 DEF JoinInit, OthersTyped
    <3> QED BY <3>1, <3>2, <3>3
            DEF JoinTypeOK, RecoveryTyped, EventsTyped, SessionTyped, OthersTyped, Sets
  <2> QED BY <2>4, <2>5 DEF Typed, JoinInit, Session
<1>2. RestOK /\ BeforeIsDisk /\ FreshOnly
  BY DEF JoinInit, RestOK, BeforeIsDisk, FreshOnly
<1>3. PresentedIsDisk /\ RunsIsDisk
  BY DEF JoinInit, PresentedIsDisk, RunsIsDisk
<1>4. SessionIsPresented /\ SceneFollows
  BY DEF JoinInit, SessionIsPresented, SceneFollows, NoSession
<1> QED BY <1>1, <1>2, <1>3, <1>4 DEF Members

LEMMA MembersAreKept == Typed /\ Members /\ [JoinNext]_joinVars => (Typed /\ Members)'
BY JoinTypesKept, RestIsKept, BeforeIsKept, FreshIsKept, PresentedIsKept, RunsIsKept,
   SessionIsKept, SceneIsKept DEF Members

(* The inductive invariant: what the scene runs, what the join presented   *)
(* and what is on disk agree but for what was touched, the session is one  *)
(* the host agreed to, and the scene follows it (see Members).             *)
THEOREM MembersHold == JoinSpec => [](Typed /\ Members)
BY InitMembers, MembersAreKept, PTL DEF JoinSpec

(* Every variable keeps its type, whatever fails or is edited and whenever. *)
THEOREM JoinTypeCorrect == JoinSpec => []JoinTypeOK
<1>1. Typed => JoinTypeOK
  BY DEF Typed
<1> QED BY <1>1, MembersHold, PTL

(* Who is in a session runs what its host runs, but for the ids the player  *)
(* or a failed record changed behind the network thread's back.             *)
THEOREM MembersRunTheHostsModsAlways == JoinSpec => []MembersRunTheHostsMods
<1>1. Typed /\ Members => MembersRunTheHostsMods
  <2> SUFFICES ASSUME Typed, Members, session.kind = "client", pc = "idle", events = <<>>
               PROVE  /\ scene = session.set
                      /\ \A i \in Ids \ touched : World(loaded)[i] = session.set[i]
    BY DEF MembersRunTheHostsMods
  <2>1. got = {}
    BY DEF Members, RestOK
  <2>2. scene = session.set
    BY DEF Members, SceneFollows
  <2>3. ASSUME NEW i \in Ids \ touched PROVE World(loaded)[i] = session.set[i]
    <3>1. loaded[i] = Discovered[i]
      BY <2>1 DEF Members, RunsIsDisk, Untold, Announced
    <3>2. worldMods[i] = World(Discovered)[i] /\ session.set[i] = worldMods[i]
      BY <2>1 DEF Members, PresentedIsDisk, Untold, SessionIsPresented
    <3> QED BY <3>1, <3>2 DEF World
  <2> QED BY <2>2, <2>3
<1> QED BY <1>1, MembersHold, PTL

(* A pull, a crash in the middle of one and a second one replace nothing    *)
(* discovery had chosen, unless the player changes the id.                  *)
THEOREM PullsReplaceNothingEver == JoinSpec => PullsReplaceNothing
<1>1. Typed /\ Members /\ [JoinNext]_joinVars =>
        [\A i \in Ids : Discovered[i] # None /\ mine'[i] = mine[i] /\ i \notin touched =>
           Discovered'[i] = Discovered[i]]_joinVars
  <2> SUFFICES ASSUME Typed, FreshOnly, JoinNext, NEW i \in Ids,
                      Discovered[i] # None, mine'[i] = mine[i], i \notin touched
               PROVE  Discovered'[i] = Discovered[i]
    BY DEF Members
  <2> USE DEF Typed, JoinTypeOK
  <2>1. ASSUME NEW j \in Ids, Place(j) \/ PlaceTree(j) PROVE Discovered'[i] = Discovered[i]
    <3>1. j # i /\ mine' = mine /\ pulled' = [pulled EXCEPT ![j] = want[j]]
      BY <2>1 DEF Place, PlaceTree, Placed, FreshOnly
    <3> QED BY <3>1 DEF Discovered
  <2>2. ASSUME NEW j \in Ids, NEW v \in Versions, ModsFetch(j, v)
        PROVE  Discovered'[i] = Discovered[i]
    <3>1. j # i /\ mine' = mine /\ pulled' = [pulled EXCEPT ![j] = v]
      BY <2>2 DEF ModsFetch
    <3> QED BY <3>1 DEF Discovered
  <2>3. ASSUME NEW j \in Ids, NEW c \in Content, Edit(j, c) PROVE pulled' = pulled
    BY <2>3 DEF Edit
  <2>4. CASE pulled' = pulled
    BY <2>4 DEF Discovered
  <2>5. ASSUME \/ Accepted \/ Refused \/ AskCatalogue \/ Fetch \/ Installed
               \/ NothingInstalled \/ Reread \/ Redial \/ NetworkFails \/ FetchShort
               \/ RecordFails \/ Host \/ Close \/ \E ask \in BOOLEAN : StartJoin(ask)
        PROVE  pulled' = pulled
    BY <2>5 DEF Accepted, Refused, AskCatalogue, Fetch, Installed, NothingInstalled, Reread,
                Redial, NetworkFails, FetchShort, RecordFails, Host, Close, StartJoin, disk
  <2>6. ASSUME \/ SeePulled \/ SeeWelcome \/ SeeError \/ HostChanges \/ Restart
               \/ \E j \in Ids : Stage(j) \/ StageTree(j) \/ NotInstalled(j) \/ Reload(j)
        PROVE  pulled' = pulled
    BY <2>6 DEF SeePulled, SeeWelcome, SeeError, HostChanges, Restart, Stage, StageTree,
                NotInstalled, Reload, disk
  <2> QED BY <2>1, <2>2, <2>3, <2>4, <2>5, <2>6 DEF JoinNext, Working
<1> QED BY <1>1, MembersHold, PTL DEF JoinSpec, PullsReplaceNothing

-----------------------------------------------------------------------------
(* Why adding mods is enough when it is.                                   *)

\* What a step adds that the host runs was wanting before it.
LEMMA HopedBefore ==
  ASSUME Typed, UNCHANGED <<hostSet, served, asked, upset, touched>>, Hopeful',
         \A j \in Ids : \/ Discovered'[j] = Discovered[j]
                        \/ Discovered[j] = None /\ Discovered'[j] \in Versions
  PROVE  Hopeful
<1>1. Completable(served)'
  BY DEF Hopeful
<1>2. ASSUME NEW j \in Ids
      PROVE  IF hostSet[j] = None THEN Discovered[j] \in {None, Client}
             ELSE Discovered[j] = hostSet[j] \/ (Discovered[j] = None /\ j \in served)
  <2>1. CASE Discovered'[j] = Discovered[j]
    BY <1>1, <2>1 DEF Completable
  <2>2. CASE Discovered[j] = None /\ Discovered'[j] \in Versions
    BY <1>1, <2>2, NamesAssumption DEF Completable, Hopeful
  <2> QED BY <2>1, <2>2
<1>3. Completable(served)
  BY <1>2 DEF Completable
<1> QED BY <1>3 DEF Hopeful

\* On an unchanged directory.
LEMMA SameHope ==
  ASSUME Typed, UNCHANGED <<hostSet, served, asked, upset, touched, mine, pulled>>, Hopeful'
  PROVE  Hopeful
BY HopedBefore DEF Discovered

\* Such a join has something to fetch, and all of it is in the catalogue.
LEMMA HopeFinds ==
  ASSUME Typed, Hopeful, NEW i \in Ids
  PROVE  /\ Discovered[i] = None /\ hostSet[i] # None => Catalogue[i] = hostSet[i]
         /\ World(Discovered)[i] \in {None, Catalogue[i]}
         /\ World(Discovered)[i] # hostSet[i] => Discovered[i] = None /\ hostSet[i] # None
         /\ hostSet[i] \in Versions \cup {None}
<1>1. hostSet[i] \in Versions \cup {None}
  BY HostSetsAssumption DEF Typed, JoinTypeOK
<1>2. /\ served = {j \in Ids : hostSet[j] # None}
      /\ IF hostSet[i] = None THEN Discovered[i] \in {None, Client}
         ELSE Discovered[i] = hostSet[i] \/ (Discovered[i] = None /\ i \in served)
  BY DEF Hopeful, Completable
<1>3. Catalogue[i] = hostSet[i]
  BY <1>2 DEF Catalogue
<1>4. World(Discovered)[i] = IF Discovered[i] \in Versions THEN Discovered[i] ELSE None
  BY DEF World
<1> QED BY <1>1, <1>2, <1>3, <1>4, NamesAssumption

LEMMA DiskIsBefore ==
  ASSUME Typed, BeforeIsDisk, touched = {}, pc \in {"catalogue", "fetch"}
  PROVE  before = Discovered
<1>1. before \in [Ids -> Content] /\ Discovered \in [Ids -> Content]
  BY DiskTypes DEF Typed, JoinTypeOK
<1>2. \A i \in Ids : before[i] = Discovered[i]
  BY DEF BeforeIsDisk
<1> QED BY <1>1, <1>2

LEMMA OnTheWayIsKept == Typed /\ Members /\ OnTheWay /\ [JoinNext]_joinVars => OnTheWay'
<1> SUFFICES ASSUME Typed, Members, OnTheWay, [JoinNext]_joinVars, Hopeful' PROVE OnTheWay'
  BY DEF OnTheWay
<1> USE DEF host, disk, recovery, thread, history, frame
<1>a. RestOK /\ BeforeIsDisk /\ FreshOnly /\ PresentedIsDisk
  BY DEF Members
<1>1. ASSUME NEW ask \in BOOLEAN, StartJoin(ask) PROVE OnTheWay'
  BY <1>1 DEF StartJoin, OnTheWay
<1>2. ASSUME Host \/ Close PROVE OnTheWay'
  BY <1>2, SameHope DEF Host, Close, OnTheWay, Discovered
<1>3. ASSUME Accepted PROVE OnTheWay'
  BY <1>3 DEF Accepted, BeIn, OnTheWay
<1>4. ASSUME Refused PROVE OnTheWay'
  <2>1. asked
    BY <1>4 DEF Hopeful, Refused, GiveUp
  <2> QED BY <1>4, <2>1, <1>a DEF Refused, OnTheWay, RestOK
<1>5. ASSUME NetworkFails PROVE OnTheWay'
  BY <1>5 DEF NetworkFails, Fault, Hopeful
<1>6. ASSUME AskCatalogue PROVE OnTheWay'
  <2>1. Hopeful /\ pc = "catalogue" /\ worldMods # hostSet /\ answer # "error"
    <3>1. UNCHANGED <<hostSet, served, asked, upset, touched, mine, pulled>>
      BY <1>6 DEF AskCatalogue, GiveUp
    <3>2. Hopeful
      BY <3>1, SameHope
    <3> QED BY <1>6, <3>2 DEF AskCatalogue, OnTheWay
  <2>2. before = Discovered
    BY <2>1, <1>a, DiskIsBefore DEF Hopeful
  <2>3. PICK i \in Ids : Discovered[i] = None /\ hostSet[i] # None
    <3>1. worldMods \in Sets /\ hostSet \in Sets
      BY HostSetsAssumption DEF Typed, JoinTypeOK, Sets
    <3>2. PICK i \in Ids : worldMods[i] # hostSet[i]
      BY <2>1, <3>1 DEF Sets
    <3>3. worldMods[i] = World(Discovered)[i]
      BY <2>1, <1>a DEF PresentedIsDisk, Untold, RestOK, Hopeful
    <3> QED BY <2>1, <3>2, <3>3, HopeFinds
  <2>4. Lacking[i] = hostSet[i]
    BY <2>1, <2>2, <2>3, HopeFinds, NamesAssumption DEF Lacking, World
  <2>5. Fixable /\ Lacking # Nothing
    BY <2>1, <2>2, <2>3, <2>4, HopeFinds DEF Fixable, Nothing
  <2>6. /\ pc' = "fetch" /\ want' = Lacking /\ UNCHANGED <<before, answer>>
        /\ UNCHANGED <<hostSet, served>>
    BY <1>6, <2>5 DEF AskCatalogue
  <2>7. want' = Lacking'
    BY <2>6 DEF Lacking, Catalogue
  <2>8. i \in Wanted'
    BY <2>2, <2>3, <2>4, <2>6 DEF Wanted
  <2> QED BY <2>1, <2>6, <2>7, <2>8 DEF OnTheWay
<1>7. ASSUME Fetch \/ FetchShort PROVE OnTheWay'
  <2>1. Fetch
    BY <1>7 DEF FetchShort, Fault, Hopeful
  <2>2. Hopeful
    BY <2>1, SameHope DEF Fetch
  <2>3. want = Lacking /\ Wanted # {} /\ answer # "error" /\ got = {} /\ pc = "fetch"
    BY <2>1, <2>2, <1>a DEF OnTheWay, RestOK, Fetch
  <2>4. before = Discovered
    BY <2>2, <2>3, <1>a, DiskIsBefore DEF Hopeful
  <2>5. \A i \in Wanted : i \in served /\ want[i] = hostSet[i]
    BY <2>3 DEF Wanted, Lacking, Catalogue
  <2>6. blobs' = Wanted /\ missing' = {} /\ UNCHANGED <<want, hostSet, mine, pulled, answer>>
    BY <2>1, <2>5 DEF Fetch
  <2>7. ASSUME NEW i \in Ids \ Wanted PROVE World(Discovered)[i] = hostSet[i]
    <3>1. SUFFICES ASSUME World(Discovered)[i] # hostSet[i] PROVE FALSE
      OBVIOUS
    <3>2. Discovered[i] = None /\ hostSet[i] # None /\ Catalogue[i] = hostSet[i]
      BY <2>2, <3>1, HopeFinds
    <3>3. World(before)[i] = None
      BY <2>4, <3>2, NamesAssumption DEF World
    <3>4. want[i] = hostSet[i]
      BY <2>3, <3>2, <3>3 DEF Lacking
    <3> QED BY <2>4, <3>2, <3>4 DEF Wanted
  <2>8. \A i \in Ids \ Wanted : World(Discovered)'[i] = hostSet[i]
    BY <2>6, <2>7 DEF World, Discovered
  <2>9. pc' = "install"
    BY <2>1 DEF Fetch
  <2> QED BY <2>3, <2>5, <2>6, <2>8, <2>9 DEF OnTheWay
<1>8. ASSUME NEW i \in Ids, Stage(i) \/ StageTree(i) \/ NotInstalled(i) PROVE OnTheWay'
  <2>1. UNCHANGED <<hostSet, served, asked, touched, mine, pulled, got, want, pc, worldMods, answer>>
    BY <1>8 DEF Stage, StageTree, NotInstalled
  <2>2. ~upset /\ ~upset'
    <3>1. upset' = TRUE \/ upset' = upset
      BY <1>8 DEF Stage, StageTree, NotInstalled, Fault
    <3>2. ~upset'
      BY DEF Hopeful
    <3> QED BY <3>1, <3>2
  <2>3. Hopeful
    <3>1. Completable(served)
      BY <2>1 DEF Completable, Discovered, Hopeful
    <3> QED BY <2>1, <2>2, <3>1 DEF Hopeful
  <2>4. ~NotInstalled(i) /\ pc = "install"
    BY <1>8, <2>2, <2>3 DEF OnTheWay, NotInstalled, Stage, StageTree, Fault, Hopeful
  <2>5. UNCHANGED <<blobs, missing>>
    BY <1>8, <2>4 DEF Stage, StageTree
  <2> QED BY <2>1, <2>3, <2>4, <2>5 DEF OnTheWay, World, Discovered
<1>9. ASSUME NEW i \in Ids, Place(i) \/ PlaceTree(i) PROVE OnTheWay'
  <2>1. /\ UNCHANGED <<hostSet, served, asked, touched, upset, mine, want, pc, answer>>
        /\ pulled' = [pulled EXCEPT ![i] = want[i]] /\ got' = got \cup {i}
        /\ i \in blobs \cup missing
    BY <1>9 DEF Place, PlaceTree, Placed
  <2>2. want[i] \in Versions /\ Discovered[i] = None /\ pulled \in [Ids -> Versions \cup {None}]
    BY <2>1, <1>a DEF Typed, JoinTypeOK, FreshOnly, Hopeful
  <2>3. mine[i] = None
    BY <2>2, NamesAssumption DEF Discovered
  <2>4. Discovered'[i] = want[i] /\ \A j \in Ids \ {i} : Discovered'[j] = Discovered[j]
    BY <2>1, <2>2, <2>3 DEF Discovered
  <2>5. Hopeful
    BY <2>1, <2>2, <2>4, HopedBefore
  <2>6. Place(i)
    BY <1>9, <2>5 DEF OnTheWay, PlaceTree
  <2>7. /\ pc = "install" /\ i \in blobs /\ blobs' = blobs \ {i} /\ missing' = missing
    BY <2>6 DEF Place
  <2>8. want[i] = hostSet[i] /\ \A j \in Ids \ blobs : World(Discovered)[j] = hostSet[j]
    BY <2>5, <2>7 DEF OnTheWay
  <2>9. \A j \in Ids \ blobs' : World(Discovered)'[j] = hostSet[j]
    BY <2>2, <2>4, <2>7, <2>8 DEF World
  <2> QED BY <2>1, <2>5, <2>7, <2>9 DEF OnTheWay
<1>10. ASSUME Installed PROVE OnTheWay'
  <2>1. UNCHANGED <<hostSet, served, asked, upset, touched, mine, pulled, answer>>
    BY <1>10 DEF Installed
  <2>2. Hopeful
    BY <2>1, SameHope
  <2>3. /\ pc = "install" /\ missing = {} /\ blobs = {} /\ got # {} /\ answer # "error"
        /\ \A i \in Ids : World(Discovered)[i] = hostSet[i]
    BY <1>10, <2>2 DEF Installed, OnTheWay
  <2>4. World(Discovered) = hostSet
    <3>1. hostSet \in Sets /\ World(Discovered) \in Sets
      BY HostSetsAssumption, DiskTypes DEF Typed, JoinTypeOK, Sets
    <3> QED BY <2>3, <3>1 DEF Sets
  <2>5. pc' = "reread"
    BY <1>10, <2>3 DEF Installed
  <2>6. World(Discovered)' = hostSet'
    BY <2>1, <2>4 DEF World, Discovered
  <2> QED BY <2>1, <2>3, <2>5, <2>6 DEF OnTheWay
<1>11. ASSUME RecordFails PROVE OnTheWay'
  BY <1>11 DEF RecordFails, Fault, Hopeful
<1>12. ASSUME NothingInstalled PROVE OnTheWay'
  BY <1>12, SameHope DEF NothingInstalled, GiveUp, OnTheWay
<1>13. ASSUME Reread PROVE OnTheWay'
  <2>1. Hopeful
    BY <1>13, SameHope DEF Reread
  <2> QED BY <1>13, <2>1 DEF Reread, OnTheWay
<1>14. ASSUME Redial PROVE OnTheWay'
  <2>1. Hopeful
    BY <1>14, SameHope DEF Redial, BeIn, GiveUp
  <2> QED BY <1>14, <2>1 DEF Redial, BeIn, OnTheWay
<1>15. ASSUME NEW i \in Ids, NEW v \in Versions, ModsFetch(i, v) PROVE OnTheWay'
  <2>1. /\ UNCHANGED <<hostSet, served, asked, upset, mine, pc, answer>>
        /\ pulled' = [pulled EXCEPT ![i] = v] /\ Discovered[i] = None /\ pc = "idle"
    BY <1>15 DEF ModsFetch
  <2>2. touched' = touched
    BY <1>15 DEF ModsFetch, Hopeful
  <2>3. mine[i] = None
    BY <2>1, NamesAssumption DEF Discovered, Typed, JoinTypeOK
  <2>4. Discovered'[i] = v /\ \A j \in Ids \ {i} : Discovered'[j] = Discovered[j]
    BY <2>1, <2>3 DEF Discovered, Typed, JoinTypeOK
  <2>5. Hopeful
    BY <2>1, <2>2, <2>4, HopedBefore
  <2> QED BY <2>1, <2>5 DEF OnTheWay
<1>16. ASSUME SeePulled PROVE OnTheWay'
  <2>1. /\ UNCHANGED <<hostSet, served, asked, upset, touched, mine, pulled, worldMods>>
        /\ UNCHANGED <<pc, want, before, blobs, missing, got, answer>>
    BY <1>16 DEF SeePulled
  <2>2. Hopeful
    BY <2>1, SameHope
  <2> QED BY <2>1, <2>2 DEF OnTheWay, Wanted, Lacking, Catalogue, World, Discovered
<1>17. ASSUME SeeWelcome \/ SeeError PROVE OnTheWay'
  <2>1. /\ UNCHANGED <<hostSet, served, asked, upset, touched, mine, pulled, worldMods>>
        /\ UNCHANGED <<pc, want, before, blobs, missing, got, answer>>
    BY <1>17 DEF SeeWelcome, SeeError
  <2>2. Hopeful
    BY <2>1, SameHope
  <2> QED BY <2>1, <2>2 DEF OnTheWay, Wanted, Lacking, Catalogue, World, Discovered
<1>18. ASSUME NEW i \in Ids, Reload(i) PROVE OnTheWay'
  BY <1>18 DEF Reload, Hopeful
<1>19. ASSUME NEW i \in Ids, NEW c \in Content, Edit(i, c) PROVE OnTheWay'
  BY <1>19 DEF Edit, Hopeful
<1>20. ASSUME HostChanges PROVE OnTheWay'
  BY <1>20 DEF HostChanges, Fault, Hopeful
<1>21. ASSUME Restart PROVE OnTheWay'
  BY <1>21 DEF Restart, OnTheWay
<1>22. ASSUME UNCHANGED joinVars PROVE OnTheWay'
  <2>1. /\ UNCHANGED <<hostSet, served, asked, upset, touched, mine, pulled, worldMods>>
        /\ UNCHANGED <<pc, want, before, blobs, missing, got, answer>>
    BY <1>22 DEF joinVars
  <2>2. Hopeful
    BY <2>1, SameHope
  <2> QED BY <2>1, <2>2 DEF OnTheWay, Wanted, Lacking, Catalogue, World, Discovered
<1> QED
  BY <1>1, <1>2, <1>3, <1>4, <1>5, <1>6, <1>7, <1>8, <1>9, <1>10, <1>11, <1>12, <1>13, <1>14, <1>15, <1>16, <1>17, <1>18, <1>19, <1>20, <1>21, <1>22 DEF JoinNext, Working

(* A join that may fetch gets in whenever adding mods is enough, nothing    *)
(* fails and the host stays as it is and serves all it runs.                *)
THEOREM PullIsAlwaysEnough == JoinSpec => []PullIsEnough
<1>1. JoinInit => OnTheWay
  BY DEF JoinInit, OnTheWay
<1>2. OnTheWay => PullIsEnough
  BY DEF OnTheWay, PullIsEnough, Hopeful
<1> QED BY <1>1, <1>2, OnTheWayIsKept, MembersHold, PTL DEF JoinSpec

-----------------------------------------------------------------------------
(* Registry. *)

(* The parts of the state, and their types.                                *)
Tasks ==
  /\ up \in [Nodes -> BOOLEAN] /\ met \subseteq Nodes /\ ticked \subseteq Nodes
  /\ own \in [Nodes -> SUBSET Roots] /\ haves \in [Nodes -> SUBSET Roots]
  /\ since \in [Nodes -> 0..Every]

Queues ==
  /\ cmds \in [Nodes -> Seq(Command)] /\ sending \in [Nodes -> Seq(Roots)]
  /\ \A n \in Nodes : /\ Len(cmds[n]) <= Backlog
                      /\ sending[n] # <<>> => Len(cmds[n]) = Backlog

OnceEach(seq) == \A i, j \in DOMAIN seq : seq[i] = seq[j] => i = j

Pinning ==
  /\ store \in [Nodes -> SUBSET Roots] /\ pins \in [Nodes -> Seq(Roots)]
  /\ fetching \in [Nodes -> Roots \cup {NoRoot}]
  /\ \A n \in Nodes : OnceEach(pins[n]) /\ PinnedBy(pins[n]) \subseteq store[n]

Catalogues ==
  recs \in [Nodes -> [Roots -> Age]] /\ prov \in [Nodes -> [Roots -> [Nodes -> Age]]]

Underway == net \subseteq Message /\ vouched \in [Nodes -> [Roots -> 0..Stale]]

Counters == ops \in 0..MaxOps /\ lost \in 0..MaxLost

Types == Tasks /\ Queues /\ Pinning /\ Catalogues /\ Underway /\ Counters

(* A node that is not there has no entries.  An entry a tick away from its *)
(* end does not survive the timer, so time never meets it.                 *)
Absentees ==
  \A n \in Nodes, r \in Roots : ~up[n] =>
    recs[n][r] = Absent /\ \A p \in Nodes : prov[n][r][p] = Absent

Pruned ==
  \A n \in Nodes, r \in Roots : up[n] /\ n \in ticked =>
    recs[n][r] # TTL /\ \A p \in Nodes : prov[n][r][p] # TTL

(* What is under way was vouched for by who sent it, when it was sent.     *)
Sent == \A m \in net : m.kind # "gone" => vouched[m.from][m.root] <= m.age

RecordsAreVouched ==
  \A n \in Nodes, r \in Roots :
    Listed(n, r) => \E p \in Nodes : vouched[p][r] <= recs[n][r] + MaxDelay

HavesAreVouched ==
  \A n \in Nodes, r \in Roots, p \in Nodes :
    prov[n][r][p] # Absent => vouched[p][r] <= prov[n][r][p] + MaxDelay

-----------------------------------------------------------------------------
(* Pins.                                                                   *)

\* Taking a pin away takes that pin away and no other.
LEMMA UnpinnedSays ==
  ASSUME NEW seq \in Seq(Roots), OnceEach(seq), NEW r \in Roots
  PROVE  /\ Unpinned(seq, r) \in Seq(Roots) /\ OnceEach(Unpinned(seq, r))
         /\ PinnedBy(Unpinned(seq, r)) = PinnedBy(seq) \ {r}
<1>0. Len(seq) \in Nat /\ DOMAIN seq = 1..Len(seq) /\ \A i \in 1..Len(seq) : seq[i] \in Roots
  BY LenProperties, ElementOfSeq
<1>1. CASE ~\E i \in DOMAIN seq : seq[i] = r
  BY <1>1 DEF Unpinned, PinnedBy
<1>2. CASE \E i \in DOMAIN seq : seq[i] = r
  <2> DEFINE i == CHOOSE i \in DOMAIN seq : seq[i] = r
             a == SubSeq(seq, 1, i - 1)
             b == SubSeq(seq, i + 1, Len(seq))
             p == a \o b
  <2>1. Unpinned(seq, r) = p
    BY <1>2 DEF Unpinned
  <2>2. i \in 1..Len(seq) /\ seq[i] = r
    BY <1>0, <1>2
  <2> HIDE DEF i
  <2>3. /\ a \in Seq(Roots) /\ Len(a) = i - 1
        /\ \A k \in 1..i - 1 : a[k] = seq[k]
    <3>1. 1 \in Int /\ i - 1 \in Int /\ \A k \in 1..i - 1 : seq[k] \in Roots
      BY <1>0, <2>2
    <3> QED BY <3>1, <2>2, SubSeqProperties
  <2>4. /\ b \in Seq(Roots) /\ Len(b) = Len(seq) - i
        /\ \A k \in 1..Len(seq) - i : b[k] = seq[k + i]
    <3>1. i + 1 \in Int /\ Len(seq) \in Int /\ \A k \in i + 1..Len(seq) : seq[k] \in Roots
      BY <1>0, <2>2
    <3>2. /\ b \in Seq(Roots)
          /\ Len(b) = IF i + 1 <= Len(seq) THEN Len(seq) - (i + 1) + 1 ELSE 0
          /\ \A k \in 1..Len(seq) - (i + 1) + 1 : b[k] = seq[(i + 1) + k - 1]
      BY <3>1, SubSeqProperties
    <3> HIDE DEF b
    <3>3. Len(b) = Len(seq) - i
      <4>1. CASE i + 1 <= Len(seq)
        BY <3>2, <4>1, <1>0, <2>2
      <4>2. CASE ~(i + 1 <= Len(seq))
        <5>1. Len(b) = 0
          BY <3>2, <4>2
        <5>2. i = Len(seq)
          <6>1. Len(seq) \in Nat /\ i \in 1..Len(seq)
            BY <1>0, <2>2
          <6> QED BY ONLY <4>2, <6>1
        <5> QED BY <5>1, <5>2, <1>0
      <4> QED BY <4>1, <4>2
    <3>4. ASSUME NEW k \in 1..Len(seq) - i PROVE b[k] = seq[k + i]
      <4>1. k \in 1..Len(seq) - (i + 1) + 1 /\ (i + 1) + k - 1 = k + i
        BY ONLY <1>0, <2>2, k \in 1..Len(seq) - i
      <4> QED BY ONLY <3>2, <4>1
    <3> QED BY ONLY <3>2, <3>3, <3>4
  <2> HIDE DEF a, b
  <2>5. /\ p \in Seq(Roots) /\ Len(p) = Len(seq) - 1
        /\ \A k \in 1..Len(seq) - 1 : p[k] = IF k < i THEN seq[k] ELSE seq[k + 1]
    <3>1. /\ p \in Seq(Roots) /\ Len(p) = Len(a) + Len(b)
          /\ \A k \in 1..Len(a) + Len(b) : p[k] = IF k <= Len(a) THEN a[k] ELSE b[k - Len(a)]
      BY <2>3, <2>4, ConcatProperties
    <3>2. ASSUME NEW k \in 1..Len(seq) - 1 PROVE p[k] = IF k < i THEN seq[k] ELSE seq[k + 1]
      <4>1. CASE k < i
        BY <4>1, <3>1, <2>2, <2>3, <2>4, <1>0
      <4>2. CASE ~(k < i)
        <5>1. p[k] = b[k - (i - 1)]
          BY <4>2, <3>1, <2>2, <2>3, <2>4, <1>0
        <5>2. k - (i - 1) \in 1..Len(seq) - i /\ (k - (i - 1)) + i = k + 1
          BY <4>2, <2>2, <1>0
        <5> QED BY <4>2, <5>1, <5>2, <2>4
      <4> QED BY <4>1, <4>2
    <3> QED BY <3>1, <3>2, <2>2, <2>3, <2>4, <1>0
  <2>6. DOMAIN p = 1..Len(seq) - 1
    BY <2>5, LenProperties
  <2> HIDE DEF p
  <2>7. OnceEach(p)
    <3> SUFFICES ASSUME NEW j \in 1..Len(seq) - 1, NEW k \in 1..Len(seq) - 1, p[j] = p[k]
                 PROVE  j = k
      BY <2>6 DEF OnceEach
    <3> DEFINE at(x) == IF x < i THEN x ELSE x + 1
    <3>1. at(j) \in 1..Len(seq) /\ at(k) \in 1..Len(seq) /\ seq[at(j)] = seq[at(k)]
      BY <2>5, <2>2, <1>0
    <3>2. at(j) = at(k)
      BY <3>1, <1>0 DEF OnceEach
    <3> QED BY <3>2, <2>2, <1>0
  <2>8. ASSUME NEW q PROVE q \in PinnedBy(p) <=> q \in PinnedBy(seq) \ {r}
    <3>1. ASSUME NEW k \in 1..Len(seq) - 1 PROVE p[k] \in PinnedBy(seq) \ {r}
      <4>1. PICK l \in 1..Len(seq) : p[k] = seq[l] /\ l # i
        BY <2>5, <2>2, <1>0
      <4> QED BY <4>1, <2>2, <1>0 DEF OnceEach, PinnedBy
    <3>2. ASSUME NEW l \in 1..Len(seq), seq[l] # r PROVE seq[l] \in PinnedBy(p)
      <4>1. l # i
        BY <3>2, <2>2
      <4>2. CASE l < i
        <5>1. l \in 1..Len(seq) - 1 /\ p[l] = seq[l]
          BY <4>2, <2>5, <2>2, <1>0
        <5> QED BY <5>1, <2>6 DEF PinnedBy
      <4>3. CASE l > i
        <5>1. l - 1 \in 1..Len(seq) - 1 /\ p[l - 1] = seq[l]
          BY <4>3, <2>5, <2>2, <1>0
        <5> QED BY <5>1, <2>6 DEF PinnedBy
      <4> QED BY <4>1, <4>2, <4>3, <2>2
    <3> QED BY <3>1, <3>2, <2>6, <1>0 DEF PinnedBy
  <2> QED BY <2>1, <2>5, <2>7, <2>8
<1> QED BY <1>1, <1>2

\* Some number of a set of numbers is the least.
LEMMA LeastOf ==
  ASSUME NEW T, T \subseteq Nat, T # {}
  PROVE  \E x \in T : \A y \in T : x <= y
<1>1. IsWellFoundedOn(OpToRel(<, Nat), Nat)
  BY NatLessThanWellFounded
<1>2. PICK x \in T : \A y \in T : ~(<<y, x>> \in OpToRel(<, Nat))
  BY <1>1, WFMin
<1>3. \A y \in T : ~(y < x)
  <2> SUFFICES ASSUME NEW y \in T, y < x PROVE FALSE
    OBVIOUS
  <2>0. y \in Nat /\ x \in Nat
    OBVIOUS
  <2>1. <<y, x>> \in {ss \in Nat \X Nat : ss[1] < ss[2]}
    BY <2>0
  <2>2. <<y, x>> \in OpToRel(<, Nat)
    BY <2>1, Zenon DEF OpToRel
  <2> QED BY <2>2, <1>2
<1> QED BY <1>3, SMT

\* Pinning r drops pins, each once, and adds r.
LEMMA EvictSays ==
  ASSUME NEW seq \in Seq(Roots), OnceEach(seq), NEW r \in Roots
  PROVE  /\ Evict(seq, r) \in Seq(Roots) /\ OnceEach(Evict(seq, r))
         /\ PinnedBy(Evict(seq, r)) \subseteq PinnedBy(seq) \cup {r}
<1> DEFINE others == Unpinned(seq, r)
           fits(k) == \/ Budget = 0 \/ k = Len(others) + 1
                      \/ SizeOf(PinnedBy(SubSeq(others, k, Len(others))) \cup {r}) <= Budget
           k == CHOOSE k \in 1..Len(others) + 1 : fits(k) /\ \A j \in 1..k - 1 : ~fits(j)
           rest == SubSeq(others, k, Len(others))
<1>1. Evict(seq, r) = Append(rest, r)
  BY DEF Evict
<1>2. others \in Seq(Roots) /\ OnceEach(others) /\ PinnedBy(others) = PinnedBy(seq) \ {r}
  BY UnpinnedSays
<1> HIDE DEF others
<1>3. Len(others) \in Nat /\ DOMAIN others = 1..Len(others)
      /\ \A i \in 1..Len(others) : others[i] \in Roots
  BY <1>2, LenProperties, ElementOfSeq
<1>4. \E x \in 1..Len(others) + 1 : fits(x) /\ \A j \in 1..x - 1 : ~fits(j)
  <2> DEFINE T == {x \in 1..Len(others) + 1 : fits(x)}
  <2>1. Len(others) + 1 \in T
    BY <1>3
  <2>2. T \subseteq Nat /\ T # {}
    BY <2>1, <1>3
  <2> HIDE DEF T
  <2>3. PICK x \in T : \A y \in T : x <= y
    BY <2>2, LeastOf
  <2> HIDE DEF fits
  <2>4. x \in 1..Len(others) + 1 /\ fits(x) /\ \A j \in 1..Len(others) + 1 : fits(j) => x <= j
    BY <2>3 DEF T
  <2>5. \A j \in 1..x - 1 : ~fits(j)
    BY <2>4, <1>3
  <2> QED BY <2>4, <2>5
<1>5. k \in 1..Len(others) + 1
  <2> HIDE DEF fits
  <2> QED BY <1>4
<1> HIDE DEF k
<1>6. /\ rest \in Seq(Roots) /\ Len(rest) = Len(others) - k + 1
      /\ \A i \in 1..Len(others) - k + 1 : rest[i] = others[k + i - 1]
  <2>1. k \in Int /\ Len(others) \in Int /\ \A i \in k..Len(others) : others[i] \in Roots
    BY <1>3, <1>5
  <2>2. /\ rest \in Seq(Roots)
        /\ Len(rest) = IF k <= Len(others) THEN Len(others) - k + 1 ELSE 0
        /\ \A i \in 1..Len(others) - k + 1 : rest[i] = others[k + i - 1]
    BY <2>1, SubSeqProperties
  <2> QED BY <2>2, <1>3, <1>5
<1> HIDE DEF rest
<1>7. \A i \in 1..Len(rest) : k + i - 1 \in 1..Len(others) /\ rest[i] = others[k + i - 1]
  BY <1>6, <1>5, <1>3
<1> DEFINE p == Append(rest, r)
<1>8. /\ p \in Seq(Roots) /\ Len(p) = Len(rest) + 1 /\ DOMAIN p = 1..Len(rest) + 1
      /\ \A i \in 1..Len(rest) : p[i] = rest[i]
      /\ p[Len(rest) + 1] = r
  BY <1>6, AppendProperties, LenProperties
<1> HIDE DEF p
<1>9. \A i \in 1..Len(rest) : rest[i] \in PinnedBy(seq) /\ rest[i] # r
  BY <1>7, <1>2, <1>3 DEF PinnedBy
<1>10. OnceEach(p)
  <2> SUFFICES ASSUME NEW i \in 1..Len(rest) + 1, NEW j \in 1..Len(rest) + 1, p[i] = p[j]
               PROVE  i = j
    BY <1>8 DEF OnceEach
  <2>0. Len(rest) \in Nat
    BY <1>6, <1>5, <1>3
  <2>1. CASE i \in 1..Len(rest) /\ j \in 1..Len(rest)
    <3>1. others[k + i - 1] = others[k + j - 1]
      BY <2>1, <1>7, <1>8
    <3>2. k + i - 1 = k + j - 1
      BY <2>1, <3>1, <1>7, <1>2, <1>3 DEF OnceEach
    <3> QED BY <3>2, <1>5, <2>0
  <2>2. CASE ~(i \in 1..Len(rest) /\ j \in 1..Len(rest))
    BY <2>0, <2>2, <1>8, <1>9
  <2> QED BY <2>1, <2>2
<1>11. PinnedBy(p) \subseteq PinnedBy(seq) \cup {r}
  <2> SUFFICES ASSUME NEW i \in 1..Len(rest) + 1 PROVE p[i] \in PinnedBy(seq) \cup {r}
    BY <1>8 DEF PinnedBy
  <2>0. Len(rest) \in Nat
    BY <1>6, <1>5, <1>3
  <2> QED BY <2>0, <1>8, <1>9
<1> QED BY <1>1, <1>8, <1>10, <1>11 DEF p

-----------------------------------------------------------------------------
(* The queue to a task.                                                    *)

PromisedIn(q, r) ==
  \E i \in DOMAIN q : /\ q[i].root = r /\ q[i].do # "withdraw"
                      /\ \A j \in i + 1..Len(q) : q[j] # Cmd("withdraw", r)
Unrefused(q, r) == \A i \in DOMAIN q : q[i] # Cmd("withdraw", r)
Among(s, r) == \E i \in DOMAIN s : s[i] = r

LEMMA PromisedIsSaid ==
  \A n \in Nodes, r \in Roots :
    Promised(n, r) <=> \/ Among(sending[n], r) \/ PromisedIn(cmds[n], r)
                       \/ r \in haves[n] /\ Unrefused(cmds[n], r)
BY DEF Promised, Among, PromisedIn, Unrefused

LEMMA Commands ==
  /\ \A do \in {"publish", "have", "withdraw"}, r \in Roots :
       Cmd(do, r) \in Command /\ Cmd(do, r).do = do /\ Cmd(do, r).root = r
  /\ \A c \in Command : /\ c.do \in {"publish", "have", "withdraw"} /\ c.root \in Roots
                        /\ c = Cmd(c.do, c.root)
BY DEF Cmd, Command

\* Only a withdrawal breaks what a queue promises.
LEMMA AppendPromises ==
  ASSUME NEW q \in Seq(Command), NEW c \in Command, NEW r \in Roots
  PROVE  /\ c # Cmd("withdraw", r) =>
              /\ PromisedIn(q, r) => PromisedIn(Append(q, c), r)
              /\ Unrefused(q, r) => Unrefused(Append(q, c), r)
         /\ c.root = r /\ c.do # "withdraw" => PromisedIn(Append(q, c), r)
<1> DEFINE p == Append(q, c)
<1>1. /\ p \in Seq(Command) /\ Len(q) \in Nat /\ Len(p) = Len(q) + 1
      /\ DOMAIN q = 1..Len(q) /\ DOMAIN p = 1..Len(p)
      /\ \A i \in 1..Len(q) : p[i] = q[i]
      /\ p[Len(p)] = c
  BY AppendProperties
<1> HIDE DEF p
<1>2. ASSUME c # Cmd("withdraw", r), PromisedIn(q, r) PROVE PromisedIn(p, r)
  <2>1. PICK i \in 1..Len(q) : /\ q[i].root = r /\ q[i].do # "withdraw"
                               /\ \A j \in i + 1..Len(q) : q[j] # Cmd("withdraw", r)
    BY <1>1, <1>2 DEF PromisedIn
  <2>2. \A j \in i + 1..Len(p) : p[j] # Cmd("withdraw", r)
    BY <1>1, <1>2, <2>1
  <2> QED BY <1>1, <2>1, <2>2 DEF PromisedIn
<1>3. ASSUME c # Cmd("withdraw", r), Unrefused(q, r) PROVE Unrefused(p, r)
  BY <1>1, <1>3 DEF Unrefused
<1>4. ASSUME c.root = r, c.do # "withdraw" PROVE PromisedIn(p, r)
  <2>1. Len(p) \in DOMAIN p /\ \A j \in Len(p) + 1..Len(p) : p[j] # Cmd("withdraw", r)
    BY <1>1
  <2> QED BY <1>1, <1>4, <2>1 DEF PromisedIn
<1> QED BY <1>2, <1>3, <1>4 DEF p

\* What a queue promises and its tail does not, its head does.
LEMMA TailPromises ==
  ASSUME NEW q \in Seq(Command), q # <<>>, NEW r \in Roots
  PROVE  /\ PromisedIn(q, r) => \/ PromisedIn(Tail(q), r)
                                \/ /\ Head(q).root = r /\ Head(q).do # "withdraw"
                                   /\ Unrefused(Tail(q), r)
         /\ Unrefused(q, r) => Unrefused(Tail(q), r) /\ Head(q) # Cmd("withdraw", r)
<1> DEFINE p == Tail(q)
<1>1. /\ p \in Seq(Command) /\ Len(q) \in Nat \ {0} /\ Len(p) = Len(q) - 1
      /\ DOMAIN q = 1..Len(q) /\ DOMAIN p = 1..Len(p)
      /\ \A i \in 1..Len(p) : p[i] = q[i + 1]
      /\ Head(q) = q[1]
  BY HeadTailProperties, EmptySeq
<1> HIDE DEF p
<1>2. ASSUME Unrefused(q, r) PROVE Unrefused(p, r) /\ Head(q) # Cmd("withdraw", r)
  <2>1. \A i \in 1..Len(p) : i + 1 \in 1..Len(q)
    BY <1>1
  <2> QED BY <1>1, <1>2, <2>1 DEF Unrefused
<1>3. ASSUME PromisedIn(q, r)
      PROVE  \/ PromisedIn(p, r)
             \/ Head(q).root = r /\ Head(q).do # "withdraw" /\ Unrefused(p, r)
  <2>1. PICK i \in 1..Len(q) : /\ q[i].root = r /\ q[i].do # "withdraw"
                               /\ \A j \in i + 1..Len(q) : q[j] # Cmd("withdraw", r)
    BY <1>1, <1>3 DEF PromisedIn
  <2>2. CASE i = 1
    <3>1. \A j \in 1..Len(p) : p[j] # Cmd("withdraw", r)
      BY <1>1, <2>1, <2>2
    <3> QED BY <1>1, <2>1, <2>2, <3>1 DEF Unrefused
  <2>3. CASE i # 1
    <3>1. i - 1 \in 1..Len(p) /\ p[i - 1] = q[i]
      BY <1>1, <2>1, <2>3
    <3>2. \A j \in (i - 1) + 1..Len(p) : p[j] # Cmd("withdraw", r)
      BY <1>1, <2>1, <2>3
    <3>3. PICK k \in DOMAIN p : k = i - 1
      BY <1>1, <3>1
    <3>4. /\ p[k].root = r /\ p[k].do # "withdraw"
          /\ \A j \in k + 1..Len(p) : p[j] # Cmd("withdraw", r)
      BY <2>1, <3>1, <3>2, <3>3
    <3> QED BY <3>4 DEF PromisedIn
  <2> QED BY <2>2, <2>3
<1> QED BY <1>2, <1>3 DEF p

-----------------------------------------------------------------------------
(* What the operations on a catalogue leave.                               *)

LEMMA InsertSays ==
  ASSUME Catalogues, NEW n \in Nodes, NEW r \in Roots
  PROVE  /\ Insert(n, r) \in [Nodes -> [Roots -> Age]]
         /\ \A k \in Nodes, q \in Roots :
              Insert(n, r)[k][q] = IF k = n /\ q = r THEN 0 ELSE recs[k][q]
BY TimeAssumption DEF Catalogues, Insert, Age, Absent

LEMMA HaveSays ==
  ASSUME Catalogues, NEW n \in Nodes, NEW r \in Roots, NEW o \in Nodes
  PROVE  /\ Have(n, r, o) \in [Nodes -> [Roots -> [Nodes -> Age]]]
         /\ \A k \in Nodes, q \in Roots, p \in Nodes :
              Have(n, r, o)[k][q][p] = IF k = n /\ q = r /\ p = o THEN 0 ELSE prov[k][q][p]
<1>1. Absent \in Nat /\ 0 \in Age
  BY TimeAssumption DEF Absent, Age
<1> QED BY <1>1 DEF Catalogues, Have

LEMMA WithdrawSays ==
  ASSUME Catalogues, NEW n \in Nodes, NEW r \in Roots, NEW o \in Nodes, WithdrawFrom(n, r, o)
  PROVE  /\ Catalogues'
         /\ \A k \in Nodes, q \in Roots :
              recs'[k][q] = recs[k][q] \/ recs'[k][q] = Absent
         /\ \A k \in Nodes, q \in Roots, p \in Nodes :
              prov'[k][q][p] = prov[k][q][p] \/ prov'[k][q][p] = Absent
<1>1. Absent \in Age
  BY TimeAssumption DEF Absent, Age
<1>2. prov' = [prov EXCEPT ![n][r][o] = Absent]
  BY DEF WithdrawFrom
<1>3. /\ prov' \in [Nodes -> [Roots -> [Nodes -> Age]]]
      /\ \A k \in Nodes, q \in Roots, p \in Nodes :
           prov'[k][q][p] = prov[k][q][p] \/ prov'[k][q][p] = Absent
  BY <1>1, <1>2 DEF Catalogues
<1>4. /\ recs' \in [Nodes -> [Roots -> Age]]
      /\ \A k \in Nodes, q \in Roots : recs'[k][q] = recs[k][q] \/ recs'[k][q] = Absent
  BY <1>1 DEF Catalogues, WithdrawFrom
<1> QED BY <1>3, <1>4 DEF Catalogues

LEMMA VouchSays ==
  ASSUME Underway, NEW n \in Nodes, NEW S
  PROVE  /\ Vouch(n, S) \in [Nodes -> [Roots -> 0..Stale]]
         /\ \A k \in Nodes, q \in Roots :
              Vouch(n, S)[k][q] = IF k = n /\ q \in S THEN 0 ELSE vouched[k][q]
<1>1. 0 \in 0..Stale
  BY TimeAssumption DEF Stale
<1> QED BY <1>1 DEF Underway, Vouch

\* A broadcast's messages are new, and from its sender.
LEMMA BroadcastSays ==
  ASSUME NEW n \in Nodes, NEW K \in SUBSET {"record", "have", "gone"}, NEW S \in SUBSET Roots
  PROVE  /\ Broadcast(n, K, S) \subseteq Message
         /\ \A m \in Broadcast(n, K, S) :
              m.kind \in K /\ m.root \in S /\ m.from = n /\ m.age = 0
<1>1. 0 \in 0..MaxDelay
  BY TimeAssumption
<1> QED BY <1>1 DEF Broadcast, Message

LEMMA RestatedSays ==
  ASSUME Tasks, NEW n \in Nodes
  PROVE  /\ Restated(n) \subseteq Message
         /\ \A m \in Restated(n) : m.root \in own[n] \cup haves[n] /\ m.from = n /\ m.age = 0
<1>1. own[n] \subseteq Roots /\ haves[n] \subseteq Roots
  BY DEF Tasks
<1> QED BY <1>1, BroadcastSays DEF Restated

-----------------------------------------------------------------------------
(* Types.                                                                  *)

LEMMA HeadIsCommand ==
  ASSUME Queues, NEW n \in Nodes, cmds[n] # <<>>
  PROVE  /\ cmds[n] \in Seq(Command) /\ Head(cmds[n]) \in Command
         /\ Tail(cmds[n]) \in Seq(Command) /\ Len(Tail(cmds[n])) = Len(cmds[n]) - 1
         /\ Len(cmds[n]) \in Nat \ {0}
         /\ Head(cmds[n]).do \in {"publish", "have", "withdraw"} /\ Head(cmds[n]).root \in Roots
<1>1. cmds[n] \in Seq(Command)
  BY DEF Queues
<1> QED BY <1>1, HeadTailProperties, EmptySeq, Commands

\* A command is one of three.
LEMMA HandleCommandSays ==
  ASSUME Queues, NEW n \in Nodes, HandleCommand(n)
  PROVE  /\ up[n] /\ cmds[n] # <<>> /\ Received(n)
         /\ Head(cmds[n]) \in Command /\ Head(cmds[n]).root \in Roots
         /\ \/ Head(cmds[n]).do = "publish" /\ Publish(n, Head(cmds[n]).root)
            \/ Head(cmds[n]).do = "have" /\ Serve(n, Head(cmds[n]).root)
            \/ Head(cmds[n]).do = "withdraw" /\ Unserve(n, Head(cmds[n]).root)
         /\ UNCHANGED <<up, store, pins, fetching, met, ticked, ops, lost>>
<1>1. /\ up[n] /\ cmds[n] # <<>> /\ Received(n)
      /\ UNCHANGED <<up, store, pins, fetching, met, ticked, ops, lost>>
  BY DEF HandleCommand, mirror
<1> DEFINE c == Head(cmds[n])
<1>2. c \in Command /\ c.root \in Roots /\ c.do \in {"publish", "have", "withdraw"}
  BY <1>1, HeadIsCommand
<1>3. (CASE c.do = "publish" -> Publish(n, c.root)
         [] c.do = "have" -> Serve(n, c.root)
         [] c.do = "withdraw" -> Unserve(n, c.root))
  BY DEF HandleCommand
<1> HIDE DEF c
<1>4. CASE c.do = "publish"
  <2>1. Publish(n, c.root)
    BY <1>3, <1>4
  <2> QED BY <1>1, <1>2, <1>4, <2>1 DEF c
<1>5. CASE c.do = "have"
  <2>1. Serve(n, c.root)
    BY <1>3, <1>5
  <2> QED BY <1>1, <1>2, <1>5, <2>1 DEF c
<1>6. CASE c.do = "withdraw"
  <2>1. Unserve(n, c.root)
    BY <1>3, <1>6
  <2> QED BY <1>1, <1>2, <1>6, <2>1 DEF c
<1> QED BY <1>2, <1>4, <1>5, <1>6

\* What the tasks restate.
LEMMA TasksAreKept == Tasks /\ Queues /\ [Next]_vars => Tasks'
<1> SUFFICES ASSUME Tasks, Queues, [Next]_vars PROVE Tasks'
  OBVIOUS
<1> USE TimeAssumption DEF Tasks
<1>1. ASSUME NEW n \in Nodes, NEW r \in Roots, Share(n, r) PROVE Tasks'
  BY <1>1 DEF Share, task, catalogue, mirror
<1>2. ASSUME NEW n \in Nodes, NEW r \in Roots, Withdraw(n, r) PROVE Tasks'
  BY <1>2 DEF Withdraw, task, catalogue, mirror
<1>3. ASSUME NEW n \in Nodes, NEW r \in Roots, MirrorStart(n, r) PROVE Tasks'
  BY <1>3 DEF MirrorStart, task, catalogue, mirror
<1>4. ASSUME NEW n \in Nodes, MirrorEnd(n) PROVE Tasks'
  BY <1>4 DEF MirrorEnd, task, catalogue, mirror
<1>5. ASSUME NEW n \in Nodes, MirrorFails(n) PROVE Tasks'
  BY <1>5 DEF MirrorFails, task, catalogue, mirror
<1>6. ASSUME NEW n \in Nodes, HandleCommand(n) PROVE Tasks'
  <2>1. PICK q \in Roots : Publish(n, q) \/ Serve(n, q) \/ Unserve(n, q)
    BY <1>6, HandleCommandSays
  <2>2. UNCHANGED <<up, met, ticked>>
    BY <1>6, HandleCommandSays
  <2>3. own' \in [Nodes -> SUBSET Roots] /\ haves' \in [Nodes -> SUBSET Roots]
    BY <2>1 DEF Publish, Serve, Unserve
  <2>4. since' \in [Nodes -> 0..Every]
    BY <2>1, TimeAssumption DEF Publish, Serve, Unserve
  <2> QED BY <2>2, <2>3, <2>4
<1>7. ASSUME NEW n \in Nodes, GreetNeighbour(n) PROVE Tasks'
  BY <1>7 DEF GreetNeighbour, task, catalogue, mirror
<1>8. ASSUME NEW n \in Nodes, TickerFires(n) PROVE Tasks'
  <2>1. since' \in [Nodes -> 0..Every]
    BY <1>8 DEF TickerFires
  <2> QED BY <1>8, <2>1 DEF TickerFires
<1>9. ASSUME NEW n \in Nodes, Leave(n) PROVE Tasks'
  BY <1>9 DEF Leave, Forgets, task, catalogue, mirror
<1>10. ASSUME NEW n \in Nodes, Crash(n) PROVE Tasks'
  BY <1>10 DEF Crash, Forgets, task, catalogue, mirror
<1>11. ASSUME NEW n \in Nodes, Join(n) PROVE Tasks'
  BY <1>11 DEF Join, task, catalogue, mirror
<1>12. ASSUME NEW m \in net, Receive(m) PROVE Tasks'
  BY <1>12 DEF Receive, task, catalogue, mirror
<1>13. ASSUME NEW m \in net, Lose(m) PROVE Tasks'
  BY <1>13 DEF Lose, task, catalogue, mirror
<1>14. ASSUME Advance PROVE Tasks'
  BY <1>14 DEF Advance, task, catalogue, mirror
<1>15. ASSUME UNCHANGED vars PROVE Tasks'
  BY <1>15 DEF vars, task, catalogue, mirror
<1> QED
  BY <1>1, <1>2, <1>3, <1>4, <1>5, <1>6, <1>7, <1>8, <1>9, <1>10, <1>11, <1>12, <1>13, <1>14, <1>15 DEF Next

\* A send waits only while the queue is full.
LEMMA QueueIsKept ==
  ASSUME Queues, NEW n \in Nodes,
         \A k \in Nodes \ {n} : cmds'[k] = cmds[k] /\ sending'[k] = sending[k],
         cmds' \in [Nodes -> Seq(Command)], sending' \in [Nodes -> Seq(Roots)],
         Len(cmds'[n]) <= Backlog, sending'[n] # <<>> => Len(cmds'[n]) = Backlog
  PROVE  Queues'
BY DEF Queues

LEMMA ServedSays ==
  ASSUME Queues, NEW n \in Nodes, NEW r \in Roots
  PROVE  /\ Served(n, r) \in Seq(Command) /\ Len(Served(n, r)) <= Backlog
         /\ \/ Served(n, r) = cmds[n] /\ Len(cmds[n]) = Backlog
            \/ /\ Served(n, r) = Append(cmds[n], Cmd("have", r)) /\ sending[n] = <<>>
               /\ Len(cmds[n]) < Backlog
<1>1. cmds[n] \in Seq(Command) /\ Len(cmds[n]) \in Nat /\ Cmd("have", r) \in Command
  BY Commands, LenProperties DEF Queues
<1>2. /\ Append(cmds[n], Cmd("have", r)) \in Seq(Command)
      /\ Len(Append(cmds[n], Cmd("have", r))) = Len(cmds[n]) + 1
  BY <1>1, AppendProperties
<1> QED BY <1>1, <1>2, TimeAssumption DEF Queues, Served, TrySend, Room

LEMMA RelayedSays ==
  ASSUME Queues, NEW n \in Nodes, NEW r \in Roots, Relayed(n, Served(n, r), r)
  PROVE  /\ \A k \in Nodes \ {n} : cmds'[k] = cmds[k] /\ sending'[k] = sending[k]
         /\ \/ /\ cmds'[n] = Append(Served(n, r), Cmd("publish", r))
               /\ sending'[n] = sending[n] /\ sending[n] = <<>>
            \/ /\ cmds'[n] = Served(n, r) /\ Len(cmds'[n]) = Backlog
               /\ sending'[n] = Append(sending[n], r)
         /\ Queues'
<1> DEFINE q == Served(n, r)
<1>0. /\ q \in Seq(Command) /\ Len(q) \in Nat /\ Len(q) <= Backlog
      /\ \/ q = cmds[n] /\ Len(cmds[n]) = Backlog
         \/ sending[n] = <<>> /\ Len(cmds[n]) < Backlog
      /\ cmds[n] \in Seq(Command) /\ Len(cmds[n]) \in Nat
  BY ServedSays, LenProperties DEF Queues
<1>1. /\ cmds' = [cmds EXCEPT ![n] = TrySend(q, Len(q) < Backlog, Cmd("publish", r))]
      /\ sending' = [sending EXCEPT ![n] = IF Len(q) < Backlog THEN @ ELSE Append(@, r)]
  BY DEF Relayed
<1> HIDE DEF q
<1>2. Cmd("publish", r) \in Command /\ sending[n] \in Seq(Roots)
  BY Commands DEF Queues
<1>3. /\ Append(q, Cmd("publish", r)) \in Seq(Command)
      /\ Len(Append(q, Cmd("publish", r))) = Len(q) + 1
      /\ Append(sending[n], r) \in Seq(Roots)
  BY <1>0, <1>2, AppendProperties
<1>4. CASE Len(q) < Backlog
  <2>1. sending[n] = <<>>
    BY <1>0, <1>4, TimeAssumption DEF Queues
  <2>2. cmds' = [cmds EXCEPT ![n] = Append(q, Cmd("publish", r))] /\ sending' = sending
    BY <1>1, <1>4 DEF TrySend, Queues
  <2>3. /\ cmds' \in [Nodes -> Seq(Command)] /\ sending' \in [Nodes -> Seq(Roots)]
        /\ cmds'[n] = Append(q, Cmd("publish", r)) /\ sending'[n] = sending[n]
        /\ \A k \in Nodes \ {n} : cmds'[k] = cmds[k] /\ sending'[k] = sending[k]
    BY <1>3, <2>2 DEF Queues
  <2>4. Len(cmds'[n]) <= Backlog
    BY <1>0, <1>3, <1>4, <2>3, TimeAssumption
  <2> QED BY <2>1, <2>3, <2>4, QueueIsKept DEF q
<1>5. CASE ~(Len(q) < Backlog)
  <2>1. Len(q) = Backlog
    BY <1>0, <1>5, TimeAssumption
  <2>2. cmds' = [cmds EXCEPT ![n] = q] /\ sending' = [sending EXCEPT ![n] = Append(@, r)]
    BY <1>1, <1>5 DEF TrySend, Queues
  <2>3. /\ cmds' \in [Nodes -> Seq(Command)] /\ sending' \in [Nodes -> Seq(Roots)]
        /\ cmds'[n] = q /\ sending'[n] = Append(sending[n], r)
        /\ \A k \in Nodes \ {n} : cmds'[k] = cmds[k] /\ sending'[k] = sending[k]
    BY <1>0, <1>3, <2>2 DEF Queues
  <2> QED BY <1>0, <2>1, <2>3, QueueIsKept DEF q
<1> QED BY <1>4, <1>5

LEMMA ReceivedSays ==
  ASSUME Queues, NEW n \in Nodes, cmds[n] # <<>>, Received(n)
  PROVE  /\ \A k \in Nodes \ {n} : cmds'[k] = cmds[k] /\ sending'[k] = sending[k]
         /\ \/ cmds'[n] = Tail(cmds[n]) /\ sending'[n] = sending[n] /\ sending[n] = <<>>
            \/ /\ sending[n] # <<>> /\ sending'[n] = Tail(sending[n])
               /\ cmds'[n] = Append(Tail(cmds[n]), Cmd("publish", Head(sending[n])))
         /\ Queues'
<1>0. /\ Tail(cmds[n]) \in Seq(Command) /\ Len(Tail(cmds[n])) = Len(cmds[n]) - 1
      /\ Len(cmds[n]) \in Nat \ {0} /\ Len(cmds[n]) <= Backlog /\ sending[n] \in Seq(Roots)
      /\ sending[n] # <<>> => Len(cmds[n]) = Backlog
  BY HeadIsCommand DEF Queues
<1>1. CASE sending[n] = <<>>
  <2>1. cmds' = [cmds EXCEPT ![n] = Tail(cmds[n])] /\ sending' = sending
    BY <1>1 DEF Received, Queues
  <2>2. /\ cmds' \in [Nodes -> Seq(Command)] /\ sending' \in [Nodes -> Seq(Roots)]
        /\ cmds'[n] = Tail(cmds[n]) /\ sending'[n] = <<>>
        /\ \A k \in Nodes \ {n} : cmds'[k] = cmds[k] /\ sending'[k] = sending[k]
    BY <1>0, <1>1, <2>1 DEF Queues
  <2>3. Len(cmds'[n]) <= Backlog
    BY <1>0, <2>2, TimeAssumption
  <2> QED BY <1>1, <2>2, <2>3, QueueIsKept
<1>2. CASE sending[n] # <<>>
  <2> DEFINE c == Cmd("publish", Head(sending[n]))
  <2>1. /\ cmds' = [cmds EXCEPT ![n] = Append(Tail(cmds[n]), c)]
        /\ sending' = [sending EXCEPT ![n] = Tail(sending[n])]
    BY <1>2 DEF Received, Queues
  <2>2. c \in Command /\ Tail(sending[n]) \in Seq(Roots)
    BY <1>0, <1>2, Commands, HeadTailProperties
  <2> HIDE DEF c
  <2>3. /\ Append(Tail(cmds[n]), c) \in Seq(Command)
        /\ Len(Append(Tail(cmds[n]), c)) = Len(Tail(cmds[n])) + 1
    BY <1>0, <2>2, AppendProperties
  <2>4. /\ cmds' \in [Nodes -> Seq(Command)] /\ sending' \in [Nodes -> Seq(Roots)]
        /\ cmds'[n] = Append(Tail(cmds[n]), c) /\ sending'[n] = Tail(sending[n])
        /\ \A k \in Nodes \ {n} : cmds'[k] = cmds[k] /\ sending'[k] = sending[k]
    BY <2>1, <2>2, <2>3 DEF Queues
  <2>5. Len(cmds'[n]) = Backlog /\ Len(cmds'[n]) <= Backlog
    BY <1>0, <1>2, <2>3, <2>4, TimeAssumption
  <2>6. Queues'
    BY <2>4, <2>5, QueueIsKept
  <2> QED BY <1>2, <2>4, <2>6 DEF c
<1> QED BY <1>1, <1>2

\* A withdrawal the queue has no room for is dropped.
LEMMA WithdrawQueues ==
  ASSUME Queues, NEW n \in Nodes, NEW r \in Roots, Withdraw(n, r)
  PROVE  /\ \A k \in Nodes \ {n} : cmds'[k] = cmds[k]
         /\ cmds'[n] = cmds[n] \/ cmds'[n] = Append(cmds[n], Cmd("withdraw", r))
         /\ sending' = sending /\ Queues'
<1>0. /\ cmds[n] \in Seq(Command) /\ Len(cmds[n]) \in Nat /\ Cmd("withdraw", r) \in Command
      /\ cmds' = [cmds EXCEPT ![n] = TrySend(cmds[n], Room(n), Cmd("withdraw", r))]
      /\ sending' = sending
  BY Commands, LenProperties DEF Queues, Withdraw
<1>1. CASE Room(n)
  <2>1. /\ Append(cmds[n], Cmd("withdraw", r)) \in Seq(Command)
        /\ Len(Append(cmds[n], Cmd("withdraw", r))) = Len(cmds[n]) + 1
    BY <1>0, AppendProperties
  <2>2. /\ cmds' \in [Nodes -> Seq(Command)] /\ cmds'[n] = Append(cmds[n], Cmd("withdraw", r))
        /\ \A k \in Nodes \ {n} : cmds'[k] = cmds[k]
    BY <1>0, <1>1, <2>1 DEF TrySend, Queues
  <2>3. Len(cmds'[n]) <= Backlog /\ sending[n] = <<>>
    BY <1>0, <1>1, <2>1, <2>2, TimeAssumption DEF Room, Queues
  <2>4. sending' \in [Nodes -> Seq(Roots)]
    BY <1>0 DEF Queues
  <2> QED BY <1>0, <2>2, <2>3, <2>4, QueueIsKept
<1>2. CASE ~Room(n)
  BY <1>0, <1>2 DEF TrySend, Queues
<1> QED BY <1>1, <1>2

LEMMA ShareQueues ==
  ASSUME Queues, NEW n \in Nodes, NEW r \in Roots, Share(n, r)
  PROVE  /\ \A k \in Nodes \ {n} : cmds'[k] = cmds[k] /\ sending'[k] = sending[k]
         /\ \/ cmds'[n] = Append(cmds[n], Cmd("publish", r)) /\ sending' = sending
            \/ cmds' = cmds /\ sending'[n] = Append(sending[n], r)
         /\ Queues'
<1>0. /\ cmds[n] \in Seq(Command) /\ Len(cmds[n]) \in Nat /\ Cmd("publish", r) \in Command
      /\ sending[n] \in Seq(Roots) /\ Append(sending[n], r) \in Seq(Roots)
      /\ Len(cmds[n]) <= Backlog
  BY Commands, LenProperties, AppendProperties DEF Queues
<1>1. CASE Room(n)
  <2>1. /\ Append(cmds[n], Cmd("publish", r)) \in Seq(Command)
        /\ Len(Append(cmds[n], Cmd("publish", r))) = Len(cmds[n]) + 1
    BY <1>0, AppendProperties
  <2>2. /\ cmds' \in [Nodes -> Seq(Command)] /\ cmds'[n] = Append(cmds[n], Cmd("publish", r))
        /\ \A k \in Nodes \ {n} : cmds'[k] = cmds[k]
        /\ sending' = sending /\ sending' \in [Nodes -> Seq(Roots)]
    BY <1>0, <1>1, <2>1 DEF Share, Queues
  <2>3. Len(cmds'[n]) <= Backlog /\ sending[n] = <<>>
    BY <1>0, <1>1, <2>1, <2>2, TimeAssumption DEF Room, Queues
  <2> QED BY <2>2, <2>3, QueueIsKept
<1>2. CASE ~Room(n)
  <2>1. cmds' = cmds /\ sending' = [sending EXCEPT ![n] = Append(@, r)]
    BY <1>2 DEF Share
  <2>2. /\ cmds' \in [Nodes -> Seq(Command)] /\ sending' \in [Nodes -> Seq(Roots)]
        /\ sending'[n] = Append(sending[n], r)
        /\ \A k \in Nodes \ {n} : cmds'[k] = cmds[k] /\ sending'[k] = sending[k]
    BY <1>0, <2>1 DEF Queues
  <2>3. Len(cmds'[n]) = Backlog /\ Len(cmds'[n]) <= Backlog
    BY <1>0, <1>2, <2>1, TimeAssumption DEF Room
  <2> QED BY <2>1, <2>2, <2>3, QueueIsKept
<1> QED BY <1>1, <1>2

\* The queues never hold more than they can.
LEMMA QueuesAreKept == Queues /\ Pinning /\ [Next]_vars => Queues'
<1> SUFFICES ASSUME Queues, Pinning, [Next]_vars PROVE Queues'
  OBVIOUS
<1> USE DEF Queues
<1>1. ASSUME NEW n \in Nodes, NEW r \in Roots, Share(n, r) PROVE Queues'
  BY <1>1, ShareQueues
<1>2. ASSUME NEW n \in Nodes, NEW r \in Roots, Withdraw(n, r) PROVE Queues'
  BY <1>2, WithdrawQueues
<1>3. ASSUME NEW n \in Nodes, NEW r \in Roots, MirrorStart(n, r) PROVE Queues'
  BY <1>3 DEF MirrorStart, task, catalogue, mirror
<1>4. ASSUME NEW n \in Nodes, MirrorEnd(n) PROVE Queues'
  <2>1. fetching[n] \in Roots /\ Relayed(n, Served(n, fetching[n]), fetching[n])
    BY <1>4 DEF MirrorEnd, Pinning
  <2> QED BY <2>1, RelayedSays
<1>5. ASSUME NEW n \in Nodes, MirrorFails(n) PROVE Queues'
  BY <1>5 DEF MirrorFails, task, catalogue, mirror
<1>6. ASSUME NEW n \in Nodes, HandleCommand(n) PROVE Queues'
  BY <1>6, ReceivedSays DEF HandleCommand
<1>7. ASSUME NEW n \in Nodes, GreetNeighbour(n) PROVE Queues'
  BY <1>7 DEF GreetNeighbour, task, catalogue, mirror
<1>8. ASSUME NEW n \in Nodes, TickerFires(n) PROVE Queues'
  BY <1>8 DEF TickerFires, task, catalogue, mirror
<1>9. ASSUME NEW n \in Nodes, Leave(n) PROVE Queues'
  <2>1. /\ cmds' \in [Nodes -> Seq(Command)] /\ sending' \in [Nodes -> Seq(Roots)]
        /\ cmds'[n] = <<>> /\ sending'[n] = <<>>
        /\ \A k \in Nodes \ {n} : cmds'[k] = cmds[k] /\ sending'[k] = sending[k]
    BY <1>9, EmptySeq DEF Leave, Forgets, Queues
  <2>2. Len(cmds'[n]) <= Backlog
    BY <2>1, EmptySeq, TimeAssumption
  <2> QED BY <2>1, <2>2, QueueIsKept
<1>10. ASSUME NEW n \in Nodes, Crash(n) PROVE Queues'
  <2>1. /\ cmds' \in [Nodes -> Seq(Command)] /\ sending' \in [Nodes -> Seq(Roots)]
        /\ cmds'[n] = <<>> /\ sending'[n] = <<>>
        /\ \A k \in Nodes \ {n} : cmds'[k] = cmds[k] /\ sending'[k] = sending[k]
    BY <1>10, EmptySeq DEF Crash, Forgets, Queues
  <2>2. Len(cmds'[n]) <= Backlog
    BY <2>1, EmptySeq, TimeAssumption
  <2> QED BY <2>1, <2>2, QueueIsKept
<1>11. ASSUME NEW n \in Nodes, Join(n) PROVE Queues'
  BY <1>11 DEF Join, task, catalogue, mirror
<1>12. ASSUME NEW m \in net, Receive(m) PROVE Queues'
  BY <1>12 DEF Receive, task, catalogue, mirror
<1>13. ASSUME NEW m \in net, Lose(m) PROVE Queues'
  BY <1>13 DEF Lose, task, catalogue, mirror
<1>14. ASSUME Advance PROVE Queues'
  BY <1>14 DEF Advance, task, catalogue, mirror
<1>15. ASSUME UNCHANGED vars PROVE Queues'
  BY <1>15 DEF vars, task, catalogue, mirror
<1> QED
  BY <1>1, <1>2, <1>3, <1>4, <1>5, <1>6, <1>7, <1>8, <1>9, <1>10, <1>11, <1>12, <1>13, <1>14, <1>15 DEF Next

\* What pins a node has and what it downloads; what is pinned has its bytes.
LEMMA PinsAreKept ==
  ASSUME Pinning, NEW n \in Nodes, NEW seq \in Seq(Roots), OnceEach(seq),
         pins' = [pins EXCEPT ![n] = seq], store' \in [Nodes -> SUBSET Roots],
         fetching' \in [Nodes -> Roots \cup {NoRoot}],
         PinnedBy(seq) \subseteq store'[n], \A k \in Nodes : store[k] \subseteq store'[k]
  PROVE  Pinning'
<1>1. pins' \in [Nodes -> Seq(Roots)] /\ pins'[n] = seq /\ \A k \in Nodes \ {n} : pins'[k] = pins[k]
  BY DEF Pinning
<1> QED BY <1>1 DEF Pinning

LEMMA NothingPinned == OnceEach(<<>>) /\ PinnedBy(<<>>) = {} /\ <<>> \in Seq(Roots)
BY EmptySeq DEF OnceEach, PinnedBy

LEMMA PinningIsKept == Pinning /\ Queues /\ [Next]_vars => Pinning'
<1> SUFFICES ASSUME Pinning, Queues, [Next]_vars PROVE Pinning'
  OBVIOUS
<1> USE DEF Pinning
<1>1. ASSUME NEW n \in Nodes, NEW r \in Roots, Share(n, r) PROVE Pinning'
  <2>1. /\ store' \in [Nodes -> SUBSET Roots] /\ \A k \in Nodes : store[k] \subseteq store'[k]
        /\ pins' = pins /\ fetching' = fetching
    BY <1>1 DEF Share, Imported
  <2> QED BY <2>1
<1>2. ASSUME NEW n \in Nodes, NEW r \in Roots, Withdraw(n, r) PROVE Pinning'
  <2>1. /\ pins' = [pins EXCEPT ![n] = Unpinned(pins[n], r)]
        /\ store' = store /\ fetching' = fetching
    BY <1>2 DEF Withdraw
  <2>2. pins[n] \in Seq(Roots) /\ OnceEach(pins[n]) /\ PinnedBy(pins[n]) \subseteq store[n]
    OBVIOUS
  <2>3. PinnedBy(Unpinned(pins[n], r)) \subseteq store'[n]
    BY <2>1, <2>2, UnpinnedSays
  <2> QED BY <2>1, <2>2, <2>3, UnpinnedSays, PinsAreKept
<1>3. ASSUME NEW n \in Nodes, NEW r \in Roots, MirrorStart(n, r) PROVE Pinning'
  BY <1>3 DEF MirrorStart, task, catalogue, mirror
<1>4. ASSUME NEW n \in Nodes, MirrorEnd(n) PROVE Pinning'
  <2> DEFINE r == fetching[n]
  <2>1. /\ r \in Roots /\ pins' = [pins EXCEPT ![n] = Evict(pins[n], r)]
        /\ store' = [store EXCEPT ![n] = @ \cup {r}]
        /\ fetching' = [fetching EXCEPT ![n] = NoRoot]
    BY <1>4 DEF MirrorEnd
  <2> HIDE DEF r
  <2>2. pins[n] \in Seq(Roots) /\ OnceEach(pins[n]) /\ PinnedBy(pins[n]) \subseteq store[n]
    OBVIOUS
  <2>3. /\ store' \in [Nodes -> SUBSET Roots] /\ fetching' \in [Nodes -> Roots \cup {NoRoot}]
        /\ \A k \in Nodes : store[k] \subseteq store'[k]
        /\ store'[n] = store[n] \cup {r}
    BY <2>1
  <2>4. PinnedBy(Evict(pins[n], r)) \subseteq store'[n]
    BY <2>1, <2>2, <2>3, EvictSays
  <2>5. Evict(pins[n], r) \in Seq(Roots) /\ OnceEach(Evict(pins[n], r))
    BY <2>1, <2>2, EvictSays
  <2> QED BY <2>1, <2>3, <2>4, <2>5, PinsAreKept
<1>5. ASSUME NEW n \in Nodes, MirrorFails(n) PROVE Pinning'
  BY <1>5 DEF MirrorFails, task, catalogue, mirror
<1>6. ASSUME NEW n \in Nodes, HandleCommand(n) PROVE Pinning'
  BY <1>6, HandleCommandSays
<1>7. ASSUME NEW n \in Nodes, GreetNeighbour(n) PROVE Pinning'
  BY <1>7 DEF GreetNeighbour, task, catalogue, mirror
<1>8. ASSUME NEW n \in Nodes, TickerFires(n) PROVE Pinning'
  BY <1>8 DEF TickerFires, task, catalogue, mirror
<1>9. ASSUME NEW n \in Nodes, Leave(n) PROVE Pinning'
  <2>1. pins' = [pins EXCEPT ![n] = <<>>] /\ store' = store
        /\ fetching' = [fetching EXCEPT ![n] = NoRoot]
    BY <1>9 DEF Leave, Forgets
  <2>2. /\ store' \in [Nodes -> SUBSET Roots] /\ fetching' \in [Nodes -> Roots \cup {NoRoot}]
        /\ \A k \in Nodes : store[k] \subseteq store'[k]
    BY <2>1 DEF Pinning
  <2> QED BY <2>1, <2>2, NothingPinned, PinsAreKept
<1>10. ASSUME NEW n \in Nodes, Crash(n) PROVE Pinning'
  <2>1. pins' = [pins EXCEPT ![n] = <<>>] /\ store' = store
        /\ fetching' = [fetching EXCEPT ![n] = NoRoot]
    BY <1>10 DEF Crash, Forgets
  <2>2. /\ store' \in [Nodes -> SUBSET Roots] /\ fetching' \in [Nodes -> Roots \cup {NoRoot}]
        /\ \A k \in Nodes : store[k] \subseteq store'[k]
    BY <2>1 DEF Pinning
  <2> QED BY <2>1, <2>2, NothingPinned, PinsAreKept
<1>11. ASSUME NEW n \in Nodes, Join(n) PROVE Pinning'
  BY <1>11 DEF Join, task, catalogue, mirror
<1>12. ASSUME NEW m \in net, Receive(m) PROVE Pinning'
  BY <1>12 DEF Receive, task, catalogue, mirror
<1>13. ASSUME NEW m \in net, Lose(m) PROVE Pinning'
  BY <1>13 DEF Lose, task, catalogue, mirror
<1>14. ASSUME Advance PROVE Pinning'
  BY <1>14 DEF Advance, task, catalogue, mirror
<1>15. ASSUME UNCHANGED vars PROVE Pinning'
  BY <1>15 DEF vars, task, catalogue, mirror
<1> QED
  BY <1>1, <1>2, <1>3, <1>4, <1>5, <1>6, <1>7, <1>8, <1>9, <1>10, <1>11, <1>12, <1>13, <1>14, <1>15 DEF Next

\* What a message does, and to whom it is credited.
LEMMA ReceiveSays ==
  ASSUME Underway, NEW m \in net, Receive(m)
  PROVE  \E via \in Nodes :
           /\ ~Forwards => via = m.from
           /\ \/ m.kind = "record" /\ recs' = Insert(m.to, m.root) /\ UNCHANGED prov
              \/ m.kind = "have" /\ prov' = Have(m.to, m.root, via) /\ UNCHANGED recs
              \/ m.kind = "gone" /\ WithdrawFrom(m.to, m.root, via)
<1>1. m.kind \in {"record", "have", "gone"} /\ m.from \in Nodes
  BY DEF Underway, Message
<1>2. PICK via \in DeliveredFrom(m) :
        CASE m.kind = "record" -> recs' = Insert(m.to, m.root) /\ UNCHANGED prov
          [] m.kind = "have" -> prov' = Have(m.to, m.root, via) /\ UNCHANGED recs
          [] m.kind = "gone" -> WithdrawFrom(m.to, m.root, via)
  BY DEF Receive
<1>3. via \in Nodes /\ (~Forwards => via = m.from)
  BY <1>1 DEF DeliveredFrom
<1>4. CASE m.kind = "record"
  BY <1>2, <1>3, <1>4
<1>5. CASE m.kind = "have"
  BY <1>2, <1>3, <1>5
<1>6. CASE m.kind = "gone"
  BY <1>2, <1>3, <1>6
<1> QED BY <1>1, <1>4, <1>5, <1>6

\* What the catalogues list, and how old it is.
LEMMA CataloguesAreKept == Tasks /\ Queues /\ Pinning /\ Catalogues /\ Underway /\ [Next]_vars => Catalogues'
<1> SUFFICES ASSUME Tasks, Queues, Pinning, Catalogues, Underway, [Next]_vars PROVE Catalogues'
  OBVIOUS
<1> USE DEF Catalogues
<1>1. ASSUME NEW n \in Nodes, NEW r \in Roots, Share(n, r) PROVE Catalogues'
  BY <1>1, InsertSays, HaveSays DEF Share
<1>2. ASSUME NEW n \in Nodes, NEW r \in Roots, Withdraw(n, r) PROVE Catalogues'
  BY <1>2, WithdrawSays DEF Withdraw
<1>3. ASSUME NEW n \in Nodes, NEW r \in Roots, MirrorStart(n, r) PROVE Catalogues'
  BY <1>3 DEF MirrorStart, task, catalogue, mirror
<1>4. ASSUME NEW n \in Nodes, MirrorEnd(n) PROVE Catalogues'
  <2>1. fetching[n] \in Roots
    BY <1>4 DEF MirrorEnd, Pinning
  <2> QED BY <1>4, <2>1, InsertSays, HaveSays DEF MirrorEnd
<1>5. ASSUME NEW n \in Nodes, MirrorFails(n) PROVE Catalogues'
  BY <1>5 DEF MirrorFails, task, catalogue, mirror
<1>6. ASSUME NEW n \in Nodes, HandleCommand(n) PROVE Catalogues'
  <2>1. PICK q \in Roots : Publish(n, q) \/ Serve(n, q) \/ Unserve(n, q)
    BY <1>6, HandleCommandSays
  <2>2. recs' = recs /\ (prov' = Have(n, q, n) \/ prov' = prov)
    BY <2>1 DEF Publish, Serve, Unserve, catalogue
  <2>3. Have(n, q, n) \in [Nodes -> [Roots -> [Nodes -> Age]]]
    BY HaveSays
  <2> QED BY <2>2, <2>3
<1>7. ASSUME NEW n \in Nodes, GreetNeighbour(n) PROVE Catalogues'
  BY <1>7 DEF GreetNeighbour, task, catalogue, mirror
<1>8. ASSUME NEW n \in Nodes, TickerFires(n) PROVE Catalogues'
  <2>0. 0 \in Age /\ \A a \in Age : Kept(a) \in Age
    BY TimeAssumption DEF Age, Absent, Kept
  <2>1. recs' \in [Nodes -> [Roots -> Age]]
    BY <1>8, <2>0 DEF TickerFires
  <2>2. prov' \in [Nodes -> [Roots -> [Nodes -> Age]]]
    BY <1>8, <2>0 DEF TickerFires
  <2> QED BY <2>1, <2>2
<1>9. ASSUME NEW n \in Nodes, Leave(n) PROVE Catalogues'
  <2>0. Absent \in Age
    BY TimeAssumption DEF Age, Absent
  <2> QED BY <1>9, <2>0 DEF Leave, Forgets
<1>10. ASSUME NEW n \in Nodes, Crash(n) PROVE Catalogues'
  <2>0. Absent \in Age
    BY TimeAssumption DEF Age, Absent
  <2> QED BY <1>10, <2>0 DEF Crash, Forgets
<1>11. ASSUME NEW n \in Nodes, Join(n) PROVE Catalogues'
  BY <1>11 DEF Join, task, catalogue, mirror
<1>12. ASSUME NEW m \in net, Receive(m) PROVE Catalogues'
  <2>1. m \in Message /\ m.to \in Nodes /\ m.root \in Roots
    BY DEF Underway, Message
  <2>2. PICK via \in Nodes :
          \/ recs' = Insert(m.to, m.root) /\ UNCHANGED prov
          \/ prov' = Have(m.to, m.root, via) /\ UNCHANGED recs
          \/ WithdrawFrom(m.to, m.root, via)
    BY <1>12, <2>1, ReceiveSays
  <2>3. CASE recs' = Insert(m.to, m.root) /\ UNCHANGED prov
    BY <2>1, <2>3, InsertSays
  <2>4. CASE prov' = Have(m.to, m.root, via) /\ UNCHANGED recs
    BY <2>1, <2>4, HaveSays
  <2>5. CASE WithdrawFrom(m.to, m.root, via)
    BY <2>1, <2>5, WithdrawSays
  <2> QED BY <2>2, <2>3, <2>4, <2>5
<1>13. ASSUME NEW m \in net, Lose(m) PROVE Catalogues'
  BY <1>13 DEF Lose, task, catalogue, mirror
<1>14. ASSUME Advance PROVE Catalogues'
  <2>0. \A a \in Age : Older(a) \in Age
    BY TimeAssumption DEF Age, Absent, Older
  <2> QED BY <1>14, <2>0 DEF Advance
<1>15. ASSUME UNCHANGED vars PROVE Catalogues'
  BY <1>15 DEF vars, task, catalogue, mirror
<1> QED
  BY <1>1, <1>2, <1>3, <1>4, <1>5, <1>6, <1>7, <1>8, <1>9, <1>10, <1>11, <1>12, <1>13, <1>14, <1>15 DEF Next

\* What is under way.
LEMMA UnderwayIsKept == Tasks /\ Queues /\ Pinning /\ Underway /\ [Next]_vars => Underway'
<1> SUFFICES ASSUME Tasks, Queues, Pinning, Underway, [Next]_vars PROVE Underway'
  OBVIOUS
<1> USE DEF Underway
<1>1. ASSUME NEW n \in Nodes, NEW r \in Roots, Share(n, r) PROVE Underway'
  BY <1>1, VouchSays DEF Share
<1>2. ASSUME NEW n \in Nodes, NEW r \in Roots, Withdraw(n, r) PROVE Underway'
  BY <1>2 DEF Withdraw, task, catalogue, mirror
<1>3. ASSUME NEW n \in Nodes, NEW r \in Roots, MirrorStart(n, r) PROVE Underway'
  BY <1>3 DEF MirrorStart, task, catalogue, mirror
<1>4. ASSUME NEW n \in Nodes, MirrorEnd(n) PROVE Underway'
  BY <1>4, VouchSays DEF MirrorEnd
<1>5. ASSUME NEW n \in Nodes, MirrorFails(n) PROVE Underway'
  BY <1>5 DEF MirrorFails, task, catalogue, mirror
<1>6. ASSUME NEW n \in Nodes, HandleCommand(n) PROVE Underway'
  <2>1. PICK q \in Roots : Publish(n, q) \/ Serve(n, q) \/ Unserve(n, q)
    BY <1>6, HandleCommandSays
  <2>2. PICK K \in SUBSET {"record", "have", "gone"} : net' = net \cup Broadcast(n, K, {q})
    BY <2>1 DEF Publish, Serve, Unserve
  <2>3. Broadcast(n, K, {q}) \subseteq Message
    <3>1. K \subseteq {"record", "have", "gone"} /\ {q} \subseteq Roots
      OBVIOUS
    <3> QED BY <3>1, BroadcastSays
  <2>4. vouched' = Vouch(n, {q}) \/ vouched' = vouched
    BY <2>1 DEF Publish, Serve, Unserve
  <2>5. Vouch(n, {q}) \in [Nodes -> [Roots -> 0..Stale]]
    BY VouchSays
  <2> QED BY <2>2, <2>3, <2>4, <2>5
<1>7. ASSUME NEW n \in Nodes, GreetNeighbour(n) PROVE Underway'
  BY <1>7, VouchSays, RestatedSays DEF GreetNeighbour
<1>8. ASSUME NEW n \in Nodes, TickerFires(n) PROVE Underway'
  BY <1>8, VouchSays, RestatedSays DEF TickerFires
<1>9. ASSUME NEW n \in Nodes, Leave(n) PROVE Underway'
  <2>1. net' \subseteq net \cup Broadcast(n, {"gone"}, own[n]) /\ vouched' = vouched
    BY <1>9 DEF Leave, Forgets, Deaf, Farewell
  <2>2. own[n] \subseteq Roots
    BY DEF Tasks
  <2> QED BY <2>1, <2>2, BroadcastSays
<1>10. ASSUME NEW n \in Nodes, Crash(n) PROVE Underway'
  BY <1>10 DEF Crash, Forgets, Deaf
<1>11. ASSUME NEW n \in Nodes, Join(n) PROVE Underway'
  BY <1>11 DEF Join, task, catalogue, mirror
<1>12. ASSUME NEW m \in net, Receive(m) PROVE Underway'
  BY <1>12 DEF Receive, task, catalogue, mirror
<1>13. ASSUME NEW m \in net, Lose(m) PROVE Underway'
  BY <1>13 DEF Lose, task, catalogue, mirror
<1>14. ASSUME Advance PROVE Underway'
  <2>1. ASSUME NEW m \in net PROVE [m EXCEPT !.age = @ + 1] \in Message
    <3>1. m \in Message /\ m.age < MaxDelay
      BY <1>14 DEF Advance
    <3>2. m.age + 1 \in 0..MaxDelay
      BY <3>1, TimeAssumption DEF Message
    <3> QED BY <3>1, <3>2 DEF Message
  <2>2. net' \subseteq Message
    BY <1>14, <2>1 DEF Advance
  <2>3. Stale \in Nat /\ \A v \in 0..Stale : (IF v < Stale THEN v + 1 ELSE Stale) \in 0..Stale
    BY TimeAssumption DEF Stale
  <2>4. vouched' \in [Nodes -> [Roots -> 0..Stale]]
    BY <1>14, <2>3 DEF Advance
  <2> QED BY <2>2, <2>4
<1>15. ASSUME UNCHANGED vars PROVE Underway'
  BY <1>15 DEF vars, task, catalogue, mirror
<1> QED
  BY <1>1, <1>2, <1>3, <1>4, <1>5, <1>6, <1>7, <1>8, <1>9, <1>10, <1>11, <1>12, <1>13, <1>14, <1>15 DEF Next

LEMMA CountersAreKept == Counters /\ Queues /\ [Next]_vars => Counters'
<1> SUFFICES ASSUME Counters, Queues, [Next]_vars PROVE Counters'
  OBVIOUS
<1> USE TimeAssumption DEF Counters, Op
<1>1. ASSUME NEW n \in Nodes, NEW r \in Roots, Share(n, r) PROVE Counters'
  BY <1>1 DEF Share, task, catalogue, mirror
<1>2. ASSUME NEW n \in Nodes, NEW r \in Roots, Withdraw(n, r) PROVE Counters'
  BY <1>2 DEF Withdraw, task, catalogue, mirror
<1>3. ASSUME NEW n \in Nodes, NEW r \in Roots, MirrorStart(n, r) PROVE Counters'
  BY <1>3 DEF MirrorStart, task, catalogue, mirror
<1>4. ASSUME NEW n \in Nodes, MirrorEnd(n) PROVE Counters'
  BY <1>4 DEF MirrorEnd, task, catalogue, mirror
<1>5. ASSUME NEW n \in Nodes, MirrorFails(n) PROVE Counters'
  BY <1>5 DEF MirrorFails, task, catalogue, mirror
<1>6. ASSUME NEW n \in Nodes, HandleCommand(n) PROVE Counters'
  BY <1>6, HandleCommandSays
<1>7. ASSUME NEW n \in Nodes, GreetNeighbour(n) PROVE Counters'
  BY <1>7 DEF GreetNeighbour, task, catalogue, mirror
<1>8. ASSUME NEW n \in Nodes, TickerFires(n) PROVE Counters'
  BY <1>8 DEF TickerFires, task, catalogue, mirror
<1>9. ASSUME NEW n \in Nodes, Leave(n) PROVE Counters'
  BY <1>9 DEF Leave, Forgets, task, catalogue, mirror
<1>10. ASSUME NEW n \in Nodes, Crash(n) PROVE Counters'
  BY <1>10 DEF Crash, Forgets, task, catalogue, mirror
<1>11. ASSUME NEW n \in Nodes, Join(n) PROVE Counters'
  BY <1>11 DEF Join, task, catalogue, mirror
<1>12. ASSUME NEW m \in net, Receive(m) PROVE Counters'
  BY <1>12 DEF Receive, task, catalogue, mirror
<1>13. ASSUME NEW m \in net, Lose(m) PROVE Counters'
  BY <1>13 DEF Lose, task, catalogue, mirror
<1>14. ASSUME Advance PROVE Counters'
  BY <1>14 DEF Advance, task, catalogue, mirror
<1>15. ASSUME UNCHANGED vars PROVE Counters'
  BY <1>15 DEF vars, task, catalogue, mirror
<1> QED
  BY <1>1, <1>2, <1>3, <1>4, <1>5, <1>6, <1>7, <1>8, <1>9, <1>10, <1>11, <1>12, <1>13, <1>14, <1>15 DEF Next

LEMMA TypesAreKept == Types /\ [Next]_vars => Types'
BY TasksAreKept, QueuesAreKept, PinningIsKept, CataloguesAreKept, UnderwayIsKept,
   CountersAreKept DEF Types

LEMMA TypesHold == Spec => []Types
<1>1. Init => Types
  <2> SUFFICES ASSUME Init PROVE Types
    OBVIOUS
  <2>0. 0 \in 0..Every /\ Every \in 0..Every /\ Absent \in Age /\ Stale \in 0..Stale
        /\ 0 \in 0..MaxOps /\ 0 \in 0..MaxLost
    BY TimeAssumption DEF Age, Absent, Stale
  <2>1. Tasks
    BY <2>0 DEF Init, Tasks
  <2>2. Queues
    <3>1. /\ <<>> \in Seq(Command) /\ <<>> \in Seq(Roots)
          /\ \A n \in Nodes : cmds[n] = <<>> /\ sending[n] = <<>>
      BY EmptySeq DEF Init
    <3>2. Len(<<>>) <= Backlog
      BY EmptySeq, TimeAssumption
    <3> QED BY <3>1, <3>2 DEF Init, Queues
  <2>3. Pinning
    <3>1. \A n \in Nodes : pins[n] = <<>>
      BY DEF Init
    <3> QED BY <3>1, NothingPinned DEF Init, Pinning
  <2>4. Catalogues
    BY <2>0 DEF Init, Catalogues
  <2>5. Underway
    BY <2>0 DEF Init, Underway
  <2>6. Counters
    BY <2>0 DEF Init, Counters
  <2> QED BY <2>1, <2>2, <2>3, <2>4, <2>5, <2>6 DEF Types
<1> QED BY <1>1, TypesAreKept, PTL DEF Spec

(* The model's types hold: no queue overflows and no send waits without    *)
(* cause, what is pinned has its bytes in the store, and no entry or       *)
(* message is older than it may be.                                        *)
THEOREM TypeCorrect == Spec => []TypeOK
<1>1. Types => TypeOK
  BY DEF Types, Tasks, Queues, Pinning, Catalogues, Underway, Counters, TypeOK
<1> QED BY <1>1, TypesHold, PTL


-----------------------------------------------------------------------------
(* What is pinned is served.                                               *)

\* A send that starts to wait lets the others wait on.
LEMMA WaitsGrow ==
  ASSUME NEW s \in Seq(Roots), NEW r \in Roots, NEW q, Among(s, q) \/ q = r
  PROVE  Among(Append(s, r), q)
<1>1. /\ DOMAIN s = 1..Len(s) /\ Len(s) \in Nat /\ DOMAIN Append(s, r) = 1..Len(s) + 1
      /\ \A j \in 1..Len(s) : Append(s, r)[j] = s[j]
      /\ Append(s, r)[Len(s) + 1] = r
  BY LenProperties, AppendProperties
<1>2. CASE q = r
  BY <1>1, <1>2 DEF Among
<1>3. CASE Among(s, q)
  <2>1. PICK i \in 1..Len(s) : s[i] = q
    BY <1>1, <1>3 DEF Among
  <2>2. i \in DOMAIN Append(s, r) /\ Append(s, r)[i] = q
    BY <1>1, <2>1
  <2> QED BY <2>2 DEF Among
<1> QED BY <1>2, <1>3

\* The first of the waiting is served, the others wait on.
LEMMA WaitsShrink ==
  ASSUME NEW s \in Seq(Roots), NEW q, Among(s, q)
  PROVE  s # <<>> /\ (Head(s) = q \/ Among(Tail(s), q))
<1>1. DOMAIN s = 1..Len(s) /\ Len(s) \in Nat
  BY LenProperties
<1>0. PICK i \in 1..Len(s) : s[i] = q
  BY <1>1 DEF Among
<1>2. s # <<>>
  BY <1>0, <1>1, EmptySeq
<1>3. /\ Tail(s) \in Seq(Roots) /\ Len(Tail(s)) = Len(s) - 1 /\ DOMAIN Tail(s) = 1..Len(s) - 1
      /\ \A j \in 1..Len(s) - 1 : Tail(s)[j] = s[j + 1]
      /\ Head(s) = s[1]
  BY <1>1, <1>2, HeadTailProperties, LenProperties
<1>4. CASE i = 1
  BY <1>0, <1>2, <1>3, <1>4
<1>5. CASE i # 1
  <2>1. i - 1 \in DOMAIN Tail(s) /\ Tail(s)[i - 1] = q
    BY <1>0, <1>1, <1>3, <1>5
  <2> QED BY <1>2, <2>1 DEF Among
<1> QED BY <1>4, <1>5

\* A queue that grows by anything but a withdrawal of q keeps its promise of q.
LEMMA PromiseGrows ==
  ASSUME Types, NEW n \in Nodes, NEW q \in Roots, NEW c \in Command, c # Cmd("withdraw", q),
         Promised(n, q), cmds'[n] = Append(cmds[n], c), haves'[n] = haves[n],
         sending'[n] = sending[n]
  PROVE  Promised(n, q)'
<1>1. cmds[n] \in Seq(Command)
  BY DEF Types, Queues
<1>2. CASE Among(sending[n], q)
  BY <1>2 DEF Among, Promised
<1>3. CASE PromisedIn(cmds[n], q)
  <2>1. PromisedIn(cmds'[n], q)
    BY <1>1, <1>3, AppendPromises
  <2> QED BY <2>1 DEF PromisedIn, Promised
<1>4. CASE q \in haves[n] /\ Unrefused(cmds[n], q)
  <2>1. q \in haves'[n] /\ Unrefused(cmds'[n], q)
    BY <1>1, <1>4, AppendPromises
  <2> QED BY <2>1 DEF Unrefused, Promised
<1> QED BY <1>2, <1>3, <1>4, PromisedIsSaid

\* The task takes a command, and a waiting send follows.
LEMMA PromiseIsTaken ==
  ASSUME Types, NEW n \in Nodes, NEW q \in Roots, Promised(n, q), HandleCommand(n)
  PROVE  Promised(n, q)'
<1> DEFINE c == Head(cmds[n])
           rest == Tail(cmds[n])
<1>0. /\ cmds[n] \in Seq(Command) /\ cmds[n] # <<>> /\ rest \in Seq(Command)
      /\ sending[n] \in Seq(Roots) /\ c \in Command /\ c.root \in Roots
      /\ haves \in [Nodes -> SUBSET Roots]
  BY HandleCommandSays, HeadTailProperties DEF Types, Tasks, Queues
<1>1. /\ \/ cmds'[n] = rest /\ sending'[n] = sending[n] /\ sending[n] = <<>>
         \/ /\ sending[n] # <<>> /\ sending'[n] = Tail(sending[n])
            /\ cmds'[n] = Append(rest, Cmd("publish", Head(sending[n])))
  BY HandleCommandSays, ReceivedSays DEF Types
<1>2. /\ c.do # "withdraw" => c.root \in haves'[n] /\ haves[n] \subseteq haves'[n]
      /\ haves[n] \ {c.root} \subseteq haves'[n]
  <2>1. CASE Publish(n, c.root)
    BY <1>0, <2>1 DEF Publish
  <2>2. CASE Serve(n, c.root)
    BY <1>0, <2>2 DEF Serve
  <2>3. CASE c.do = "withdraw" /\ Unserve(n, c.root)
    BY <1>0, <2>3 DEF Unserve
  <2> QED BY <1>0, <2>1, <2>2, <2>3, HandleCommandSays DEF Types
<1> HIDE DEF c, rest
\* What the rest of the queue keeps, the new queue keeps.
<1>3. /\ PromisedIn(rest, q) => PromisedIn(cmds'[n], q)
      /\ Unrefused(rest, q) => Unrefused(cmds'[n], q)
  <2>1. CASE sending[n] = <<>>
    BY <1>1, <2>1
  <2>2. CASE sending[n] # <<>>
    <3> DEFINE p == Cmd("publish", Head(sending[n]))
    <3>1. p \in Command /\ p # Cmd("withdraw", q)
      <4>1. Head(sending[n]) \in Roots
        BY <1>0, <2>2, HeadTailProperties
      <4> QED BY <4>1 DEF Cmd, Command
    <3> HIDE DEF p
    <3>2. cmds'[n] = Append(rest, p)
      BY <1>1, <2>2 DEF p
    <3> QED BY <1>0, <3>1, <3>2, AppendPromises
  <2> QED BY <2>1, <2>2
<1> SUFFICES \/ Among(sending'[n], q)
             \/ PromisedIn(cmds'[n], q)
             \/ q \in haves'[n] /\ Unrefused(cmds'[n], q)
  BY DEF Promised, Among, PromisedIn, Unrefused
<1>4. CASE Among(sending[n], q)
  <2>2. sending[n] # <<>> /\ (Head(sending[n]) = q \/ Among(Tail(sending[n]), q))
    BY <1>0, <1>4, WaitsShrink
  <2>3. CASE Head(sending[n]) = q
    <3>1. /\ cmds'[n] = Append(rest, Cmd("publish", q)) /\ Cmd("publish", q) \in Command
          /\ Cmd("publish", q).root = q /\ Cmd("publish", q).do # "withdraw"
      BY <1>1, <2>2, <2>3 DEF Cmd, Command
    <3> QED BY <1>0, <3>1, AppendPromises
  <2> QED BY <1>1, <2>2, <2>3
<1>5. CASE PromisedIn(cmds[n], q)
  <2>1. \/ PromisedIn(rest, q)
        \/ c.root = q /\ c.do # "withdraw" /\ Unrefused(rest, q)
    BY <1>0, <1>5, TailPromises DEF c, rest
  <2> QED BY <1>2, <1>3, <2>1
<1>6. CASE q \in haves[n] /\ Unrefused(cmds[n], q)
  <2>1. Unrefused(rest, q) /\ c # Cmd("withdraw", q)
    BY <1>0, <1>6, TailPromises DEF c, rest
  <2>2. q \in haves'[n]
    <3>1. CASE c.do = "withdraw"
      <4>1. c.root # q
        BY <1>0, <2>1, <3>1, Commands
      <4> QED BY <1>2, <1>6, <4>1
    <3> QED BY <1>2, <1>6, <3>1
  <2> QED BY <1>3, <2>1, <2>2
<1> QED BY <1>4, <1>5, <1>6, PromisedIsSaid

\* Every pin stays promised.
LEMMA PromisesAreKept == Types /\ PinnedIsServed /\ [Next]_vars => PinnedIsServed'
<1> SUFFICES ASSUME Types, PinnedIsServed, [Next]_vars, NEW k \in Nodes,
                     NEW q \in PinnedBy(pins'[k])
             PROVE  Promised(k, q)'
  BY DEF PinnedIsServed
<1>p. q \in Roots /\ Types /\ Types'
  <2>1. Types'
    BY TypesAreKept
  <2>2. PinnedBy(pins'[k]) \subseteq Roots
    BY <2>1 DEF Types, Pinning
  <2> QED BY <2>1, <2>2
<1>q. q \in PinnedBy(pins[k]) => Promised(k, q)
  BY DEF PinnedIsServed
\* What leaves the queue, the waiting sends and the task's haves alone.
<1>u. ASSUME q \in PinnedBy(pins[k]), sending'[k] = sending[k], cmds'[k] = cmds[k],
             haves'[k] = haves[k]
      PROVE  Promised(k, q)'
  BY <1>u, <1>q DEF Promised
<1>1. ASSUME NEW n \in Nodes, NEW r \in Roots, Share(n, r) PROVE Promised(k, q)'
  <2>0. pins' = pins /\ haves' = haves
    BY <1>1 DEF Share, task
  <2>1. CASE k # n
    <3>1. sending'[k] = sending[k] /\ cmds'[k] = cmds[k]
      BY <1>1, <2>1, <1>p, ShareQueues DEF Types
    <3> QED BY <3>1, <2>0, <1>u
  <2>2. CASE k = n
    <3>1. \/ cmds'[n] = Append(cmds[n], Cmd("publish", r)) /\ sending' = sending
          \/ cmds' = cmds /\ sending'[n] = Append(sending[n], r)
      BY <1>1, <1>p, ShareQueues DEF Types
    <3>2. CASE cmds'[n] = Append(cmds[n], Cmd("publish", r)) /\ sending' = sending
      <4>1. Cmd("publish", r) \in Command /\ Cmd("publish", r) # Cmd("withdraw", q)
        BY DEF Cmd, Command
      <4> QED BY <3>2, <4>1, <2>0, <2>2, <1>p, <1>q, PromiseGrows
    <3>3. CASE cmds' = cmds /\ sending'[n] = Append(sending[n], r)
      <4>1. Among(sending[n], q) => Among(sending'[n], q)
        BY <3>3, <1>p, WaitsGrow DEF Types, Queues
      <4> QED BY <3>3, <4>1, <2>0, <2>2, <1>q DEF Promised, Among
    <3> QED BY <3>1, <3>2, <3>3
  <2> QED BY <2>1, <2>2
<1>2. ASSUME NEW n \in Nodes, NEW r \in Roots, Withdraw(n, r) PROVE Promised(k, q)'
  <2>0. sending' = sending /\ haves' = haves
    BY <1>2 DEF Withdraw, task
  <2>1. CASE k # n
    <3>1. cmds'[k] = cmds[k] /\ pins'[k] = pins[k]
      BY <1>2, <2>1, <1>p, WithdrawQueues DEF Types, Pinning, Withdraw
    <3> QED BY <3>1, <2>0, <1>u
  <2>2. CASE k = n
    <3>1. pins'[n] = Unpinned(pins[n], r) /\ pins[n] \in Seq(Roots) /\ OnceEach(pins[n])
      BY <1>2, <1>p DEF Withdraw, Types, Pinning
    <3>2. q \in PinnedBy(pins[n]) /\ q # r
      BY <3>1, <2>2, UnpinnedSays
    <3>3. cmds'[n] = cmds[n] \/ cmds'[n] = Append(cmds[n], Cmd("withdraw", r))
      BY <1>2, <1>p, WithdrawQueues DEF Types
    <3>4. Cmd("withdraw", r) \in Command /\ Cmd("withdraw", r) # Cmd("withdraw", q)
      BY <3>2 DEF Cmd, Command
    <3>5. CASE cmds'[n] = cmds[n]
      BY <3>2, <3>5, <2>0, <2>2, <1>u
    <3>6. CASE cmds'[n] = Append(cmds[n], Cmd("withdraw", r))
      BY <3>2, <3>4, <3>6, <2>0, <2>2, <1>p, <1>q, PromiseGrows
    <3> QED BY <3>3, <3>5, <3>6
  <2> QED BY <2>1, <2>2
<1>3. ASSUME NEW n \in Nodes, NEW r \in Roots, MirrorStart(n, r) PROVE Promised(k, q)'
  BY <1>3, <1>u DEF MirrorStart, task, catalogue, mirror
<1>4. ASSUME NEW n \in Nodes, MirrorEnd(n) PROVE Promised(k, q)'
  <2> DEFINE r == fetching[n]
  <2>0. /\ r \in Roots /\ haves' = haves /\ Relayed(n, Served(n, r), r)
        /\ pins' = [pins EXCEPT ![n] = Evict(pins[n], r)]
    BY <1>4, <1>p DEF MirrorEnd, Types, Pinning, task
  <2> HIDE DEF r
  <2>1. CASE k # n
    <3>1. sending'[k] = sending[k] /\ cmds'[k] = cmds[k]
      BY <2>0, <2>1, <1>p, RelayedSays DEF Types
    <3>2. pins'[k] = pins[k]
      BY <2>0, <2>1, <1>p DEF Types, Pinning
    <3> QED BY <3>1, <3>2, <2>0, <1>u
  <2>2. CASE k = n
    <3> DEFINE s == Served(n, r)
               p == Cmd("publish", r)
    <3>1. pins'[n] = Evict(pins[n], r) /\ pins[n] \in Seq(Roots) /\ OnceEach(pins[n])
      BY <2>0, <1>p DEF Types, Pinning
    <3>2. q \in PinnedBy(pins[n]) \/ q = r
      BY <3>1, <2>0, <2>2, EvictSays
    <3>3. /\ s \in Seq(Command) /\ cmds[n] \in Seq(Command) /\ sending[n] \in Seq(Roots)
          /\ s = cmds[n] \/ s = Append(cmds[n], Cmd("have", r))
      BY <2>0, <1>p, ServedSays DEF Types, Queues
    <3>4. /\ Cmd("have", r) \in Command /\ Cmd("have", r) # Cmd("withdraw", q)
          /\ p \in Command /\ p # Cmd("withdraw", q) /\ p.root = r /\ p.do # "withdraw"
      BY <2>0 DEF Cmd, Command
    <3>5. \/ cmds'[n] = Append(s, p) /\ sending'[n] = sending[n]
          \/ cmds'[n] = s /\ sending'[n] = Append(sending[n], r)
      BY <2>0, <1>p, RelayedSays DEF Types
    <3> HIDE DEF s, p
    <3> SUFFICES \/ Among(sending'[n], q)
                 \/ PromisedIn(cmds'[n], q)
                 \/ q \in haves'[n] /\ Unrefused(cmds'[n], q)
      BY <2>2 DEF Promised, Among, PromisedIn, Unrefused
    <3>6. CASE q = r
      <4>1. CASE cmds'[n] = Append(s, p)
        BY <4>1, <3>3, <3>4, <3>6, <1>p, AppendPromises
      <4>2. CASE sending'[n] = Append(sending[n], r)
        BY <4>2, <3>3, <3>6, <2>0, WaitsGrow
      <4> QED BY <3>5, <4>1, <4>2
    <3>7. CASE q \in PinnedBy(pins[n])
      <4>1. /\ PromisedIn(cmds[n], q) => PromisedIn(s, q)
            /\ Unrefused(cmds[n], q) => Unrefused(s, q)
        <5>1. CASE s = cmds[n]
          BY <5>1
        <5>2. CASE s = Append(cmds[n], Cmd("have", r))
          BY <5>2, <3>3, <3>4, <1>p, AppendPromises
        <5> QED BY <3>3, <5>1, <5>2
      <4>2. /\ PromisedIn(s, q) => PromisedIn(cmds'[n], q)
            /\ Unrefused(s, q) => Unrefused(cmds'[n], q)
        <5>1. CASE cmds'[n] = s
          BY <5>1
        <5>2. CASE cmds'[n] = Append(s, p)
          BY <5>2, <3>3, <3>4, <1>p, AppendPromises
        <5> QED BY <3>5, <5>1, <5>2
      <4>3. Among(sending[n], q) => Among(sending'[n], q)
        <5>1. CASE sending'[n] = sending[n]
          BY <5>1
        <5>2. CASE sending'[n] = Append(sending[n], r)
          BY <5>2, <3>3, <2>0, WaitsGrow
        <5> QED BY <3>5, <5>1, <5>2
      <4>4. Among(sending[n], q) \/ PromisedIn(cmds[n], q) \/ (q \in haves[n] /\ Unrefused(cmds[n], q))
        BY <3>7, <2>2, <1>p, <1>q, PromisedIsSaid
      <4> QED BY <4>1, <4>2, <4>3, <4>4, <2>0
    <3> QED BY <3>2, <3>6, <3>7
  <2> QED BY <2>1, <2>2
<1>5. ASSUME NEW n \in Nodes, MirrorFails(n) PROVE Promised(k, q)'
  BY <1>5, <1>u DEF MirrorFails, task, catalogue, mirror
<1>6. ASSUME NEW n \in Nodes, HandleCommand(n) PROVE Promised(k, q)'
  <2>0. pins' = pins
    BY <1>6, <1>p, HandleCommandSays DEF Types
  <2>1. CASE k = n
    BY <1>6, <2>0, <2>1, <1>p, <1>q, PromiseIsTaken
  <2>2. CASE k # n
    <3>1. sending'[k] = sending[k] /\ cmds'[k] = cmds[k]
      BY <1>6, <2>2, <1>p, HandleCommandSays, ReceivedSays DEF Types
    <3>2. haves'[k] = haves[k]
      <4>1. PICK p \in Roots : Publish(n, p) \/ Serve(n, p) \/ Unserve(n, p)
        BY <1>6, <1>p, HandleCommandSays DEF Types
      <4> QED BY <4>1, <2>2, <1>p DEF Types, Tasks, Publish, Serve, Unserve
    <3> QED BY <3>1, <3>2, <2>0, <1>u
  <2> QED BY <2>1, <2>2
<1>7. ASSUME NEW n \in Nodes, GreetNeighbour(n) PROVE Promised(k, q)'
  BY <1>7, <1>u DEF GreetNeighbour, task, catalogue, mirror
<1>8. ASSUME NEW n \in Nodes, TickerFires(n) PROVE Promised(k, q)'
  BY <1>8, <1>u DEF TickerFires, task, catalogue, mirror
<1>9. ASSUME NEW n \in Nodes, Leave(n) PROVE Promised(k, q)'
  <2>1. k # n
    BY <1>9, <1>p, NothingPinned DEF Leave, Forgets, Types, Pinning
  <2>2. /\ pins'[k] = pins[k] /\ sending'[k] = sending[k] /\ cmds'[k] = cmds[k]
        /\ haves'[k] = haves[k]
    BY <1>9, <2>1, <1>p DEF Leave, Forgets, Types, Tasks, Queues, Pinning
  <2> QED BY <2>2, <1>u
<1>10. ASSUME NEW n \in Nodes, Crash(n) PROVE Promised(k, q)'
  <2>1. k # n
    BY <1>10, <1>p, NothingPinned DEF Crash, Forgets, Types, Pinning
  <2>2. /\ pins'[k] = pins[k] /\ sending'[k] = sending[k] /\ cmds'[k] = cmds[k]
        /\ haves'[k] = haves[k]
    BY <1>10, <2>1, <1>p DEF Crash, Forgets, Types, Tasks, Queues, Pinning
  <2> QED BY <2>2, <1>u
<1>11. ASSUME NEW n \in Nodes, Join(n) PROVE Promised(k, q)'
  BY <1>11, <1>u DEF Join, task, catalogue, mirror
<1>12. ASSUME NEW m \in net, Receive(m) PROVE Promised(k, q)'
  BY <1>12, <1>u DEF Receive, task, catalogue, mirror
<1>13. ASSUME NEW m \in net, Lose(m) PROVE Promised(k, q)'
  BY <1>13, <1>u DEF Lose, task, catalogue, mirror
<1>14. ASSUME Advance PROVE Promised(k, q)'
  BY <1>14, <1>u DEF Advance, task, catalogue, mirror
<1>15. ASSUME UNCHANGED vars PROVE Promised(k, q)'
  BY <1>15, <1>u DEF vars, task, catalogue, mirror
<1> QED
  BY <1>1, <1>2, <1>3, <1>4, <1>5, <1>6, <1>7, <1>8, <1>9, <1>10, <1>11, <1>12, <1>13, <1>14, <1>15 DEF Next

(* What has a pin is restated, or will be, on every node, for any queue    *)
(* length and budget: whatever serve's try_send drops, the Publish of the  *)
(* relay that follows waits for room, and no Withdraw overtakes it         *)
(* (registry.rs mirror, serve, relay, withdraw).                           *)
THEOREM PinnedIsAlwaysServed == Spec => []PinnedIsServed
<1>1. Init => PinnedIsServed
  <2> SUFFICES ASSUME Init PROVE PinnedIsServed
    OBVIOUS
  <2>1. \A n \in Nodes : PinnedBy(pins[n]) = {}
    BY NothingPinned DEF Init
  <2> QED BY <2>1 DEF PinnedIsServed
<1> QED BY <1>1, PromisesAreKept, TypesHold, PTL DEF Spec


-----------------------------------------------------------------------------
(* What is listed was vouched for.                                         *)

\* Vouching makes nothing older, and vouches for what is at once sent.
VouchedFor ==
  /\ \A k \in Nodes, q \in Roots : vouched'[k][q] <= vouched[k][q]
  /\ \A m \in net' : \/ m \in net \/ m.kind = "gone"
                     \/ m \in Message /\ m.age = 0 /\ vouched'[m.from][m.root] = 0

LEMMA Ages ==
  /\ Absent \in Nat /\ TTL \in Nat \ {0} /\ Absent = TTL + 1 /\ 0 \in Age
  /\ Stale \in Nat /\ MaxDelay \in Nat /\ Stale = TTL + MaxDelay + 2
  /\ \A a \in Age : a \in Nat
BY TimeAssumption DEF Absent, Stale, Age

\* Saying at once what one vouches for is vouched for.
LEMMA VouchingIsFresh ==
  ASSUME Types, NEW n \in Nodes, NEW K \in SUBSET {"record", "have", "gone"},
         NEW S \in SUBSET Roots, vouched' = Vouch(n, S), net' \subseteq net \cup Broadcast(n, K, S)
  PROVE  VouchedFor
<1>0. \A k \in Nodes, q \in Roots :
        vouched'[k][q] = IF k = n /\ q \in S THEN 0 ELSE vouched[k][q]
  BY VouchSays DEF Types
<1>5. /\ Broadcast(n, K, S) \subseteq Message
      /\ \A m \in Broadcast(n, K, S) :
           m.kind \in K /\ m.root \in S /\ m.from = n /\ m.age = 0
  BY BroadcastSays
<1>3. \A m \in Broadcast(n, K, S) : m \in Message /\ m.root \in S /\ m.from = n /\ m.age = 0
  BY <1>5
<1>1. /\ \A k \in Nodes, q \in Roots :
           vouched'[k][q] = IF k = n /\ q \in S THEN 0 ELSE vouched[k][q]
      /\ \A m \in Broadcast(n, K, S) :
           m \in Message /\ m.root \in S /\ m.from = n /\ m.age = 0
  BY <1>0, <1>3
<1>4. \A k \in Nodes, q \in Roots : vouched[k][q] \in Nat
  BY Ages DEF Types, Underway
<1>6. \A k \in Nodes, q \in Roots : vouched'[k][q] = 0 \/ vouched'[k][q] = vouched[k][q]
  BY <1>1
<1>2. \A k \in Nodes, q \in Roots : vouched'[k][q] <= vouched[k][q]
  BY ONLY <1>4, <1>6
<1> QED BY <1>1, <1>2 DEF VouchedFor

LEMMA RestatingIsFresh ==
  ASSUME Types, NEW n \in Nodes, vouched' = Vouch(n, own[n] \cup haves[n]),
         net' \subseteq net \cup Restated(n)
  PROVE  VouchedFor
<1>0. own[n] \subseteq Roots /\ haves[n] \subseteq Roots
  BY DEF Types, Tasks
<1>1. /\ \A k \in Nodes, q \in Roots :
           vouched'[k][q] = IF k = n /\ q \in own[n] \cup haves[n] THEN 0 ELSE vouched[k][q]
      /\ \A m \in Restated(n) :
           m \in Message /\ m.root \in own[n] \cup haves[n] /\ m.from = n /\ m.age = 0
  BY VouchSays, RestatedSays DEF Types
<1>4. \A k \in Nodes, q \in Roots : vouched[k][q] \in Nat
  BY Ages DEF Types, Underway
<1>6. \A k \in Nodes, q \in Roots : vouched'[k][q] = 0 \/ vouched'[k][q] = vouched[k][q]
  BY <1>1
<1>2. \A k \in Nodes, q \in Roots : vouched'[k][q] <= vouched[k][q]
  BY ONLY <1>4, <1>6
<1> QED BY <1>0, <1>1, <1>2 DEF VouchedFor

LEMMA SilenceIsFresh ==
  ASSUME Types, vouched' = vouched, \A m \in net' : m \in net \/ m.kind = "gone"
  PROVE  VouchedFor
<1>1. \A k \in Nodes, q \in Roots : vouched[k][q] <= vouched[k][q]
  BY Ages DEF Types, Underway
<1> QED BY <1>1 DEF VouchedFor

LEMMA VouchingOnlyGrows == Types /\ ~Advance /\ [Next]_vars => VouchedFor
<1> SUFFICES ASSUME Types, [Next]_vars, ~Advance PROVE VouchedFor
  OBVIOUS
<1>1. ASSUME NEW n \in Nodes, NEW r \in Roots, Share(n, r) PROVE VouchedFor
  <2>1. vouched' = Vouch(n, {r}) /\ net' = net /\ r \in Roots
    BY <1>1 DEF Share, Types, Pinning
  <2>2. {} \subseteq {"record", "have", "gone"} /\ {r} \subseteq Roots
        /\ net' \subseteq net \cup Broadcast(n, {}, {r})
    BY <2>1
  <2> QED BY <2>1, <2>2, VouchingIsFresh
<1>2. ASSUME NEW n \in Nodes, NEW r \in Roots, Withdraw(n, r) PROVE VouchedFor
  BY <1>2, SilenceIsFresh DEF Withdraw
<1>3. ASSUME NEW n \in Nodes, NEW r \in Roots, MirrorStart(n, r) PROVE VouchedFor
  BY <1>3, SilenceIsFresh DEF MirrorStart
<1>4. ASSUME NEW n \in Nodes, MirrorEnd(n) PROVE VouchedFor
  <2>1. vouched' = Vouch(n, {fetching[n]}) /\ net' = net /\ fetching[n] \in Roots
    BY <1>4 DEF MirrorEnd, Types, Pinning
  <2>2. {} \subseteq {"record", "have", "gone"} /\ {fetching[n]} \subseteq Roots
        /\ net' \subseteq net \cup Broadcast(n, {}, {fetching[n]})
    BY <2>1
  <2> QED BY <2>1, <2>2, VouchingIsFresh
<1>5. ASSUME NEW n \in Nodes, MirrorFails(n) PROVE VouchedFor
  BY <1>5, SilenceIsFresh DEF MirrorFails
<1>6. ASSUME NEW n \in Nodes, HandleCommand(n) PROVE VouchedFor
  <2>1. PICK q \in Roots : Publish(n, q) \/ Serve(n, q) \/ Unserve(n, q)
    BY <1>6, HandleCommandSays DEF Types
  <2>2. {q} \subseteq Roots
    OBVIOUS
  <2>3. CASE Publish(n, q)
    BY <2>2, <2>3, VouchingIsFresh DEF Publish
  <2>4. CASE Serve(n, q)
    BY <2>2, <2>4, VouchingIsFresh DEF Serve
  <2>5. CASE Unserve(n, q)
    <3>1. \A m \in Broadcast(n, {"gone"}, {q}) : m.kind = "gone"
      BY <2>2, BroadcastSays
    <3> QED BY <2>5, <3>1, SilenceIsFresh DEF Unserve
  <2> QED BY <2>1, <2>3, <2>4, <2>5
<1>7. ASSUME NEW n \in Nodes, GreetNeighbour(n) PROVE VouchedFor
  BY <1>7, RestatingIsFresh DEF GreetNeighbour
<1>8. ASSUME NEW n \in Nodes, TickerFires(n) PROVE VouchedFor
  BY <1>8, RestatingIsFresh DEF TickerFires
<1>9. ASSUME NEW n \in Nodes, Leave(n) PROVE VouchedFor
  <2>1. \A m \in Farewell(n) : m.kind = "gone"
    <3>1. own[n] \subseteq Roots
      BY DEF Types, Tasks
    <3> QED BY <3>1, BroadcastSays DEF Farewell
  <2>2. vouched' = vouched /\ \A m \in net' : m \in net \/ m.kind = "gone"
    BY <1>9, <2>1 DEF Leave, Forgets, Deaf
  <2> QED BY <2>2, SilenceIsFresh
<1>10. ASSUME NEW n \in Nodes, Crash(n) PROVE VouchedFor
  BY <1>10, SilenceIsFresh DEF Crash, Forgets, Deaf
<1>11. ASSUME NEW n \in Nodes, Join(n) PROVE VouchedFor
  BY <1>11, SilenceIsFresh DEF Join
<1>12. ASSUME NEW m \in net, Receive(m) PROVE VouchedFor
  BY <1>12, SilenceIsFresh DEF Receive
<1>13. ASSUME NEW m \in net, Lose(m) PROVE VouchedFor
  BY <1>13, SilenceIsFresh DEF Lose
<1>14. ASSUME Advance PROVE VouchedFor
  BY <1>14
<1>15. ASSUME UNCHANGED vars PROVE VouchedFor
  BY <1>15, SilenceIsFresh DEF vars
<1> QED
  BY <1>1, <1>2, <1>3, <1>4, <1>5, <1>6, <1>7, <1>8, <1>9, <1>10, <1>11, <1>12, <1>13, <1>14, <1>15 DEF Next

\* An entry stays, or goes, or is new and vouched for.
RecordStep(k, q) ==
  \/ recs'[k][q] = recs[k][q]
  \/ recs'[k][q] = Absent
  \/ recs'[k][q] = 0 /\ up[k] /\ \E p \in Nodes : vouched'[p][q] <= MaxDelay

HaveStep(k, q, p) ==
  \/ prov'[k][q][p] = prov[k][q][p]
  \/ prov'[k][q][p] = Absent
  \/ prov'[k][q][p] = 0 /\ up[k] /\ (~Forwards => vouched'[p][q] <= MaxDelay)

RecordsStep == \A k \in Nodes, q \in Roots : RecordStep(k, q)
HavesStep == \A k \in Nodes, q \in Roots, p \in Nodes : HaveStep(k, q, p)

LEMMA InsertingSteps ==
  ASSUME Types, NEW n \in Nodes, NEW r \in Roots, recs' = Insert(n, r), up[n],
         \E p \in Nodes : vouched'[p][r] <= MaxDelay
  PROVE  RecordsStep
<1>1. \A k \in Nodes, q \in Roots : recs'[k][q] = IF k = n /\ q = r THEN 0 ELSE recs[k][q]
  BY InsertSays DEF Types
<1> QED BY <1>1 DEF RecordsStep, RecordStep

LEMMA HavingSteps ==
  ASSUME Types, NEW n \in Nodes, NEW r \in Roots, NEW o \in Nodes, prov' = Have(n, r, o), up[n],
         ~Forwards => vouched'[o][r] <= MaxDelay
  PROVE  HavesStep
<1>1. \A k \in Nodes, q \in Roots, p \in Nodes :
        prov'[k][q][p] = IF k = n /\ q = r /\ p = o THEN 0 ELSE prov[k][q][p]
  <2>1. Catalogues
    BY DEF Types
  <2>2. \A k \in Nodes, q \in Roots, p \in Nodes :
          Have(n, r, o)[k][q][p] = IF k = n /\ q = r /\ p = o THEN 0 ELSE prov[k][q][p]
    BY <2>1 DEF Have, Catalogues
  <2> QED BY <2>2
<1> QED BY <1>1 DEF HavesStep, HaveStep

LEMMA VouchedNow ==
  ASSUME Types, NEW n \in Nodes, NEW S, NEW r \in Roots, r \in S, vouched' = Vouch(n, S)
  PROVE  vouched'[n][r] <= MaxDelay /\ \E p \in Nodes : vouched'[p][r] <= MaxDelay
<1>1. vouched'[n][r] = 0
  BY VouchSays DEF Types
<1> QED BY <1>1, Ages

LEMMA EntriesStep == Types /\ Sent /\ ~Advance /\ [Next]_vars => RecordsStep /\ HavesStep
<1> SUFFICES ASSUME Types, Sent, [Next]_vars, ~Advance PROVE RecordsStep /\ HavesStep
  OBVIOUS
<1>1. ASSUME NEW n \in Nodes, NEW r \in Roots, Share(n, r) PROVE RecordsStep /\ HavesStep
  <2>1. /\ recs' = Insert(n, r) /\ prov' = Have(n, r, n) /\ up[n] /\ r \in Roots
        /\ vouched' = Vouch(n, {r})
    BY <1>1 DEF Share, Types, Pinning
  <2>2. vouched'[n][r] <= MaxDelay /\ \E p \in Nodes : vouched'[p][r] <= MaxDelay
    BY <2>1, VouchedNow
  <2> QED BY <2>1, <2>2, InsertingSteps, HavingSteps
<1>2. ASSUME NEW n \in Nodes, NEW r \in Roots, Withdraw(n, r) PROVE RecordsStep /\ HavesStep
  <2>1. WithdrawFrom(n, r, n)
    BY <1>2 DEF Withdraw
  <2> QED BY <2>1, WithdrawSays DEF RecordsStep, RecordStep, HavesStep, HaveStep, Types
<1>3. ASSUME NEW n \in Nodes, NEW r \in Roots, MirrorStart(n, r) PROVE RecordsStep /\ HavesStep
  BY <1>3 DEF MirrorStart, task, catalogue, mirror, RecordsStep, RecordStep, HavesStep, HaveStep
<1>4. ASSUME NEW n \in Nodes, MirrorEnd(n) PROVE RecordsStep /\ HavesStep
  <2>1. /\ recs' = Insert(n, fetching[n]) /\ prov' = Have(n, fetching[n], n) /\ up[n] /\ fetching[n] \in Roots
        /\ vouched' = Vouch(n, {fetching[n]})
    BY <1>4 DEF MirrorEnd, Types, Pinning
  <2>2. vouched'[n][fetching[n]] <= MaxDelay /\ \E p \in Nodes : vouched'[p][fetching[n]] <= MaxDelay
    BY <2>1, VouchedNow
  <2> QED BY <2>1, <2>2, InsertingSteps, HavingSteps
<1>5. ASSUME NEW n \in Nodes, MirrorFails(n) PROVE RecordsStep /\ HavesStep
  BY <1>5 DEF MirrorFails, task, catalogue, mirror, RecordsStep, RecordStep, HavesStep, HaveStep
<1>6. ASSUME NEW n \in Nodes, HandleCommand(n) PROVE RecordsStep /\ HavesStep
  <2>1. PICK q \in Roots : Publish(n, q) \/ Serve(n, q) \/ Unserve(n, q)
    BY <1>6, HandleCommandSays DEF Types
  <2>2. up[n]
    BY <1>6 DEF HandleCommand
  <2>3. recs' = recs /\ RecordsStep
    BY <2>1 DEF Publish, Serve, Unserve, catalogue, RecordsStep, RecordStep
  <2>4. CASE prov' = Have(n, q, n) /\ vouched' = Vouch(n, {q})
    <3>1. vouched'[n][q] <= MaxDelay
      BY <2>4, VouchedNow
    <3> QED BY <2>2, <2>3, <2>4, <3>1, HavingSteps
  <2>5. CASE prov' = prov
    BY <2>3, <2>5 DEF HavesStep, HaveStep
  <2> QED BY <2>1, <2>4, <2>5 DEF Publish, Serve, Unserve, catalogue
<1>7. ASSUME NEW n \in Nodes, GreetNeighbour(n) PROVE RecordsStep /\ HavesStep
  BY <1>7 DEF GreetNeighbour, task, catalogue, mirror, RecordsStep, RecordStep, HavesStep, HaveStep
<1>8. ASSUME NEW n \in Nodes, TickerFires(n) PROVE RecordsStep /\ HavesStep
  <2>0. vouched' = Vouch(n, own[n] \cup haves[n]) /\ up[n]
    BY <1>8 DEF TickerFires
  <2>1. ASSUME NEW k \in Nodes, NEW q \in Roots PROVE RecordStep(k, q)
    <3>1. CASE k = n /\ q \in own[n]
      <4>1. recs'[k][q] = 0
        BY <1>8, <3>1 DEF TickerFires, Types, Catalogues
      <4>2. q \in own[n] \cup haves[n]
        BY <3>1
      <4>3. \E p \in Nodes : vouched'[p][q] <= MaxDelay
        BY <2>0, <4>2, VouchedNow
      <4> QED BY <2>0, <3>1, <4>1, <4>3 DEF RecordStep
    <3>2. CASE ~(k = n /\ q \in own[n])
      <4>1. recs'[k][q] = recs[k][q] \/ recs'[k][q] = Absent
        BY <1>8, <3>2 DEF TickerFires, Kept, Types, Catalogues
      <4> QED BY <4>1 DEF RecordStep
    <3> QED BY <3>1, <3>2
  <2>2. ASSUME NEW k \in Nodes, NEW q \in Roots, NEW p \in Nodes PROVE HaveStep(k, q, p)
    <3>1. CASE k = n /\ p = n /\ q \in haves[n]
      <4>1. prov'[k][q][p] = 0
        BY <1>8, <3>1 DEF TickerFires, Types, Catalogues
      <4>2. q \in own[n] \cup haves[n]
        BY <3>1
      <4>3. vouched'[p][q] <= MaxDelay
        BY <2>0, <3>1, <4>2, VouchedNow
      <4> QED BY <2>0, <3>1, <4>1, <4>3 DEF HaveStep
    <3>2. CASE ~(k = n /\ p = n /\ q \in haves[n])
      <4>1. prov'[k][q][p] = prov[k][q][p] \/ prov'[k][q][p] = Absent
        BY <1>8, <3>2 DEF TickerFires, Kept, Types, Catalogues
      <4> QED BY <4>1 DEF HaveStep
    <3> QED BY <3>1, <3>2
  <2> QED BY <2>1, <2>2 DEF RecordsStep, HavesStep
<1>9. ASSUME NEW n \in Nodes, Leave(n) PROVE RecordsStep /\ HavesStep
  <2>1. \A k \in Nodes, q \in Roots :
          /\ recs'[k][q] = recs[k][q] \/ recs'[k][q] = Absent
          /\ \A p \in Nodes : prov'[k][q][p] = prov[k][q][p] \/ prov'[k][q][p] = Absent
    BY <1>9 DEF Leave, Forgets, Types, Catalogues
  <2> QED BY <2>1 DEF RecordsStep, RecordStep, HavesStep, HaveStep
<1>10. ASSUME NEW n \in Nodes, Crash(n) PROVE RecordsStep /\ HavesStep
  <2>1. \A k \in Nodes, q \in Roots :
          /\ recs'[k][q] = recs[k][q] \/ recs'[k][q] = Absent
          /\ \A p \in Nodes : prov'[k][q][p] = prov[k][q][p] \/ prov'[k][q][p] = Absent
    BY <1>10 DEF Crash, Forgets, Types, Catalogues
  <2> QED BY <2>1 DEF RecordsStep, RecordStep, HavesStep, HaveStep
<1>11. ASSUME NEW n \in Nodes, Join(n) PROVE RecordsStep /\ HavesStep
  BY <1>11 DEF Join, task, catalogue, mirror, RecordsStep, RecordStep, HavesStep, HaveStep
<1>12. ASSUME NEW m \in net, Receive(m) PROVE RecordsStep /\ HavesStep
  <2>1. /\ m \in Message /\ m.to \in Nodes /\ m.root \in Roots /\ m.from \in Nodes
        /\ up[m.to] /\ vouched' = vouched
    BY <1>12 DEF Receive, Types, Underway, Message
  <2>2. m.kind # "gone" => vouched'[m.from][m.root] <= MaxDelay
    <3>1. m.age <= MaxDelay /\ m.age \in Nat
      BY <2>1, Ages DEF Message
    <3>2. m.kind # "gone" => vouched[m.from][m.root] <= m.age
      BY DEF Sent
    <3>3. vouched[m.from][m.root] \in Nat
      BY <2>1, Ages DEF Types, Underway
    <3> QED BY <2>1, <3>1, <3>2, <3>3, Ages
  <2>3. PICK via \in Nodes :
          /\ ~Forwards => via = m.from
          /\ \/ m.kind = "record" /\ recs' = Insert(m.to, m.root) /\ UNCHANGED prov
             \/ m.kind = "have" /\ prov' = Have(m.to, m.root, via) /\ UNCHANGED recs
             \/ m.kind = "gone" /\ WithdrawFrom(m.to, m.root, via)
    BY <1>12, ReceiveSays DEF Types
  <2>4. CASE m.kind = "record" /\ recs' = Insert(m.to, m.root) /\ UNCHANGED prov
    <3>1. RecordsStep
      BY <2>1, <2>2, <2>4, InsertingSteps
    <3> QED BY <2>4, <3>1 DEF HavesStep, HaveStep
  <2>5. CASE m.kind = "have" /\ prov' = Have(m.to, m.root, via) /\ UNCHANGED recs
    <3>1. ~Forwards => vouched'[via][m.root] <= MaxDelay
      BY <2>2, <2>3, <2>5
    <3>2. HavesStep
      BY <2>1, <2>5, <3>1, HavingSteps
    <3> QED BY <2>5, <3>2 DEF RecordsStep, RecordStep
  <2>6. CASE m.kind = "gone" /\ WithdrawFrom(m.to, m.root, via)
    BY <2>1, <2>6, WithdrawSays DEF RecordsStep, RecordStep, HavesStep, HaveStep, Types
  <2> QED BY <2>3, <2>4, <2>5, <2>6
<1>13. ASSUME NEW m \in net, Lose(m) PROVE RecordsStep /\ HavesStep
  BY <1>13 DEF Lose, task, catalogue, mirror, RecordsStep, RecordStep, HavesStep, HaveStep
<1>14. ASSUME Advance PROVE RecordsStep /\ HavesStep
  BY <1>14
<1>15. ASSUME UNCHANGED vars PROVE RecordsStep /\ HavesStep
  BY <1>15 DEF vars, task, catalogue, mirror, RecordsStep, RecordStep, HavesStep, HaveStep
<1> QED
  BY <1>1, <1>2, <1>3, <1>4, <1>5, <1>6, <1>7, <1>8, <1>9, <1>10, <1>11, <1>12, <1>13, <1>14, <1>15 DEF Next

\* Who is there changes by leaving, crashing and joining only.
Coming(k) ==
  /\ up'[k] => up[k] \/ (recs' = recs /\ prov' = prov)
  /\ ~up'[k] => \/ ~up[k]
                \/ \A q \in Roots : /\ recs'[k][q] = Absent
                                    /\ \A p \in Nodes : prov'[k][q][p] = Absent
  /\ k \in ticked' => k \in ticked \/ TickerFires(k)

LEMMA ComingAndGoing == Types /\ ~Advance /\ [Next]_vars => \A k \in Nodes : Coming(k)
<1> SUFFICES ASSUME Types, [Next]_vars, ~Advance, NEW k \in Nodes PROVE Coming(k)
  OBVIOUS
<1>1. ASSUME NEW n \in Nodes, NEW r \in Roots, Share(n, r) PROVE Coming(k)
  <2>1. up' = up /\ ticked' = ticked
    BY <1>1 DEF Share, task
  <2> QED BY <2>1 DEF Coming
<1>2. ASSUME NEW n \in Nodes, NEW r \in Roots, Withdraw(n, r) PROVE Coming(k)
  <2>1. up' = up /\ ticked' = ticked
    BY <1>2 DEF Withdraw, task
  <2> QED BY <2>1 DEF Coming
<1>3. ASSUME NEW n \in Nodes, NEW r \in Roots, MirrorStart(n, r) PROVE Coming(k)
  <2>1. up' = up /\ ticked' = ticked
    BY <1>3 DEF MirrorStart, task
  <2> QED BY <2>1 DEF Coming
<1>4. ASSUME NEW n \in Nodes, MirrorEnd(n) PROVE Coming(k)
  <2>1. up' = up /\ ticked' = ticked
    BY <1>4 DEF MirrorEnd, task
  <2> QED BY <2>1 DEF Coming
<1>5. ASSUME NEW n \in Nodes, MirrorFails(n) PROVE Coming(k)
  <2>1. up' = up /\ ticked' = ticked
    BY <1>5 DEF MirrorFails, task
  <2> QED BY <2>1 DEF Coming
<1>6. ASSUME NEW n \in Nodes, HandleCommand(n) PROVE Coming(k)
  <2>1. up' = up /\ ticked' = ticked
    BY <1>6 DEF HandleCommand, task
  <2> QED BY <2>1 DEF Coming
<1>7. ASSUME NEW n \in Nodes, GreetNeighbour(n) PROVE Coming(k)
  <2>1. up' = up /\ ticked' = ticked
    BY <1>7 DEF GreetNeighbour, task
  <2> QED BY <2>1 DEF Coming
<1>8. ASSUME NEW n \in Nodes, TickerFires(n) PROVE Coming(k)
  <2>1. up' = up /\ ticked' = ticked \cup {n}
    BY <1>8 DEF TickerFires
  <2> QED BY <1>8, <2>1 DEF Coming
<1>9. ASSUME NEW n \in Nodes, Leave(n) PROVE Coming(k)
  <2>1. /\ up' = [up EXCEPT ![n] = FALSE] /\ ticked' = ticked
        /\ recs' = [recs EXCEPT ![n] = [r \in Roots |-> Absent]]
        /\ prov' = [prov EXCEPT ![n] = [r \in Roots |-> [p \in Nodes |-> Absent]]]
    BY <1>9 DEF Leave, Forgets
  <2>2. /\ \A j \in Nodes : up'[j] = IF j = n THEN FALSE ELSE up[j]
        /\ \A q \in Roots : recs'[n][q] = Absent /\ \A p \in Nodes : prov'[n][q][p] = Absent
    BY <2>1 DEF Types, Tasks, Catalogues
  <2> QED BY <2>1, <2>2 DEF Coming
<1>10. ASSUME NEW n \in Nodes, Crash(n) PROVE Coming(k)
  <2>1. /\ up' = [up EXCEPT ![n] = FALSE] /\ ticked' = ticked
        /\ recs' = [recs EXCEPT ![n] = [r \in Roots |-> Absent]]
        /\ prov' = [prov EXCEPT ![n] = [r \in Roots |-> [p \in Nodes |-> Absent]]]
    BY <1>10 DEF Crash, Forgets
  <2>2. /\ \A j \in Nodes : up'[j] = IF j = n THEN FALSE ELSE up[j]
        /\ \A q \in Roots : recs'[n][q] = Absent /\ \A p \in Nodes : prov'[n][q][p] = Absent
    BY <2>1 DEF Types, Tasks, Catalogues
  <2> QED BY <2>1, <2>2 DEF Coming
<1>11. ASSUME NEW n \in Nodes, Join(n) PROVE Coming(k)
  <2>1. /\ up' = [up EXCEPT ![n] = TRUE] /\ recs' = recs /\ prov' = prov /\ ticked' = ticked
        /\ ~up[n]
    BY <1>11 DEF Join, catalogue
  <2>2. \A j \in Nodes : up'[j] = IF j = n THEN TRUE ELSE up[j]
    BY <2>1 DEF Types, Tasks
  <2> QED BY <2>1, <2>2 DEF Coming
<1>12. ASSUME NEW m \in net, Receive(m) PROVE Coming(k)
  <2>1. up' = up /\ ticked' = ticked
    BY <1>12 DEF Receive, task
  <2> QED BY <2>1 DEF Coming
<1>13. ASSUME NEW m \in net, Lose(m) PROVE Coming(k)
  <2>1. up' = up /\ ticked' = ticked
    BY <1>13 DEF Lose, task
  <2> QED BY <2>1 DEF Coming
<1>14. ASSUME Advance PROVE Coming(k)
  BY <1>14
<1>15. ASSUME UNCHANGED vars PROVE Coming(k)
  <2>1. up' = up /\ ticked' = ticked
    BY <1>15 DEF vars, task
  <2> QED BY <2>1 DEF Coming
<1> QED
  BY <1>1, <1>2, <1>3, <1>4, <1>5, <1>6, <1>7, <1>8, <1>9, <1>10, <1>11, <1>12, <1>13, <1>14, <1>15 DEF Next

Vouched ==
  Absentees /\ Pruned /\ Sent /\ RecordsAreVouched /\ (Forwards \/ HavesAreVouched)

\* A step within a tick.
LEMMA StepIsVouched == Types /\ Vouched /\ ~Advance /\ [Next]_vars => Vouched'
<1> SUFFICES ASSUME Types, Vouched, ~Advance, [Next]_vars PROVE Vouched'
  OBVIOUS
<1>1. RecordsStep /\ HavesStep /\ VouchedFor /\ \A k \in Nodes : Coming(k)
  BY EntriesStep, VouchingOnlyGrows, ComingAndGoing DEF Vouched
<1>2. Types'
  BY TypesAreKept
<1>3. /\ \A k \in Nodes, q \in Roots : vouched[k][q] \in Nat /\ vouched'[k][q] \in Nat
      /\ \A k \in Nodes, q \in Roots : recs[k][q] \in Nat /\ recs'[k][q] \in Nat
      /\ \A k \in Nodes, q \in Roots, p \in Nodes : prov[k][q][p] \in Nat /\ prov'[k][q][p] \in Nat
  BY <1>2, Ages DEF Types, Underway, Catalogues
<1>4. Absentees'
  <2> SUFFICES ASSUME NEW k \in Nodes, NEW q \in Roots, ~up'[k]
               PROVE  recs'[k][q] = Absent /\ \A p \in Nodes : prov'[k][q][p] = Absent
    BY DEF Absentees
  <2>1. CASE ~up[k]
    <3>1. recs[k][q] = Absent /\ \A p \in Nodes : prov[k][q][p] = Absent
      BY <2>1 DEF Vouched, Absentees
    <3> QED BY <1>1, <2>1, <3>1 DEF RecordsStep, RecordStep, HavesStep, HaveStep
  <2> QED BY <1>1, <2>1 DEF Coming
<1>5. Pruned'
  <2> SUFFICES ASSUME NEW k \in Nodes, NEW q \in Roots, up'[k], k \in ticked'
               PROVE  recs'[k][q] # TTL /\ \A p \in Nodes : prov'[k][q][p] # TTL
    BY DEF Pruned
  <2>0. Absent # TTL /\ 0 # TTL
    BY Ages
  <2>1. CASE TickerFires(k)
    <3>1. recs'[k][q] = IF q \in own[k] THEN 0 ELSE Kept(recs[k][q])
      BY <2>1 DEF TickerFires, Types, Catalogues
    <3>2. \A p \in Nodes : prov'[k][q][p] = IF p = k /\ q \in haves[k] THEN 0
                                            ELSE Kept(prov[k][q][p])
      BY <2>1 DEF TickerFires, Types, Catalogues
    <3>3. \A a \in Nat : Kept(a) # TTL
      BY Ages DEF Kept
    <3> QED BY <1>3, <2>0, <3>1, <3>2, <3>3
  <2>2. CASE k \in ticked
    <3>1. recs[k][q] # TTL /\ \A p \in Nodes : prov[k][q][p] # TTL
      <4>1. CASE up[k]
        BY <2>2, <4>1 DEF Vouched, Pruned
      <4>2. CASE ~up[k]
        BY <2>0, <4>2 DEF Vouched, Absentees
      <4> QED BY <4>1, <4>2
    <3>2. recs'[k][q] # TTL
      BY <1>1, <2>0, <3>1 DEF RecordsStep, RecordStep
    <3>3. \A p \in Nodes : prov'[k][q][p] # TTL
      BY <1>1, <2>0, <3>1 DEF HavesStep, HaveStep
    <3> QED BY <3>2, <3>3
  <2> QED BY <1>1, <2>1, <2>2 DEF Coming
<1>6. Sent'
  <2> SUFFICES ASSUME NEW m \in net', m.kind # "gone"
               PROVE  vouched'[m.from][m.root] <= m.age
    BY DEF Sent
  <2>1. m \in net \/ (m.age = 0 /\ vouched'[m.from][m.root] = 0)
    BY <1>1 DEF VouchedFor
  <2>2. CASE m \in net
    <3>1. /\ m.from \in Nodes /\ m.root \in Roots /\ m.age \in Nat
          /\ vouched[m.from][m.root] <= m.age
      BY <2>2, Ages DEF Types, Underway, Message, Vouched, Sent
    <3>2. vouched'[m.from][m.root] <= vouched[m.from][m.root]
      BY <1>1, <3>1 DEF VouchedFor
    <3> QED BY <1>3, <3>1, <3>2
  <2> QED BY <2>1, <2>2
<1>7. RecordsAreVouched'
  <2> SUFFICES ASSUME NEW k \in Nodes, NEW q \in Roots, recs'[k][q] # Absent
               PROVE  \E p \in Nodes : vouched'[p][q] <= recs'[k][q] + MaxDelay
    BY DEF RecordsAreVouched, Listed
  <2>1. CASE recs'[k][q] = recs[k][q]
    <3>1. PICK p \in Nodes : vouched[p][q] <= recs[k][q] + MaxDelay
      BY <2>1 DEF Vouched, RecordsAreVouched, Listed
    <3>2. vouched'[p][q] <= vouched[p][q]
      BY <1>1 DEF VouchedFor
    <3>3. vouched'[p][q] <= recs'[k][q] + MaxDelay
      BY <1>3, <2>1, <3>1, <3>2, Ages
    <3> QED BY <3>3
  <2>2. CASE recs'[k][q] = 0 /\ \E p \in Nodes : vouched'[p][q] <= MaxDelay
    BY <2>2, Ages
  <2> QED BY <1>1, <2>1, <2>2 DEF RecordsStep, RecordStep
<1>8. Forwards \/ HavesAreVouched'
  <2> SUFFICES ASSUME ~Forwards, NEW k \in Nodes, NEW q \in Roots, NEW p \in Nodes,
                      prov'[k][q][p] # Absent
               PROVE  vouched'[p][q] <= prov'[k][q][p] + MaxDelay
    BY DEF HavesAreVouched
  <2>1. CASE prov'[k][q][p] = prov[k][q][p]
    <3>1. vouched[p][q] <= prov[k][q][p] + MaxDelay
      BY <2>1 DEF Vouched, HavesAreVouched
    <3>2. vouched'[p][q] <= vouched[p][q]
      BY <1>1 DEF VouchedFor
    <3> QED BY <1>3, <2>1, <3>1, <3>2, Ages
  <2>2. CASE prov'[k][q][p] = 0 /\ vouched'[p][q] <= MaxDelay
    BY <2>2, Ages
  <2> QED BY <1>1, <2>1, <2>2 DEF HavesStep, HaveStep
<1> QED BY <1>4, <1>5, <1>6, <1>7, <1>8 DEF Vouched


\* A tick: everything is older, what was vouched for as well.
LEMMA TickIsVouched == Types /\ Vouched /\ Advance => Vouched'
<1> SUFFICES ASSUME Types, Vouched, Advance PROVE Vouched'
  OBVIOUS
<1>1. /\ up' = up /\ ticked' = {} /\ \A n \in Nodes : up[n] => n \in ticked
      /\ \A k \in Nodes, q \in Roots : recs'[k][q] = Older(recs[k][q])
      /\ \A k \in Nodes, q \in Roots, p \in Nodes : prov'[k][q][p] = Older(prov[k][q][p])
      /\ \A k \in Nodes, q \in Roots :
           vouched'[k][q] = IF vouched[k][q] < Stale THEN vouched[k][q] + 1 ELSE Stale
      /\ net' = {[m EXCEPT !.age = @ + 1] : m \in net}
  BY DEF Advance
<1>2. /\ \A k \in Nodes, q \in Roots : vouched[k][q] \in 0..Stale
      /\ \A k \in Nodes, q \in Roots : recs[k][q] \in 0..Absent
      /\ \A k \in Nodes, q \in Roots, p \in Nodes : prov[k][q][p] \in 0..Absent
  BY DEF Types, Underway, Catalogues, Age
\* No entry is at its end: what is listed has more time than it is old.
<1>3. /\ \A k \in Nodes, q \in Roots : recs[k][q] # TTL
      /\ \A k \in Nodes, q \in Roots, p \in Nodes : prov[k][q][p] # TTL
  <2> SUFFICES ASSUME NEW k \in Nodes, NEW q \in Roots
               PROVE  recs[k][q] # TTL /\ \A p \in Nodes : prov[k][q][p] # TTL
    OBVIOUS
  <2>1. CASE up[k]
    BY <1>1, <2>1 DEF Vouched, Pruned
  <2>2. CASE ~up[k]
    <3>1. recs[k][q] = Absent /\ \A p \in Nodes : prov[k][q][p] = Absent
      BY <2>2 DEF Vouched, Absentees
    <3> QED BY <3>1, Ages
  <2> QED BY <2>1, <2>2
<1>4. Older(Absent) = Absent
  BY Ages DEF Older
\* An entry that is still listed and what it was vouched for age together.
<1>5. ASSUME NEW a \in 0..Absent, a # TTL, Older(a) # Absent, NEW v \in 0..Stale,
             v <= a + MaxDelay
      PROVE  (IF v < Stale THEN v + 1 ELSE Stale) <= Older(a) + MaxDelay
  <2>1. a # Absent
    BY <1>4, <1>5
  <2>2. a \in Nat /\ a < TTL
    BY <1>5, <2>1, Ages
  <2>3. Older(a) = a + 1
    BY <2>2 DEF Older
  <2> QED BY <1>5, <2>2, <2>3, Ages
<1>6. \A a \in 0..Absent : Older(a) # Absent => a # Absent
  BY <1>4
<1>7. Absentees'
  BY <1>1, <1>4 DEF Vouched, Absentees
<1>8. Pruned'
  BY <1>1 DEF Pruned
<1>9. Sent'
  <2> SUFFICES ASSUME NEW x \in net', x.kind # "gone" PROVE vouched'[x.from][x.root] <= x.age
    BY DEF Sent
  <2>1. PICK m \in net : x = [m EXCEPT !.age = @ + 1]
    BY <1>1
  <2>2. m \in Message
    BY DEF Types, Underway
  <2>3. /\ x.kind = m.kind /\ x.from = m.from /\ x.root = m.root /\ x.age = m.age + 1
        /\ m.from \in Nodes /\ m.root \in Roots /\ m.age \in 0..MaxDelay
    BY <2>1, <2>2 DEF Message
  <2>4. vouched[m.from][m.root] <= m.age
    BY <2>3 DEF Vouched, Sent
  <2>5. vouched[m.from][m.root] \in 0..Stale
    BY <1>2, <2>3
  <2>6. vouched'[m.from][m.root] = vouched[m.from][m.root] + 1
    BY <1>1, <2>3, <2>4, <2>5, Ages
  <2> QED BY <2>3, <2>4, <2>5, <2>6, Ages
<1>10. RecordsAreVouched'
  <2> SUFFICES ASSUME NEW k \in Nodes, NEW q \in Roots, recs'[k][q] # Absent
               PROVE  \E p \in Nodes : vouched'[p][q] <= recs'[k][q] + MaxDelay
    BY DEF RecordsAreVouched, Listed
  <2>1. recs[k][q] # Absent /\ Older(recs[k][q]) # Absent /\ recs[k][q] # TTL
    BY <1>1, <1>2, <1>3, <1>6
  <2>2. PICK p \in Nodes : vouched[p][q] <= recs[k][q] + MaxDelay
    BY <2>1 DEF Vouched, RecordsAreVouched, Listed
  <2>3. vouched'[p][q] <= recs'[k][q] + MaxDelay
    BY <1>1, <1>2, <1>5, <2>1, <2>2
  <2> QED BY <2>3
<1>11. Forwards \/ HavesAreVouched'
  <2> SUFFICES ASSUME ~Forwards, NEW k \in Nodes, NEW q \in Roots, NEW p \in Nodes,
                      prov'[k][q][p] # Absent
               PROVE  vouched'[p][q] <= prov'[k][q][p] + MaxDelay
    BY DEF HavesAreVouched
  <2>1. prov[k][q][p] # Absent /\ Older(prov[k][q][p]) # Absent /\ prov[k][q][p] # TTL
    BY <1>1, <1>2, <1>3, <1>6
  <2>2. vouched[p][q] <= prov[k][q][p] + MaxDelay
    BY <2>1 DEF Vouched, HavesAreVouched
  <2> QED BY <1>1, <1>2, <1>5, <2>1, <2>2
<1> QED BY <1>7, <1>8, <1>9, <1>10, <1>11 DEF Vouched

LEMMA VouchedHolds == Spec => []Vouched
<1>1. Init => Vouched
  BY Ages DEF Init, Vouched, Absentees, Pruned, Sent, RecordsAreVouched, HavesAreVouched, Listed
<1>2. Types /\ Vouched /\ [Next]_vars => Vouched'
  BY StepIsVouched, TickIsVouched
<1> QED BY <1>1, <1>2, TypesHold, PTL DEF Spec

(* What any catalogue lists was vouched for, for any TTL and delay: for    *)
(* every record listed, some node restated it no longer ago than the entry *)
(* is old and gossip may have taken, whatever gossip loses, reorders or    *)
(* forwards and whoever leaves or crashes (registry.rs run, prune).        *)
THEOREM RecordsAreAlwaysVouched == Spec => []RecordsAreVouched
<1>1. Vouched => RecordsAreVouched
  BY DEF Vouched
<1> QED BY <1>1, VouchedHolds, PTL

(* And for every provider listed, the provider itself restated its have:   *)
(* as long as gossip delivers straight from the sender.  Where it forwards,*)
(* delivered_from credits a have to the neighbour that handed it on.       *)
THEOREM EntriesAreAlwaysVouched ==
  ASSUME ~Forwards
  PROVE  Spec => []EntriesAreVouched
<1>1. Vouched => EntriesAreVouched
  BY DEF Vouched, RecordsAreVouched, HavesAreVouched, EntriesAreVouched, Listed, Providers
<1> QED BY <1>1, VouchedHolds, PTL

=============================================================================
