--------------------------- MODULE SessionProofs ---------------------------
(***************************************************************************)
(* Proofs about Session and its history, for every set of connections,     *)
(* every set of names players ask for, every stream limit and either kind  *)
(* of endpoint.                                                            *)
(***************************************************************************)
EXTENDS SessionHistory, NamesProofs

-----------------------------------------------------------------------------
(* Type correctness, one part of the state at a time. *)

\* The roster is finite, so `unique_name` finds a free name in it.
Sound == TypeOK /\ IsFiniteSet(roster)

LEMMA InitSound == Init => Sound
<1> USE SessionAssumption DEF Init
<1>1. Init => ServerTypeOK
  BY DEF ServerTypeOK
<1>2. Init => StationTypeOK
  BY DEF StationTypeOK, Station, Before
<1>3. Init => HandlerTypeOK
  BY DEF HandlerTypeOK
<1>4. Init => WireTypeOK
  BY DEF WireTypeOK
<1>5. Init => ClientTypeOK
  BY DEF ClientTypeOK
<1>6. IsFiniteSet({HostName})
  BY FS_Singleton, Zenon
<1>7. QED
  BY <1>1, <1>2, <1>3, <1>4, <1>5, <1>6 DEF Sound, TypeOK

LEMMA StationNames ==
  /\ "greeting" \in Station /\ "comparing" \in Station /\ "joining" \in Station
  /\ "refusing" \in Station /\ "welcoming" \in Station /\ "evicting" \in Station
  /\ "tellJoined" \in Station /\ "awaitJoined" \in Station
  /\ "announceJoined" \in Station /\ "serving" \in Station
  /\ "leaving" \in Station /\ "tellEvicted" \in Station
  /\ "tellLeft" \in Station /\ "awaitLeft" \in Station
  /\ "announceLeft" \in Station /\ "done" \in Station
BY DEF Station, Before, Admitted, Departed

LEMMA NextStation == StationTypeOK /\ [Next]_vars => StationTypeOK'
<1> SUFFICES ASSUME StationTypeOK, [Next]_vars PROVE StationTypeOK'
  OBVIOUS
<1> USE StationNames DEF StationTypeOK, Goto, Forget
<1>1. ASSUME NEW c \in Conns, Handler(c) PROVE StationTypeOK'
  <2>1. CASE Greet(c)
    BY <2>1 DEF Greet, Refuse
  <2>2. CASE Compare(c)
    BY <2>2 DEF Compare, Refuse
  <2>3. CASE HangUp(c) \/ Join(c) \/ SendWelcome(c) \/ StopServing(c)
    BY <2>3 DEF HangUp, Join, SendWelcome, StopServing
  <2>4. CASE Evict(c) \/ Leave(c) \/ StopAnnouncing(c)
    BY <2>4 DEF Evict, Leave, StopAnnouncing
  <2>5. CASE TellHost(c)
    BY <2>5 DEF TellHost
  <2>6. CASE StartAnnouncing(c)
    BY <2>6 DEF StartAnnouncing
  <2>7. CASE AnnounceName(c) \/ AnnounceRoster(c)
    BY <2>7 DEF AnnounceName, AnnounceRoster
  <2>8. QED
    BY <1>1, <2>1, <2>2, <2>3, <2>4, <2>5, <2>6, <2>7 DEF Handler
<1>2. ASSUME NEW c \in Conns, Player(c) PROVE StationTypeOK'
  <2>1. CASE Dial(c)
    BY <2>1 DEF Dial
  <2>2. CASE ReadReply(c) \/ ReadUpdate(c) \/ Lose(c) \/ Disconnected(c)
    BY <2>2 DEF ReadReply, ReadUpdate, Lose, Disconnected, handlerVars
  <2>3. QED
    BY <1>2, <2>1, <2>2 DEF Player
<1>3. CASE CloseHost \/ UNCHANGED vars
  BY <1>3 DEF CloseHost, vars, handlerVars
<1>4. QED
  BY <1>1, <1>2, <1>3 DEF Next

\* The name `Server::join` picks in a sound state: a player's, and free.
LEMMA JoinPicksFreeName ==
  ASSUME Sound, NEW c \in Conns
  PROVE  /\ UniqueName(hello[c].name, roster) \in PlayerNames
         /\ UniqueName(hello[c].name, roster) \notin roster
<1>1. hello[c] \in Greeting \/ hello[c] = NoGreeting
  BY DEF Sound, TypeOK, StationTypeOK
<1>2. hello[c] \in Greeting => hello[c].name \in PlayerNames
  BY SessionAssumption DEF Greeting
<1>3. NoGreeting.name \in PlayerNames
  BY SessionAssumption DEF NoGreeting
<1>4. hello[c].name \in PlayerNames
  BY <1>1, <1>2, <1>3
<1>5. QED
  BY <1>4, UniqueNameIsFree DEF Sound

LEMMA NextServer == Sound /\ [Next]_vars => ServerTypeOK' /\ IsFiniteSet(roster)'
<1> SUFFICES ASSUME Sound, [Next]_vars
             PROVE  ServerTypeOK' /\ IsFiniteSet(roster')
  OBVIOUS
<1>1. ServerTypeOK /\ IsFiniteSet(roster)
  BY DEF Sound, TypeOK
<1>2. snapshot \in [Conns -> SUBSET PlayerNames]
  BY DEF Sound, TypeOK, HandlerTypeOK
<1>3. ASSUME NEW c \in Conns, Handler(c)
      PROVE  ServerTypeOK' /\ IsFiniteSet(roster')
  <2>1. CASE Join(c)
    <3> DEFINE name == UniqueName(hello[c].name, roster)
    <3>1. name \in PlayerNames
      BY JoinPicksFreeName
    <3>2. IsFiniteSet(roster \cup {name})
      BY <1>1, FS_AddElement
    <3> HIDE DEF name
    <3>3. /\ roster' = roster \cup {name}
          /\ connections' = connections \cup {[name |-> name, conn |-> c]}
          /\ UNCHANGED <<hosting, lock, hostView>>
      BY <2>1 DEF Join, name
    <3>4. QED
      BY <1>1, <3>1, <3>2, <3>3 DEF ServerTypeOK
  <2>2. CASE Evict(c) \/ Leave(c)
    <3>1. /\ roster' \subseteq roster
          /\ connections' \subseteq connections
          /\ UNCHANGED <<hosting, lock, hostView>>
      BY <2>2 DEF Evict, Leave, DropPlayer
    <3>2. QED
      BY <1>1, <3>1, FS_Subset DEF ServerTypeOK
  <2>3. CASE TellHost(c)
    BY <1>1, <1>2, <2>3 DEF TellHost, ServerTypeOK, serverVars
  <2>4. CASE StartAnnouncing(c)
    BY <1>1, <2>4 DEF StartAnnouncing, ServerTypeOK
  <2>5. CASE StopAnnouncing(c)
    BY <1>1, <2>5 DEF StopAnnouncing, ServerTypeOK
  <2>6. CASE Greet(c) \/ Compare(c) \/ HangUp(c) \/ SendWelcome(c)
             \/ AnnounceName(c) \/ AnnounceRoster(c) \/ StopServing(c)
    BY <1>1, <2>6
    DEF Greet, Compare, HangUp, SendWelcome, AnnounceName, AnnounceRoster,
        StopServing, ServerTypeOK, serverVars
  <2>7. QED
    BY <1>3, <2>1, <2>2, <2>3, <2>4, <2>5, <2>6 DEF Handler
<1>4. ASSUME NEW c \in Conns, Player(c)
      PROVE  ServerTypeOK' /\ IsFiniteSet(roster')
  BY <1>1, <1>4
  DEF Player, Dial, ReadReply, ReadUpdate, Lose, Disconnected, ServerTypeOK,
      serverVars
<1>5. CASE CloseHost \/ UNCHANGED vars
  BY <1>1, <1>5 DEF CloseHost, vars, ServerTypeOK, serverVars
<1>6. QED
  BY <1>3, <1>4, <1>5 DEF Next

LEMMA NextHandler == Sound /\ [Next]_vars => HandlerTypeOK'
<1> SUFFICES ASSUME Sound, [Next]_vars PROVE HandlerTypeOK'
  OBVIOUS
<1>1. HandlerTypeOK
  BY DEF Sound, TypeOK
<1>2. /\ roster \subseteq PlayerNames
      /\ connections \subseteq [name : PlayerNames, conn : Conns]
  BY DEF Sound, TypeOK, ServerTypeOK
<1>3. ASSUME NEW c \in Conns, Handler(c) PROVE HandlerTypeOK'
  <2>1. CASE Join(c)
    <3> DEFINE name == UniqueName(hello[c].name, roster)
    <3>1. name \in PlayerNames
      BY JoinPicksFreeName
    <3> HIDE DEF name
    <3>2. /\ assigned' = [assigned EXCEPT ![c] = name]
          /\ snapshot' = [snapshot EXCEPT ![c] = roster \cup {name}]
          /\ UNCHANGED <<targets, half>>
      BY <2>1 DEF Join, name
    <3>3. QED
      BY <1>1, <1>2, <3>1, <3>2 DEF HandlerTypeOK
  <2>2. CASE Evict(c) \/ Leave(c)
    <3>1. roster' \subseteq PlayerNames
      BY <1>2, <2>2 DEF Evict, Leave, DropPlayer
    <3>2. QED
      BY <1>1, <2>2, <3>1 DEF Evict, Leave, HandlerTypeOK
  <2>3. CASE TellHost(c)
    BY <1>1, <2>3 DEF TellHost, HandlerTypeOK
  <2>4. CASE StartAnnouncing(c)
    <3>1. Targets(assigned[c]) \subseteq Conns /\ Everyone \subseteq Conns
      BY <1>2 DEF Targets, Everyone
    <3>2. QED
      BY <1>1, <2>4, <3>1 DEF StartAnnouncing, HandlerTypeOK
  <2>5. CASE AnnounceName(c)
    BY <1>1, <2>5 DEF AnnounceName, HandlerTypeOK
  <2>6. CASE AnnounceRoster(c) \/ StopAnnouncing(c)
    BY <1>1, <2>6 DEF AnnounceRoster, StopAnnouncing, HandlerTypeOK
  <2>7. CASE Greet(c) \/ Compare(c) \/ HangUp(c) \/ SendWelcome(c)
             \/ StopServing(c)
    BY <1>1, <2>7
    DEF Greet, Compare, HangUp, SendWelcome, StopServing, HandlerTypeOK
  <2>8. QED
    BY <1>3, <2>1, <2>2, <2>3, <2>4, <2>5, <2>6, <2>7 DEF Handler
<1>4. ASSUME NEW c \in Conns, Player(c) PROVE HandlerTypeOK'
  BY <1>1, <1>4
  DEF Player, Dial, ReadReply, ReadUpdate, Lose, Disconnected, HandlerTypeOK,
      handlerVars
<1>5. CASE CloseHost \/ UNCHANGED vars
  BY <1>1, <1>5 DEF CloseHost, vars, HandlerTypeOK, handlerVars
<1>6. QED
  BY <1>3, <1>4, <1>5 DEF Next

LEMMA MessagesAreTyped ==
  ASSUME NEW name \in PlayerNames, NEW names \in SUBSET PlayerNames
  PROVE  /\ WelcomeMsg(name, names) \in Message
         /\ RosterMsg(names) \in Message
         /\ JoinedMsg(name) \in Message
         /\ LeftMsg(name) \in Message
BY DEF WelcomeMsg, RosterMsg, JoinedMsg, LeftMsg, Message

LEMMA ErrorIsTyped == ErrorMsg \in Message
BY DEF ErrorMsg, Message

LEMMA SentIsTyped ==
  ASSUME WireTypeOK, NEW c \in Conns, NEW msg \in Message
  PROVE  Sent(c, msg) \in [Conns -> Seq(Message)]
BY DEF WireTypeOK, Sent

LEMMA NextWire == Sound /\ [Next]_vars => WireTypeOK'
<1> SUFFICES ASSUME Sound, [Next]_vars PROVE WireTypeOK'
  OBVIOUS
<1>1. WireTypeOK /\ HandlerTypeOK
  BY DEF Sound, TypeOK
<1>2. ASSUME NEW c \in Conns
      PROVE  Sent(c, ErrorMsg) \in [Conns -> Seq(Message)]
  BY <1>1, SentIsTyped, ErrorIsTyped
<1>3. ASSUME NEW c \in Conns, NEW t \in Conns
      PROVE  /\ Sent(t, WelcomeMsg(assigned[c], snapshot[c])) \in [Conns -> Seq(Message)]
             /\ Sent(t, JoinedMsg(assigned[c])) \in [Conns -> Seq(Message)]
             /\ Sent(t, LeftMsg(assigned[c])) \in [Conns -> Seq(Message)]
             /\ Sent(t, RosterMsg(snapshot[c])) \in [Conns -> Seq(Message)]
  <2>1. assigned[c] \in PlayerNames /\ snapshot[c] \in SUBSET PlayerNames
    BY <1>1 DEF HandlerTypeOK
  <2>2. QED
    BY <1>1, <2>1, SentIsTyped, MessagesAreTyped
<1>4. ASSUME NEW c \in Conns, Handler(c) PROVE WireTypeOK'
  <2>1. CASE Greet(c) \/ Compare(c)
    BY <1>1, <1>2, <2>1 DEF Greet, Compare, Refuse, WireTypeOK
  <2>2. CASE SendWelcome(c)
    BY <1>1, <1>3, <2>2 DEF SendWelcome, WireTypeOK
  <2>3. CASE AnnounceName(c)
    <3>1. PICK t \in targets[c] :
            wire' = Sent(t, IF pc[c] = "announceJoined"
                            THEN JoinedMsg(assigned[c])
                            ELSE LeftMsg(assigned[c]))
      BY <2>3 DEF AnnounceName
    <3>2. t \in Conns
      BY <1>1 DEF HandlerTypeOK
    <3>3. wire' \in [Conns -> Seq(Message)]
      BY <1>3, <3>1, <3>2
    <3>4. QED
      BY <1>1, <2>3, <3>3 DEF AnnounceName, WireTypeOK
  <2>4. CASE AnnounceRoster(c)
    <3>1. half[c] \in Conns
      BY <1>1, <2>4 DEF AnnounceRoster, HandlerTypeOK
    <3>2. QED
      BY <1>1, <1>3, <2>4, <3>1 DEF AnnounceRoster, WireTypeOK
  <2>5. CASE HangUp(c)
    BY <1>1, <2>5 DEF HangUp, WireTypeOK
  <2>6. CASE Join(c) \/ Evict(c) \/ TellHost(c) \/ StartAnnouncing(c)
             \/ StopAnnouncing(c) \/ StopServing(c) \/ Leave(c)
    BY <1>1, <2>6
    DEF Join, Evict, TellHost, StartAnnouncing, StopAnnouncing, StopServing,
        Leave, WireTypeOK
  <2>7. QED
    BY <1>4, <2>1, <2>2, <2>3, <2>4, <2>5, <2>6 DEF Handler
<1>5. ASSUME NEW c \in Conns, Player(c) PROVE WireTypeOK'
  <2>1. CASE ReadReply(c) \/ ReadUpdate(c)
    <3>1. wire[c] \in Seq(Message) /\ wire[c] # << >>
      BY <1>1, <2>1 DEF WireTypeOK, ReadReply, ReadUpdate
    <3>2. Tail(wire[c]) \in Seq(Message)
      BY <3>1
    <3>3. \/ wire' = [wire EXCEPT ![c] = Tail(wire[c])]
          \/ wire' = [wire EXCEPT ![c] = << >>]
      BY <2>1 DEF ReadReply, ReadUpdate
    <3>4. wire' \in [Conns -> Seq(Message)]
      BY <1>1, <3>2, <3>3, << >> \in Seq(Message) DEF WireTypeOK
    <3>5. link' = link \/ link' = [link EXCEPT ![c] = "down"]
      BY <2>1 DEF ReadReply, ReadUpdate
    <3>6. QED
      BY <1>1, <3>4, <3>5 DEF WireTypeOK
  <2>2. CASE Dial(c) \/ Lose(c)
    BY <1>1, <2>2 DEF Dial, Lose, WireTypeOK
  <2>3. CASE Disconnected(c)
    BY <1>1, <2>3, << >> \in Seq(Message) DEF Disconnected, WireTypeOK
  <2>4. QED
    BY <1>5, <2>1, <2>2, <2>3 DEF Player
<1>6. CASE CloseHost \/ UNCHANGED vars
  BY <1>1, <1>6 DEF CloseHost, vars, WireTypeOK
<1>7. QED
  BY <1>4, <1>5, <1>6 DEF Next

LEMMA NextClient == Sound /\ [Next]_vars => ClientTypeOK'
<1> SUFFICES ASSUME Sound, [Next]_vars PROVE ClientTypeOK'
  OBVIOUS
<1>1. ClientTypeOK /\ WireTypeOK
  BY DEF Sound, TypeOK
<1>2. ASSUME NEW c \in Conns, Player(c) PROVE ClientTypeOK'
  <2>1. CASE ReadReply(c) \/ ReadUpdate(c)
    <3>1. wire[c] \in Seq(Message) /\ wire[c] # << >>
      BY <1>1, <2>1 DEF WireTypeOK, ReadReply, ReadUpdate
    <3>2. Head(wire[c]) \in Message
      BY <3>1
    <3>3. /\ Head(wire[c]).kind = "welcome" =>
               /\ Head(wire[c]).name \in PlayerNames
               /\ Head(wire[c]).names \in SUBSET PlayerNames
          /\ Head(wire[c]).kind = "roster" =>
               Head(wire[c]).names \in SUBSET PlayerNames
      BY <3>2 DEF Message
    <3>4. CASE ReadReply(c)
      BY <1>1, <3>3, <3>4 DEF ReadReply, ClientTypeOK
    <3>5. CASE ReadUpdate(c)
      <4>1. view' = view \/ view' = [view EXCEPT ![c] = Head(wire[c]).names]
        BY <3>5 DEF ReadUpdate
      <4>2. view' # view => Head(wire[c]).kind = "roster"
        BY <3>5 DEF ReadUpdate
      <4>3. UNCHANGED <<client, me>>
        BY <3>5 DEF ReadUpdate
      <4>4. QED
        BY <1>1, <3>3, <4>1, <4>2, <4>3 DEF ClientTypeOK
    <3>6. QED
      BY <2>1, <3>4, <3>5
  <2>2. CASE Dial(c)
    <3>1. client' = [client EXCEPT ![c] = "waiting"] /\ UNCHANGED <<me, view>>
      BY <2>2 DEF Dial
    <3>2. QED
      BY <1>1, <3>1 DEF ClientTypeOK
  <2>4. CASE Lose(c)
    BY <1>1, <2>4 DEF Lose, ClientTypeOK, clientVars
  <2>3. CASE Disconnected(c)
    BY <1>1, <2>3, SessionAssumption DEF Disconnected, ClientTypeOK
  <2>5. QED
    BY <1>2, <2>1, <2>2, <2>3, <2>4 DEF Player
<1>3. ASSUME NEW c \in Conns, Handler(c) PROVE ClientTypeOK'
  BY <1>1, <1>3
  DEF Handler, Greet, Compare, HangUp, Join, SendWelcome, Evict, TellHost,
      StartAnnouncing, AnnounceName, AnnounceRoster, StopAnnouncing,
      StopServing, Leave, ClientTypeOK, clientVars
<1>4. CASE CloseHost \/ UNCHANGED vars
  BY <1>1, <1>4 DEF CloseHost, vars, ClientTypeOK, clientVars
<1>5. QED
  BY <1>2, <1>3, <1>4 DEF Next

LEMMA NextSound == Sound /\ [Next]_vars => Sound'
<1> SUFFICES ASSUME Sound, [Next]_vars PROVE Sound'
  OBVIOUS
<1>1. StationTypeOK'
  BY NextStation DEF Sound, TypeOK
<1>2. QED
  BY <1>1, NextServer, NextHandler, NextWire, NextClient DEF Sound, TypeOK

\* In every reachable state each variable has the type its counterpart has in
\* the code, and the roster is finite.
THEOREM TypeCorrect == Spec => []TypeOK
<1>1. Sound => TypeOK
  BY DEF Sound
<1>2. QED
  BY <1>1, InitSound, NextSound, PTL DEF Spec

-----------------------------------------------------------------------------
(* Identity: the server's table, its handlers and the roster agree.

   NamesAreUnique is not inductive alone: `leave` removes by name, so it keeps
   the roster and the table together only if the leaving handler's entry is in
   the table under the handler's name (TableMatchesHandlers), and that only if
   a handler that was never admitted has no name yet (Unnamed).              *)
Unnamed == \A c \in Conns : pc[c] \in Before => assigned[c] = HostName

Identified == TableMatchesHandlers /\ NamesAreUnique /\ Unnamed

Over(c) == pc[c] \in Departed \cup {"done"}

\* The table, read one handler at a time.
LEMMA TableEntries ==
  TableMatchesHandlers <=>
    \A e : e \in connections <=>
             \E c \in Conns : InSession(c) /\ e = [name |-> assigned[c], conn |-> c]
BY DEF TableMatchesHandlers

LEMMA InitIdentified == Init => Identified
<1> SUFFICES ASSUME Init PROVE Identified
  OBVIOUS
<1>1. \A c \in Conns : pc[c] = "idle" /\ assigned[c] = HostName
  BY DEF Init
<1>2. \A c \in Conns : ~InSession(c)
  BY <1>1 DEF InSession, Admitted
<1>3. roster = {HostName} /\ connections = {}
  BY DEF Init
<1>4. QED
  BY <1>1, <1>2, <1>3
  DEF Identified, TableMatchesHandlers, NamesAreUnique, Unnamed

\* A step that is not a join, an eviction or a leave changes no identity.
LEMMA OtherStepsKeepIdentity ==
  ASSUME StationTypeOK, [Next]_vars,
         \A c \in Conns : ~Join(c) /\ ~Evict(c) /\ ~Leave(c)
  PROVE  /\ UNCHANGED <<roster, connections, assigned>>
         /\ \A d \in Conns :
              /\ InSession(d)' <=> InSession(d)
              /\ pc'[d] \in Before => pc[d] \in Before
              /\ Over(d) => Over(d)'
              /\ Over(d)' => Over(d) \/ pc[d] \in Before
<1> DEFINE Kept ==
      /\ UNCHANGED <<roster, connections, assigned>>
      /\ \A d \in Conns :
           /\ InSession(d)' <=> InSession(d)
           /\ pc'[d] \in Before => pc[d] \in Before
           /\ Over(d) => Over(d)'
           /\ Over(d)' => Over(d) \/ pc[d] \in Before
<1> USE DEF StationTypeOK, Goto, serverVars, InSession, Over, Before, Admitted,
            Departed
<1>1. ASSUME NEW c \in Conns, Handler(c) PROVE Kept
  <2>1. CASE Greet(c)
    BY <2>1 DEF Greet, Refuse
  <2>2. CASE Compare(c)
    BY <2>2 DEF Compare, Refuse
  <2>3. CASE HangUp(c)
    BY <2>3 DEF HangUp
  <2>4. CASE SendWelcome(c)
    BY <2>4 DEF SendWelcome
  <2>5. CASE TellHost(c)
    BY <2>5 DEF TellHost
  <2>6. CASE StartAnnouncing(c)
    BY <2>6 DEF StartAnnouncing
  <2>7. CASE AnnounceName(c) \/ AnnounceRoster(c)
    BY <2>7 DEF AnnounceName, AnnounceRoster
  <2>8. CASE StopAnnouncing(c)
    BY <2>8 DEF StopAnnouncing, Announcing
  <2>9. CASE StopServing(c)
    BY <2>9 DEF StopServing
  <2>10. QED
    BY <1>1, <2>1, <2>2, <2>3, <2>4, <2>5, <2>6, <2>7, <2>8, <2>9 DEF Handler
<1>2. ASSUME NEW c \in Conns, Player(c) PROVE Kept
  <2>1. CASE ReadReply(c) \/ ReadUpdate(c) \/ Lose(c) \/ Disconnected(c)
    BY <2>1 DEF ReadReply, ReadUpdate, Lose, Disconnected, handlerVars
  <2>2. CASE Dial(c)
    BY <2>2 DEF Dial
  <2>3. QED
    BY <1>2, <2>1, <2>2 DEF Player
<1>3. CASE CloseHost \/ UNCHANGED vars
  BY <1>3 DEF CloseHost, vars, handlerVars
<1>4. QED
  BY <1>1, <1>2, <1>3 DEF Next

\* A join adds one entry, under a name that was free.
LEMMA JoinSeats ==
  ASSUME Sound, Identified, NEW c \in Conns, Join(c)
  PROVE  \E name \in PlayerNames :
           /\ name \notin roster
           /\ roster' = roster \cup {name}
           /\ connections' = connections \cup {[name |-> name, conn |-> c]}
           /\ assigned' = [assigned EXCEPT ![c] = name]
           /\ pc' = [pc EXCEPT ![c] = "welcoming"]
           /\ pc[c] = "joining"
BY JoinPicksFreeName DEF Join, Goto

\* An eviction or a leave removes the handler's own entry and no other.
LEMMA DropUnseats ==
  ASSUME Sound, Identified, NEW c \in Conns, Evict(c) \/ Leave(c)
  PROVE  LET seat == [name |-> assigned[c], conn |-> c]
         IN  /\ seat \in connections
             /\ connections' = connections \ {seat}
             /\ roster' = roster \ {assigned[c]}
             /\ UNCHANGED assigned
             /\ \E s \in {"tellEvicted", "tellLeft"} : pc' = [pc EXCEPT ![c] = s]
             /\ InSession(c)
<1> DEFINE seat == [name |-> assigned[c], conn |-> c]
<1>1. /\ UNCHANGED assigned
      /\ roster' = roster \ {assigned[c]}
      /\ connections' = {e \in connections : e.name # assigned[c]}
      /\ \E s \in {"tellEvicted", "tellLeft"} : pc' = [pc EXCEPT ![c] = s]
      /\ pc[c] \in {"evicting", "leaving"}
  BY DEF Evict, Leave, DropPlayer, Goto
<1>2. InSession(c)
  BY <1>1 DEF InSession, Admitted
<1>3. seat \in connections
  BY <1>2, TableEntries DEF Identified
<1>4. \A e \in connections : e.name = assigned[c] <=> e = seat
  BY <1>3 DEF Identified, NamesAreUnique
<1>5. connections' = connections \ {seat}
  BY <1>1, <1>4
<1>6. QED
  BY <1>1, <1>2, <1>3, <1>5

LEMMA NextIdentified == Sound /\ Identified /\ [Next]_vars => Identified'
<1> SUFFICES ASSUME Sound, Identified, [Next]_vars PROVE Identified'
  OBVIOUS
<1>1. /\ pc \in [Conns -> Station]
      /\ assigned \in [Conns -> PlayerNames]
      /\ connections \subseteq [name : PlayerNames, conn : Conns]
  BY DEF Sound, TypeOK, ServerTypeOK, StationTypeOK, HandlerTypeOK
<1>2. \A e : e \in connections <=>
            \E d \in Conns : InSession(d) /\ e = [name |-> assigned[d], conn |-> d]
  BY TableEntries DEF Identified
<1>3. CASE \A c \in Conns : ~Join(c) /\ ~Evict(c) /\ ~Leave(c)
  <2>1. /\ UNCHANGED <<roster, connections, assigned>>
        /\ \A d \in Conns : /\ InSession(d)' <=> InSession(d)
                            /\ pc'[d] \in Before => pc[d] \in Before
    BY <1>3, OtherStepsKeepIdentity DEF Sound, TypeOK
  <2>2. TableMatchesHandlers'
    BY <1>2, <2>1 DEF TableMatchesHandlers
  <2>3. QED
    BY <2>1, <2>2 DEF Identified, NamesAreUnique, Unnamed
<1>4. ASSUME NEW c \in Conns, Join(c) PROVE Identified'
  <2>1. PICK name \in PlayerNames :
           /\ name \notin roster
           /\ roster' = roster \cup {name}
           /\ connections' = connections \cup {[name |-> name, conn |-> c]}
           /\ assigned' = [assigned EXCEPT ![c] = name]
           /\ pc' = [pc EXCEPT ![c] = "welcoming"]
           /\ pc[c] = "joining"
    BY <1>4, JoinSeats
  <2>2. \A d \in Conns : InSession(d)' <=> InSession(d) \/ d = c
    BY <1>1, <2>1 DEF InSession, Admitted
  <2>3. ~InSession(c)
    BY <2>1 DEF InSession, Admitted
  <2>4. \A d \in Conns : assigned'[d] = IF d = c THEN name ELSE assigned[d]
    BY <1>1, <2>1
  <2>5. \A e : e \in connections' <=>
              \E d \in Conns : InSession(d)' /\ e = [name |-> assigned'[d], conn |-> d]
    BY <1>2, <2>1, <2>2, <2>3, <2>4
  <2>6. TableMatchesHandlers'
    BY <2>5 DEF TableMatchesHandlers
  <2>7. NamesAreUnique'
    <3>1. roster = {HostName} \cup {e.name : e \in connections}
      BY DEF Identified, NamesAreUnique
    <3>2. \A e \in connections : e.name # name
      BY <2>1, <3>1
    <3>3. name # HostName
      BY <2>1, <3>1
    <3> DEFINE seat == [name |-> name, conn |-> c]
    <3>4. seat.name = name
      OBVIOUS
    <3>5. connections' = connections \cup {seat}
      BY <2>1
    <3> HIDE DEF seat
    <3>6. roster' = {HostName} \cup {e.name : e \in connections'}
      BY <2>1, <3>1, <3>4, <3>5
    <3>7. QED
      BY <3>2, <3>3, <3>4, <3>5, <3>6 DEF Identified, NamesAreUnique
  <2>8. Unnamed'
    BY <1>1, <2>1, <2>4 DEF Identified, Unnamed, Before
  <2>9. QED
    BY <2>6, <2>7, <2>8 DEF Identified
<1>5. ASSUME NEW c \in Conns, Evict(c) \/ Leave(c) PROVE Identified'
  <2> DEFINE seat == [name |-> assigned[c], conn |-> c]
  <2>1. /\ seat \in connections
        /\ connections' = connections \ {seat}
        /\ roster' = roster \ {assigned[c]}
        /\ UNCHANGED assigned
        /\ \E s \in {"tellEvicted", "tellLeft"} : pc' = [pc EXCEPT ![c] = s]
    BY <1>5, DropUnseats
  <2>2. \A d \in Conns : InSession(d)' <=> InSession(d) /\ d # c
    BY <1>1, <2>1 DEF InSession, Admitted
  <2>3. \A e : e \in connections' <=>
              \E d \in Conns : InSession(d)' /\ e = [name |-> assigned'[d], conn |-> d]
    BY <1>2, <2>1, <2>2
  <2>4. TableMatchesHandlers'
    BY <2>3 DEF TableMatchesHandlers
  <2>5. NamesAreUnique'
    <3>1. /\ roster = {HostName} \cup {e.name : e \in connections}
          /\ \A e \in connections : e.name # HostName
          /\ \A e, f \in connections : e.name = f.name => e = f
      BY DEF Identified, NamesAreUnique
    <3>2. seat.name = assigned[c]
      OBVIOUS
    <3> HIDE DEF seat
    <3>3. assigned[c] # HostName
      BY <2>1, <3>1, <3>2
    <3>4. \A e \in connections : e.name = assigned[c] <=> e = seat
      BY <2>1, <3>1, <3>2
    <3>5. roster' = {HostName} \cup {e.name : e \in connections'}
      BY <2>1, <3>1, <3>3, <3>4
    <3>6. \A e \in connections' : e \in connections
      BY <2>1
    <3>7. /\ \A e \in connections' : e.name # HostName
          /\ \A e, f \in connections' : e.name = f.name => e = f
      BY <3>1, <3>6
    <3>8. QED
      BY <3>5, <3>7 DEF NamesAreUnique
  <2>6. Unnamed'
    BY <1>1, <2>1 DEF Identified, Unnamed, Before
  <2>7. QED
    BY <2>4, <2>5, <2>6 DEF Identified
<1>6. QED
  BY <1>3, <1>4, <1>5

\* The names of a session: the roster is the host and the connected players,
\* no two of them share a name, and the server's table is exactly the handlers
\* that serve somebody.
THEOREM NamesStayUnique == Spec => [](NamesAreUnique /\ TableMatchesHandlers)
<1>1. Init => Sound /\ Identified
  BY InitSound, InitIdentified
<1>2. Sound /\ Identified /\ [Next]_vars => Sound' /\ Identified'
  BY NextSound, NextIdentified
<1>3. Identified => NamesAreUnique /\ TableMatchesHandlers
  BY DEF Identified
<1>4. QED
  BY <1>1, <1>2, <1>3, PTL DEF Spec

-----------------------------------------------------------------------------
(* Refinement: seats are taken and given up one at a time (module Seats). *)

LEMMA GoneIsOver ==
  \A c \in Conns : c \in Gone <=> assigned[c] # HostName /\ Over(c)
BY DEF Gone, Over

LEMMA InitSeats == Init => Identity!Init
<1> SUFFICES ASSUME Init PROVE Identity!Init
  OBVIOUS
<1>1. Gone = {}
  BY DEF Gone, Init
<1>2. QED
  BY <1>1 DEF Identity!Init, Init

LEMMA NextSeats ==
  Sound /\ Identified /\ [Next]_vars => [Identity!Next]_(Identity!seatVars)
<1> SUFFICES ASSUME Sound, Identified, [Next]_vars
             PROVE  [Identity!Next]_(Identity!seatVars)
  OBVIOUS
<1>1. /\ pc \in [Conns -> Station]
      /\ assigned \in [Conns -> PlayerNames]
      /\ connections \subseteq [name : PlayerNames, conn : Conns]
  BY DEF Sound, TypeOK, ServerTypeOK, StationTypeOK, HandlerTypeOK
<1>2. CASE \A c \in Conns : ~Join(c) /\ ~Evict(c) /\ ~Leave(c)
  <2>1. /\ UNCHANGED <<roster, connections, assigned>>
        /\ \A d \in Conns :
             /\ Over(d) => Over(d)'
             /\ Over(d)' => Over(d) \/ pc[d] \in Before
    BY <1>2, OtherStepsKeepIdentity DEF Sound, TypeOK
  <2>2. \A d \in Conns : pc[d] \in Before => assigned[d] = HostName
    BY DEF Identified, Unnamed
  <2>3. Gone' = Gone
    BY <2>1, <2>2 DEF Gone, Over
  <2>4. QED
    BY <2>1, <2>3 DEF Identity!seatVars
<1>3. ASSUME NEW c \in Conns, Join(c) PROVE Identity!Next
  <2>1. PICK name \in PlayerNames :
           /\ name \notin roster
           /\ roster' = roster \cup {name}
           /\ connections' = connections \cup {[name |-> name, conn |-> c]}
           /\ assigned' = [assigned EXCEPT ![c] = name]
           /\ pc' = [pc EXCEPT ![c] = "welcoming"]
           /\ pc[c] = "joining"
    BY <1>3, JoinSeats
  <2> DEFINE seat == [name |-> name, conn |-> c]
  <2>2. ~InSession(c) /\ ~Over(c) /\ ~Over(c)'
    BY <1>1, <2>1 DEF InSession, Over, Admitted, Departed
  <2>3. \A e \in connections : e.conn # c
    BY <2>2, TableEntries DEF Identified
  <2>4. c \notin Identity!Seated \cup Gone
    BY <2>2, <2>3, GoneIsOver DEF Identity!Seated
  <2>5. Gone' = Gone
    BY <1>1, <2>1, <2>2 DEF Gone, Over
  <2>6. seat \notin connections
    BY <2>3
  <2>7. Identity!Sit(seat)
    BY <2>1, <2>4, <2>5 DEF Identity!Sit
  <2>8. QED
    BY <2>1, <2>6, <2>7 DEF Identity!Next
<1>4. ASSUME NEW c \in Conns, Evict(c) \/ Leave(c) PROVE Identity!Next
  <2> DEFINE seat == [name |-> assigned[c], conn |-> c]
  <2>1. /\ seat \in connections
        /\ connections' = connections \ {seat}
        /\ roster' = roster \ {assigned[c]}
        /\ UNCHANGED assigned
        /\ \E s \in {"tellEvicted", "tellLeft"} : pc' = [pc EXCEPT ![c] = s]
    BY <1>4, DropUnseats
  <2>2. assigned[c] # HostName
    BY <2>1 DEF Identified, NamesAreUnique
  <2>3. \A d \in Conns : Over(d)' <=> Over(d) \/ d = c
    BY <1>1, <2>1 DEF Over, Departed
  <2>4. Gone' = Gone \cup {c}
    BY <2>1, <2>2, <2>3 DEF Gone, Over
  <2>5. Identity!Stand(seat)
    BY <2>1, <2>4 DEF Identity!Stand
  <2>6. QED
    BY <2>1, <2>5 DEF Identity!Next
<1>5. QED
  BY <1>2, <1>3, <1>4

\* The host's bookkeeping implements the abstract seats: a name is given to one
\* connection at a time, free when it is given, and taken back with its seat.
THEOREM SeatsAreImplemented == Spec => SeatsAreKept
<1>1. Init => Sound /\ Identified
  BY InitSound, InitIdentified
<1>2. Sound /\ Identified /\ [Next]_vars => Sound' /\ Identified'
  BY NextSound, NextIdentified
<1>3. QED
  BY <1>1, <1>2, InitSeats, NextSeats, PTL DEF Spec, SeatsAreKept, Identity!Spec

-----------------------------------------------------------------------------
(* The mutex. *)

LEMMA InitLock == Init => LockIsTheAnnouncer
BY SessionAssumption DEF Init, LockIsTheAnnouncer, Announcing

LEMMA NextLock == Sound /\ LockIsTheAnnouncer /\ [Next]_vars => LockIsTheAnnouncer'
<1> SUFFICES ASSUME Sound, LockIsTheAnnouncer, [Next]_vars
             PROVE  LockIsTheAnnouncer'
  OBVIOUS
<1>1. /\ pc \in [Conns -> Station]
      /\ targets \in [Conns -> SUBSET Conns]
      /\ half \in [Conns -> Conns \cup {Nobody}]
      /\ Nobody \notin Conns
  BY SessionAssumption DEF Sound, TypeOK, StationTypeOK, HandlerTypeOK
<1> USE DEF LockIsTheAnnouncer, Announcing, Goto, LockFree
<1>2. ASSUME NEW c \in Conns, Handler(c) PROVE LockIsTheAnnouncer'
  <2>1. CASE Greet(c)
    BY <1>1, <2>1 DEF Greet, Refuse, serverVars
  <2>2. CASE Compare(c)
    BY <1>1, <2>2 DEF Compare, Refuse, serverVars
  <2>3. CASE HangUp(c) \/ Join(c)
    BY <1>1, <2>3 DEF HangUp, Join, serverVars
  <2>4. CASE SendWelcome(c) \/ StopServing(c)
    BY <1>1, <2>4 DEF SendWelcome, StopServing, serverVars
  <2>5. CASE Evict(c) \/ Leave(c)
    BY <1>1, <2>5 DEF Evict, Leave
  <2>6. CASE TellHost(c)
    BY <1>1, <2>6 DEF TellHost, serverVars
  <2>7. CASE StartAnnouncing(c)
    BY <1>1, <2>7 DEF StartAnnouncing
  <2>8. CASE AnnounceName(c)
    BY <1>1, <2>8 DEF AnnounceName, serverVars
  <2>9. CASE AnnounceRoster(c)
    BY <1>1, <2>9 DEF AnnounceRoster, serverVars
  <2>10. CASE StopAnnouncing(c)
    BY <1>1, <2>10 DEF StopAnnouncing
  <2>11. QED
    BY <1>2, <2>1, <2>2, <2>3, <2>4, <2>5, <2>6, <2>7, <2>8, <2>9, <2>10
    DEF Handler
<1>3. ASSUME NEW c \in Conns, Player(c) PROVE LockIsTheAnnouncer'
  BY <1>1, <1>3
  DEF Player, Dial, ReadReply, ReadUpdate, Lose, Disconnected, serverVars,
      handlerVars
<1>4. CASE CloseHost \/ UNCHANGED vars
  BY <1>1, <1>4 DEF CloseHost, vars, serverVars, handlerVars
<1>5. QED
  BY <1>2, <1>3, <1>4 DEF Next

\* The mutex is held across awaits by the announce loops alone, one at a time,
\* and a loop that is half way through a target still has that target to tell.
THEOREM OneAnnouncerAtATime == Spec => []LockIsTheAnnouncer
<1>1. QED
  BY InitSound, NextSound, InitLock, NextLock, PTL DEF Spec

-----------------------------------------------------------------------------
(* Clients.  What a client is told on the wire is bound to its handler: only
   the handler of c sends c a Welcome, and it goes out once c was admitted.  *)

Welcomed(c) == pc[c] \notin Before \cup {"welcoming"}

\* A live connection has a handler that has not begun to take its leave.
LiveHandlers ==
  \A c \in Conns : link[c] = "up" =>
    pc[c] \notin {"idle", "evicting", "leaving", "done"} \cup Departed

WelcomesAreTrue ==
  \A c \in Conns : \A i \in 1 .. Len(wire[c]) :
    wire[c][i].kind = "welcome" => Welcomed(c) /\ wire[c][i].name = assigned[c]

ClientsAreWelcome ==
  \A c \in Conns : client[c] = "in" => Welcomed(c) /\ me[c] = assigned[c]

Attached == LiveHandlers /\ WelcomesAreTrue /\ ClientsAreWelcome

LEMMA InitAttached == Init => Attached
BY DEF Init, Attached, LiveHandlers, WelcomesAreTrue, ClientsAreWelcome

LEMMA AttachedIsTellable ==
  TypeOK /\ Identified /\ Attached => ClientsAreTellable
<1> SUFFICES ASSUME TypeOK, Identified, Attached,
                    NEW c \in Conns, client[c] = "in", link[c] = "up"
             PROVE  /\ InSession(c)
                    /\ me[c] = assigned[c]
                    /\ me[c] # HostName
                    /\ \A d \in Conns \ {c} :
                         client[d] = "in" /\ link[d] = "up" => me[c] # me[d]
  BY DEF ClientsAreTellable
<1>1. ASSUME NEW d \in Conns, client[d] = "in", link[d] = "up"
      PROVE  InSession(d) /\ me[d] = assigned[d]
  BY <1>1
  DEF Attached, LiveHandlers, ClientsAreWelcome, Welcomed, TypeOK,
      StationTypeOK, Station, InSession
<1>2. ASSUME NEW d \in Conns, InSession(d)
      PROVE  [name |-> assigned[d], conn |-> d] \in connections
  BY <1>2, TableEntries DEF Identified
<1>3. me[c] # HostName
  BY <1>1, <1>2 DEF Identified, NamesAreUnique
<1>4. ASSUME NEW d \in Conns \ {c}, client[d] = "in", link[d] = "up"
      PROVE  me[c] # me[d]
  <2> DEFINE mine == [name |-> assigned[c], conn |-> c]
             theirs == [name |-> assigned[d], conn |-> d]
  <2>1. mine \in connections /\ theirs \in connections
    BY <1>1, <1>2, <1>4
  <2>2. mine # theirs
    BY <1>4
  <2>3. mine.name # theirs.name
    BY <2>1, <2>2 DEF Identified, NamesAreUnique
  <2>4. QED
    BY <1>1, <1>4, <2>3
<1>5. QED
  BY <1>1, <1>3, <1>4

LEMMA NextLive == StationTypeOK /\ WireTypeOK /\ LiveHandlers /\ [Next]_vars => LiveHandlers'
<1> SUFFICES ASSUME StationTypeOK, WireTypeOK, LiveHandlers, [Next]_vars
             PROVE  LiveHandlers'
  OBVIOUS
<1>1. /\ pc \in [Conns -> Station]
      /\ link \in [Conns -> {"none", "up", "down"}]
  BY DEF StationTypeOK, WireTypeOK
<1> USE DEF LiveHandlers, Departed, Announcing, Goto
<1>2. ASSUME NEW c \in Conns, Handler(c) PROVE LiveHandlers'
  <2>1. CASE Greet(c) \/ Compare(c)
    BY <1>1, <2>1 DEF Greet, Compare, Refuse
  <2>2. CASE HangUp(c) \/ Join(c) \/ SendWelcome(c)
    BY <1>1, <2>2 DEF HangUp, Join, SendWelcome
  <2>3. CASE Evict(c) \/ Leave(c) \/ StopServing(c)
    BY <1>1, <2>3 DEF Evict, Leave, StopServing
  <2>4. CASE TellHost(c)
    BY <1>1, <2>4 DEF TellHost
  <2>5. CASE StartAnnouncing(c)
    BY <1>1, <2>5 DEF StartAnnouncing
  <2>6. CASE AnnounceName(c) \/ AnnounceRoster(c)
    BY <1>1, <2>6 DEF AnnounceName, AnnounceRoster
  <2>7. CASE StopAnnouncing(c)
    BY <1>1, <2>7 DEF StopAnnouncing
  <2>8. QED
    BY <1>2, <2>1, <2>2, <2>3, <2>4, <2>5, <2>6, <2>7 DEF Handler
<1>3. ASSUME NEW c \in Conns, Player(c) PROVE LiveHandlers'
  BY <1>1, <1>3
  DEF Player, Dial, ReadReply, ReadUpdate, Lose, Disconnected, handlerVars
<1>4. CASE CloseHost \/ UNCHANGED vars
  BY <1>1, <1>4 DEF CloseHost, vars, handlerVars
<1>5. QED
  BY <1>2, <1>3, <1>4 DEF Next

\* Once welcomed, always welcomed, and under the same name.
LEMMA WelcomeLasts ==
  ASSUME StationTypeOK, HandlerTypeOK, [Next]_vars, NEW d \in Conns, Welcomed(d)
  PROVE  Welcomed(d)' /\ assigned'[d] = assigned[d]
<1>1. /\ pc \in [Conns -> Station]
      /\ assigned \in [Conns -> PlayerNames]
  BY DEF StationTypeOK, HandlerTypeOK
<1>2. pc[d] \notin {"idle", "greeting", "comparing", "joining", "refusing", "welcoming"}
  BY DEF Welcomed, Before
<1> USE DEF Welcomed, Before, Announcing, Goto
<1>3. ASSUME NEW c \in Conns, Handler(c)
      PROVE  Welcomed(d)' /\ assigned'[d] = assigned[d]
  <2>1. CASE Greet(c) \/ Compare(c)
    BY <1>1, <1>2, <2>1 DEF Greet, Compare, Refuse
  <2>2. CASE HangUp(c) \/ Join(c) \/ SendWelcome(c)
    BY <1>1, <1>2, <2>2 DEF HangUp, Join, SendWelcome
  <2>3. CASE Evict(c) \/ Leave(c) \/ StopServing(c)
    BY <1>1, <1>2, <2>3 DEF Evict, Leave, StopServing
  <2>4. CASE TellHost(c)
    BY <1>1, <1>2, <2>4 DEF TellHost
  <2>5. CASE StartAnnouncing(c)
    BY <1>1, <1>2, <2>5 DEF StartAnnouncing
  <2>6. CASE AnnounceName(c) \/ AnnounceRoster(c)
    BY <1>1, <1>2, <2>6 DEF AnnounceName, AnnounceRoster
  <2>7. CASE StopAnnouncing(c)
    BY <1>1, <1>2, <2>7 DEF StopAnnouncing
  <2>8. QED
    BY <1>3, <2>1, <2>2, <2>3, <2>4, <2>5, <2>6, <2>7 DEF Handler
<1>4. ASSUME NEW c \in Conns, Player(c)
      PROVE  Welcomed(d)' /\ assigned'[d] = assigned[d]
  BY <1>1, <1>2, <1>4
  DEF Player, Dial, ReadReply, ReadUpdate, Lose, Disconnected, handlerVars
<1>5. CASE CloseHost \/ UNCHANGED vars
  BY <1>1, <1>2, <1>5 DEF CloseHost, vars, handlerVars
<1>6. QED
  BY <1>3, <1>4, <1>5 DEF Next

\* Carried(w, d): every Welcome in w[d] was on the wire towards d before.
Carried(w, d) ==
  \A i \in 1 .. Len(w[d]) : w[d][i].kind = "welcome" =>
    \E j \in 1 .. Len(wire[d]) : wire[d][j] = w[d][i]

LEMMA SentCarries ==
  ASSUME WireTypeOK, NEW c \in Conns, NEW msg \in Message, NEW d \in Conns,
         msg.kind # "welcome" \/ c # d
  PROVE  Carried(Sent(c, msg), d)
<1>1. wire \in [Conns -> Seq(Message)] /\ wire[d] \in Seq(Message)
  BY DEF WireTypeOK
<1>2. CASE link[c] = "up" /\ c = d
  <2>1. Sent(c, msg)[d] = Append(wire[d], msg)
    BY <1>1, <1>2 DEF Sent
  <2>2. QED
    BY <1>1, <1>2, <2>1 DEF Carried
<1>3. CASE ~(link[c] = "up" /\ c = d)
  <2>1. Sent(c, msg)[d] = wire[d]
    BY <1>1, <1>3 DEF Sent
  <2>2. QED
    BY <2>1 DEF Carried
<1>4. QED
  BY <1>2, <1>3

LEMMA SameCarries ==
  ASSUME NEW w, NEW d, w[d] = wire[d] PROVE Carried(w, d)
BY DEF Carried

LEMMA TailCarries ==
  ASSUME WireTypeOK, NEW d \in Conns, wire[d] # << >>,
         NEW w, w[d] = Tail(wire[d])
  PROVE  Carried(w, d)
<1>1. wire[d] \in Seq(Message) /\ Len(wire[d]) \in Nat /\ Len(wire[d]) # 0
  BY DEF WireTypeOK
<1>2. /\ Len(w[d]) = Len(wire[d]) - 1
      /\ \A i \in 1 .. Len(w[d]) : w[d][i] = wire[d][i + 1]
  BY <1>1
<1>3. \A i \in 1 .. Len(w[d]) : i + 1 \in 1 .. Len(wire[d])
  BY <1>1, <1>2
<1>4. QED
  BY <1>2, <1>3 DEF Carried

LEMMA EmptyCarries ==
  ASSUME NEW w, NEW d, w[d] = << >> PROVE Carried(w, d)
BY DEF Carried

\* Only the handler of d puts a Welcome on the wire towards d.
LEMMA OthersCarry ==
  ASSUME Sound, [Next]_vars, NEW d \in Conns, ~SendWelcome(d)
  PROVE  Carried(wire', d)
<1>1. /\ WireTypeOK /\ HandlerTypeOK
      /\ wire \in [Conns -> Seq(Message)]
  BY DEF Sound, TypeOK, WireTypeOK
<1>2. ASSUME wire' = wire PROVE Carried(wire', d)
  BY <1>2, SameCarries
<1>3. ASSUME NEW c \in Conns, wire' = Sent(c, ErrorMsg) PROVE Carried(wire', d)
  <2>1. ErrorMsg.kind # "welcome"
    BY DEF ErrorMsg
  <2>2. QED
    BY <1>1, <1>3, <2>1, SentCarries, ErrorIsTyped
<1>4. ASSUME NEW c \in Conns, Handler(c) PROVE Carried(wire', d)
  <2> assigned[c] \in PlayerNames /\ snapshot[c] \in SUBSET PlayerNames
    BY <1>1 DEF HandlerTypeOK
  <2>1. CASE Greet(c) \/ Compare(c)
    <3>1. wire' = Sent(c, ErrorMsg) \/ wire' = wire
      BY <2>1 DEF Greet, Compare, Refuse
    <3>2. QED
      BY <1>2, <1>3, <3>1
  <2>2. CASE SendWelcome(c)
    <3>1. c # d
      BY <2>2
    <3>2. wire' = Sent(c, WelcomeMsg(assigned[c], snapshot[c]))
      BY <2>2 DEF SendWelcome
    <3>3. QED
      BY <1>1, <3>1, <3>2, SentCarries, MessagesAreTyped
  <2>3. CASE AnnounceName(c)
    <3>1. PICK t \in targets[c] :
            \/ wire' = Sent(t, JoinedMsg(assigned[c]))
            \/ wire' = Sent(t, LeftMsg(assigned[c]))
      BY <2>3 DEF AnnounceName
    <3>2. t \in Conns
      BY <1>1 DEF HandlerTypeOK
    <3>3. /\ JoinedMsg(assigned[c]).kind # "welcome"
          /\ LeftMsg(assigned[c]).kind # "welcome"
      BY DEF JoinedMsg, LeftMsg
    <3>4. /\ JoinedMsg(assigned[c]) \in Message
          /\ LeftMsg(assigned[c]) \in Message
      BY MessagesAreTyped
    <3>5. QED
      BY <1>1, <3>1, <3>2, <3>3, <3>4, SentCarries
  <2>4. CASE AnnounceRoster(c)
    <3>1. half[c] \in Conns /\ wire' = Sent(half[c], RosterMsg(snapshot[c]))
      BY <1>1, <2>4 DEF AnnounceRoster, HandlerTypeOK
    <3>2. RosterMsg(snapshot[c]).kind # "welcome"
      BY DEF RosterMsg
    <3>3. RosterMsg(snapshot[c]) \in Message
      BY MessagesAreTyped
    <3>4. QED
      BY <1>1, <3>1, <3>2, <3>3, SentCarries
  <2>5. CASE HangUp(c) \/ Join(c) \/ Evict(c) \/ TellHost(c)
             \/ StartAnnouncing(c) \/ StopAnnouncing(c) \/ StopServing(c)
             \/ Leave(c)
    <3>1. wire' = wire
      BY <2>5
      DEF HangUp, Join, Evict, TellHost, StartAnnouncing, StopAnnouncing,
          StopServing, Leave
    <3>2. QED
      BY <1>2, <3>1
  <2>6. QED
    BY <1>4, <2>1, <2>2, <2>3, <2>4, <2>5 DEF Handler
<1>5. ASSUME NEW c \in Conns, Player(c) PROVE Carried(wire', d)
  <2>1. CASE Dial(c) \/ Lose(c)
    BY <1>2, <2>1 DEF Dial, Lose
  <2>2. CASE ReadReply(c) \/ ReadUpdate(c)
    <3>1. /\ wire[c] # << >>
          /\ \/ wire' = [wire EXCEPT ![c] = Tail(wire[c])]
             \/ wire' = [wire EXCEPT ![c] = << >>]
      BY <2>2 DEF ReadReply, ReadUpdate
    <3>2. CASE c # d
      <4>1. wire'[d] = wire[d]
        BY <1>1, <3>1, <3>2
      <4>2. QED
        BY <4>1, SameCarries
    <3>3. CASE c = d
      <4>1. wire'[d] = Tail(wire[d]) \/ wire'[d] = << >>
        BY <1>1, <3>1, <3>3
      <4>2. QED
        BY <1>1, <3>1, <3>3, <4>1, TailCarries, EmptyCarries
    <3>4. QED
      BY <3>2, <3>3
  <2>3. CASE Disconnected(c)
    <3>1. wire'[d] = wire[d] \/ wire'[d] = << >>
      BY <1>1, <2>3 DEF Disconnected
    <3>2. QED
      BY <3>1, SameCarries, EmptyCarries
  <2>4. QED
    BY <1>5, <2>1, <2>2, <2>3 DEF Player
<1>6. CASE CloseHost \/ UNCHANGED vars
  BY <1>2, <1>6 DEF CloseHost, vars
<1>7. QED
  BY <1>4, <1>5, <1>6 DEF Next

LEMMA NextWelcomes == Sound /\ WelcomesAreTrue /\ [Next]_vars => WelcomesAreTrue'
<1> SUFFICES ASSUME Sound, WelcomesAreTrue, [Next]_vars,
                    NEW d \in Conns, NEW i \in 1 .. Len(wire'[d]),
                    wire'[d][i].kind = "welcome"
             PROVE  Welcomed(d)' /\ wire'[d][i].name = assigned'[d]
  BY DEF WelcomesAreTrue
<1>1. StationTypeOK /\ HandlerTypeOK /\ WireTypeOK
  BY DEF Sound, TypeOK
<1>2. ASSUME NEW j \in 1 .. Len(wire[d]), wire[d][j] = wire'[d][i]
      PROVE  Welcomed(d)' /\ wire'[d][i].name = assigned'[d]
  <2>1. Welcomed(d) /\ wire[d][j].name = assigned[d]
    BY <1>2 DEF WelcomesAreTrue
  <2>2. QED
    BY <1>1, <1>2, <2>1, WelcomeLasts
<1>3. CASE SendWelcome(d)
  <2> DEFINE msg == WelcomeMsg(assigned[d], snapshot[d])
  <2>1. /\ wire[d] \in Seq(Message)
        /\ \/ wire'[d] = Append(wire[d], msg)
           \/ wire'[d] = wire[d]
    BY <1>1, <1>3 DEF SendWelcome, Sent, WireTypeOK
  <2>2. \/ \E j \in 1 .. Len(wire[d]) : wire[d][j] = wire'[d][i]
        \/ wire'[d][i] = msg
    BY <2>1
  <2>3. msg.name = assigned[d] /\ assigned' = assigned
    BY <1>3 DEF WelcomeMsg, SendWelcome
  <2>4. Welcomed(d)'
    BY <1>1, <1>3 DEF SendWelcome, Goto, StationTypeOK, Welcomed, Before
  <2>5. QED
    BY <1>2, <2>2, <2>3, <2>4
<1>4. CASE ~SendWelcome(d)
  BY <1>2, <1>4, OthersCarry DEF Carried
<1>5. QED
  BY <1>3, <1>4

LEMMA NextClients ==
  Sound /\ WelcomesAreTrue /\ ClientsAreWelcome /\ [Next]_vars => ClientsAreWelcome'
<1> SUFFICES ASSUME Sound, WelcomesAreTrue, ClientsAreWelcome, [Next]_vars,
                    NEW d \in Conns, client'[d] = "in"
             PROVE  Welcomed(d)' /\ me'[d] = assigned'[d]
  BY DEF ClientsAreWelcome
<1>1. /\ StationTypeOK /\ HandlerTypeOK
      /\ wire[d] \in Seq(Message)
      /\ client \in [Conns -> {"out", "waiting", "in", "refused", "failed", "gone"}]
      /\ me \in [Conns -> PlayerNames]
  BY DEF Sound, TypeOK, WireTypeOK, ClientTypeOK
<1>2. CASE client[d] = "in" /\ me'[d] = me[d]
  <2>1. Welcomed(d) /\ me[d] = assigned[d]
    BY <1>2 DEF ClientsAreWelcome
  <2>2. QED
    BY <1>1, <1>2, <2>1, WelcomeLasts
<1>3. CASE ReadReply(d)
  <2>1. /\ wire[d] # << >>
        /\ Head(wire[d]).kind = "welcome"
        /\ me'[d] = Head(wire[d]).name
    BY <1>1, <1>3 DEF ReadReply
  <2>2. 1 \in 1 .. Len(wire[d]) /\ Head(wire[d]) = wire[d][1]
    BY <1>1, <2>1
  <2>3. Welcomed(d) /\ me'[d] = assigned[d]
    BY <2>1, <2>2 DEF WelcomesAreTrue
  <2>4. QED
    BY <1>1, <2>3, WelcomeLasts
<1>4. ASSUME ~ReadReply(d) PROVE client[d] = "in" /\ me'[d] = me[d]
  <2>1. ASSUME NEW c \in Conns, Handler(c) PROVE client' = client /\ me' = me
    BY <2>1
    DEF Handler, Greet, Compare, HangUp, Join, SendWelcome, Evict, TellHost,
        StartAnnouncing, AnnounceName, AnnounceRoster, StopAnnouncing,
        StopServing, Leave, clientVars
  <2>2. ASSUME NEW c \in Conns, Player(c)
        PROVE  client[d] = "in" /\ me'[d] = me[d]
    BY <1>1, <1>4, <2>2
    DEF Player, Dial, ReadReply, ReadUpdate, Lose, Disconnected, clientVars
  <2>3. CASE CloseHost \/ UNCHANGED vars
    BY <2>3 DEF CloseHost, vars, clientVars
  <2>4. QED
    BY <2>1, <2>2, <2>3 DEF Next
<1>5. QED
  BY <1>2, <1>3, <1>4

LEMMA NextAttached == Sound /\ Attached /\ [Next]_vars => Attached'
BY NextLive, NextWelcomes, NextClients DEF Sound, TypeOK, Attached

\* Two live clients of one session never know themselves under one name, each
\* knows itself under the name the host relays for it, and none under the
\* host's.
THEOREM ClientsStayTellable == Spec => []ClientsAreTellable
<1>1. Init => Sound /\ Identified /\ Attached
  BY InitSound, InitIdentified, InitAttached
<1>2. /\ Sound /\ Identified /\ Attached /\ [Next]_vars
      => (Sound /\ Identified /\ Attached)'
  BY NextSound, NextIdentified, NextAttached
<1>3. Sound /\ Identified /\ Attached => ClientsAreTellable
  BY AttachedIsTellable DEF Sound
<1>4. QED
  BY <1>1, <1>2, <1>3, PTL DEF Spec

-----------------------------------------------------------------------------
(* Sessions in which players come and go one after the other.

   SerialSessionsAgree speaks of a session at rest.  The invariant says how far
   everyone has been told while one player is still coming or going: what a
   client shows once it has read its wire is the roster, or the roster without
   the player whose arrival the handler has still to announce, or with the one
   whose departure it has.                                                   *)

\* A message with a roster: a Welcome, or the second message of a pair.
Carries(m) == m.kind \in {"welcome", "roster"}

\* Shows(w, where, shown, names): a client that stands at `where`, shows
\* `shown` and has w still to read shows `names` when it has read it.
Shows(w, where, shown, names) ==
  \/ \E i \in 1 .. Len(w) :
       /\ Carries(w[i])
       /\ w[i].names = names
       /\ \A j \in 1 .. Len(w) : j > i => ~Carries(w[j])
  \/ /\ where = "in"
     /\ shown = names
     /\ \A i \in 1 .. Len(w) : ~Carries(w[i])

Showing(d, names) == Shows(wire[d], client[d], view[d], names)

\* The handler of c has still to tell d that its player came ...
OwesJoined(c, d) ==
  \/ pc[c] \in {"welcoming", "evicting", "tellJoined", "awaitJoined"}
  \/ pc[c] = "announceJoined" /\ d \in targets[c]

\* ... or that it went.
OwesLeft(c, d) ==
  \/ pc[c] \in {"tellLeft", "awaitLeft"}
  \/ pc[c] = "announceLeft" /\ d \in targets[c]

\* The connections whose client is in the session, or about to read that it is.
Watching(d) ==
  /\ link[d] = "up"
  /\ pc[d] \in {"tellJoined", "awaitJoined", "announceJoined", "serving"}

Told(d) ==
  /\ (\A c \in Conns \ {d} : ~OwesJoined(c, d) /\ ~OwesLeft(c, d))
       => Showing(d, roster)
  /\ \A c \in Conns \ {d} :
       /\ OwesJoined(c, d) => Showing(d, roster \ {assigned[c]})
       /\ OwesLeft(c, d) => Showing(d, roster \cup {assigned[c]})

ClientsAreTold == \A d \in Conns : Watching(d) => Told(d)

SnapshotsAreFresh ==
  \A c \in Conns :
    pc[c] \in {"welcoming", "tellJoined", "awaitJoined", "announceJoined"} \cup Departed
      => snapshot[c] = roster

\* The stations between a change of the roster and the word to the host.
Untold == {"welcoming", "evicting", "tellJoined", "tellEvicted", "tellLeft"}

HostIsTold ==
  hosting /\ (\A c \in Conns : pc[c] \notin Untold) => hostView = roster

TargetsServe ==
  \A c \in Conns : pc[c] \in Announcing => \A t \in targets[c] : pc[t] = "serving"

\* Opens(w, where): what a client that waits reads first is a reply, and a
\* Welcome is read by nobody else.
Opens(w, where) ==
  /\ where = "waiting" /\ w # << >> => Head(w).kind \in {"welcome", "error"}
  /\ \A i \in 1 .. Len(w) : w[i].kind = "welcome" => i = 1 /\ where = "waiting"

\* Nothing is on the wire towards d before it is answered, and a client that
\* is connected waits or is in.
StartsWell(d) ==
  /\ pc[d] \in {"idle", "greeting", "comparing", "joining", "welcoming"} => wire[d] = << >>
  /\ Opens(wire[d], client[d])
  /\ link[d] = "up" => client[d] \in {"waiting", "in"}
  /\ client[d] # "failed"

WiresStartWell == \A d \in Conns : StartsWell(d)

Serial ==
  /\ ~Overlap
  /\ SnapshotsAreFresh
  /\ HostIsTold
  /\ TargetsServe
  /\ WiresStartWell
  /\ ClientsAreTold

SerialInv == ~raced => Serial

\* What the theorems above say of every session.
Known == Sound /\ Identified /\ LockIsTheAnnouncer /\ Attached

-----------------------------------------------------------------------------
(* What a client shows in the end, as messages are sent and read. *)

\* The first message of a pair changes nothing.
LEMMA NameShows ==
  ASSUME NEW w \in Seq(Message), NEW m \in Message, ~Carries(m),
         NEW where, NEW shown, NEW names, Shows(w, where, shown, names)
  PROVE  Shows(Append(w, m), where, shown, names)
<1> DEFINE x == Append(w, m)
<1>1. /\ Len(x) = Len(w) + 1
      /\ Len(w) \in Nat
      /\ \A i \in 1 .. Len(w) : x[i] = w[i]
      /\ x[Len(x)] = m
  OBVIOUS
<1> HIDE DEF x
<1>2. \A i \in 1 .. Len(x) : i \in 1 .. Len(w) \/ i = Len(x)
  BY <1>1
<1>3. CASE \E i \in 1 .. Len(w) :
             /\ Carries(w[i])
             /\ w[i].names = names
             /\ \A j \in 1 .. Len(w) : j > i => ~Carries(w[j])
  <2>1. PICK i \in 1 .. Len(w) :
          /\ Carries(w[i])
          /\ w[i].names = names
          /\ \A j \in 1 .. Len(w) : j > i => ~Carries(w[j])
    BY <1>3
  <2>2. i \in 1 .. Len(x) /\ Carries(x[i]) /\ x[i].names = names
    BY <1>1, <2>1
  <2>3. \A j \in 1 .. Len(x) : j > i => ~Carries(x[j])
    BY <1>1, <1>2, <2>1
  <2>4. Shows(x, where, shown, names)
    BY <2>2, <2>3 DEF Shows
  <2>5. QED
    BY <2>4 DEF x
<1>4. CASE /\ where = "in"
           /\ shown = names
           /\ \A i \in 1 .. Len(w) : ~Carries(w[i])
  <2>1. \A i \in 1 .. Len(x) : ~Carries(x[i])
    BY <1>1, <1>2, <1>4
  <2>2. Shows(x, where, shown, names)
    BY <1>4, <2>1 DEF Shows
  <2>3. QED
    BY <2>2 DEF x
<1>5. QED
  BY <1>3, <1>4 DEF Shows

\* The second is what the client shows in the end.
LEMMA RosterShows ==
  ASSUME NEW w \in Seq(Message), NEW m, Carries(m), NEW where, NEW shown
  PROVE  Shows(Append(w, m), where, shown, m.names)
<1> DEFINE x == Append(w, m)
<1>1. Len(x) = Len(w) + 1 /\ Len(w) \in Nat /\ x[Len(x)] = m
  OBVIOUS
<1> HIDE DEF x
<1>2. Len(x) \in 1 .. Len(x) /\ \A j \in 1 .. Len(x) : ~(j > Len(x))
  BY <1>1
<1>3. Shows(x, where, shown, m.names)
  BY <1>1, <1>2 DEF Shows
<1>4. QED
  BY <1>3 DEF x

\* Reading a message with a roster, or one without, gets no further than was
\* promised.
LEMMA ReadingShows ==
  ASSUME NEW w \in Seq(Message), w # << >>,
         NEW where, NEW shown, NEW names, Shows(w, where, shown, names),
         NEW now,
         Carries(Head(w)) => now = Head(w).names,
         ~Carries(Head(w)) => where = "in" /\ now = shown
  PROVE  Shows(Tail(w), "in", now, names)
<1> DEFINE x == Tail(w)
<1>1. /\ Len(w) = Len(x) + 1
      /\ Len(x) \in Nat
      /\ \A i \in 1 .. Len(x) : x[i] = w[i + 1]
      /\ Head(w) = w[1]
  OBVIOUS
<1> HIDE DEF x
<1>2. \A i \in 1 .. Len(x) : i + 1 \in 1 .. Len(w)
  BY <1>1
<1>3. ASSUME NEW i \in 1 .. Len(w),
             /\ Carries(w[i])
             /\ w[i].names = names
             /\ \A j \in 1 .. Len(w) : j > i => ~Carries(w[j])
      PROVE  Shows(x, "in", now, names)
  <2>1. CASE i = 1
    <3>1. now = names
      BY <1>1, <1>3, <2>1
    <3>2. \A j \in 1 .. Len(x) : j + 1 > i
      BY <1>1, <2>1
    <3>3. \A j \in 1 .. Len(x) : ~Carries(x[j])
      BY <1>1, <1>2, <1>3, <3>2
    <3>4. QED
      BY <3>1, <3>3 DEF Shows
  <2>2. CASE i # 1
    <3> DEFINE k == i - 1
    <3>1. k \in 1 .. Len(x) /\ k + 1 = i
      BY <1>1, <2>2
    <3>2. \A j \in 1 .. Len(x) : j > k => j + 1 > i
      BY <1>1, <3>1
    <3> HIDE DEF k
    <3>3. Carries(x[k]) /\ x[k].names = names
      BY <1>1, <1>3, <3>1
    <3>4. \A j \in 1 .. Len(x) : j > k => ~Carries(x[j])
      BY <1>1, <1>2, <1>3, <3>2
    <3>5. QED
      BY <3>1, <3>3, <3>4 DEF Shows
  <2>3. QED
    BY <2>1, <2>2
<1>4. CASE /\ where = "in"
           /\ shown = names
           /\ \A i \in 1 .. Len(w) : ~Carries(w[i])
  <2>1. now = names
    BY <1>1, <1>4
  <2>2. \A j \in 1 .. Len(x) : ~Carries(x[j])
    BY <1>1, <1>2, <1>4
  <2>3. Shows(x, "in", now, names)
    BY <2>1, <2>2 DEF Shows
  <2>4. QED
    BY <2>3 DEF x
<1>5. CASE \E i \in 1 .. Len(w) :
             /\ Carries(w[i])
             /\ w[i].names = names
             /\ \A j \in 1 .. Len(w) : j > i => ~Carries(w[j])
  BY <1>3, <1>5 DEF x
<1>6. QED
  BY <1>4, <1>5 DEF Shows

\* A client that waits and has something to show has something to read.
LEMMA WaitingHasReply ==
  ASSUME NEW w \in Seq(Message), NEW shown, NEW names,
         Shows(w, "waiting", shown, names)
  PROVE  w # << >>
BY DEF Shows

-----------------------------------------------------------------------------
(* One player moves at a time. *)

\* Whoever owes word of a player is the one that moves.
LEMMA DebtorsMove ==
  ASSUME NEW c \in Conns, NEW d, OwesJoined(c, d) \/ OwesLeft(c, d)
  PROVE  Moving(c)
BY DEF OwesJoined, OwesLeft, Moving, Departed, Admitted

\* While c moves nobody else does, so nobody else owes anyone word.
LEMMA AloneOwes ==
  ASSUME ~Overlap, NEW c \in Conns, Moving(c), NEW e \in Conns \ {c}
  PROVE  ~Moving(e) /\ \A d : ~OwesJoined(e, d) /\ ~OwesLeft(e, d)
<1>1. ~Moving(e)
  BY DEF Overlap
<1>2. QED
  BY <1>1, DebtorsMove

\* Everyone else in the session serves.
LEMMA OthersServe ==
  ASSUME ~Overlap, NEW c \in Conns, Moving(c), NEW e \in Conns \ {c}, InSession(e)
  PROVE  pc[e] = "serving"
BY AloneOwes DEF Moving, InSession

\* A handler that may take the mutex finds nobody announcing.
LEMMA NobodyAnnounces ==
  ASSUME LockIsTheAnnouncer, LockFree, NEW c \in Conns
  PROVE  pc[c] \notin Announcing
BY SessionAssumption DEF LockIsTheAnnouncer, LockFree

\* A connection that is told of c has something to go by.
LEMMA SomethingToShow ==
  ASSUME NEW d \in Conns, Told(d)
  PROVE  \E names : Showing(d, names)
<1>1. CASE \A c \in Conns \ {d} : ~OwesJoined(c, d) /\ ~OwesLeft(c, d)
  BY <1>1 DEF Told
<1>2. CASE \E c \in Conns \ {d} : OwesJoined(c, d) \/ OwesLeft(c, d)
  BY <1>2 DEF Told
<1>3. QED
  BY <1>1, <1>2

-----------------------------------------------------------------------------
(* The steps, one part of the invariant at a time. *)

LEMMA KnownTypes ==
  ASSUME Known
  PROVE  /\ pc \in [Conns -> Station]
         /\ hello \in [Conns -> Greeting \cup {NoGreeting}]
         /\ assigned \in [Conns -> PlayerNames]
         /\ snapshot \in [Conns -> SUBSET PlayerNames]
         /\ targets \in [Conns -> SUBSET Conns]
         /\ half \in [Conns -> Conns \cup {Nobody}]
         /\ link \in [Conns -> {"none", "up", "down"}]
         /\ wire \in [Conns -> Seq(Message)]
         /\ client \in [Conns -> {"out", "waiting", "in", "refused", "failed", "gone"}]
         /\ me \in [Conns -> PlayerNames]
         /\ view \in [Conns -> SUBSET PlayerNames]
BY DEF Known, Sound, TypeOK, StationTypeOK, HandlerTypeOK, WireTypeOK, ClientTypeOK

\* What a player does leaves the host's side as it is, but for the greeting.
LEMMA PlayersStepAside ==
  ASSUME Known, NEW c \in Conns, Player(c)
  PROVE  /\ UNCHANGED <<hosting, roster, connections, lock, assigned, snapshot,
                        targets, half, hostView>>
         /\ \A d \in Conns : pc'[d] = pc[d] \/ (pc[d] = "idle" /\ pc'[d] = "greeting")
<1>1. pc \in [Conns -> Station]
  BY KnownTypes
<1>2. CASE Dial(c)
  BY <1>1, <1>2 DEF Dial, Goto, serverVars
<1>3. CASE ReadReply(c) \/ ReadUpdate(c) \/ Lose(c) \/ Disconnected(c)
  BY <1>3 DEF ReadReply, ReadUpdate, Lose, Disconnected, serverVars, handlerVars
<1>4. QED
  BY <1>2, <1>3 DEF Player

\* The end of the session touches the links alone.
LEMMA ClosingStepsAside ==
  ASSUME CloseHost \/ UNCHANGED vars
  PROVE  /\ UNCHANGED <<roster, connections, lock, hello, pc, assigned, snapshot,
                        targets, half, hostView, wire, client, me, view>>
         /\ hosting' => hosting
BY DEF CloseHost, vars, serverVars, handlerVars, clientVars

LEMMA NextFresh ==
  ASSUME Known, Serial, [Next]_vars, ~Overlap'
  PROVE  SnapshotsAreFresh'
<1>1. /\ pc \in [Conns -> Station]
      /\ snapshot \in [Conns -> SUBSET PlayerNames]
  BY KnownTypes
<1>2. SnapshotsAreFresh
  BY DEF Serial
<1> USE DEF SnapshotsAreFresh, Goto, Departed
<1>3. ASSUME NEW c \in Conns, Handler(c) PROVE SnapshotsAreFresh'
  <2>1. CASE Join(c) \/ Evict(c) \/ Leave(c)
    <3>1. /\ snapshot' = [snapshot EXCEPT ![c] = roster']
          /\ \E s \in {"welcoming", "tellEvicted", "tellLeft"} : pc' = [pc EXCEPT ![c] = s]
      BY <2>1 DEF Join, Evict, Leave
    <3>2. Moving(c)'
      BY <1>1, <3>1 DEF Moving, Admitted
    <3>3. \A d \in Conns \ {c} : ~Moving(d)'
      BY <3>2 DEF Overlap
    <3>4. QED
      BY <1>1, <3>1, <3>3 DEF Moving, Admitted
  <2>2. CASE Greet(c) \/ Compare(c)
    BY <1>1, <1>2, <2>2 DEF Greet, Compare, Refuse, serverVars
  <2>3. CASE HangUp(c) \/ StopServing(c)
    BY <1>1, <1>2, <2>3 DEF HangUp, StopServing, serverVars
  <2>4. CASE SendWelcome(c)
    BY <1>1, <1>2, <2>4 DEF SendWelcome, serverVars
  <2>5. CASE TellHost(c)
    BY <1>1, <1>2, <2>5 DEF TellHost, serverVars
  <2>6. CASE StartAnnouncing(c)
    BY <1>1, <1>2, <2>6 DEF StartAnnouncing
  <2>7. CASE AnnounceName(c) \/ AnnounceRoster(c)
    BY <1>2, <2>7 DEF AnnounceName, AnnounceRoster, serverVars
  <2>8. CASE StopAnnouncing(c)
    BY <1>1, <1>2, <2>8 DEF StopAnnouncing
  <2>9. QED
    BY <1>3, <2>1, <2>2, <2>3, <2>4, <2>5, <2>6, <2>7, <2>8 DEF Handler
<1>4. ASSUME NEW c \in Conns, Player(c) PROVE SnapshotsAreFresh'
  BY <1>2, <1>4, PlayersStepAside
<1>5. CASE CloseHost \/ UNCHANGED vars
  BY <1>2, <1>5, ClosingStepsAside
<1>6. QED
  BY <1>3, <1>4, <1>5 DEF Next

LEMMA NextHostIsTold ==
  ASSUME Known, Serial, [Next]_vars, ~Overlap'
  PROVE  HostIsTold'
<1>1. /\ pc \in [Conns -> Station]
      /\ HostIsTold
      /\ SnapshotsAreFresh
  BY KnownTypes DEF Serial
<1> USE DEF HostIsTold, Untold, Goto
<1>2. ASSUME NEW c \in Conns, Handler(c) PROVE HostIsTold'
  <2>1. CASE Join(c) \/ Evict(c) \/ Leave(c) \/ SendWelcome(c)
    <3>1. pc'[c] \in Untold
      BY <1>1, <2>1 DEF Join, Evict, Leave, SendWelcome
    <3>2. QED
      BY <3>1
  <2>2. CASE Greet(c) \/ Compare(c)
    BY <1>1, <2>2 DEF Greet, Compare, Refuse, serverVars
  <2>3. CASE HangUp(c) \/ StopServing(c)
    BY <1>1, <2>3 DEF HangUp, StopServing, serverVars
  <2>4. CASE TellHost(c)
    <3>1. snapshot[c] = roster
      BY <1>1, <2>4 DEF TellHost, SnapshotsAreFresh, Departed
    <3>2. QED
      BY <2>4, <3>1 DEF TellHost, serverVars
  <2>5. CASE StartAnnouncing(c)
    BY <1>1, <2>5 DEF StartAnnouncing
  <2>6. CASE AnnounceName(c) \/ AnnounceRoster(c)
    BY <1>1, <2>6 DEF AnnounceName, AnnounceRoster, serverVars
  <2>7. CASE StopAnnouncing(c)
    BY <1>1, <2>7 DEF StopAnnouncing, Announcing
  <2>8. QED
    BY <1>2, <2>1, <2>2, <2>3, <2>4, <2>5, <2>6, <2>7 DEF Handler
<1>3. ASSUME NEW c \in Conns, Player(c) PROVE HostIsTold'
  BY <1>1, <1>3, PlayersStepAside
<1>4. CASE CloseHost \/ UNCHANGED vars
  BY <1>1, <1>4, ClosingStepsAside
<1>5. QED
  BY <1>2, <1>3, <1>4 DEF Next

\* Whom the announce loops visit: those in the session.
LEMMA TargetsAreListed ==
  ASSUME Known, NEW c \in Conns,
         NEW t \in Targets(assigned[c]) \cup Everyone
  PROVE  /\ t \in Conns
         /\ InSession(t)
         /\ t \in Targets(assigned[c]) => t # c
<1>1. PICK e \in connections : e.conn = t
  BY DEF Targets, Everyone
<1>2. PICK d \in Conns : InSession(d) /\ e = [name |-> assigned[d], conn |-> d]
  BY <1>1, TableEntries DEF Known, Identified
<1>3. d = t
  BY <1>1, <1>2
<1>4. ASSUME t \in Targets(assigned[c]) PROVE t # c
  <2>1. PICK f \in connections : f.name # assigned[c] /\ f.conn = t
    BY <1>4 DEF Targets
  <2>2. PICK h \in Conns : InSession(h) /\ f = [name |-> assigned[h], conn |-> h]
    BY <2>1, TableEntries DEF Known, Identified
  <2>3. QED
    BY <2>1, <2>2
<1>5. QED
  BY <1>2, <1>3, <1>4

\* Everyone else who is in the session is among them.
LEMMA ListedAreTargets ==
  ASSUME Known, NEW c \in Conns, NEW d \in Conns, InSession(d)
  PROVE  /\ d \in Everyone
         /\ c # d /\ InSession(c) => d \in Targets(assigned[c])
<1> DEFINE e == [name |-> assigned[d], conn |-> d]
<1>1. e \in connections
  BY TableEntries DEF Known, Identified
<1>2. ASSUME c # d, InSession(c) PROVE e.name # assigned[c]
  <2> DEFINE f == [name |-> assigned[c], conn |-> c]
  <2>1. f \in connections /\ f # e
    BY <1>2, TableEntries DEF Known, Identified
  <2>2. f.name # e.name
    BY <1>1, <2>1 DEF Known, Identified, NamesAreUnique
  <2>3. QED
    BY <2>2
<1>3. e.conn = d
  OBVIOUS
<1> HIDE DEF e
<1>4. QED
  BY <1>1, <1>2, <1>3 DEF Targets, Everyone

LEMMA NextTargetsServe ==
  ASSUME Known, Serial, [Next]_vars, ~Overlap'
  PROVE  TargetsServe'
<1>1. /\ pc \in [Conns -> Station]
      /\ targets \in [Conns -> SUBSET Conns]
      /\ TargetsServe
      /\ ~Overlap
  BY KnownTypes DEF Serial
<1> USE DEF TargetsServe, Announcing, Goto
<1>2. ASSUME NEW c \in Conns, Handler(c) PROVE TargetsServe'
  <2>1. CASE StopServing(c)
    <3>1. pc' = [pc EXCEPT ![c] = "leaving"] /\ targets' = targets
      BY <2>1 DEF StopServing
    <3>2. Moving(c)'
      BY <1>1, <3>1 DEF Moving, Admitted
    <3>3. \A d \in Conns \ {c} : ~Moving(d)'
      BY <3>2 DEF Overlap
    <3>4. \A d \in Conns : pc'[d] \notin Announcing
      BY <1>1, <3>1, <3>3 DEF Moving, Admitted, Departed
    <3>5. QED
      BY <3>4
  <2>2. CASE StartAnnouncing(c)
    <3>1. Moving(c) /\ \A d \in Conns : pc[d] \notin Announcing
      BY <2>2, NobodyAnnounces DEF StartAnnouncing, Moving, Admitted, Departed, Known
    <3>2. ASSUME NEW t \in targets'[c] PROVE t \in Conns /\ t # c /\ pc[t] = "serving"
      <4>1. /\ t \in Targets(assigned[c]) \cup Everyone
            /\ \/ t \in Targets(assigned[c])
               \/ pc[c] = "awaitLeft"
        BY <1>1, <2>2, <3>2 DEF StartAnnouncing
      <4>2. t \in Conns /\ InSession(t)
        BY <4>1, TargetsAreListed
      <4>3. t # c
        BY <4>1, <4>2, TargetsAreListed DEF InSession, Admitted
      <4>4. QED
        BY <1>1, <3>1, <4>2, <4>3, OthersServe
    <3>3. \A d \in Conns : d # c => pc'[d] = pc[d]
      BY <1>1, <2>2 DEF StartAnnouncing
    <3>4. QED
      BY <3>1, <3>2, <3>3
  <2>3. CASE Greet(c) \/ Compare(c)
    BY <1>1, <2>3 DEF Greet, Compare, Refuse
  <2>4. CASE HangUp(c) \/ Join(c) \/ SendWelcome(c) \/ Evict(c) \/ Leave(c)
    BY <1>1, <2>4 DEF HangUp, Join, SendWelcome, Evict, Leave
  <2>5. CASE TellHost(c)
    BY <1>1, <2>5 DEF TellHost
  <2>6. CASE AnnounceName(c)
    BY <1>1, <2>6 DEF AnnounceName
  <2>7. CASE AnnounceRoster(c)
    <3>1. pc' = pc /\ \A d \in Conns : targets'[d] \subseteq targets[d]
      BY <1>1, <2>7 DEF AnnounceRoster
    <3>2. QED
      BY <1>1, <3>1
  <2>8. CASE StopAnnouncing(c)
    BY <1>1, <2>8 DEF StopAnnouncing
  <2>9. QED
    BY <1>2, <2>1, <2>2, <2>3, <2>4, <2>5, <2>6, <2>7, <2>8 DEF Handler
<1>3. ASSUME NEW c \in Conns, Player(c) PROVE TargetsServe'
  BY <1>1, <1>3, PlayersStepAside
<1>4. CASE CloseHost \/ UNCHANGED vars
  BY <1>1, <1>4, ClosingStepsAside
<1>5. QED
  BY <1>2, <1>3, <1>4 DEF Next

-----------------------------------------------------------------------------
(* The replies. *)

LEMMA NothingOpens == \A where : Opens(<< >>, where)
BY DEF Opens

LEMMA AppendOpens ==
  ASSUME NEW w \in Seq(Message), NEW m \in Message, NEW where, Opens(w, where),
         m.kind # "welcome",
         where = "waiting" /\ w = << >> => m.kind = "error"
  PROVE  Opens(Append(w, m), where)
<1> DEFINE x == Append(w, m)
<1>1. /\ Len(x) = Len(w) + 1
      /\ Len(w) \in Nat
      /\ \A i \in 1 .. Len(w) : x[i] = w[i]
      /\ x[Len(x)] = m
      /\ Head(x) = IF w = << >> THEN m ELSE Head(w)
  OBVIOUS
<1> HIDE DEF x
<1>2. \A i \in 1 .. Len(x) : i \in 1 .. Len(w) \/ i = Len(x)
  BY <1>1
<1>3. \A i \in 1 .. Len(x) : x[i].kind = "welcome" => i = 1 /\ where = "waiting"
  BY <1>1, <1>2 DEF Opens
<1>4. where = "waiting" => Head(x).kind \in {"welcome", "error"}
  BY <1>1 DEF Opens
<1>5. Opens(x, where)
  BY <1>3, <1>4 DEF Opens
<1>6. QED
  BY <1>5 DEF x

LEMMA WelcomeOpens ==
  ASSUME NEW m \in Message, m.kind = "welcome"
  PROVE  Opens(Append(<< >>, m), "waiting")
<1>1. Append(<< >>, m) = <<m>>
  OBVIOUS
<1>2. Opens(<<m>>, "waiting")
  BY DEF Opens
<1>3. QED
  BY <1>1, <1>2

LEMMA TailOpens ==
  ASSUME NEW w \in Seq(Message), w # << >>, NEW where, Opens(w, where)
  PROVE  Opens(Tail(w), "in")
<1> DEFINE x == Tail(w)
<1>1. /\ Len(w) = Len(x) + 1
      /\ Len(x) \in Nat
      /\ \A i \in 1 .. Len(x) : x[i] = w[i + 1]
  OBVIOUS
<1> HIDE DEF x
<1>2. \A i \in 1 .. Len(x) : i + 1 \in 1 .. Len(w) /\ i + 1 # 1
  BY <1>1
<1>3. \A i \in 1 .. Len(x) : x[i].kind # "welcome"
  BY <1>1, <1>2 DEF Opens
<1>4. Opens(x, "in")
  BY <1>3 DEF Opens
<1>5. QED
  BY <1>4 DEF x

\* A client that is told of somebody is in, or has its reply before it.
LEMMA TargetsHaveReply ==
  ASSUME Known, Serial, NEW c \in Conns, pc[c] \in Announcing,
         NEW t \in targets[c], link[t] = "up", client[t] = "waiting"
  PROVE  wire[t] # << >>
<1>1. t \in Conns /\ wire[t] \in Seq(Message) /\ pc[t] = "serving"
  BY KnownTypes DEF Serial, TargetsServe
<1>2. Told(t)
  BY <1>1 DEF Serial, ClientsAreTold, Watching
<1>3. PICK names : Showing(t, names)
  BY <1>1, <1>2, SomethingToShow
<1>4. QED
  BY <1>1, <1>3, WaitingHasReply DEF Showing

\* The messages of an announcement.
LEMMA NewsIsTyped ==
  ASSUME Known, NEW c \in Conns
  PROVE  /\ JoinedMsg(assigned[c]) \in Message /\ JoinedMsg(assigned[c]).kind = "joined"
         /\ LeftMsg(assigned[c]) \in Message /\ LeftMsg(assigned[c]).kind = "left"
         /\ RosterMsg(snapshot[c]) \in Message /\ RosterMsg(snapshot[c]).kind = "roster"
         /\ RosterMsg(snapshot[c]).names = snapshot[c]
<1>1. assigned[c] \in PlayerNames /\ snapshot[c] \in SUBSET PlayerNames
  BY KnownTypes
<1>2. QED
  BY <1>1, MessagesAreTyped DEF JoinedMsg, LeftMsg, RosterMsg

LEMMA WelcomeIsTyped ==
  ASSUME Known, NEW c \in Conns
  PROVE  /\ WelcomeMsg(assigned[c], snapshot[c]) \in Message
         /\ WelcomeMsg(assigned[c], snapshot[c]).kind = "welcome"
         /\ WelcomeMsg(assigned[c], snapshot[c]).names = snapshot[c]
<1>1. assigned[c] \in PlayerNames /\ snapshot[c] \in SUBSET PlayerNames
  BY KnownTypes
<1>2. QED
  BY <1>1, MessagesAreTyped DEF WelcomeMsg

\* What an announcement puts on the wires.
LEMMA AnnouncedWires ==
  ASSUME Known, NEW c \in Conns, AnnounceName(c) \/ AnnounceRoster(c)
  PROVE  \E t \in targets[c], m \in Message :
           /\ m.kind \in {"joined", "left", "roster"}
           /\ AnnounceName(c) => ~Carries(m)
           /\ AnnounceRoster(c) => Carries(m) /\ m.names = snapshot[c] /\ t = half[c]
           /\ wire' = Sent(t, m)
           /\ pc[c] \in Announcing
           /\ UNCHANGED <<roster, pc, assigned, snapshot, link, client, view>>
<1>1. CASE AnnounceName(c)
  <2>1. PICK t \in targets[c] :
          /\ wire' = Sent(t, IF pc[c] = "announceJoined"
                             THEN JoinedMsg(assigned[c]) ELSE LeftMsg(assigned[c]))
          /\ half' = [half EXCEPT ![c] = t]
    BY <1>1 DEF AnnounceName
  <2> DEFINE m == IF pc[c] = "announceJoined"
                  THEN JoinedMsg(assigned[c]) ELSE LeftMsg(assigned[c])
  <2>2. m \in Message /\ m.kind \in {"joined", "left"}
    BY NewsIsTyped
  <2>3. half[c] = Nobody /\ half'[c] = t /\ t # Nobody
    BY <1>1, <2>1, KnownTypes, SessionAssumption DEF AnnounceName
  <2>4. ~AnnounceRoster(c)
    BY <2>3 DEF AnnounceRoster
  <2>5. /\ pc[c] \in Announcing
        /\ UNCHANGED <<roster, pc, assigned, snapshot, link, client, view>>
    BY <1>1 DEF AnnounceName, serverVars, clientVars
  <2> HIDE DEF m
  <2>6. ~Carries(m)
    BY <2>2 DEF Carries
  <2>7. wire' = Sent(t, m)
    BY <2>1 DEF m
  <2>8. QED
    BY <2>2, <2>4, <2>5, <2>6, <2>7
<1>2. CASE AnnounceRoster(c)
  <2>1. /\ half[c] # Nobody
        /\ wire' = Sent(half[c], RosterMsg(snapshot[c]))
        /\ pc[c] \in Announcing
        /\ UNCHANGED <<roster, pc, assigned, snapshot, link, client, view>>
    BY <1>2 DEF AnnounceRoster, serverVars, clientVars
  <2>2. half[c] \in targets[c]
    BY <2>1 DEF Known, LockIsTheAnnouncer
  <2>3. ~AnnounceName(c)
    BY <2>1 DEF AnnounceName
  <2>4. /\ RosterMsg(snapshot[c]) \in Message
        /\ RosterMsg(snapshot[c]).kind = "roster"
        /\ RosterMsg(snapshot[c]).names = snapshot[c]
    BY NewsIsTyped
  <2>5. QED
    BY <2>1, <2>2, <2>3, <2>4 DEF Carries
<1>3. QED
  BY <1>1, <1>2

LEMMA NextWiresStartWell ==
  ASSUME Known, Serial, [Next]_vars, ~Overlap'
  PROVE  WiresStartWell'
<1> SUFFICES ASSUME NEW d \in Conns PROVE StartsWell(d)'
  BY DEF WiresStartWell
<1> USE DEF Goto
<1>1. /\ pc \in [Conns -> Station]
      /\ link \in [Conns -> {"none", "up", "down"}]
      /\ wire \in [Conns -> Seq(Message)]
      /\ client \in [Conns -> {"out", "waiting", "in", "refused", "failed", "gone"}]
      /\ wire[d] \in Seq(Message)
  BY KnownTypes
<1>2. StartsWell(d)
  BY DEF Serial, WiresStartWell
<1>3. ASSUME NEW c \in Conns, Handler(c) PROVE StartsWell(d)'
  <2>1. CASE Greet(c) \/ Compare(c)
    <3>1. /\ UNCHANGED <<link, client>>
          /\ \/ wire' = Sent(c, ErrorMsg) /\ pc' = [pc EXCEPT ![c] = "refusing"]
             \/ /\ wire' = wire
                /\ pc[c] \in {"greeting", "comparing"}
                /\ \E s \in {"comparing", "joining", "done"} : pc' = [pc EXCEPT ![c] = s]
      BY <2>1 DEF Greet, Compare, Refuse, clientVars
    <3>2. CASE wire' = wire
      BY <1>1, <1>2, <3>1, <3>2 DEF StartsWell
    <3>3. CASE wire' = Sent(c, ErrorMsg) /\ pc' = [pc EXCEPT ![c] = "refusing"]
      <4>1. ErrorMsg \in Message /\ ErrorMsg.kind = "error"
        BY ErrorIsTyped DEF ErrorMsg
      <4>2. Opens(Append(wire[d], ErrorMsg), client[d])
        BY <1>1, <1>2, <4>1, AppendOpens DEF StartsWell
      <4>3. \/ wire'[d] = wire[d]
            \/ wire'[d] = Append(wire[d], ErrorMsg) /\ d = c
        BY <1>1, <3>3 DEF Sent
      <4>4. QED
        BY <1>1, <1>2, <3>1, <3>3, <4>2, <4>3 DEF StartsWell
    <3>4. QED
      BY <3>1, <3>2, <3>3
  <2>2. CASE SendWelcome(c)
    <3> DEFINE m == WelcomeMsg(assigned[c], snapshot[c])
    <3>1. /\ pc[c] = "welcoming"
          /\ wire' = Sent(c, m)
          /\ \E s \in {"tellJoined", "evicting"} : pc' = [pc EXCEPT ![c] = s]
          /\ UNCHANGED <<link, client>>
      BY <2>2 DEF SendWelcome, clientVars
    <3>2. m \in Message /\ m.kind = "welcome"
      BY WelcomeIsTyped
    <3> HIDE DEF m
    <3>3. CASE wire'[d] = wire[d]
      BY <1>1, <1>2, <3>1, <3>3 DEF StartsWell
    <3>4. CASE wire'[d] # wire[d]
      <4>1. d = c /\ link[d] = "up" /\ wire'[d] = Append(wire[d], m)
        BY <1>1, <3>1, <3>4 DEF Sent
      <4>2. client[d] # "in"
        BY <3>1, <4>1 DEF Known, Attached, ClientsAreWelcome, Welcomed
      <4>3. wire[d] = << >> /\ client[d] = "waiting"
        BY <1>2, <3>1, <4>1, <4>2 DEF StartsWell
      <4>4. Opens(wire'[d], client'[d])
        BY <3>1, <3>2, <4>1, <4>3, WelcomeOpens
      <4>5. QED
        BY <1>1, <1>2, <3>1, <4>1, <4>4 DEF StartsWell
    <3>5. QED
      BY <3>3, <3>4
  <2>3. CASE AnnounceName(c) \/ AnnounceRoster(c)
    <3>1. PICK t \in targets[c], m \in Message :
            /\ m.kind \in {"joined", "left", "roster"}
            /\ wire' = Sent(t, m)
            /\ pc[c] \in Announcing
            /\ UNCHANGED <<pc, link, client>>
      BY <2>3, AnnouncedWires
    <3>2. CASE wire'[d] = wire[d]
      BY <1>2, <3>1, <3>2 DEF StartsWell
    <3>3. CASE wire'[d] # wire[d]
      <4>1. d = t /\ link[d] = "up" /\ wire'[d] = Append(wire[d], m)
        BY <1>1, <3>1, <3>3 DEF Sent
      <4>2. client[d] = "waiting" => wire[d] # << >>
        BY <3>1, <4>1, TargetsHaveReply
      <4>3. m.kind # "welcome"
        BY <3>1
      <4>4. Opens(wire'[d], client[d])
        BY <1>1, <1>2, <4>1, <4>2, <4>3, AppendOpens DEF StartsWell
      <4>5. pc[d] = "serving"
        BY <3>1, <4>1 DEF Serial, TargetsServe
      <4>6. QED
        BY <1>2, <3>1, <4>4, <4>5 DEF StartsWell
    <3>4. QED
      BY <3>2, <3>3
  <2>4. CASE HangUp(c)
    BY <1>1, <1>2, <2>4 DEF HangUp, StartsWell, clientVars
  <2>5. CASE Join(c) \/ Evict(c) \/ Leave(c)
    BY <1>1, <1>2, <2>5 DEF Join, Evict, Leave, StartsWell, clientVars
  <2>6. CASE TellHost(c) \/ StartAnnouncing(c)
    BY <1>1, <1>2, <2>6 DEF TellHost, StartAnnouncing, StartsWell, clientVars
  <2>7. CASE StopAnnouncing(c) \/ StopServing(c)
    BY <1>1, <1>2, <2>7 DEF StopAnnouncing, StopServing, StartsWell, clientVars
  <2>8. QED
    BY <1>3, <2>1, <2>2, <2>3, <2>4, <2>5, <2>6, <2>7 DEF Handler
<1>4. ASSUME NEW c \in Conns, Player(c) PROVE StartsWell(d)'
  <2>1. CASE Dial(c)
    <3>1. /\ pc[c] = "idle"
          /\ pc' = [pc EXCEPT ![c] = "greeting"]
          /\ client' = [client EXCEPT ![c] = "waiting"]
          /\ link' = [link EXCEPT ![c] = "up"]
          /\ wire' = wire
      BY <2>1 DEF Dial
    <3>2. c = d => wire'[d] = << >>
      BY <1>2, <3>1 DEF StartsWell
    <3>3. QED
      BY <1>1, <1>2, <3>1, <3>2, NothingOpens DEF StartsWell
  <2>2. CASE ReadReply(c)
    <3>1. /\ client[c] = "waiting" /\ wire[c] # << >>
          /\ \A e \in Conns \ {c} : wire'[e] = wire[e] /\ client'[e] = client[e] /\ link'[e] = link[e]
          /\ pc' = pc
      BY <1>1, <2>2 DEF ReadReply, handlerVars
    <3>2. CASE d = c
      <4>1. Head(wire[c]).kind \in {"welcome", "error"}
        BY <1>2, <3>1, <3>2 DEF StartsWell, Opens
      <4>2. CASE Head(wire[c]).kind = "welcome"
        <5>1. wire'[c] = Tail(wire[c]) /\ client'[c] = "in" /\ link' = link
          BY <1>1, <2>2, <4>2 DEF ReadReply
        <5>2. Opens(wire'[d], client'[d])
          BY <1>1, <1>2, <3>1, <3>2, <5>1, TailOpens DEF StartsWell
        <5>3. QED
          BY <1>2, <3>1, <3>2, <5>1, <5>2 DEF StartsWell
      <4>3. CASE Head(wire[c]).kind = "error"
        <5>1. wire'[c] = << >> /\ client'[c] = "refused" /\ link'[c] = "down"
          BY <1>1, <2>2, <4>3 DEF ReadReply
        <5>2. QED
          BY <3>1, <3>2, <5>1, NothingOpens DEF StartsWell
      <4>4. QED
        BY <4>1, <4>2, <4>3
    <3>3. CASE d # c
      BY <1>2, <3>1, <3>3 DEF StartsWell
    <3>4. QED
      BY <3>2, <3>3
  <2>3. CASE ReadUpdate(c)
    <3>1. /\ client[c] = "in" /\ wire[c] # << >>
          /\ wire' = [wire EXCEPT ![c] = Tail(@)]
          /\ UNCHANGED <<pc, link, client>>
      BY <2>3 DEF ReadUpdate, handlerVars
    <3>2. CASE d = c
      <4>1. wire'[d] = Tail(wire[d])
        BY <1>1, <3>1, <3>2
      <4>2. Opens(wire'[d], "in")
        BY <1>1, <1>2, <3>1, <3>2, <4>1, TailOpens DEF StartsWell
      <4>3. QED
        BY <1>2, <3>1, <3>2, <4>2 DEF StartsWell
    <3>3. CASE d # c
      BY <1>1, <1>2, <3>1, <3>3 DEF StartsWell
    <3>4. QED
      BY <3>2, <3>3
  <2>4. CASE Lose(c)
    BY <1>1, <1>2, <2>4 DEF Lose, StartsWell, handlerVars, clientVars
  <2>5. CASE Disconnected(c)
    <3>1. /\ link[c] = "down"
          /\ client' = [client EXCEPT ![c] = "gone"]
          /\ wire' = [wire EXCEPT ![c] = << >>]
          /\ UNCHANGED <<pc, link>>
      BY <2>5 DEF Disconnected, handlerVars
    <3>2. QED
      BY <1>1, <1>2, <3>1, NothingOpens DEF StartsWell
  <2>6. QED
    BY <1>4, <2>1, <2>2, <2>3, <2>4, <2>5 DEF Player
<1>5. CASE CloseHost \/ UNCHANGED vars
  <2>1. link' = link \/ \A e \in Conns : link'[e] = "up" => link[e] = "up"
    BY <1>1, <1>5 DEF CloseHost, vars
  <2>2. QED
    BY <1>2, <1>5, <2>1, ClosingStepsAside DEF StartsWell
<1>6. QED
  BY <1>3, <1>4, <1>5 DEF Next

-----------------------------------------------------------------------------
(* What the clients are told. *)

\* A step that owes d nothing new, pays nothing it owed, leaves the roster and
\* lets d's client show in the end what it was to show.
LEMMA NothingNew ==
  ASSUME NEW d \in Conns,
         Watching(d) => Told(d),
         Watching(d)' => Watching(d),
         UNCHANGED <<roster, assigned>>,
         Watching(d)' => \A c \in Conns \ {d} :
           /\ OwesJoined(c, d)' <=> OwesJoined(c, d)
           /\ OwesLeft(c, d)' <=> OwesLeft(c, d),
         Watching(d)' => \A names : Showing(d, names) => Showing(d, names)'
  PROVE  Watching(d)' => Told(d)'
<1> SUFFICES ASSUME Watching(d)' PROVE Told(d)'
  OBVIOUS
<1>1. Told(d)
  OBVIOUS
<1>2. CASE \A c \in Conns \ {d} : ~OwesJoined(c, d) /\ ~OwesLeft(c, d)
  BY <1>1, <1>2 DEF Told
<1>3. CASE ~ \A c \in Conns \ {d} : ~OwesJoined(c, d) /\ ~OwesLeft(c, d)
  BY <1>1, <1>3 DEF Told
<1>4. QED
  BY <1>2, <1>3

\* Nothing is on its way to d and nothing is read there.
LEMMA StillShowing ==
  ASSUME NEW d, wire'[d] = wire[d], client'[d] = client[d], view'[d] = view[d]
  PROVE  \A names : Showing(d, names) => Showing(d, names)'
BY DEF Showing

\* The steps of the handler of c that change neither the roster nor a wire.
Silent(c) ==
  \/ HangUp(c)
  \/ TellHost(c)
  \/ StartAnnouncing(c)
  \/ StopAnnouncing(c)
  \/ StopServing(c)

LEMMA SilentOwes ==
  ASSUME Known, Serial, NEW c \in Conns, Silent(c), NEW d \in Conns
  PROVE  /\ UNCHANGED <<roster, assigned, wire, client, view>>
         /\ Watching(d)' => Watching(d)
         /\ Watching(d)' => \A e \in Conns \ {d} :
              /\ OwesJoined(e, d)' <=> OwesJoined(e, d)
              /\ OwesLeft(e, d)' <=> OwesLeft(e, d)
<1> USE DEF Goto, serverVars, clientVars, Watching, OwesJoined, OwesLeft
<1>1. /\ pc \in [Conns -> Station]
      /\ targets \in [Conns -> SUBSET Conns]
      /\ link \in [Conns -> {"none", "up", "down"}]
  BY KnownTypes
<1>2. CASE HangUp(c)
  BY <1>1, <1>2 DEF HangUp
<1>3. CASE TellHost(c)
  BY <1>1, <1>3 DEF TellHost
<1>4. CASE StartAnnouncing(c)
  <2>1. /\ UNCHANGED <<roster, assigned, wire, link, client, view>>
        /\ \/ /\ pc[c] = "awaitJoined"
              /\ pc' = [pc EXCEPT ![c] = "announceJoined"]
              /\ targets' = [targets EXCEPT ![c] = Targets(assigned[c])]
           \/ /\ pc[c] = "awaitLeft"
              /\ pc' = [pc EXCEPT ![c] = "announceLeft"]
              /\ targets' = [targets EXCEPT ![c] = Everyone]
    BY <1>4 DEF StartAnnouncing
  <2>2. ASSUME Watching(d)' PROVE Watching(d)
    BY <1>1, <2>1, <2>2
  <2>3. ASSUME Watching(d)', d # c
        PROVE  \A e \in Conns \ {d} :
                 /\ OwesJoined(e, d)' <=> OwesJoined(e, d)
                 /\ OwesLeft(e, d)' <=> OwesLeft(e, d)
    <3>1. InSession(d)
      BY <2>2, <2>3 DEF InSession, Admitted
    <3>2. d \in Everyone
      BY <3>1, ListedAreTargets
    <3>3. pc[c] = "awaitJoined" => d \in Targets(assigned[c])
      BY <2>3, <3>1, ListedAreTargets DEF InSession, Admitted
    <3>4. ASSUME NEW e \in Conns \ {c}
          PROVE  pc'[e] = pc[e] /\ targets'[e] = targets[e]
      BY <1>1, <2>1
    <3>5. pc[c] = "awaitJoined" => pc'[c] = "announceJoined" /\ d \in targets'[c]
      BY <1>1, <2>1, <3>3
    <3>6. pc[c] = "awaitLeft" => pc'[c] = "announceLeft" /\ d \in targets'[c]
      BY <1>1, <2>1, <3>2
    <3>7. pc[c] = "awaitJoined" \/ pc[c] = "awaitLeft"
      BY <2>1
    <3>8. QED
      BY <3>4, <3>5, <3>6, <3>7
  <2>4. ASSUME d = c, NEW e \in Conns \ {d}
        PROVE  /\ OwesJoined(e, d)' <=> OwesJoined(e, d)
               /\ OwesLeft(e, d)' <=> OwesLeft(e, d)
    BY <1>1, <2>1, <2>4
  <2>5. QED
    BY <2>1, <2>2, <2>3, <2>4
<1>5. CASE StopAnnouncing(c)
  BY <1>1, <1>5 DEF StopAnnouncing, Announcing
<1>6. CASE StopServing(c)
  BY <1>1, <1>6 DEF StopServing
<1>7. QED
  BY <1>2, <1>3, <1>4, <1>5, <1>6 DEF Silent

\* A step of a player owes nobody anything, and what is read was to be shown.
LEMMA PlayersShow ==
  ASSUME Known, Serial, NEW c \in Conns, Player(c), NEW d \in Conns
  PROVE  /\ Watching(d)' => Watching(d)
         /\ \A e \in Conns :
              /\ OwesJoined(e, d)' <=> OwesJoined(e, d)
              /\ OwesLeft(e, d)' <=> OwesLeft(e, d)
         /\ Watching(d)' => \A names : Showing(d, names) => Showing(d, names)'
<1>1. /\ pc \in [Conns -> Station]
      /\ link \in [Conns -> {"none", "up", "down"}]
      /\ wire \in [Conns -> Seq(Message)]
      /\ client \in [Conns -> {"out", "waiting", "in", "refused", "failed", "gone"}]
      /\ view \in [Conns -> SUBSET PlayerNames]
      /\ wire[d] \in Seq(Message)
  BY KnownTypes
<1>2. /\ targets' = targets
      /\ \A e \in Conns : pc'[e] = pc[e] \/ (pc[e] = "idle" /\ pc'[e] = "greeting")
  BY PlayersStepAside
<1>3. \A e \in Conns : /\ OwesJoined(e, d)' <=> OwesJoined(e, d)
                       /\ OwesLeft(e, d)' <=> OwesLeft(e, d)
  BY <1>2 DEF OwesJoined, OwesLeft
<1>4. Watching(d)' => link'[d] = "up" /\ pc'[d] = pc[d] /\ pc[d] # "idle"
  BY <1>2 DEF Watching
<1>5. ASSUME Watching(d)' PROVE link[d] = "up"
  <2>1. CASE Dial(c)
    BY <1>1, <1>4, <1>5, <2>1 DEF Dial, Goto
  <2>2. CASE ReadReply(c) \/ ReadUpdate(c) \/ Lose(c) \/ Disconnected(c)
    BY <1>1, <1>4, <1>5, <2>2 DEF ReadReply, ReadUpdate, Lose, Disconnected
  <2>3. QED
    BY <2>1, <2>2 DEF Player
<1>6. Watching(d)' => Watching(d)
  BY <1>4, <1>5 DEF Watching
<1>7. ASSUME Watching(d)', NEW names, Showing(d, names) PROVE Showing(d, names)'
  <2>1. link'[d] = "up" /\ link[d] = "up"
    BY <1>4, <1>5, <1>7
  <2>2. CASE d # c \/ Lose(c)
    <3>1. wire'[d] = wire[d] /\ client'[d] = client[d] /\ view'[d] = view[d]
      BY <1>1, <2>2
      DEF Player, Dial, ReadReply, ReadUpdate, Lose, Disconnected, clientVars
    <3>2. QED
      BY <1>7, <3>1, StillShowing
  <2>3. CASE d = c /\ (Dial(c) \/ Disconnected(c))
    <3>1. ~Disconnected(c)
      BY <2>1, <2>3 DEF Disconnected
    <3>2. ~Dial(c)
      BY <1>4, <1>7, <2>3 DEF Dial
    <3>3. QED
      BY <2>3, <3>1, <3>2
  <2>4. CASE d = c /\ ReadReply(c)
    <3>1. client[d] = "waiting" /\ wire[d] # << >>
      BY <2>4 DEF ReadReply
    <3>2. Head(wire[d]).kind = "welcome"
      BY <1>1, <2>1, <2>4 DEF ReadReply
    <3>3. /\ wire'[d] = Tail(wire[d])
          /\ client'[d] = "in"
          /\ view'[d] = Head(wire[d]).names
      BY <1>1, <2>4, <3>2 DEF ReadReply
    <3>4. Carries(Head(wire[d]))
      BY <3>2 DEF Carries
    <3>5. Shows(Tail(wire[d]), "in", Head(wire[d]).names, names)
      BY <1>1, <1>7, <3>1, <3>4, ReadingShows DEF Showing
    <3>6. QED
      BY <3>3, <3>5 DEF Showing
  <2>5. CASE d = c /\ ReadUpdate(c)
    <3>1. /\ client[d] = "in" /\ wire[d] # << >>
          /\ wire'[d] = Tail(wire[d])
          /\ client'[d] = "in"
          /\ view'[d] = IF Head(wire[d]).kind = "roster"
                        THEN Head(wire[d]).names ELSE view[d]
      BY <1>1, <2>5 DEF ReadUpdate
    <3>2. Opens(wire[d], client[d])
      BY DEF Serial, WiresStartWell, StartsWell
    <3>3. Head(wire[d]) = wire[d][1] /\ 1 \in 1 .. Len(wire[d])
      BY <1>1, <3>1
    <3>4. Head(wire[d]).kind # "welcome"
      BY <3>1, <3>2, <3>3 DEF Opens
    <3>5. Carries(Head(wire[d])) <=> Head(wire[d]).kind = "roster"
      BY <3>4 DEF Carries
    <3>6. Shows(Tail(wire[d]), "in", view'[d], names)
      BY <1>1, <1>7, <3>1, <3>5, ReadingShows DEF Showing
    <3>7. QED
      BY <3>1, <3>6 DEF Showing
  <2>6. QED
    BY <2>2, <2>3, <2>4, <2>5 DEF Player
<1>8. QED
  BY <1>3, <1>6, <1>7

\* Another player joins: everyone is a name behind.
LEMMA JoinTells ==
  ASSUME Known, Serial, [Next]_vars, ~Overlap',
         NEW c \in Conns, Join(c), NEW d \in Conns, Watching(d)'
  PROVE  Told(d)'
<1>1. /\ pc \in [Conns -> Station]
      /\ assigned \in [Conns -> PlayerNames]
  BY KnownTypes
<1>2. PICK name \in PlayerNames :
        /\ name \notin roster
        /\ roster' = roster \cup {name}
        /\ assigned' = [assigned EXCEPT ![c] = name]
        /\ pc' = [pc EXCEPT ![c] = "welcoming"]
        /\ pc[c] = "joining"
  BY JoinSeats DEF Known
<1>3. UNCHANGED <<targets, wire, link, client, view>>
  BY DEF Join, clientVars
<1>4. d # c
  BY <1>1, <1>2 DEF Watching
<1>5. Moving(c)'
  BY <1>1, <1>2 DEF Moving, Admitted
<1>6. ASSUME NEW e \in Conns PROVE ~Moving(e) /\ (e # c => pc'[e] = pc[e])
  <2>1. CASE e = c
    BY <1>2, <2>1 DEF Moving, Admitted, Departed
  <2>2. CASE e # c
    BY <1>1, <1>2, <1>5, <2>2 DEF Overlap, Moving
  <2>3. QED
    BY <2>1, <2>2
<1>7. \A e \in Conns : ~OwesJoined(e, d) /\ ~OwesLeft(e, d)
  BY <1>6, DebtorsMove
<1>8. Watching(d)
  BY <1>3, <1>4, <1>6 DEF Watching
<1>9. Showing(d, roster)
  BY <1>7, <1>8 DEF Serial, ClientsAreTold, Told
<1>10. Showing(d, roster)' <=> Shows(wire[d], client[d], view[d], roster')
  BY <1>3 DEF Showing
<1>11. roster' \ {assigned'[c]} = roster
  BY <1>1, <1>2
<1>12. Showing(d, roster \ {assigned[c]})'
  BY <1>3, <1>9, <1>11 DEF Showing
<1>13. OwesJoined(c, d)' /\ ~OwesLeft(c, d)'
  BY <1>1, <1>2 DEF OwesJoined, OwesLeft
<1>14. ASSUME NEW e \in Conns \ {c} PROVE ~OwesJoined(e, d)' /\ ~OwesLeft(e, d)'
  BY <1>3, <1>6, <1>7 DEF OwesJoined, OwesLeft
<1>15. QED
  BY <1>4, <1>12, <1>13, <1>14 DEF Told

\* A player is taken out of the roster again, or leaves.
LEMMA DropTells ==
  ASSUME Known, Serial, [Next]_vars, ~Overlap',
         NEW c \in Conns, Evict(c) \/ Leave(c), NEW d \in Conns, Watching(d)'
  PROVE  Told(d)'
<1>1. pc \in [Conns -> Station]
  BY KnownTypes
<1>2. /\ roster' = roster \ {assigned[c]}
      /\ UNCHANGED <<assigned, targets, wire, link, client, view>>
      /\ \/ Evict(c) /\ pc[c] = "evicting" /\ pc' = [pc EXCEPT ![c] = "tellEvicted"]
         \/ Leave(c) /\ pc[c] = "leaving" /\ pc' = [pc EXCEPT ![c] = "tellLeft"]
  BY DEF Evict, Leave, DropPlayer, Goto, clientVars
<1>3. assigned[c] \in roster
  <2> DEFINE seat == [name |-> assigned[c], conn |-> c]
  <2>1. seat \in connections
    BY DropUnseats DEF Known
  <2>2. roster = {HostName} \cup {e.name : e \in connections}
    BY DEF Known, Identified, NamesAreUnique
  <2>3. seat.name = assigned[c]
    OBVIOUS
  <2> HIDE DEF seat
  <2>4. QED
    BY <2>1, <2>2, <2>3
<1>4. Moving(c) /\ d # c
  BY <1>1, <1>2 DEF Moving, Admitted, Watching
<1>5. ASSUME NEW e \in Conns \ {c}
      PROVE  /\ ~OwesJoined(e, d) /\ ~OwesLeft(e, d)
             /\ ~OwesJoined(e, d)' /\ ~OwesLeft(e, d)'
  <2>1. ~OwesJoined(e, d) /\ ~OwesLeft(e, d)
    BY <1>4, AloneOwes DEF Serial
  <2>2. pc'[e] = pc[e] /\ targets' = targets
    BY <1>1, <1>2
  <2>3. QED
    BY <2>1, <2>2 DEF OwesJoined, OwesLeft
<1>6. Watching(d) /\ Told(d)
  BY <1>1, <1>2, <1>4 DEF Watching, Serial, ClientsAreTold
<1>7. CASE Evict(c) /\ pc[c] = "evicting" /\ pc' = [pc EXCEPT ![c] = "tellEvicted"]
  <2>1. OwesJoined(c, d) /\ ~OwesJoined(c, d)' /\ ~OwesLeft(c, d)'
    BY <1>1, <1>7 DEF OwesJoined, OwesLeft
  <2>2. Showing(d, roster \ {assigned[c]})
    BY <1>4, <1>6, <2>1 DEF Told
  <2>3. Showing(d, roster)'
    BY <1>2, <2>2 DEF Showing
  <2>4. QED
    BY <1>5, <2>1, <2>3 DEF Told
<1>8. CASE Leave(c) /\ pc[c] = "leaving" /\ pc' = [pc EXCEPT ![c] = "tellLeft"]
  <2>1. /\ ~OwesJoined(c, d) /\ ~OwesLeft(c, d)
        /\ ~OwesJoined(c, d)' /\ OwesLeft(c, d)'
    BY <1>1, <1>8 DEF OwesJoined, OwesLeft
  <2>2. Showing(d, roster)
    BY <1>5, <1>6, <2>1 DEF Told
  <2>3. roster' \cup {assigned'[c]} = roster
    BY <1>2, <1>3
  <2>4. Showing(d, roster \cup {assigned[c]})'
    BY <1>2, <2>2, <2>3 DEF Showing
  <2>5. QED
    BY <1>4, <1>5, <2>1, <2>4 DEF Told
<1>9. QED
  BY <1>2, <1>7, <1>8

\* The Welcome itself carries the roster.
LEMMA WelcomeTells ==
  ASSUME Known, Serial, [Next]_vars, ~Overlap',
         NEW c \in Conns, SendWelcome(c), NEW d \in Conns, Watching(d)'
  PROVE  Told(d)'
<1> DEFINE m == WelcomeMsg(assigned[c], snapshot[c])
<1>1. /\ pc \in [Conns -> Station]
      /\ wire \in [Conns -> Seq(Message)]
  BY KnownTypes
<1>2. /\ pc[c] = "welcoming"
      /\ wire' = Sent(c, m)
      /\ \E s \in {"tellJoined", "evicting"} : pc' = [pc EXCEPT ![c] = s]
      /\ UNCHANGED <<roster, assigned, targets, link, client, view>>
  BY DEF SendWelcome, Goto, serverVars, clientVars
<1>3. m \in Message /\ Carries(m) /\ m.names = roster
  <2>1. m.kind = "welcome" /\ m.names = snapshot[c] /\ m \in Message
    BY WelcomeIsTyped
  <2>2. snapshot[c] = roster
    BY <1>2 DEF Serial, SnapshotsAreFresh
  <2> HIDE DEF m
  <2>3. QED
    BY <2>1, <2>2 DEF Carries
<1> HIDE DEF m
<1>4. \A e \in Conns : /\ OwesJoined(e, d)' <=> OwesJoined(e, d)
                       /\ OwesLeft(e, d)' <=> OwesLeft(e, d)
  BY <1>1, <1>2 DEF OwesJoined, OwesLeft
<1>5. CASE d = c
  <2>1. Moving(c)
    BY <1>2 DEF Moving, Admitted
  <2>2. \A e \in Conns \ {d} : ~OwesJoined(e, d)' /\ ~OwesLeft(e, d)'
    BY <1>4, <1>5, <2>1, AloneOwes DEF Serial
  <2>3. wire'[d] = Append(wire[d], m)
    BY <1>1, <1>2, <1>5 DEF Sent, Watching
  <2>4. wire[d] \in Seq(Message)
    BY <1>1
  <2>5. Shows(wire'[d], client'[d], view'[d], roster')
    BY <1>2, <1>3, <2>3, <2>4, RosterShows
  <2>6. Showing(d, roster)'
    BY <2>5 DEF Showing
  <2>7. QED
    BY <2>2, <2>6 DEF Told
<1>6. CASE d # c
  <2>1. wire'[d] = wire[d] /\ client'[d] = client[d] /\ view'[d] = view[d]
    BY <1>1, <1>2, <1>6 DEF Sent
  <2>2. Watching(d)
    BY <1>1, <1>2, <1>6 DEF Watching
  <2>3. QED
    BY <1>2, <1>4, <2>1, <2>2, NothingNew, StillShowing DEF Serial, ClientsAreTold
<1>7. QED
  BY <1>5, <1>6

\* Half a pair tells nothing, and the whole of it settles what was owed.
LEMMA AnnouncementTells ==
  ASSUME Known, Serial, [Next]_vars, ~Overlap',
         NEW c \in Conns, AnnounceName(c) \/ AnnounceRoster(c),
         NEW d \in Conns, Watching(d)'
  PROVE  Told(d)'
<1>1. /\ pc \in [Conns -> Station]
      /\ wire \in [Conns -> Seq(Message)]
      /\ targets \in [Conns -> SUBSET Conns]
  BY KnownTypes
<1>2. PICK t \in targets[c], m \in Message :
        /\ AnnounceName(c) => ~Carries(m)
        /\ AnnounceRoster(c) => Carries(m) /\ m.names = snapshot[c] /\ t = half[c]
        /\ wire' = Sent(t, m)
        /\ pc[c] \in Announcing
        /\ UNCHANGED <<roster, pc, assigned, snapshot, link, client, view>>
  BY AnnouncedWires
<1>3. Watching(d)
  BY <1>2 DEF Watching
<1>4. wire[d] \in Seq(Message) /\ (wire'[d] = wire[d] \/ (d = t /\ wire'[d] = Append(wire[d], m)))
  BY <1>1, <1>2 DEF Sent
<1>5. CASE AnnounceName(c)
  <2>1. targets' = targets
    BY <1>5 DEF AnnounceName
  <2>2. \A e \in Conns : /\ OwesJoined(e, d)' <=> OwesJoined(e, d)
                         /\ OwesLeft(e, d)' <=> OwesLeft(e, d)
    BY <1>2, <2>1 DEF OwesJoined, OwesLeft
  <2>3. ASSUME NEW names, Showing(d, names) PROVE Showing(d, names)'
    <3>1. Shows(wire'[d], client[d], view[d], names)
      BY <1>2, <1>4, <1>5, <2>3, NameShows DEF Showing
    <3>2. QED
      BY <1>2, <3>1 DEF Showing
  <2>4. QED
    BY <1>2, <1>3, <2>2, <2>3, NothingNew DEF Serial, ClientsAreTold
<1>6. CASE AnnounceRoster(c)
  <2>1. targets' = [targets EXCEPT ![c] = @ \ {t}] /\ Carries(m) /\ m.names = snapshot[c]
    BY <1>2, <1>6 DEF AnnounceRoster
  <2>2. CASE d # t
    <3>1. d \in targets'[c] <=> d \in targets[c]
      BY <1>1, <2>1, <2>2
    <3>2. \A e \in Conns : d \in targets'[e] <=> d \in targets[e]
      BY <1>1, <2>1, <3>1
    <3>3. \A e \in Conns : /\ OwesJoined(e, d)' <=> OwesJoined(e, d)
                           /\ OwesLeft(e, d)' <=> OwesLeft(e, d)
      BY <1>2, <3>2 DEF OwesJoined, OwesLeft
    <3>4. wire'[d] = wire[d] /\ client'[d] = client[d] /\ view'[d] = view[d]
      BY <1>2, <1>4, <2>2
    <3>5. QED
      BY <1>2, <1>3, <3>3, <3>4, NothingNew, StillShowing DEF Serial, ClientsAreTold
  <2>3. CASE d = t
    <3>1. Moving(c) /\ snapshot[c] = roster
      BY <1>2 DEF Announcing, Moving, Admitted, Departed, Serial, SnapshotsAreFresh
    <3>2. wire'[d] = Append(wire[d], m)
      BY <1>1, <1>2, <1>3, <2>3 DEF Sent, Watching
    <3>3. Shows(wire'[d], client'[d], view'[d], roster')
      BY <1>2, <1>4, <2>1, <3>1, <3>2, RosterShows
    <3>4. Showing(d, roster)'
      BY <3>3 DEF Showing
    <3>5. d \notin targets'[c]
      BY <1>1, <2>1, <2>3
    <3>6. ~OwesJoined(c, d)' /\ ~OwesLeft(c, d)'
      BY <1>2, <3>5 DEF OwesJoined, OwesLeft, Announcing
    <3>7. ASSUME NEW e \in Conns \ {c} PROVE ~OwesJoined(e, d)' /\ ~OwesLeft(e, d)'
      <4>1. ~OwesJoined(e, d) /\ ~OwesLeft(e, d)
        BY <3>1, AloneOwes DEF Serial
      <4>2. pc'[e] = pc[e] /\ targets'[e] = targets[e]
        BY <1>1, <1>2, <2>1
      <4>3. QED
        BY <4>1, <4>2 DEF OwesJoined, OwesLeft
    <3>8. QED
      BY <3>4, <3>6, <3>7 DEF Told
  <2>4. QED
    BY <2>2, <2>3
<1>7. QED
  BY <1>5, <1>6

LEMMA NextTold ==
  ASSUME Known, Serial, [Next]_vars, ~Overlap'
  PROVE  ClientsAreTold'
<1> SUFFICES ASSUME NEW d \in Conns PROVE Watching(d)' => Told(d)'
  BY DEF ClientsAreTold
<1>1. Watching(d) => Told(d)
  BY DEF Serial, ClientsAreTold
<1>2. ASSUME NEW c \in Conns, Handler(c) PROVE Watching(d)' => Told(d)'
  <2>1. CASE Join(c)
    BY <2>1, JoinTells
  <2>2. CASE Evict(c) \/ Leave(c)
    BY <2>2, DropTells
  <2>3. CASE SendWelcome(c)
    BY <2>3, WelcomeTells
  <2>4. CASE AnnounceName(c) \/ AnnounceRoster(c)
    BY <2>4, AnnouncementTells
  <2>5. CASE Silent(c)
    <3>1. /\ UNCHANGED <<roster, assigned, wire, client, view>>
          /\ Watching(d)' => Watching(d)
          /\ Watching(d)' => \A e \in Conns \ {d} :
               /\ OwesJoined(e, d)' <=> OwesJoined(e, d)
               /\ OwesLeft(e, d)' <=> OwesLeft(e, d)
      BY <2>5, SilentOwes
    <3>2. wire'[d] = wire[d] /\ client'[d] = client[d] /\ view'[d] = view[d]
      BY <3>1
    <3>3. QED
      BY <1>1, <3>1, <3>2, NothingNew, StillShowing
  <2>6. CASE Greet(c) \/ Compare(c)
    <3>1. /\ pc \in [Conns -> Station]
          /\ wire \in [Conns -> Seq(Message)]
      BY KnownTypes
    <3>2. /\ UNCHANGED <<roster, assigned, targets, link, client, view>>
          /\ pc[c] \in {"greeting", "comparing"}
          /\ \E s \in {"comparing", "joining", "refusing", "done"} : pc' = [pc EXCEPT ![c] = s]
          /\ wire' = wire \/ wire' = Sent(c, ErrorMsg)
      BY <2>6 DEF Greet, Compare, Refuse, Goto, serverVars, clientVars
    <3>3. /\ Watching(d)' => Watching(d) /\ d # c
          /\ \A e \in Conns : /\ OwesJoined(e, d)' <=> OwesJoined(e, d)
                              /\ OwesLeft(e, d)' <=> OwesLeft(e, d)
      BY <3>1, <3>2 DEF Watching, OwesJoined, OwesLeft
    <3>4. d # c => wire'[d] = wire[d] /\ client'[d] = client[d] /\ view'[d] = view[d]
      BY <3>1, <3>2 DEF Sent
    <3>5. QED
      BY <1>1, <3>2, <3>3, <3>4, NothingNew, StillShowing
  <2>7. QED
    BY <1>2, <2>1, <2>2, <2>3, <2>4, <2>5, <2>6 DEF Handler, Silent
<1>3. ASSUME NEW c \in Conns, Player(c) PROVE Watching(d)' => Told(d)'
  <2>1. UNCHANGED <<roster, assigned>>
    BY <1>3, PlayersStepAside
  <2>2. QED
    BY <1>1, <1>3, <2>1, PlayersShow, NothingNew
<1>4. CASE CloseHost \/ UNCHANGED vars
  <2>1. UNCHANGED <<roster, pc, assigned, targets, wire, client, view>>
    BY <1>4, ClosingStepsAside
  <2>2. link'[d] = "up" => link[d] = "up"
    BY <1>4, KnownTypes DEF CloseHost, vars
  <2>3. /\ Watching(d)' => Watching(d)
        /\ \A e \in Conns : /\ OwesJoined(e, d)' <=> OwesJoined(e, d)
                            /\ OwesLeft(e, d)' <=> OwesLeft(e, d)
    BY <2>1, <2>2 DEF Watching, OwesJoined, OwesLeft
  <2>4. QED
    BY <1>1, <2>1, <2>3, NothingNew, StillShowing
<1>5. QED
  BY <1>2, <1>3, <1>4 DEF Next

-----------------------------------------------------------------------------
(* The invariant, and what it says of a session at rest. *)

LEMMA InitSerial == HistoryInit => Known /\ SerialInv
<1> SUFFICES ASSUME HistoryInit PROVE Known /\ SerialInv
  OBVIOUS
<1>1. Known
  BY InitSound, InitIdentified, InitLock, InitAttached DEF HistoryInit, Known
<1>2. \A c \in Conns :
        /\ pc[c] = "idle" /\ link[c] = "none"
        /\ wire[c] = << >> /\ client[c] = "out"
  BY DEF HistoryInit, Init
<1>3. ~Overlap /\ SnapshotsAreFresh /\ TargetsServe /\ ClientsAreTold
  BY <1>2
  DEF Overlap, Moving, Departed, Admitted, SnapshotsAreFresh, TargetsServe,
      Announcing, ClientsAreTold, Watching
<1>4. HostIsTold
  BY DEF HistoryInit, Init, HostIsTold
<1>5. WiresStartWell
  BY <1>2, NothingOpens DEF WiresStartWell, StartsWell
<1>6. QED
  BY <1>1, <1>3, <1>4, <1>5 DEF SerialInv, Serial

LEMMA NextKnown == Known /\ [Next]_vars => Known'
BY NextSound, NextIdentified, NextLock, NextAttached DEF Known

LEMMA NextSerial ==
  Known /\ SerialInv /\ [HistoryNext]_<<vars, raced>> => Known' /\ SerialInv'
<1> SUFFICES ASSUME Known, SerialInv, [HistoryNext]_<<vars, raced>>
             PROVE  Known' /\ SerialInv'
  OBVIOUS
<1>1. [Next]_vars
  BY DEF HistoryNext
<1>2. Known'
  BY <1>1, NextKnown
<1>3. ASSUME ~raced' PROVE Serial'
  <2>1. CASE HistoryNext
    <3>1. ~raced /\ ~Overlap'
      BY <1>3, <2>1 DEF HistoryNext
    <3>2. Serial
      BY <3>1 DEF SerialInv
    <3>3. QED
      BY <1>1, <3>1, <3>2, NextFresh, NextHostIsTold, NextTargetsServe,
         NextWiresStartWell, NextTold
      DEF Serial
  <2>2. CASE UNCHANGED <<vars, raced>>
    <3>1. Serial /\ UNCHANGED vars
      BY <1>3, <2>2 DEF SerialInv
    <3>2. ~Overlap'
      BY <3>1, ClosingStepsAside DEF Serial, Overlap, Moving
    <3>3. QED
      BY <1>1, <3>1, <3>2, NextFresh, NextHostIsTold, NextTargetsServe,
         NextWiresStartWell, NextTold
      DEF Serial
  <2>3. QED
    BY <2>1, <2>2
<1>4. QED
  BY <1>2, <1>3 DEF SerialInv

LEMMA SerialAgrees == Known /\ SerialInv => SerialSessionsAgree
<1> SUFFICES ASSUME Known, Serial PROVE HandshakeCompletes /\
        (Settled => /\ hosting => hostView = roster
                    /\ \A c \in Conns :
                         client[c] = "in" /\ link[c] = "up" => view[c] = roster)
  BY DEF SerialInv, SerialSessionsAgree
<1>1. HandshakeCompletes
  BY DEF HandshakeCompletes, Serial, WiresStartWell, StartsWell
<1>2. ASSUME Settled, hosting PROVE hostView = roster
  BY <1>2 DEF Settled, Serial, HostIsTold, Untold
<1>3. ASSUME Settled, NEW c \in Conns, client[c] = "in", link[c] = "up"
      PROVE  view[c] = roster
  <2>1. pc[c] \in {"idle", "serving", "done"} /\ wire[c] = << >>
    BY <1>3 DEF Settled
  <2>2. pc[c] = "serving"
    BY <1>3, <2>1 DEF Known, Attached, LiveHandlers
  <2>3. Told(c)
    BY <1>3, <2>2 DEF Serial, ClientsAreTold, Watching
  <2>4. \A e \in Conns : ~OwesJoined(e, c) /\ ~OwesLeft(e, c)
    BY <1>3 DEF Settled, OwesJoined, OwesLeft
  <2>5. Showing(c, roster)
    BY <2>3, <2>4 DEF Told
  <2>6. QED
    BY <2>1, <2>5 DEF Showing, Shows
<1>4. QED
  BY <1>1, <1>2, <1>3

\* In a session whose players come and go one after the other, no accepted
\* greeting fails, and whenever nothing is under way the host's scene and every
\* connected client show exactly the players in the session
\* (`handle_connection`, `Client::join_with_mods`).
THEOREM SerialSessionsAlwaysAgree == HistorySpec => []SerialSessionsAgree
<1>1. QED
  BY InitSerial, NextSerial, SerialAgrees, PTL DEF HistorySpec

=============================================================================
