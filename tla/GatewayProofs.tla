--------------------------- MODULE GatewayProofs ---------------------------
(***************************************************************************)
(* Of the network threads and the gateway, for any number of sessions and  *)
(* any queues.  Of a player patient or not: they close what they start,    *)
(* and the swarm is told what is true.  Of one who waits for the answer to *)
(* a host or a connect: what is said in a session reaches no other, and at *)
(* rest the scene is in the session that runs.                             *)
(***************************************************************************)
EXTENDS Gateway, SequenceTheorems, WellFoundedInduction, TLAPS

(* What a thread runs is one of the sessions started, and none of those    *)
(* that still have to hang up; a gateway runs clients only.                *)
LiveOK ==
  /\ made \in Nat
  /\ live \in [kind : {"host", "client"}, id : 1..made] \cup {NoSession}
  /\ live.id \notin hung
  /\ port = "browser" => live.kind # "host"

(* A dial begins when the session before it was stopped, so a session that *)
(* is started replaces none.                                               *)
DialsAlone == dialing # "none" => live = NoSession

(* The sockets and their abandoned tasks are the browser's.                *)
HungOK ==
  /\ hung \subseteq 1..made
  /\ port # "browser" => hung = {} /\ socket = "none"

Accounted == LiveOK /\ DialsAlone /\ HungOK /\ SessionsAreClosed /\ AdvertsMatch

SwarmIsFlag == swarm \in BOOLEAN

(* What the invariant speaks of.                                           *)
books == <<port, live, dialing, open, made, swarm, advert, web>>

(* Lemmas on the few ways the books change.                                *)

-----------------------------------------------------------------------------
(* The sessions that are open and the advert of the one that hosts.        *)

(* Only a host is advertised.                                              *)
LEMMA OnlyHosts ==
  ASSUME AdvertsMatch, live.kind # "host"
  PROVE  advert = FALSE
BY Zenon DEF AdvertsMatch

LEMMA GuestsAreUnadvertised ==
  ASSUME live'.kind # "host", advert' = FALSE
  PROVE  AdvertsMatch'
BY Zenon DEF AdvertsMatch

(* A session starts under a number of its own when none is live.           *)
LEMMA StartKeepsBooks ==
  ASSUME Accounted, NEW kind \in {"host", "client"}, NEW lines,
         dialing # "none", dialing' = "none", Started(kind, lines),
         kind = "host" => port # "browser",
         AdvertsMatch',
         UNCHANGED <<port, web>>
  PROVE  Accounted'
<1> DEFINE id == made + 1
<1>1. live = NoSession
  BY DEF Accounted, DialsAlone
<1>2. /\ made' = id /\ open' = open \cup {id}
      /\ live' = [kind |-> kind, id |-> id]
  BY DEF Started
<1>3. id \in Nat /\ id \notin 0..made /\ 1..id = (1..made) \cup {id}
  BY DEF Accounted, LiveOK
<1>4. HungOK' /\ LiveOK'
  BY <1>2, <1>3 DEF Accounted, LiveOK, HungOK, web
<1>5. SessionsAreClosed'
  BY <1>1, <1>2, <1>3 DEF Accounted, SessionsAreClosed, NoSession, web
<1>6. DialsAlone'
  BY DEF DialsAlone
<1> QED BY <1>4, <1>5, <1>6 DEF Accounted

(* A refused dial changes nothing but what the thread is busy with.        *)
LEMMA RefusalKeepsBooks ==
  ASSUME Accounted, dialing' = "none", Refused,
         UNCHANGED <<port, discovery, web>>
  PROVE  Accounted'
BY DEF Accounted, LiveOK, DialsAlone, HungOK, SessionsAreClosed, AdvertsMatch,
       Refused, discovery, web

(* The live session is closed, and its advert withdrawn.                   *)
LEMMA CloseKeepsBooks ==
  ASSUME Accounted, Closed(live.id), live' = NoSession,
         advert' = FALSE, UNCHANGED <<port, made, web>>
  PROVE  Accounted'
<1>1. open' = hung
  <2>1. open' = open \ {live.id} /\ open = ({live.id} \ {0}) \cup hung
    BY DEF Accounted, SessionsAreClosed, Closed
  <2> QED BY <2>1 DEF Accounted, LiveOK
<1>2. LiveOK' /\ HungOK' /\ DialsAlone'
  <2>1. 0 \notin hung
    BY DEF Accounted, HungOK, LiveOK
  <2> QED BY <2>1 DEF Accounted, LiveOK, HungOK, DialsAlone, NoSession, web
<1>3. SessionsAreClosed' /\ AdvertsMatch'
  BY <1>1 DEF SessionsAreClosed, AdvertsMatch, NoSession, web
<1> QED BY <1>2, <1>3 DEF Accounted

(* A stop withdraws the advert of a host; a client has none.               *)
LEMMA StopWithdraws ==
  ASSUME Accounted, Stop
  PROVE  Closed(live.id) /\ advert' = FALSE
BY DEF Accounted, AdvertsMatch, Stop, Withdrawn

(* A socket goes, and the session it carried is left to its task.          *)
LEMMA AbandonKeepsBooks ==
  ASSUME Accounted, Abandoned, port = "browser",
         UNCHANGED <<port, open, made, discovery>>
  PROVE  Accounted'
<1>1. LiveOK' /\ HungOK' /\ DialsAlone'
  <2>1. hung' \subseteq 1..made
    BY DEF Accounted, LiveOK, HungOK, Abandoned
  <2>2. 0 \notin hung'
    BY <2>1 DEF Accounted, LiveOK
  <2> QED BY <2>1, <2>2 DEF Accounted, LiveOK, HungOK, DialsAlone, Abandoned, NoSession
<1>2. SessionsAreClosed'
  <2>1. ({live.id} \ {0}) \cup hung = hung'
    BY DEF Accounted, LiveOK, Abandoned, NoSession
  <2> QED BY <2>1, <1>1 DEF Accounted, SessionsAreClosed, Abandoned, NoSession
<1>3. AdvertsMatch'
  BY DEF Accounted, LiveOK, AdvertsMatch, Abandoned, NoSession, discovery
<1> QED BY <1>1, <1>2, <1>3 DEF Accounted

LEMMA BooksAtFirst == NetInit => Accounted
<1> SUFFICES ASSUME NetInit PROVE Accounted
  OBVIOUS
<1>1. LiveOK /\ DialsAlone /\ HungOK /\ SessionsAreClosed
  BY DEF NetInit, Init, LiveOK, DialsAlone, HungOK, SessionsAreClosed, NoSession
<1>2. AdvertsMatch
  BY Zenon DEF NetInit, Init, AdvertsMatch
<1> QED BY <1>1, <1>2 DEF Accounted

(* What a scene does, what the other end does and what is only passed on   *)
(* leaves the books as they are.                                           *)
LEMMA OthersKeepBooks ==
  ASSUME \/ Peers \/ ReaderEnds \/ Player \/ PollEvents \/ Tell,
         UNCHANGED web
  PROVE  UNCHANGED books
BY DEF books, Peers, WorldArrives, RosterChanges, ConnectionLost, ReaderEnds,
       Player, AskHost, AskJoin, AskLeave, Shutdown, AskTell, AskSwarm,
       PollEvents, Tell, thread, discovery

(* The thread of a native bridge.                                          *)
LEMMA ThreadKeepsBooks ==
  ASSUME Accounted, SwarmIsFlag, Listens \/ Serves, UNCHANGED web
  PROVE  Accounted'
<1>1. CASE Forward
  BY <1>1 DEF Forward, Accounted, LiveOK, DialsAlone, HungOK,
              SessionsAreClosed, AdvertsMatch, web
<1>2. CASE GoatsEnded
  BY <1>2, StopWithdraws, CloseKeepsBooks DEF GoatsEnded
<1>3. CASE GodotEnded
  BY <1>3, StopWithdraws, CloseKeepsBooks DEF GodotEnded
<1>4. CASE Tell
  BY <1>4, OthersKeepBooks DEF books, Accounted, LiveOK, DialsAlone, HungOK,
                               SessionsAreClosed, AdvertsMatch, web
<1>5. CASE SwarmJoin \/ SwarmLeave
  BY <1>5 DEF SwarmJoin, SwarmLeave, thread, Accounted, LiveOK, DialsAlone,
              HungOK, SessionsAreClosed, AdvertsMatch, web
<1>6. CASE Replace
  BY <1>6, StopWithdraws, CloseKeepsBooks DEF Replace
<1>7. CASE GoatsHosts \/ GodotHosts
  <2>1. /\ dialing # "none" /\ dialing' = "none" /\ port # "browser"
        /\ UNCHANGED <<port, swarm, web>>
    BY <1>7 DEF GoatsHosts, GodotHosts
  <2>2. CASE Started("host", <<"hosting", "ticket">>) /\ advert' = swarm
    <3>1. live'.kind = "host"
      BY <2>2 DEF Started
    <3>2. AdvertsMatch'
      BY <2>1, <2>2, <3>1, Zenon DEF AdvertsMatch, SwarmIsFlag
    <3> QED BY <2>1, <2>2, <3>2, StartKeepsBooks
  <2>3. CASE Refused /\ UNCHANGED advert
    BY <2>1, <2>3, RefusalKeepsBooks DEF discovery
  <2> QED BY <1>7, <2>2, <2>3 DEF GoatsHosts, GodotHosts
<1>8. CASE GoatsJoins \/ GodotJoins
  <2>1. /\ dialing # "none" /\ dialing' = "none" /\ port # "browser"
        /\ UNCHANGED <<port, swarm, web>>
    BY <1>8 DEF GoatsJoins, GodotJoins, discovery
  <2>2. advert = FALSE
    <3>1. live.kind # "host"
      BY <2>1 DEF Accounted, DialsAlone, NoSession
    <3> QED BY <3>1, OnlyHosts DEF Accounted
  <2>3. advert' = FALSE
    BY <1>8, <2>2 DEF GoatsJoins, GodotJoins, discovery
  <2>4. CASE Started("client", <<"welcome">>)
    <3>1. AdvertsMatch'
      BY <2>3, <2>4, GuestsAreUnadvertised DEF Started
    <3> QED BY <2>1, <2>4, <3>1, StartKeepsBooks
  <2>5. CASE Refused
    BY <2>1, <2>2, <2>3, <2>5, RefusalKeepsBooks DEF discovery
  <2> QED BY <1>8, <2>4, <2>5 DEF GoatsJoins, GodotJoins
<1>9. CASE ThreadEnds
  BY <1>9, CloseKeepsBooks DEF ThreadEnds
<1> QED BY <1>1, <1>2, <1>3, <1>4, <1>5, <1>6, <1>7, <1>8, <1>9
        DEF Listens, Serves

(* The page and the gateway's task.                                        *)
LEMMA BrowserKeepsBooks ==
  ASSUME Accounted, Browser
  PROVE  Accounted'
<1>1. CASE WebJoin \/ SocketOpens \/ WebPollClosed
  BY <1>1 DEF WebJoin, SocketOpens, WebPollClosed, Accounted, LiveOK, DialsAlone,
              HungOK, SessionsAreClosed, AdvertsMatch, vars, thread, discovery
<1>2. CASE WebLeave \/ \E kind \in Tells : WebSend(kind)
  BY <1>2 DEF WebLeave, WebSend, Accounted, LiveOK, DialsAlone, HungOK,
              SessionsAreClosed, AdvertsMatch, thread, discovery, web
<1>3. CASE WebShutdown
  BY <1>3, AbandonKeepsBooks DEF WebShutdown
<1>4. CASE SocketLost
  <2>1. port = "browser"
    BY <1>4 DEF SocketLost, Accounted, HungOK
  <2> QED BY <1>4, <2>1, AbandonKeepsBooks DEF SocketLost
<1>5. CASE WebPoll
  <2>1. CASE Abandoned
    BY <1>5, <2>1, AbandonKeepsBooks DEF WebPoll
  <2>2. CASE UNCHANGED <<socket, hung, live, dialing>>
    BY <1>5, <2>2 DEF WebPoll, Accounted, LiveOK, DialsAlone, HungOK,
                      SessionsAreClosed, AdvertsMatch, discovery
  <2> QED
    <3>1. Abandoned \/ UNCHANGED <<socket, hung, live, dialing>>
      BY <1>5 DEF WebPoll
    <3> QED BY <3>1, <2>1, <2>2
<1>6. CASE GatewayForward \/ GatewayTell
  <2>1. UNCHANGED books
    BY <1>6 DEF GatewayForward, GatewayTell, books, thread, discovery
  <2> QED BY <2>1 DEF books, Accounted, LiveOK, DialsAlone, HungOK,
                      SessionsAreClosed, AdvertsMatch, web
<1>7. CASE GatewayEnded \/ GatewayClose
  <2>1. /\ Closed(live.id) /\ live' = NoSession /\ port = "browser"
        /\ UNCHANGED <<port, made, discovery, web>>
    BY <1>7 DEF GatewayEnded, GatewayClose, AtTheGateway
  <2>2. advert' = FALSE
    BY <2>1, OnlyHosts DEF Accounted, LiveOK, discovery
  <2> QED BY <2>1, <2>2, CloseKeepsBooks
<1>8. CASE GatewayTakesJoin
  BY <1>8 DEF GatewayTakesJoin, Accounted, LiveOK, DialsAlone, HungOK,
              SessionsAreClosed, AdvertsMatch, discovery, web
<1>9. CASE GatewayJoins
  <2>1. advert' = FALSE
    <3>1. live.kind # "host"
      BY <1>9 DEF GatewayJoins, Accounted, DialsAlone, NoSession
    <3>2. advert = FALSE
      BY <3>1, OnlyHosts DEF Accounted
    <3> QED BY <1>9, <3>2 DEF GatewayJoins, discovery
  <2>2. CASE Started("client", <<"welcome">>)
    <3>1. AdvertsMatch'
      BY <2>1, <2>2, GuestsAreUnadvertised DEF Started
    <3> QED BY <1>9, <2>2, <3>1, StartKeepsBooks DEF GatewayJoins
  <2>3. CASE Refused
    BY <1>9, <2>3, RefusalKeepsBooks DEF GatewayJoins
  <2> QED BY <1>9, <2>2, <2>3 DEF GatewayJoins
<1>10. ASSUME NEW id \in hung, HangsUp(id)
       PROVE  Accounted'
  BY <1>10 DEF HangsUp, Accounted, LiveOK, DialsAlone, HungOK,
               SessionsAreClosed, AdvertsMatch, discovery
<1> QED BY <1>1, <1>2, <1>3, <1>4, <1>5, <1>6, <1>7, <1>8, <1>9, <1>10
        DEF Browser, Page, GatewayListens, GatewayServes

LEMMA BooksAreKept == Accounted /\ SwarmIsFlag /\ [Next]_allvars => Accounted'
<1> SUFFICES ASSUME Accounted, SwarmIsFlag, [Next]_allvars PROVE Accounted'
  OBVIOUS
<1>1. CASE UNCHANGED books
  BY <1>1 DEF books, Accounted, LiveOK, DialsAlone, HungOK, SessionsAreClosed,
              AdvertsMatch, web
<1>2. CASE UNCHANGED allvars
  BY <1>1, <1>2 DEF allvars, vars, thread, discovery, books
<1>3. CASE Native /\ UNCHANGED web
  BY <1>1, <1>3, OthersKeepBooks, ThreadKeepsBooks DEF Native
<1>4. CASE Browser
  BY <1>4, BrowserKeepsBooks
<1> QED BY <1>2, <1>3, <1>4 DEF Next

(* A thread is in a swarm or not.                                          *)
LEMMA FlagIsKept == SwarmIsFlag /\ [Next]_allvars => SwarmIsFlag'
<1> SUFFICES ASSUME SwarmIsFlag, [Next]_allvars PROVE SwarmIsFlag'
  OBVIOUS
<1>1. CASE UNCHANGED swarm
  BY <1>1, Zenon DEF SwarmIsFlag
<1>2. CASE SwarmJoin \/ SwarmLeave \/ ThreadEnds
  BY <1>2, Zenon DEF SwarmIsFlag, SwarmJoin, SwarmLeave, ThreadEnds
<1>3. CASE Peers \/ ReaderEnds \/ Player \/ PollEvents \/ Tell
  BY <1>1, <1>3 DEF Peers, WorldArrives, RosterChanges, ConnectionLost,
       ReaderEnds, Player, AskHost, AskJoin, AskLeave, Shutdown, AskTell,
       AskSwarm, PollEvents, Tell, discovery
<1>4. CASE Listens \/ Replace \/ GoatsHosts \/ GoatsJoins \/ GodotHosts \/ GodotJoins
  BY <1>1, <1>4 DEF Listens, Forward, GoatsEnded, GodotEnded, Replace,
       GoatsHosts, GoatsJoins, GodotHosts, GodotJoins, discovery
<1>5. CASE Browser
  BY <1>1, <1>5 DEF Browser, WebJoin, WebLeave, WebShutdown, SocketOpens,
       SocketLost, Page, WebPoll, WebPollClosed, GatewayListens,
       GatewayForward, GatewayEnded, GatewayServes, GatewayTakesJoin,
       GatewayJoins, GatewayClose, GatewayTell, HangsUp, WebSend, vars, discovery
<1>6. CASE UNCHANGED allvars
  BY <1>1, <1>6 DEF allvars, vars, discovery
<1> QED BY <1>2, <1>3, <1>4, <1>5, <1>6 DEF Next, Native, Serves

LEMMA FlagAtFirst == NetInit => SwarmIsFlag
BY Zenon DEF NetInit, Init, SwarmIsFlag

(* Whatever replaces a session, ends it or takes its socket away, the one  *)
(* that runs and a browser's that still have to hang up are all that are   *)
(* open (`stop` of both bridges, `handle` of the gateway).                 *)
THEOREM EverySessionIsClosed == Spec => []SessionsAreClosed
<1>1. Accounted => SessionsAreClosed
  BY DEF Accounted
<1> QED BY <1>1, BooksAtFirst, BooksAreKept, FlagAtFirst, FlagIsKept, PTL DEF Spec

(* A swarm holds our advert exactly while we host and are in the swarm     *)
(* (`advertise_host`, `stop` and the swarm commands of both bridges).      *)
THEOREM AdvertsAreTrue == Spec => []AdvertsMatch
<1>1. Accounted => AdvertsMatch
  BY DEF Accounted
<1> QED BY <1>1, BooksAtFirst, BooksAreKept, FlagAtFirst, FlagIsKept, PTL DEF Spec

-----------------------------------------------------------------------------
(* What a queue of lines or of commands says.                              *)

(* Does a line or a command of one of these types wait?                    *)
Among(types, q) == \E i \in DOMAIN q : q[i].type \in types

Starts == {"host", "join"}
Answers == {"hosting", "welcome", "error"}
Decides == Answers \cup {"disconnected"}

ModeOf(type) ==
  IF type = "hosting" THEN "host" ELSE IF type = "welcome" THEN "client" ELSE "off"

(* The mode a scene ends in when it has read these lines.                  *)
HeardAs(s, q, m) ==
  /\ ~Among(Decides, q) => Mode(s) = m
  /\ \A i \in DOMAIN q :
       q[i].type \in Decides /\ (\A j \in DOMAIN q : j > i => q[j].type \notin Decides)
         => ModeOf(q[i].type) = m

LEMMA AppendAt ==
  ASSUME NEW S, NEW q \in Seq(S), NEW x \in S
  PROVE  /\ Append(q, x) \in Seq(S) /\ Len(Append(q, x)) = Len(q) + 1
         /\ Len(q) \in Nat
         /\ DOMAIN q = 1..Len(q) /\ DOMAIN Append(q, x) = 1..Len(q) + 1
         /\ \A i \in 1..Len(q) : Append(q, x)[i] = q[i]
         /\ Append(q, x)[Len(q) + 1] = x
OBVIOUS

LEMMA TailAt ==
  ASSUME NEW S, NEW q \in Seq(S), q # <<>>
  PROVE  /\ Tail(q) \in Seq(S) /\ Len(Tail(q)) = Len(q) - 1 /\ Len(q) \in Nat \ {0}
         /\ DOMAIN q = 1..Len(q) /\ DOMAIN Tail(q) = 1..Len(q) - 1
         /\ \A i \in 1..Len(q) - 1 : Tail(q)[i] = q[i + 1]
         /\ Head(q) = q[1] /\ Head(q) \in S
OBVIOUS

LEMMA EmptyAt == DOMAIN <<>> = {} /\ Len(<<>>) = 0
OBVIOUS

LEMMA OneLine ==
  ASSUME NEW S, NEW q \in Seq(S), NEW a, NEW id, NEW st,
         [type |-> a, session |-> id, streams |-> st] \in S
  PROVE  q \o Lines(<<a>>, id, st) = Append(q, [type |-> a, session |-> id, streams |-> st])
<1> DEFINE l == [type |-> a, session |-> id, streams |-> st]
<1>1. Lines(<<a>>, id, st) = <<l>>
  BY DEF Lines
<1>2. q \o <<l>> = Append(q, l)
  OBVIOUS
<1> QED BY <1>1, <1>2

LEMMA TwoLines ==
  ASSUME NEW S, NEW q \in Seq(S), NEW a, NEW b, NEW id, NEW st,
         [type |-> a, session |-> id, streams |-> st] \in S,
         [type |-> b, session |-> id, streams |-> st] \in S
  PROVE  q \o Lines(<<a, b>>, id, st) =
           Append(Append(q, [type |-> a, session |-> id, streams |-> st]),
                  [type |-> b, session |-> id, streams |-> st])
<1> DEFINE l == [type |-> a, session |-> id, streams |-> st]
           k == [type |-> b, session |-> id, streams |-> st]
<1>1. Lines(<<a, b>>, id, st) = <<l, k>>
  BY DEF Lines
<1> HIDE DEF l, k
<1>2. l \in S /\ k \in S
  BY DEF l, k
<1>3. q \o <<l, k>> = Append(Append(q, l), k)
  BY <1>2
<1> QED BY <1>1, <1>3 DEF l, k

LEMMA AmongEmpty == \A types : ~Among(types, <<>>)
BY DEF Among

LEMMA AmongAppend ==
  ASSUME NEW S, NEW q \in Seq(S), NEW x \in S, NEW types
  PROVE  Among(types, Append(q, x)) <=> (Among(types, q) \/ x.type \in types)
BY AppendAt DEF Among

LEMMA AmongTail ==
  ASSUME NEW S, NEW q \in Seq(S), q # <<>>, NEW types
  PROVE  Among(types, q) <=> (Head(q).type \in types \/ Among(types, Tail(q)))
<1>1. ASSUME NEW i \in DOMAIN q, q[i].type \in types, i # 1 PROVE Among(types, Tail(q))
  <2>1. i - 1 \in DOMAIN Tail(q) /\ Tail(q)[i - 1] = q[i]
    BY <1>1, TailAt
  <2> QED BY <1>1, <2>1 DEF Among
<1>2. ASSUME NEW i \in DOMAIN Tail(q), Tail(q)[i].type \in types PROVE Among(types, q)
  <2>1. i + 1 \in DOMAIN q /\ Tail(q)[i] = q[i + 1]
    BY <1>2, TailAt
  <2> QED BY <1>2, <2>1 DEF Among
<1>3. Head(q).type \in types => Among(types, q)
  <2>1. 1 \in DOMAIN q /\ Head(q) = q[1]
    BY TailAt
  <2> QED BY <2>1 DEF Among
<1> QED BY <1>1, <1>2, <1>3, TailAt DEF Among

LEMMA HeardEmpty == \A s, m : HeardAs(s, <<>>, m) <=> Mode(s) = m
BY AmongEmpty DEF HeardAs

LEMMA HeardAppend ==
  ASSUME NEW S, NEW q \in Seq(S), NEW x \in S, NEW s, NEW m,
         IF x.type \in Decides THEN ModeOf(x.type) = m ELSE HeardAs(s, q, m)
  PROVE  HeardAs(s, Append(q, x), m)
<1> DEFINE n == Len(q) + 1
<1>1. /\ Len(q) \in Nat /\ DOMAIN q = 1..Len(q) /\ DOMAIN Append(q, x) = 1..n
      /\ \A i \in 1..Len(q) : Append(q, x)[i] = q[i]
      /\ Append(q, x)[n] = x
  BY AppendAt
<1>2. CASE x.type \in Decides
  <2>1. Among(Decides, Append(q, x))
    BY <1>2, AmongAppend
  <2>2. ASSUME NEW i \in 1..n, \A j \in 1..n : j > i => Append(q, x)[j].type \notin Decides
        PROVE  Append(q, x)[i] = x
    BY <1>1, <1>2, <2>2
  <2> QED BY <1>1, <1>2, <2>1, <2>2 DEF HeardAs
<1>3. CASE x.type \notin Decides
  <2>1. Among(Decides, Append(q, x)) <=> Among(Decides, q)
    BY <1>3, AmongAppend
  <2>2. ASSUME NEW i \in 1..n, Append(q, x)[i].type \in Decides,
               \A j \in 1..n : j > i => Append(q, x)[j].type \notin Decides
        PROVE  ModeOf(Append(q, x)[i].type) = m
    <3>1. i \in 1..Len(q)
      BY <1>1, <1>3, <2>2
    <3>2. \A j \in 1..Len(q) : j > i => q[j].type \notin Decides
      BY <1>1, <2>2
    <3>3. HeardAs(s, q, m)
      BY <1>3
    <3> QED BY <1>1, <2>2, <3>1, <3>2, <3>3 DEF HeardAs
  <2>3. HeardAs(s, q, m)
    BY <1>3
  <2> QED BY <1>1, <2>1, <2>2, <2>3 DEF HeardAs
<1> QED BY <1>2, <1>3

LEMMA LeastOf ==
  ASSUME NEW T \in SUBSET Nat, T # {}
  PROVE  \E x \in T : \A y \in T : x <= y
<1>1. IsWellFoundedOn(OpToRel(<, Nat), Nat)
  BY NatLessThanWellFounded
<1>2. PICK x \in T : \A y \in T : ~(<<y, x>> \in OpToRel(<, Nat))
  BY <1>1, WFMin
<1>3. \A y \in T : ~(y < x)
  <2> SUFFICES ASSUME NEW y \in T, y < x PROVE FALSE
    OBVIOUS
  <2>0. y \in Nat /\ x \in Nat
    OBVIOUS
  <2>1. <<y, x>> \in {ss \in Nat \X Nat : ss[1] < ss[2]}
    BY <2>0
  <2>2. <<y, x>> \in OpToRel(<, Nat)
    BY <2>1, Zenon DEF OpToRel
  <2> QED BY <2>2, <1>2
<1> QED BY <1>3, SMT

Step(s, line) == IF port = "raylib" THEN SceneNetEvent(s, line) ELSE Handle(s, line)

After(lines) ==
  CHOOSE after : after = [n \in 0..Len(lines) |->
    IF n = 0 THEN scene ELSE LET before == after[n - 1]
                IN IF port = "raylib" THEN SceneNetEvent(before, lines[n])
                                      ELSE Handle(before, lines[n])]

LEMMA StepSays ==
  ASSUME NEW s \in Scene, NEW l \in Line
  PROVE  /\ Step(s, l) \in Scene
         /\ l.type \notin Decides =>
              /\ Step(s, l).hosting = s.hosting /\ Step(s, l).joined = s.joined
              /\ Step(s, l).session = s.session
         /\ l.type = "hosting" => Step(s, l).hosting /\ Step(s, l).session = l.session
         /\ l.type = "welcome" =>
              /\ Step(s, l).joined /\ Step(s, l).session = l.session
              /\ Step(s, l).hosting => s.hosting
         /\ l.type \in {"disconnected", "error"} =>
              ~Step(s, l).hosting /\ ~Step(s, l).joined /\ Step(s, l).session = 0
<1> USE DEF Decides, Answers, Scene, Line, Step, Streams, SaveOwn, RestoreOwn, DiscardOwn
<1>1. CASE l.type \notin Decides
  BY <1>1 DEF SceneNetEvent, Handle
<1>2. CASE l.type = "hosting"
  BY <1>2 DEF SceneNetEvent, Handle
<1>3. CASE l.type = "welcome"
  BY <1>3 DEF SceneNetEvent, Handle
<1>4. CASE l.type \in {"disconnected", "error"}
  BY <1>4 DEF SceneNetEvent, Handle, NetReset, SessionOver
<1> QED BY <1>1, <1>2, <1>3, <1>4

(* A path: what the scene is after each line.                              *)
Path(g, lines, n) ==
  /\ g \in [0..n -> Scene] /\ g[0] = scene
  /\ \A i \in 1..n : g[i] = Step(g[i - 1], lines[i])

LEMMA PathExists ==
  ASSUME scene \in Scene, NEW lines \in Seq(Line)
  PROVE  \E g : Path(g, lines, Len(lines))
<1> DEFINE bad == {n \in 0..Len(lines) : ~\E g : Path(g, lines, n)}
<1>1. Len(lines) \in Nat /\ \A i \in 1..Len(lines) : lines[i] \in Line
  OBVIOUS
<1>2. ASSUME bad # {} PROVE FALSE
  <2>0. bad \in SUBSET Nat
    BY <1>1
  <2> HIDE DEF bad
  <2>1. PICK n \in bad : \A k \in bad : n <= k
    BY <1>2, <2>0, LeastOf
  <2> USE DEF bad
  <2>2. n # 0
    <3>1. Path([i \in 0..0 |-> scene], lines, 0)
      BY DEF Path
    <3> QED BY <3>1
  <2>3. PICK k \in 0..Len(lines) - 1 : n = k + 1
    BY <2>2, <1>1
  <2>4. k \notin bad /\ k \in 0..Len(lines)
    BY <2>1, <2>3, <1>1
  <2>5. PICK g : Path(g, lines, k)
    BY <2>4
  <2> HIDE DEF bad
  <2> DEFINE h == [i \in 0..n |-> IF i = n THEN Step(g[k], lines[n]) ELSE g[i]]
  <2>6. Step(g[k], lines[n]) \in Scene /\ g \in [0..k -> Scene]
    BY <2>3, <2>5, <1>1, StepSays DEF Path
  <2>7. h \in [0..n -> Scene]
    BY <2>6, <2>3
  <2>8. \A i \in 1..n : h[i] = Step(h[i - 1], lines[i])
    <3> SUFFICES ASSUME NEW i \in 1..n PROVE h[i] = Step(h[i - 1], lines[i])
      OBVIOUS
    <3>1. h[i - 1] = g[i - 1]
      BY <2>3
    <3>2. CASE i = n
      BY <2>3, <3>1, <3>2
    <3>3. CASE i # n
      <4>1. i \in 1..k
        BY <2>3, <3>3
      <4> QED BY <2>3, <2>5, <3>1, <3>3, <4>1 DEF Path
    <3> QED BY <3>2, <3>3
  <2>9. h[0] = scene
    BY <2>3, <2>5 DEF Path
  <2>10. Path(h, lines, n)
    BY <2>7, <2>8, <2>9 DEF Path
  <2> QED BY <2>1, <2>10 DEF bad
<1> QED BY <1>1, <1>2

LEMMA AfterIsPath ==
  ASSUME scene \in Scene, NEW lines \in Seq(Line)
  PROVE  Path(After(lines), lines, Len(lines))
<1> DEFINE next(f, n) == IF n = 0 THEN scene ELSE Step(f[n - 1], lines[n])
<1>1. PICK g : Path(g, lines, Len(lines))
  BY PathExists
<1>2. g = [n \in 0..Len(lines) |-> next(g, n)]
  <2>1. \A n \in 0..Len(lines) : g[n] = next(g, n)
    BY <1>1 DEF Path
  <2> QED BY <1>1, <2>1 DEF Path
<1>3. After(lines) = [n \in 0..Len(lines) |-> next(After(lines), n)]
  BY <1>2, Zenon DEF After, Step
<1> HIDE DEF next
<1> DEFINE f == After(lines)
<1> HIDE DEF f
<1>4. f = [n \in 0..Len(lines) |-> next(f, n)]
  BY <1>3 DEF f
<1>5. f[0] = scene /\ \A i \in 1..Len(lines) : f[i] = Step(f[i - 1], lines[i])
  <2>1. \A n \in 0..Len(lines) : f[n] = next(f, n)
    BY <1>4
  <2> QED BY <2>1 DEF next
<1>6. \A n \in 0..Len(lines) : f[n] \in Scene
  <2> DEFINE bad == {n \in 0..Len(lines) : f[n] \notin Scene}
  <2>1. ASSUME bad # {} PROVE FALSE
    <3>0. bad \in SUBSET Nat
      OBVIOUS
    <3> HIDE DEF bad
    <3>1. PICK n \in bad : \A k \in bad : n <= k
      BY <2>1, <3>0, LeastOf
    <3> USE DEF bad
    <3>2. n # 0
      BY <1>5
    <3>3. n - 1 \in 0..Len(lines) /\ n - 1 \notin bad /\ n \in 1..Len(lines)
      BY <3>1, <3>2
    <3>4. f[n - 1] \in Scene /\ lines[n] \in Line
      BY <3>3
    <3>5. f[n] \in Scene
      BY <3>3, <3>4, <1>5, StepSays
    <3> QED BY <3>1, <3>5
  <2> QED BY <2>1
<1>7. f \in [0..Len(lines) -> Scene]
  BY <1>4, <1>6
<1> QED BY <1>5, <1>7 DEF Path, f

LEMMA DrainedIsAfter ==
  ASSUME NEW lines, Drained(lines)
  PROVE  scene' = After(lines)[Len(lines)]
BY Zenon DEF Drained, After

Joins(line) == line.type \in {"hosting", "welcome"}

-----------------------------------------------------------------------------
(* What a frame makes of the scene, one line after the other.              *)

(* What a scene is after n lines, when it became f of n.                   *)
Reads(f, lines, n) ==
  /\ f[n].session # 0 =>
       /\ InSession(f[n])
       /\ \/ f[n].session = scene.session
          \/ \E i \in 1..n : Joins(lines[i]) /\ f[n].session = lines[i].session
  /\ f[n].hosting => scene.hosting \/ \E i \in 1..n : lines[i].type = "hosting"
  /\ \/ /\ \A i \in 1..n : lines[i].type \notin Decides
        /\ f[n].hosting = scene.hosting /\ f[n].joined = scene.joined
     \/ \E k \in 1..n :
          /\ lines[k].type \in Decides
          /\ \A j \in 1..n : j > k => lines[j].type \notin Decides
          /\ Mode(f[n]) = ModeOf(lines[k].type)

(* Lines a scene is not surprised by: a welcome is for one that does not   *)
(* host.                                                                   *)
Expected(lines) ==
  /\ scene \in Scene /\ lines \in Seq(Line)
  /\ scene.session # 0 => InSession(scene)
  /\ Among({"welcome"}, lines) => ~scene.hosting /\ ~Among({"hosting"}, lines)

LEMMA ReadsOn ==
  ASSUME NEW lines, Expected(lines), NEW f, Path(f, lines, Len(lines)),
         NEW n \in 0..Len(lines) - 1, Reads(f, lines, n)
  PROVE  Reads(f, lines, n + 1)
<1> DEFINE m == n + 1
           l == lines[m]
<1>0. /\ Len(lines) \in Nat /\ n \in Nat /\ m \in 1..Len(lines) /\ l \in Line /\ f[n] \in Scene
      /\ f[m] = Step(f[n], l) /\ f[m] \in Scene /\ \A i \in 1..n : i \in 1..m
      /\ \A i \in 1..m : i = m \/ i \in 1..n
      /\ n < m /\ n \in 0..Len(lines)
  <2>1. Len(lines) \in Nat /\ n \in Nat /\ m \in 1..Len(lines) /\ n \in 0..Len(lines)
    BY DEF Expected
  <2>2. l \in Line
    BY <2>1 DEF Expected
  <2>3. f \in [0..Len(lines) -> Scene] /\ f[m] = Step(f[m - 1], l) /\ m - 1 = n
    BY <2>1 DEF Path
  <2> QED BY <2>1, <2>2, <2>3
<1> HIDE DEF m, l
<1>1. CASE l.type \notin Decides
  <2>1. /\ f[m].hosting = f[n].hosting /\ f[m].joined = f[n].joined
        /\ f[m].session = f[n].session /\ ~Joins(l)
    BY <1>0, <1>1, StepSays DEF Decides, Answers, Joins
  <2>2. Mode(f[m]) = Mode(f[n]) /\ InSession(f[m]) = InSession(f[n])
    BY <2>1 DEF Mode, InSession
  <2>3. f[m].session # 0 =>
          /\ InSession(f[m])
          /\ \/ f[m].session = scene.session
             \/ \E i \in 1..m : Joins(lines[i]) /\ f[m].session = lines[i].session
    BY <1>0, <2>1, <2>2 DEF Reads
  <2>4. f[m].hosting => scene.hosting \/ \E i \in 1..m : lines[i].type = "hosting"
    BY <1>0, <2>1 DEF Reads
  <2>5. \/ /\ \A i \in 1..m : lines[i].type \notin Decides
           /\ f[m].hosting = scene.hosting /\ f[m].joined = scene.joined
        \/ \E k \in 1..m :
             /\ lines[k].type \in Decides
             /\ \A j \in 1..m : j > k => lines[j].type \notin Decides
             /\ Mode(f[m]) = ModeOf(lines[k].type)
    <3>1. CASE \A i \in 1..n : lines[i].type \notin Decides
      <4>1. f[n].hosting = scene.hosting /\ f[n].joined = scene.joined
        BY <3>1 DEF Reads
      <4> QED BY <1>0, <1>1, <2>1, <3>1, <4>1 DEF l
    <3>2. CASE \E i \in 1..n : lines[i].type \in Decides
      <4>1. PICK k \in 1..n :
              /\ lines[k].type \in Decides
              /\ \A j \in 1..n : j > k => lines[j].type \notin Decides
              /\ Mode(f[n]) = ModeOf(lines[k].type)
        BY <3>2 DEF Reads
      <4>2. \A j \in 1..m : j > k => lines[j].type \notin Decides
        BY <4>1, <1>0, <1>1 DEF l
      <4> QED BY <4>1, <4>2, <1>0, <2>2
    <3> QED BY <3>1, <3>2
  <2> QED BY <2>3, <2>4, <2>5 DEF Reads, m
<1>2. CASE l.type \in Decides
  <2>1. Mode(f[m]) = ModeOf(l.type)
    <3>1. CASE l.type = "hosting"
      BY <1>0, <3>1, StepSays DEF Mode, ModeOf
    <3>2. CASE l.type = "welcome"
      <4>1. Among({"welcome"}, lines) /\ m \in DOMAIN lines
        BY <1>0, <3>2 DEF Among, l, Expected
      <4>2. ~f[n].hosting
        <5>1. \A i \in 1..n : lines[i].type # "hosting"
          BY <1>0, <4>1 DEF Expected, Among
        <5> QED BY <4>1, <5>1 DEF Expected, Reads
      <4>3. ~f[m].hosting /\ f[m].joined
        BY <1>0, <3>2, <4>2, StepSays
      <4> QED BY <3>2, <4>3 DEF Mode, ModeOf
    <3>3. CASE l.type \in {"disconnected", "error"}
      BY <1>0, <3>3, StepSays DEF Mode, ModeOf
    <3> QED BY <1>2, <3>1, <3>2, <3>3 DEF Decides, Answers
  <2>2. f[m].session # 0 => InSession(f[m]) /\ Joins(l) /\ f[m].session = l.session
    <3>1. CASE Joins(l)
      <4>1. f[m].session = l.session
        BY <1>0, <3>1, StepSays DEF Joins
      <4>2. InSession(f[m])
        BY <2>1, <3>1 DEF InSession, ModeOf, Joins
      <4> QED BY <3>1, <4>1, <4>2
    <3>2. CASE ~Joins(l)
      <4>1. f[m].session = 0
        BY <1>0, <1>2, <3>2, StepSays DEF Joins, Decides, Answers
      <4> QED BY <4>1
    <3> QED BY <3>1, <3>2
  <2>3. f[m].hosting => scene.hosting \/ \E i \in 1..m : lines[i].type = "hosting"
    <3>1. CASE l.type = "hosting"
      BY <1>0, <3>1 DEF l
    <3>2. CASE l.type # "hosting"
      <4>1. f[m].hosting => f[n].hosting
        BY <1>0, <1>2, <3>2, StepSays DEF Decides, Answers
      <4> QED BY <4>1, <1>0 DEF Reads
    <3> QED BY <3>1, <3>2
  <2>4. m \in 1..m /\ \A j \in 1..m : ~(j > m)
    BY <1>0
  <2>5. \E k \in 1..m :
             /\ lines[k].type \in Decides
             /\ \A j \in 1..m : j > k => lines[j].type \notin Decides
             /\ Mode(f[m]) = ModeOf(lines[k].type)
    BY <1>2, <2>1, <2>4 DEF l
  <2>6. f[m].session # 0 =>
          /\ InSession(f[m])
          /\ \E i \in 1..m : Joins(lines[i]) /\ f[m].session = lines[i].session
    BY <2>2, <2>4 DEF l
  <2> QED BY <2>3, <2>5, <2>6 DEF Reads, m
<1> QED BY <1>1, <1>2

LEMMA ReadsAll ==
  ASSUME NEW lines, Expected(lines), NEW f, Path(f, lines, Len(lines))
  PROVE  Reads(f, lines, Len(lines))
<1> DEFINE bad == {n \in 0..Len(lines) : ~Reads(f, lines, n)}
<1>0. bad \in SUBSET Nat /\ Len(lines) \in Nat
  BY DEF Expected
<1>1. Reads(f, lines, 0)
  BY DEF Reads, Path, Expected
<1>2. ASSUME bad # {} PROVE FALSE
  <2> HIDE DEF bad
  <2>1. PICK n \in bad : \A k \in bad : n <= k
    BY <1>0, <1>2, LeastOf
  <2> USE DEF bad
  <2>2. PICK k \in 0..Len(lines) - 1 : n = k + 1
    <3>1. n # 0 /\ n \in 0..Len(lines)
      BY <1>1
    <3>2. n - 1 \in 0..Len(lines) - 1 /\ n = (n - 1) + 1
      BY <3>1, <1>0
    <3> QED BY <3>2
  <2>3. k \notin bad /\ k \in 0..Len(lines)
    BY <2>1, <2>2, <1>0
  <2>4. Reads(f, lines, k)
    BY <2>3
  <2>5. Reads(f, lines, n)
    BY <2>2, <2>4, ReadsOn
  <2> QED BY <2>1, <2>5
<1> QED BY <1>0, <1>2

(* What a frame makes of the scene.                                        *)
LEMMA DrainedSays ==
  ASSUME NEW lines, Expected(lines), Drained(lines)
  PROVE  /\ scene' \in Scene
         /\ scene'.session # 0 =>
              /\ InSession(scene')
              /\ \/ scene'.session = scene.session
                 \/ \E i \in 1..Len(lines) :
                      Joins(lines[i]) /\ scene'.session = lines[i].session
         /\ scene'.hosting => scene.hosting \/ Among({"hosting"}, lines)
         /\ \A m : HeardAs(scene, lines, m) => Mode(scene') = m
<1> DEFINE f == After(lines)
           n == Len(lines)
<1>1. Path(f, lines, n) /\ scene' = f[n] /\ n \in Nat /\ DOMAIN lines = 1..n
  BY AfterIsPath, DrainedIsAfter DEF Expected
<1>2. Reads(f, lines, n)
  BY <1>1, ReadsAll
<1> HIDE DEF f, n
<1>3. scene' \in Scene
  BY <1>1 DEF Path
<1>4. scene'.hosting => scene.hosting \/ Among({"hosting"}, lines)
  BY <1>1, <1>2 DEF Reads, Among
<1>5. ASSUME NEW m, HeardAs(scene, lines, m) PROVE Mode(scene') = m
  <2>1. CASE \A i \in 1..n : lines[i].type \notin Decides
    <3>1. Mode(scene') = Mode(scene)
      BY <1>1, <1>2, <2>1 DEF Reads, Mode
    <3> QED BY <1>1, <1>5, <2>1, <3>1 DEF HeardAs, Among
  <2>2. CASE \E i \in 1..n : lines[i].type \in Decides
    <3>1. PICK k \in 1..n :
          /\ lines[k].type \in Decides
          /\ \A j \in 1..n : j > k => lines[j].type \notin Decides
          /\ Mode(f[n]) = ModeOf(lines[k].type)
      BY <1>2, <2>2 DEF Reads
    <3> QED BY <1>1, <1>5, <3>1 DEF HeardAs
  <2> QED BY <2>1, <2>2
<1> QED BY <1>1, <1>2, <1>3, <1>4, <1>5 DEF Reads, n

-----------------------------------------------------------------------------
(* What a queue promises of its order.                                     *)

(* After a host or a connect nothing is queued that reconfigures, before it *)
(* only closes.                                                             *)
SoleStart(q) ==
  \A i, j \in DOMAIN q :
    q[i].type \in Starts /\ q[j].type \in Reconfigures /\ j # i
      => j < i /\ q[j].type = "close"

SoleAnswer(q) ==
  \A i, j \in DOMAIN q : q[i].type \in Answers /\ q[j].type \in Answers => i = j

(* A session that ends ends after it was answered.                         *)
EndsLast(q) ==
  \A i, j \in DOMAIN q : q[i].type \in Answers /\ q[j].type = "disconnected" => i < j

Is(s, id) == s = NoSession \/ s.id = id

Announces(q, s) == \A i \in DOMAIN q : Joins(q[i]) => Is(s, q[i].session)

Personal(command) == command.type \in Kinds /\ command.session # 0

(* What was said in a session is for the one that runs, and is said before *)
(* the next is asked for.                                                  *)
Addressed(q, s) ==
  \A i \in DOMAIN q : Personal(q[i]) =>
    /\ Is(s, q[i].session)
    /\ \A j \in DOMAIN q : q[j].type \in Starts => j > i

Impersonal(q) == \A i \in DOMAIN q : ~Personal(q[i])

LEMMA CommandQueued ==
  ASSUME NEW S, NEW q \in Seq(S), NEW x \in S
  PROVE  /\ SoleStart(q) /\ (x.type \in Reconfigures => ~Among(Starts, q))
              => SoleStart(Append(q, x))
         /\ \A s : /\ Addressed(q, s)
                   /\ Personal(x) => Is(s, x.session) /\ ~Among(Starts, q)
              => Addressed(Append(q, x), s)
         /\ Impersonal(q) /\ ~Personal(x) => Impersonal(Append(q, x))
<1> DEFINE p == Append(q, x)
           n == Len(q) + 1
<1>0. /\ Len(q) \in Nat /\ DOMAIN q = 1..Len(q) /\ DOMAIN p = 1..n
      /\ \A i \in 1..Len(q) : p[i] = q[i] /\ i < n /\ i \in 1..n
      /\ \A i \in 1..n : i = n \/ i \in 1..Len(q)
      /\ p[n] = x /\ n \in 1..n
  BY AppendAt
<1> HIDE DEF p, n
<1>1. ASSUME SoleStart(q), x.type \in Reconfigures => ~Among(Starts, q) PROVE SoleStart(p)
  <2>0. \A i \in 1..Len(q) : x.type \in Reconfigures => q[i].type \notin Starts
    BY <1>0, <1>1 DEF Among
  <2>1. ASSUME NEW i \in 1..n, NEW j \in 1..n, p[i].type \in Starts,
               p[j].type \in Reconfigures, j # i
        PROVE  j < i /\ p[j].type = "close"
    <3>1. CASE i = n
      <4>1. x.type \in Reconfigures /\ j \in 1..Len(q) /\ j < n
        BY <1>0, <2>1, <3>1 DEF Starts, Reconfigures
      <4>2. q[j].type \notin Starts
        BY <2>0, <4>1
      <4> QED BY <1>0, <2>1, <3>1, <4>1, <4>2 DEF Starts, Reconfigures
    <3>2. CASE i # n
      <4>1. i \in 1..Len(q)
        BY <1>0, <3>2
      <4>2. j # n
        BY <1>0, <2>0, <2>1, <4>1
      <4> QED BY <1>0, <1>1, <2>1, <4>1, <4>2 DEF SoleStart
    <3> QED BY <3>1, <3>2
  <2> QED BY <1>0, <2>1 DEF SoleStart
<1>2. ASSUME NEW s, Addressed(q, s), Personal(x) => Is(s, x.session) /\ ~Among(Starts, q)
      PROVE  Addressed(p, s)
  <2>1. ASSUME NEW i \in 1..n, Personal(p[i]) PROVE Is(s, p[i].session)
    BY <1>0, <1>2, <2>1 DEF Addressed
  <2>2. ASSUME NEW i \in 1..n, Personal(p[i]), NEW j \in 1..n, p[j].type \in Starts
        PROVE  j > i
    <3>1. CASE i = n
      <4>1. Personal(x) /\ x.type \notin Starts
        BY <1>0, <2>2, <3>1 DEF Personal, Kinds, Starts
      <4>2. j \in 1..Len(q) /\ q[j].type \in Starts
        BY <1>0, <2>2, <4>1
      <4> QED BY <1>0, <1>2, <4>1, <4>2 DEF Among
    <3>2. CASE i # n
      <4>1. i \in 1..Len(q)
        BY <1>0, <3>2
      <4> QED BY <1>0, <1>2, <2>2, <4>1 DEF Addressed
    <3> QED BY <3>1, <3>2
  <2> QED BY <1>0, <2>1, <2>2 DEF Addressed
<1>3. ASSUME Impersonal(q), ~Personal(x) PROVE Impersonal(p)
  BY <1>0, <1>3 DEF Impersonal
<1> QED BY <1>1, <1>2, <1>3 DEF p

LEMMA CommandTaken ==
  ASSUME NEW S, NEW q \in Seq(S), q # <<>>
  PROVE  /\ SoleStart(q) => SoleStart(Tail(q))
         /\ \A s : Addressed(q, s) => Addressed(Tail(q), s)
         /\ Impersonal(q) => Impersonal(Tail(q))
         /\ SoleStart(q) /\ Head(q).type \in Starts => ~Among(Reconfigures, Tail(q))
         /\ \A s : Addressed(q, s) /\ Head(q).type \in Starts => Impersonal(Tail(q))
         /\ \A s : Addressed(q, s) /\ Personal(Head(q)) => Is(s, Head(q).session)
<1> DEFINE p == Tail(q)
           n == Len(q) - 1
<1>0. /\ n \in Nat /\ DOMAIN q = 1..n + 1 /\ DOMAIN p = 1..n
      /\ \A i \in 1..n : p[i] = q[i + 1] /\ i + 1 \in 1..n + 1 /\ i + 1 # 1 /\ ~(i + 1 < 1)
      /\ \A i, j \in 1..n : (i + 1 < j + 1 <=> i < j) /\ (i = j <=> i + 1 = j + 1)
      /\ Head(q) = q[1] /\ 1 \in 1..n + 1
      /\ \A i \in 1..n : ~(1 > i + 1)
  BY TailAt
<1> HIDE DEF p, n
<1>1. ASSUME SoleStart(q) PROVE SoleStart(p)
  <2>1. ASSUME NEW i \in 1..n, NEW j \in 1..n, p[i].type \in Starts,
               p[j].type \in Reconfigures, j # i
        PROVE  j < i /\ p[j].type = "close"
    <3>0. /\ i + 1 \in DOMAIN q /\ j + 1 \in DOMAIN q /\ j + 1 # i + 1
          /\ q[i + 1].type \in Starts /\ q[j + 1].type \in Reconfigures
      BY <1>0, <2>1
    <3>1. j + 1 < i + 1 /\ q[j + 1].type = "close"
      BY <1>1, <3>0 DEF SoleStart
    <3> QED BY <1>0, <3>1
  <2> QED BY <1>0, <2>1 DEF SoleStart
<1>2. ASSUME NEW s, Addressed(q, s) PROVE Addressed(p, s)
  <2>1. ASSUME NEW i \in 1..n, Personal(p[i])
        PROVE  /\ Is(s, p[i].session)
               /\ \A j \in 1..n : p[j].type \in Starts => j > i
    <3>1. Personal(q[i + 1]) /\ i + 1 \in DOMAIN q
      BY <1>0, <2>1
    <3>2. Is(s, q[i + 1].session)
      BY <1>2, <3>1 DEF Addressed
    <3>3. ASSUME NEW j \in 1..n, p[j].type \in Starts PROVE j > i
      <4>1. j + 1 > i + 1
        BY <1>0, <1>2, <3>1, <3>3 DEF Addressed
      <4> QED BY <1>0, <4>1
    <3> QED BY <1>0, <3>2, <3>3
  <2> QED BY <1>0, <2>1 DEF Addressed
<1>3. ASSUME Impersonal(q) PROVE Impersonal(p)
  BY <1>0, <1>3 DEF Impersonal
<1>4. ASSUME SoleStart(q), Head(q).type \in Starts PROVE ~Among(Reconfigures, p)
  <2>1. ASSUME NEW i \in 1..n, p[i].type \in Reconfigures PROVE FALSE
    <3>1. q[1].type \in Starts /\ q[i + 1].type \in Reconfigures /\ i + 1 # 1
      BY <1>0, <1>4, <2>1
    <3>2. i + 1 < 1
      BY <1>0, <1>4, <3>1 DEF SoleStart
    <3> QED BY <1>0, <3>2
  <2> QED BY <1>0, <2>1 DEF Among
<1>5. ASSUME NEW s, Addressed(q, s), Head(q).type \in Starts PROVE Impersonal(p)
  <2>1. ASSUME NEW i \in 1..n, Personal(p[i]) PROVE FALSE
    <3>1. Personal(q[i + 1]) /\ q[1].type \in Starts
      BY <1>0, <1>5, <2>1
    <3>2. 1 > i + 1
      BY <1>0, <1>5, <3>1 DEF Addressed
    <3> QED BY <1>0, <3>2
  <2> QED BY <1>0, <2>1 DEF Impersonal
<1>6. ASSUME NEW s, Addressed(q, s), Personal(Head(q)) PROVE Is(s, Head(q).session)
  BY <1>0, <1>6 DEF Addressed
<1> QED BY <1>1, <1>2, <1>3, <1>4, <1>5, <1>6 DEF p

LEMMA LineSent ==
  ASSUME NEW S, NEW q \in Seq(S), NEW x \in S
  PROVE  /\ SoleAnswer(q) /\ (x.type \in Answers => ~Among(Answers, q))
              => SoleAnswer(Append(q, x))
         /\ EndsLast(q) /\ (x.type \in Answers => ~Among({"disconnected"}, q))
              => EndsLast(Append(q, x))
         /\ \A s : Announces(q, s) /\ (Joins(x) => Is(s, x.session))
              => Announces(Append(q, x), s)
<1> DEFINE p == Append(q, x)
           n == Len(q) + 1
<1>0. /\ Len(q) \in Nat /\ DOMAIN q = 1..Len(q) /\ DOMAIN p = 1..n
      /\ \A i \in 1..Len(q) : p[i] = q[i] /\ i < n /\ i \in 1..n
      /\ \A i \in 1..n : i = n \/ i \in 1..Len(q)
      /\ p[n] = x /\ n \in 1..n
  BY AppendAt
<1> HIDE DEF p, n
<1>1. ASSUME SoleAnswer(q), x.type \in Answers => ~Among(Answers, q) PROVE SoleAnswer(p)
  BY <1>0, <1>1 DEF SoleAnswer, Among
<1>2. ASSUME EndsLast(q), x.type \in Answers => ~Among({"disconnected"}, q) PROVE EndsLast(p)
  <2>1. "disconnected" \notin Answers
    BY DEF Answers
  <2> QED BY <1>0, <1>2, <2>1 DEF EndsLast, Among
<1>3. ASSUME NEW s, Announces(q, s), Joins(x) => Is(s, x.session) PROVE Announces(p, s)
  BY <1>0, <1>3 DEF Announces
<1> QED BY <1>1, <1>2, <1>3 DEF p

LEMMA Shifted ==
  ASSUME NEW n \in Nat, NEW k \in Nat
  PROVE  /\ \A i \in 1..n, j \in 1..k : i < n + j /\ i # n + j /\ ~(n + j < i)
         /\ \A i, j \in 1..k : (n + i < n + j <=> i < j) /\ (n + i = n + j <=> i = j)
         /\ \A i \in 1..n + k : i \in 1..n \/ (i - n \in 1..k /\ i = n + (i - n))
<1>1. ASSUME NEW i \in 1..n, NEW j \in 1..k PROVE i < n + j /\ i # n + j /\ ~(n + j < i)
  OBVIOUS
<1>2. ASSUME NEW i \in 1..k, NEW j \in 1..k
      PROVE  (n + i < n + j <=> i < j) /\ (n + i = n + j <=> i = j)
  OBVIOUS
<1>3. ASSUME NEW i \in 1..n + k PROVE i \in 1..n \/ (i - n \in 1..k /\ i = n + (i - n))
  OBVIOUS
<1> QED BY <1>1, <1>2, <1>3

(* The lines read and those that still wait.                               *)
Cut(q, n, read, rest) == read = SubSeq(q, 1, n) /\ rest = SubSeq(q, n + 1, Len(q))

LEMMA LinesRead ==
  ASSUME NEW S, NEW q \in Seq(S), NEW n \in 1..Len(q),
         NEW read, NEW rest, Cut(q, n, read, rest)
  PROVE  /\ read \in Seq(S) /\ rest \in Seq(S) /\ Len(read) = n
         /\ \A types : Among(types, q) <=> Among(types, read) \/ Among(types, rest)
         /\ SoleAnswer(q) =>
              /\ SoleAnswer(read) /\ SoleAnswer(rest)
              /\ ~(Among(Answers, read) /\ Among(Answers, rest))
         /\ EndsLast(q) => EndsLast(read) /\ EndsLast(rest)
         /\ \A s : Announces(q, s) => Announces(read, s) /\ Announces(rest, s)
         /\ \A s, m : HeardAs(s, q, m) /\ ~Among(Decides, rest) => HeardAs(s, read, m)
         /\ \A s, t, m : HeardAs(s, q, m) /\ (~Among(Decides, rest) => Mode(t) = m)
              => HeardAs(t, rest, m)
<1> DEFINE k == Len(q) - n
<1>w. n \in Nat /\ k \in Nat /\ Len(q) = n + k /\ DOMAIN q = 1..Len(q)
  OBVIOUS
<1>0. /\ Len(q) \in Nat /\ n \in Nat /\ k \in Nat /\ DOMAIN q = 1..Len(q) /\ n <= Len(q)
      /\ read \in Seq(S) /\ rest \in Seq(S) /\ Len(read) = n
      /\ DOMAIN read = 1..n /\ DOMAIN rest = 1..k
      /\ \A i \in 1..n : read[i] = q[i] /\ i \in 1..Len(q)
      /\ \A i \in 1..k : rest[i] = q[n + i] /\ n + i \in 1..Len(q) /\ ~(n + i \in 1..n)
      /\ \A i \in 1..n, j \in 1..k : i < n + j /\ i # n + j
      /\ \A i, j \in 1..k : (n + i < n + j <=> i < j) /\ (n + i = n + j <=> i = j)
      /\ \A i \in 1..Len(q) : i \in 1..n \/ (i - n \in 1..k /\ i = n + (i - n))
  BY DEF Cut
<1> HIDE DEF k
<1>r. \A i \in 1..n : i \in DOMAIN q /\ i \in DOMAIN read /\ read[i] = q[i]
  BY <1>0
<1>s. \A i \in 1..k : n + i \in DOMAIN q /\ i \in DOMAIN rest /\ rest[i] = q[n + i]
  BY <1>0
<1>t. ASSUME NEW i \in DOMAIN q PROVE i \in 1..n \/ \E j \in 1..k : i = n + j
  <2>1. i \in 1..n + k
    BY <1>w
  <2>2. i \in 1..n \/ (i - n \in 1..k /\ i = n + (i - n))
    BY <1>w, <2>1, Shifted, Zenon
  <2> QED BY <2>2, Zenon
<1>u. DOMAIN read = 1..n /\ DOMAIN rest = 1..k
  BY <1>0
<1>v. /\ \A i \in 1..n, j \in 1..k : i < n + j /\ i # n + j /\ ~(n + j < i)
      /\ \A i, j \in 1..k : (n + i < n + j <=> i < j) /\ (n + i = n + j <=> i = j)
  BY <1>w, Shifted, Zenon
<1>1. ASSUME NEW types PROVE Among(types, q) <=> Among(types, read) \/ Among(types, rest)
  <2>1. ASSUME NEW i \in DOMAIN q, q[i].type \in types
        PROVE  Among(types, read) \/ Among(types, rest)
    <3>1. CASE i \in 1..n
      BY <2>1, <3>1, <1>r DEF Among
    <3>2. ASSUME NEW j \in 1..k, i = n + j PROVE Among(types, rest)
      BY <2>1, <3>2, <1>s DEF Among
    <3> QED BY <3>1, <3>2, <1>t
  <2>2. ASSUME NEW i \in 1..n, read[i].type \in types PROVE Among(types, q)
    BY <2>2, <1>r DEF Among
  <2>3. ASSUME NEW i \in 1..k, rest[i].type \in types PROVE Among(types, q)
    <3>1. n + i \in DOMAIN q /\ q[n + i].type \in types
      BY <2>3, <1>s
    <3> QED BY <3>1 DEF Among
  <2> QED BY <2>1, <2>2, <2>3, <1>u DEF Among
<1>2. ASSUME SoleAnswer(q)
      PROVE  /\ SoleAnswer(read) /\ SoleAnswer(rest)
             /\ ~(Among(Answers, read) /\ Among(Answers, rest))
  <2>1. SoleAnswer(read)
    BY <1>2, <1>r, <1>u DEF SoleAnswer
  <2>2. ASSUME NEW i \in 1..k, NEW j \in 1..k, rest[i].type \in Answers, rest[j].type \in Answers
        PROVE  i = j
    <3>1. /\ n + i \in DOMAIN q /\ q[n + i].type \in Answers
          /\ n + j \in DOMAIN q /\ q[n + j].type \in Answers
      BY <2>2, <1>s
    <3>2. n + i = n + j
      BY <1>2, <3>1 DEF SoleAnswer
    <3> QED BY <3>2, <1>v
  <2>3. ASSUME NEW i \in 1..n, NEW j \in 1..k, read[i].type \in Answers, rest[j].type \in Answers
        PROVE  FALSE
    <3>1. /\ i \in DOMAIN q /\ q[i].type \in Answers
          /\ n + j \in DOMAIN q /\ q[n + j].type \in Answers
      BY <2>3, <1>r, <1>s
    <3>2. i = n + j
      BY <1>2, <3>1 DEF SoleAnswer
    <3> QED BY <3>2, <1>v
  <2>4. SoleAnswer(rest)
    BY <2>2, <1>u DEF SoleAnswer
  <2>5. ~(Among(Answers, read) /\ Among(Answers, rest))
    BY <2>3, <1>u DEF Among
  <2> QED BY <2>1, <2>4, <2>5
<1>3. ASSUME EndsLast(q) PROVE EndsLast(read) /\ EndsLast(rest)
  <2>1. EndsLast(read)
    BY <1>3, <1>r, <1>u DEF EndsLast
  <2>2. ASSUME NEW i \in 1..k, NEW j \in 1..k,
               rest[i].type \in Answers, rest[j].type = "disconnected"
        PROVE  i < j
    <3>1. /\ n + i \in DOMAIN q /\ q[n + i].type \in Answers
          /\ n + j \in DOMAIN q /\ q[n + j].type = "disconnected"
      BY <2>2, <1>s
    <3>2. n + i < n + j
      BY <1>3, <3>1 DEF EndsLast
    <3> QED BY <3>2, <1>v
  <2> QED BY <2>1, <2>2, <1>u DEF EndsLast
<1>4. ASSUME NEW s, Announces(q, s) PROVE Announces(read, s) /\ Announces(rest, s)
  <2>1. ASSUME NEW i \in 1..k, Joins(rest[i]) PROVE Is(s, rest[i].session)
    <3>1. n + i \in DOMAIN q /\ rest[i] = q[n + i]
      BY <1>s
    <3> QED BY <2>1, <3>1, <1>4 DEF Announces
  <2> QED BY <2>1, <1>4, <1>r, <1>u DEF Announces
<1>5. ASSUME NEW s, NEW m, HeardAs(s, q, m), ~Among(Decides, rest) PROVE HeardAs(s, read, m)
  <2>1. \A j \in 1..k : rest[j].type \notin Decides
    BY <1>u, <1>5 DEF Among
  <2>2. ASSUME NEW i \in 1..n, read[i].type \in Decides,
               \A j \in 1..n : j > i => read[j].type \notin Decides
        PROVE  ModeOf(read[i].type) = m
    <3>1. ASSUME NEW j \in DOMAIN q, j > i PROVE q[j].type \notin Decides
      <4>1. CASE j \in 1..n
        BY <2>2, <3>1, <4>1, <1>r
      <4>2. ASSUME NEW l \in 1..k, j = n + l PROVE q[j].type \notin Decides
        BY <2>1, <4>2, <1>s
      <4> QED BY <4>1, <4>2, <1>t
    <3>2. i \in DOMAIN q /\ q[i] = read[i]
      BY <1>r
    <3> QED BY <1>5, <2>2, <3>1, <3>2 DEF HeardAs
  <2>3. ~Among(Decides, read) => Mode(s) = m
    BY <1>1, <1>5 DEF HeardAs
  <2> QED BY <1>u, <2>2, <2>3 DEF HeardAs
<1>6. ASSUME NEW s, NEW t, NEW m, HeardAs(s, q, m), ~Among(Decides, rest) => Mode(t) = m
      PROVE  HeardAs(t, rest, m)
  <2>2. ASSUME NEW i \in 1..k, rest[i].type \in Decides,
               \A j \in 1..k : j > i => rest[j].type \notin Decides
        PROVE  ModeOf(rest[i].type) = m
    <3>0. n + i \in DOMAIN q /\ q[n + i] = rest[i]
      BY <1>s
    <3>1. ASSUME NEW j \in DOMAIN q, j > n + i PROVE q[j].type \notin Decides
      <4>1. j \notin 1..n
        <5>1. ASSUME j \in 1..n PROVE FALSE
          <6>1. j < n + i
            BY <5>1, <1>v
          <6>2. n + i \in Int /\ j \in Int
            BY <1>w, <5>1
          <6> QED BY <3>1, <6>1, <6>2
        <5> QED BY <5>1
      <4>2. PICK l \in 1..k : j = n + l
        BY <1>t, <4>1
      <4>3. l > i
        BY <3>1, <4>2, <1>0
      <4>4. rest[l].type \notin Decides
        BY <2>2, <4>3
      <4> QED BY <4>2, <4>4, <1>s
    <3> QED BY <1>6, <2>2, <3>0, <3>1 DEF HeardAs
  <2> QED BY <1>u, <1>6, <2>2 DEF HeardAs
<1> QED BY <1>0, <1>1, <1>2, <1>3, <1>4, <1>5, <1>6

-----------------------------------------------------------------------------
(* The types.                                                              *)

(* TypeOK, with numbers of sessions up to those made.                      *)
Shapes ==
  /\ port \in Ports /\ scene \in Scene /\ asked \in BOOLEAN
  /\ cmds \in Seq(Command) /\ evs \in Seq(Line) /\ queue \in Seq(Event)
  /\ dialing \in {"none", "host", "join"} /\ readers \in 0..2
  /\ made \in Nat /\ made <= MaxSessions
  /\ live \in [kind : {"host", "client"}, id : 1..made] \cup {NoSession}
  /\ lost \in BOOLEAN /\ astray \in BOOLEAN
  /\ up \in {"running", "quitting", "over"}

LineOf(type, id, streams) == [type |-> type, session |-> id, streams |-> streams]

LEMMA LinesFit ==
  ASSUME NEW type \in LineTypes, NEW id \in Nat, NEW streams \in Streams
  PROVE  LineOf(type, id, streams) \in Line
BY DEF LineOf, Line

LEMMA EventsFit ==
  ASSUME NEW type \in EventTypes, NEW id \in Nat, NEW streams \in Streams
  PROVE  LineOf(type, id, streams) \in Event
BY DEF LineOf, Event

LEMMA CommandsFit ==
  ASSUME scene \in Scene, NEW type \in Reconfigures \cup SwarmVerbs \cup Kinds
  PROVE  [type |-> type, session |-> scene.session] \in Command
BY DEF Scene, Command

LEMMA ToldLine ==
  ASSUME NEW e \in Event
  PROVE  /\ ToEvent(e) \in Line /\ EventJson(e) = ToEvent(e)
         /\ ToEvent(e).type \notin Answers /\ ~Joins(ToEvent(e))
         /\ ToEvent(e).type \in Decides <=> e.type = "Disconnected"
         /\ ToEvent(e).type = "disconnected" <=> e.type = "Disconnected"
<1> DEFINE types == [Session |-> "session", Roster |-> "roster", World |-> "world",
                     Disconnected |-> "disconnected"]
<1>1. /\ types["Session"] = "session" /\ types["Roster"] = "roster"
      /\ types["World"] = "world" /\ types["Disconnected"] = "disconnected"
  OBVIOUS
<1>2. ToEvent(e) = [e EXCEPT !.type = types[e.type]]
  BY DEF ToEvent
<1> HIDE DEF types
<1>3. e.type \in EventTypes /\ e = [type |-> e.type, session |-> e.session, streams |-> e.streams]
      /\ e.session \in Nat /\ e.streams \in Streams
  BY DEF Event
<1>4. ToEvent(e).type = types[e.type] /\ ToEvent(e) = LineOf(types[e.type], e.session, e.streams)
  BY <1>2, <1>3 DEF LineOf
<1>5. types[e.type] \in LineTypes
  BY <1>1, <1>3 DEF EventTypes, LineTypes
<1>6. ToEvent(e) \in Line
  BY <1>3, <1>4, <1>5, LinesFit
<1>7. EventJson(e) = ToEvent(e)
  BY <1>1, <1>2, <1>3 DEF EventJson, EventTypes
<1> QED BY <1>1, <1>3, <1>4, <1>6, <1>7 DEF EventTypes, Answers, Decides, Joins

LEMMA AloneFits == Alone \in Scene
BY DEF Alone, Scene, Streams

LEMMA AsksFit ==
  ASSUME NEW s \in Scene
  PROVE  /\ NetHost(s) \in Scene /\ NetJoin(s) \in Scene /\ NetLeave(s) \in Scene
         /\ CmdHost(s) \in Scene /\ CmdJoin(s) \in Scene /\ CmdLeave(s) \in Scene
BY DEF NetHost, NetJoin, NetLeave, CmdHost, CmdJoin, CmdLeave, NetReset, SessionOver,
       RestoreOwn, DiscardOwn, Scene, Streams

LEMMA DrainedFits ==
  ASSUME scene \in Scene, asked \in BOOLEAN, NEW lines \in Seq(Line), Drained(lines)
  PROVE  scene' \in Scene /\ asked' \in BOOLEAN
<1>1. scene' \in Scene
  <2>1. Path(After(lines), lines, Len(lines)) /\ scene' = After(lines)[Len(lines)]
    BY AfterIsPath, DrainedIsAfter
  <2>2. Len(lines) \in 0..Len(lines)
    OBVIOUS
  <2> QED BY <2>1, <2>2 DEF Path
<1>2. asked' \in BOOLEAN
  BY Zenon DEF Drained
<1> QED BY <1>1, <1>2

LEMMA OneEvent ==
  ASSUME queue \in Seq(Event), NEW type \in EventTypes, NEW id \in Nat, NEW st \in Streams,
         queue' = queue \o Lines(<<type>>, id, st)
  PROVE  queue' = Append(queue, LineOf(type, id, st)) /\ queue' \in Seq(Event)
<1>1. LineOf(type, id, st) \in Event
  BY EventsFit
<1>2. queue' = Append(queue, LineOf(type, id, st))
  BY <1>1, OneLine DEF LineOf
<1>3. Append(queue, LineOf(type, id, st)) \in Seq(Event)
  BY ONLY queue \in Seq(Event), <1>1, AppendAt
<1> QED BY <1>2, <1>3, Zenon

LEMMA OneSent ==
  ASSUME evs \in Seq(Line), NEW type \in LineTypes, NEW id \in Nat, NEW st \in Streams,
         evs' = evs \o Lines(<<type>>, id, st)
  PROVE  evs' = Append(evs, LineOf(type, id, st)) /\ evs' \in Seq(Line)
         /\ LineOf(type, id, st) \in Line
<1>1. LineOf(type, id, st) \in Line
  BY LinesFit
<1>2. evs' = Append(evs, LineOf(type, id, st))
  BY <1>1, OneLine DEF LineOf
<1>3. Append(evs, LineOf(type, id, st)) \in Seq(Line)
  BY ONLY evs \in Seq(Line), <1>1, AppendAt
<1> QED BY <1>1, <1>2, <1>3, Zenon

LEMMA TwoSent ==
  ASSUME evs \in Seq(Line), NEW a \in LineTypes, NEW b \in LineTypes, NEW id \in Nat,
         NEW st \in Streams, evs' = evs \o Lines(<<a, b>>, id, st)
  PROVE  /\ evs' = Append(Append(evs, LineOf(a, id, st)), LineOf(b, id, st))
         /\ evs' \in Seq(Line) /\ LineOf(a, id, st) \in Line /\ LineOf(b, id, st) \in Line
<1>1. LineOf(a, id, st) \in Line /\ LineOf(b, id, st) \in Line
  BY LinesFit
<1>2. evs' = Append(Append(evs, LineOf(a, id, st)), LineOf(b, id, st))
  BY <1>1, TwoLines DEF LineOf
<1>3. Append(Append(evs, LineOf(a, id, st)), LineOf(b, id, st)) \in Seq(Line)
  BY ONLY evs \in Seq(Line), <1>1, AppendAt
<1> QED BY <1>1, <1>2, <1>3, Zenon

LEMMA StartedFits ==
  ASSUME Shapes, NEW kind \in {"host", "client"}, NEW lines,
         lines = <<"welcome">> \/ lines = <<"hosting", "ticket">>,
         Started(kind, lines),
         UNCHANGED <<port, player, cmds, astray, up>>, dialing' = "none"
  PROVE  /\ Shapes' /\ live' = [kind |-> kind, id |-> made'] /\ lost' = FALSE
         /\ readers' = (IF kind = "client" THEN 2 ELSE 0)
         /\ ~Among({"Disconnected"}, queue')
         /\ lines = <<"welcome">> => evs' = Append(evs, LineOf("welcome", live'.id, "own"))
         /\ lines = <<"hosting", "ticket">> =>
              evs' = Append(Append(evs, LineOf("hosting", live'.id, "own")),
                            LineOf("ticket", live'.id, "own"))
<1> DEFINE id == made + 1
           st == IF kind = "host" THEN "own" ELSE "theirs"
<1>1. /\ made' = id /\ id \in Nat /\ id \in 1..id /\ id <= MaxSessions /\ MaxSessions \in Nat
      /\ live' = [kind |-> kind, id |-> id] /\ lost' = FALSE
      /\ readers' = (IF kind = "client" THEN 2 ELSE 0)
      /\ queue' = Lines(<<"Session", "Roster">>, id, st)
      /\ evs' = evs \o Lines(lines, id, "own")
  BY NetAssumption DEF Started, Shapes
<1>2. /\ queue' \in Seq(Event) /\ ~Among({"Disconnected"}, queue')
  <2>1. LineOf("Session", id, st) \in Event /\ LineOf("Roster", id, st) \in Event
    BY <1>1, EventsFit DEF EventTypes, Streams
  <2>2. queue' = <<LineOf("Session", id, st), LineOf("Roster", id, st)>>
    BY <1>1 DEF Lines, LineOf
  <2> HIDE DEF id, st
  <2>3. queue' \in Seq(Event)
    BY <2>1, <2>2
  <2>4. \A i \in DOMAIN queue' : queue'[i].type \in {"Session", "Roster"}
    BY <2>2 DEF LineOf
  <2> QED BY <2>3, <2>4 DEF Among
<1> HIDE DEF id, st
<1>3. /\ evs' \in Seq(Line)
      /\ lines = <<"welcome">> => evs' = Append(evs, LineOf("welcome", id, "own"))
      /\ lines = <<"hosting", "ticket">> =>
              evs' = Append(Append(evs, LineOf("hosting", id, "own")), LineOf("ticket", id, "own"))
  <2>1. evs \in Seq(Line) /\ "own" \in Streams /\ {"welcome", "hosting", "ticket"} \subseteq LineTypes
    BY DEF Shapes, Streams, LineTypes
  <2>2. CASE lines = <<"welcome">>
    <3>1. evs' = evs \o Lines(<<"welcome">>, id, "own")
      BY <1>1, <2>2
    <3> QED BY <1>1, <2>1, <3>1, <2>2, OneSent
  <2>3. CASE lines = <<"hosting", "ticket">>
    <3>1. evs' = evs \o Lines(<<"hosting", "ticket">>, id, "own")
      BY <1>1, <2>3
    <3> QED BY <1>1, <2>1, <3>1, <2>3, TwoSent
  <2> QED BY <2>2, <2>3
<1>4. live' \in [kind : {"host", "client"}, id : 1..made'] /\ live'.id = id
  BY <1>1
<1>5. Shapes'
  <2>1. /\ port' \in Ports /\ scene' \in Scene /\ cmds' \in Seq(Command)
        /\ up' \in {"running", "quitting", "over"} /\ dialing' \in {"none", "host", "join"}
        /\ asked' \in BOOLEAN /\ astray' \in BOOLEAN
    BY Zenon DEF Shapes, player
  <2>2. readers' \in 0..2 /\ made' \in Nat /\ made' <= MaxSessions
    BY <1>1
  <2>3. lost' \in BOOLEAN
    BY <1>1, Zenon
  <2> QED BY <2>1, <2>2, <2>3, <1>2, <1>3, <1>4, Zenon DEF Shapes
<1> QED BY <1>1, <1>2, <1>3, <1>4, <1>5

LEMMA SendFits ==
  ASSUME Shapes, NEW type \in Reconfigures \cup SwarmVerbs \cup Kinds, Send(type)
  PROVE  cmds' \in Seq(Command)
<1>1. [type |-> type, session |-> scene.session] \in Command
  BY CommandsFit DEF Shapes
<1>2. Append(cmds, [type |-> type, session |-> scene.session]) \in Seq(Command)
  BY <1>1, AppendAt DEF Shapes
<1> QED BY <1>2 DEF Send

LEMMA TakenFits == 
  ASSUME Shapes, cmds # <<>> PROVE Tail(cmds) \in Seq(Command) /\ Head(cmds) \in Command
BY DEF Shapes

LEMMA EmptyFits == \A S : <<>> \in Seq(S)
OBVIOUS

(* What the scene does. *)
LEMMA AskedFits ==
  ASSUME Shapes,
         \/ AskHost \/ AskJoin \/ AskLeave \/ Shutdown \/ WebJoin \/ WebLeave
         \/ \E kind \in Tells : AskTell(kind) \/ WebSend(kind)
         \/ \E verb \in SwarmVerbs : AskSwarm(verb)
  PROVE  Shapes'
<1>0. {"host", "join", "close"} \subseteq Reconfigures \cup SwarmVerbs \cup Kinds
  BY DEF Reconfigures
<1>1. cmds' \in Seq(Command)
  <2>1. CASE AskHost \/ AskJoin \/ AskLeave \/ WebJoin
    BY <2>1, <1>0, SendFits DEF AskHost, AskJoin, AskLeave, WebJoin, Queued
  <2>2. CASE WebLeave
    <3>1. cmds' = cmds \/ Send("close")
      BY <2>2 DEF WebLeave, Queued
    <3> QED BY <1>0, <3>1, SendFits DEF Shapes
  <2>3. ASSUME NEW kind \in Tells, AskTell(kind) \/ WebSend(kind) PROVE cmds' \in Seq(Command)
    BY <2>3, TellsAssumption, SendFits DEF AskTell, WebSend, Queued
  <2>4. ASSUME NEW verb \in SwarmVerbs, AskSwarm(verb) PROVE cmds' \in Seq(Command)
    BY <2>4, SendFits DEF AskSwarm, Queued
  <2>5. CASE Shutdown
    BY <2>5 DEF Shutdown, Shapes
  <2> QED BY <2>1, <2>2, <2>3, <2>4, <2>5
<1>2. scene' \in Scene /\ asked' \in BOOLEAN
  <2>1. CASE AskHost \/ AskJoin \/ AskLeave \/ WebJoin \/ WebLeave
    BY <2>1, AsksFit DEF AskHost, AskJoin, AskLeave, WebJoin, WebLeave, Shapes
  <2>2. CASE UNCHANGED player
    BY <2>2 DEF player, Shapes
  <2> QED BY <2>1, <2>2 DEF Shutdown, AskTell, WebSend, AskSwarm
<1>3. /\ UNCHANGED <<port, evs, queue, dialing, readers, made, live, lost, astray>>
      /\ up' \in {"running", "quitting", "over"}
  BY DEF AskHost, AskJoin, AskLeave, Shutdown, WebJoin, WebLeave, AskTell, WebSend,
         AskSwarm, thread, Shapes
<1> QED BY <1>1, <1>2, <1>3, Zenon DEF Shapes

(* What is heard from the other end. *)
LEMMA PeersFit ==
  ASSUME Shapes, Peers \/ ReaderEnds
  PROVE  Shapes'
<1>1. live.id \in Nat /\ {"own", "theirs"} \subseteq Streams
      /\ {"World", "Roster", "Disconnected"} \subseteq EventTypes
  BY DEF Shapes, NoSession, Streams, EventTypes
<1>2. queue' \in Seq(Event)
  <2>1. CASE queue' = queue \o Lines(<<"World">>, live.id, "theirs")
    BY <1>1, <2>1, OneEvent DEF Shapes
  <2>2. CASE queue' = queue \o Lines(<<"Roster">>, live.id, "own")
    BY <1>1, <2>2, OneEvent DEF Shapes
  <2>3. CASE queue' = queue \o Lines(<<"Disconnected">>, live.id, "own")
    BY <1>1, <2>3, OneEvent DEF Shapes
  <2>4. CASE queue' = queue
    BY <2>4 DEF Shapes
  <2> QED BY <2>1, <2>2, <2>3, <2>4 DEF Peers, WorldArrives, RosterChanges, ConnectionLost, ReaderEnds
<1>3. readers' \in 0..2
  BY DEF Peers, WorldArrives, RosterChanges, ConnectionLost, ReaderEnds, Shapes
<1>4. lost' \in BOOLEAN
  BY Zenon DEF Peers, WorldArrives, RosterChanges, ConnectionLost, ReaderEnds, Shapes
<1>5. UNCHANGED <<port, player, cmds, evs, live, dialing, made, astray, up>>
  BY DEF Peers, WorldArrives, RosterChanges, ConnectionLost, ReaderEnds
<1> QED BY <1>2, <1>3, <1>4, <1>5, Zenon DEF Shapes, player

LEMMA AbandonedFits ==
  ASSUME Shapes, Abandoned, evs' = <<>>, scene' \in Scene, asked' \in BOOLEAN,
         UNCHANGED <<port, made, astray>>, up' \in {"running", "quitting", "over"}
  PROVE  Shapes'
<1>1. /\ evs' \in Seq(Line) /\ cmds' \in Seq(Command) /\ queue' \in Seq(Event)
  BY EmptyFits, Zenon DEF Abandoned
<1>2. readers' \in 0..2
  BY DEF Abandoned
<1>3. dialing' \in {"none", "host", "join"} /\ lost' \in BOOLEAN /\ live' = NoSession
  BY Zenon DEF Abandoned
<1> QED BY <1>1, <1>2, <1>3, Zenon DEF Shapes

(* A frame. *)
LEMMA FrameFits ==
  ASSUME Shapes, PollEvents \/ WebPoll \/ WebPollClosed
  PROVE  Shapes'
<1>0. <<>> \in Seq(Line) /\ <<>> \in Seq(Command) /\ <<>> \in Seq(Event)
  BY EmptyFits
<1>1. CASE PollEvents
  <2>1. scene' \in Scene /\ asked' \in BOOLEAN
    BY <1>1, DrainedFits DEF PollEvents, Shapes
  <2>2. /\ evs' = <<>>
        /\ UNCHANGED <<port, cmds, queue, dialing, readers, made, live, lost, astray, up>>
    BY <1>1 DEF PollEvents, thread
  <2> QED BY <1>0, <2>1, <2>2, Zenon DEF Shapes
<1>2. CASE WebPollClosed
  <2>1. Lines(<<"disconnected">>, 0, "own") \in Seq(Line)
    <3>1. Lines(<<"disconnected">>, 0, "own") = <<LineOf("disconnected", 0, "own")>>
      BY DEF Lines, LineOf
    <3>2. LineOf("disconnected", 0, "own") \in Line
      BY LinesFit DEF LineTypes, Streams
    <3> DEFINE l == LineOf("disconnected", 0, "own")
    <3> HIDE DEF l
    <3>3. l \in Line => <<l>> \in Seq(Line)
      OBVIOUS
    <3> QED BY <3>1, <3>2, <3>3, Zenon DEF l
  <2>2. scene' \in Scene /\ asked' \in BOOLEAN
    BY <1>2, <2>1, DrainedFits DEF WebPollClosed, Shapes
  <2>3. UNCHANGED <<port, cmds, evs, queue, dialing, readers, made, live, lost, astray, up>>
    BY <1>2 DEF WebPollClosed, thread
  <2> QED BY <2>2, <2>3, Zenon DEF Shapes
<1>3. CASE WebPoll
  <2>1. PICK n \in 1..Len(evs) :
          /\ Drained(SubSeq(evs, 1, n))
          /\ \/ Abandoned /\ evs' = <<>>
             \/ /\ evs' = SubSeq(evs, n + 1, Len(evs))
                /\ UNCHANGED <<live, dialing, queue, readers, lost, cmds>>
    BY <1>3 DEF WebPoll
  <2>2. SubSeq(evs, 1, n) \in Seq(Line) /\ SubSeq(evs, n + 1, Len(evs)) \in Seq(Line)
    BY LinesRead DEF Shapes
  <2>3. scene' \in Scene /\ asked' \in BOOLEAN
    BY <2>1, <2>2, DrainedFits DEF Shapes
  <2>4. UNCHANGED <<port, made, astray, up>>
    BY <1>3 DEF WebPoll
  <2>5. CASE Abandoned /\ evs' = <<>>
    <3>1. up' \in {"running", "quitting", "over"}
      BY <2>4 DEF Shapes
    <3> QED BY <2>3, <2>4, <2>5, <3>1, AbandonedFits
  <2>6. CASE /\ evs' = SubSeq(evs, n + 1, Len(evs))
             /\ UNCHANGED <<live, dialing, queue, readers, lost, cmds>>
    BY <2>2, <2>3, <2>4, <2>6, Zenon DEF Shapes
  <2> QED BY <2>1, <2>5, <2>6
<1> QED BY <1>1, <1>2, <1>3

(* What waits for the scene or is forgotten.                               *)
LEMMA ForwardedFits ==
  ASSUME Shapes, Forward \/ GatewayForward
  PROVE  /\ Shapes' /\ Head(queue) \in Event /\ queue' = Tail(queue)
         /\ evs' = Append(evs, ToEvent(Head(queue))) /\ queue # <<>>
<1>1. queue # <<>> /\ queue' = Tail(queue)
  BY DEF Forward, GatewayForward
<1>2. Head(queue) \in Event /\ Tail(queue) \in Seq(Event)
  BY <1>1 DEF Shapes
<1>3. EventJson(Head(queue)) = ToEvent(Head(queue)) /\ ToEvent(Head(queue)) \in Line
  BY <1>2, ToldLine
<1>4. evs' = Append(evs, ToEvent(Head(queue)))
  BY <1>3 DEF Forward, GatewayForward
<1>5. Append(evs, ToEvent(Head(queue))) \in Seq(Line)
  BY <1>3, AppendAt DEF Shapes
<1>6. UNCHANGED <<port, scene, asked, cmds, live, dialing, readers, lost, made, astray, up>>
  BY DEF Forward, GatewayForward, player
<1> QED BY <1>1, <1>2, <1>4, <1>5, <1>6, Zenon DEF Shapes

LEMMA ClosedFits ==
  ASSUME Shapes, NEW id, Closed(id), live' = NoSession, evs' \in Seq(Line), cmds' \in Seq(Command),
         dialing' \in {"none", "host", "join"}, up' \in {"running", "quitting", "over"},
         UNCHANGED <<port, player, made, astray>>
  PROVE  Shapes'
<1>1. queue' \in Seq(Event) /\ lost' \in BOOLEAN
  BY EmptyFits, Zenon DEF Closed
<1>2. readers' \in 0..2
  BY DEF Closed
<1> QED BY <1>1, <1>2, Zenon DEF Shapes, player

LEMMA EndedFits ==
  ASSUME Shapes, GoatsEnded \/ GodotEnded \/ GatewayEnded \/ GatewayClose \/ ThreadEnds \/ Replace
  PROVE  /\ Shapes'
         /\ GodotEnded => evs' = Append(evs, LineOf("unknown", live.id, "own"))
         /\ GatewayEnded \/ GatewayClose =>
              evs' = Append(evs, LineOf("disconnected", live.id, "own"))
<1>0. live.id \in Nat /\ "own" \in Streams /\ {"unknown", "disconnected"} \subseteq LineTypes
      /\ evs \in Seq(Line) /\ cmds \in Seq(Command)
  BY DEF Shapes, NoSession, Streams, LineTypes
<1>1. ASSUME GodotEnded
      PROVE  evs' = Append(evs, LineOf("unknown", live.id, "own")) /\ evs' \in Seq(Line)
  BY <1>0, <1>1, OneSent DEF GodotEnded
<1>2. ASSUME GatewayEnded \/ GatewayClose
      PROVE  evs' = Append(evs, LineOf("disconnected", live.id, "own")) /\ evs' \in Seq(Line)
  <2>1. evs' = evs \o Lines(<<"disconnected">>, live.id, "own")
    BY <1>2 DEF GatewayEnded, GatewayClose
  <2> QED BY <1>0, <2>1, OneSent
<1>3. evs' \in Seq(Line)
  BY <1>0, <1>1, <1>2 DEF GoatsEnded, ThreadEnds, Replace
<1>4. cmds' \in Seq(Command)
  <2>1. CASE Replace
    BY <2>1, TakenFits DEF Replace, Takes
  <2>2. CASE GatewayClose
    BY <2>2, EmptyFits DEF GatewayClose
  <2> QED BY <2>1, <2>2, <1>0 DEF GoatsEnded, GodotEnded, GatewayEnded, ThreadEnds
<1>5. dialing' \in {"none", "host", "join"}
  <2>1. CASE Replace
    BY <2>1 DEF Replace, Takes, Reconfigures
  <2> QED BY <2>1 DEF GoatsEnded, GodotEnded, GatewayEnded, GatewayClose, ThreadEnds, Shapes
<1>6. /\ \E id : Closed(id)
      /\ live' = NoSession /\ up' \in {"running", "quitting", "over"}
      /\ UNCHANGED <<port, player, made, astray>>
  BY DEF GoatsEnded, GodotEnded, GatewayEnded, GatewayClose, ThreadEnds, Replace, Stop, Shapes
<1>7. Shapes'
  BY <1>3, <1>4, <1>5, <1>6, ClosedFits
<1> QED BY <1>1, <1>2, <1>7

LEMMA TakenIsKept ==
  ASSUME Shapes, Tell \/ SwarmJoin \/ SwarmLeave \/ GatewayTell
  PROVE  Shapes'
<1>1. cmds' \in Seq(Command)
  BY TakenFits DEF Tell, SwarmJoin, SwarmLeave, GatewayTell, AtTheGateway, Takes
<1>2. astray' \in BOOLEAN
  BY Zenon DEF Tell, SwarmJoin, SwarmLeave, GatewayTell, Shapes
<1>3. UNCHANGED <<port, player, evs, queue, dialing, readers, made, live, lost, up>>
  BY DEF Tell, SwarmJoin, SwarmLeave, GatewayTell, thread
<1> QED BY <1>1, <1>2, <1>3, Zenon DEF Shapes, player

LEMMA JoinTaken ==
  ASSUME Shapes, GatewayTakesJoin
  PROVE  Shapes'
<1>1. cmds' \in Seq(Command)
  BY TakenFits DEF GatewayTakesJoin, AtTheGateway, Takes
<1>2. evs' \in Seq(Line)
  <2>1. evs' = evs \/ evs' = evs \o Lines(<<"error">>, 0, "own")
    BY DEF GatewayTakesJoin
  <2>2. "error" \in LineTypes /\ "own" \in Streams /\ evs \in Seq(Line)
    BY DEF LineTypes, Streams, Shapes
  <2> QED BY <2>1, <2>2, OneSent
<1>3. dialing' \in {"none", "host", "join"}
  BY DEF GatewayTakesJoin, Shapes
<1>4. UNCHANGED <<port, player, live, queue, readers, lost, made, astray, up>>
  BY DEF GatewayTakesJoin
<1> QED BY <1>1, <1>2, <1>3, <1>4, Zenon DEF Shapes, player

Answered == GoatsHosts \/ GodotHosts \/ GoatsJoins \/ GodotJoins \/ GatewayJoins

(* How a dial ends.                                                        *)
LEMMA AnsweredFits ==
  ASSUME Shapes, Answered
  PROVE  /\ Shapes' /\ dialing # "none" /\ dialing' = "none"
         /\ UNCHANGED <<port, player, cmds, astray, up>>
         /\ \/ /\ evs' = Append(evs, LineOf("error", 0, "own")) /\ LineOf("error", 0, "own") \in Line
               /\ UNCHANGED <<live, queue, readers, lost>>
            \/ /\ evs' = Append(evs, LineOf("welcome", live'.id, "own"))
               /\ LineOf("welcome", live'.id, "own") \in Line
               /\ live' = [kind |-> "client", id |-> made'] /\ lost' = FALSE /\ readers' = 2
               /\ ~Among({"Disconnected"}, queue') /\ dialing = "join"
            \/ /\ evs' = Append(Append(evs, LineOf("hosting", live'.id, "own")),
                                LineOf("ticket", live'.id, "own"))
               /\ LineOf("hosting", live'.id, "own") \in Line
               /\ LineOf("ticket", live'.id, "own") \in Line
               /\ live' = [kind |-> "host", id |-> made'] /\ lost' = FALSE
               /\ ~Among({"Disconnected"}, queue') /\ port # "browser"
<1>1. /\ dialing # "none" /\ dialing' = "none"
      /\ UNCHANGED <<port, player, cmds, astray, up>>
  BY DEF Answered, GoatsHosts, GodotHosts, GoatsJoins, GodotJoins, GatewayJoins
<1>2. \/ Refused
      \/ Started("client", <<"welcome">>) /\ dialing = "join"
      \/ Started("host", <<"hosting", "ticket">>) /\ port # "browser"
  BY DEF Answered, GoatsHosts, GodotHosts, GoatsJoins, GodotJoins, GatewayJoins
<1>3. CASE Refused
  <2>1. /\ evs' = Append(evs, LineOf("error", 0, "own")) /\ evs' \in Seq(Line)
        /\ LineOf("error", 0, "own") \in Line
    <3>1. "error" \in LineTypes /\ "own" \in Streams /\ evs \in Seq(Line) /\ 0 \in Nat
      BY DEF LineTypes, Streams, Shapes
    <3> QED BY <1>3, <3>1, OneSent DEF Refused
  <2>2. UNCHANGED <<live, queue, readers, lost, made>>
    BY <1>3 DEF Refused
  <2>3. Shapes'
    BY <1>1, <2>1, <2>2, Zenon DEF Shapes, player
  <2> QED BY <1>1, <2>1, <2>2, <2>3
<1>4. CASE Started("client", <<"welcome">>) /\ dialing = "join"
  <2>1. /\ Shapes' /\ live' = [kind |-> "client", id |-> made'] /\ lost' = FALSE
        /\ readers' = 2 /\ ~Among({"Disconnected"}, queue')
        /\ evs' = Append(evs, LineOf("welcome", live'.id, "own"))
    BY <1>1, <1>4, StartedFits
  <2>2. LineOf("welcome", live'.id, "own") \in Line
    <3>1. live'.id \in Nat
      BY <2>1 DEF Shapes
    <3> QED BY <3>1, LinesFit DEF LineTypes, Streams
  <2> QED BY <1>1, <1>4, <2>1, <2>2
<1>5. CASE Started("host", <<"hosting", "ticket">>) /\ port # "browser"
  <2>1. /\ Shapes' /\ live' = [kind |-> "host", id |-> made'] /\ lost' = FALSE
        /\ ~Among({"Disconnected"}, queue')
        /\ evs' = Append(Append(evs, LineOf("hosting", live'.id, "own")),
                         LineOf("ticket", live'.id, "own"))
    BY <1>1, <1>5, StartedFits
  <2>2. LineOf("hosting", live'.id, "own") \in Line /\ LineOf("ticket", live'.id, "own") \in Line
    <3>1. live'.id \in Nat
      BY <2>1 DEF Shapes
    <3> QED BY <3>1, LinesFit DEF LineTypes, Streams
  <2> QED BY <1>1, <1>5, <2>1, <2>2
<1> QED BY <1>2, <1>3, <1>4, <1>5

LEMMA ShapesAreKept == Shapes /\ [Next]_allvars => Shapes'
<1> SUFFICES ASSUME Shapes, [Next]_allvars PROVE Shapes'
  OBVIOUS
<1>1. CASE UNCHANGED allvars \/ SocketOpens
  <2>1. UNCHANGED vars
    BY <1>1 DEF allvars, SocketOpens
  <2> QED BY <2>1, Zenon DEF Shapes, vars, thread, player
<1>2. CASE SocketLost
  <2>1. /\ scene' \in Scene /\ asked' \in BOOLEAN /\ up' \in {"running", "quitting", "over"}
        /\ UNCHANGED <<port, made, astray>> /\ Abandoned /\ evs' = <<>>
    BY <1>2, Zenon DEF SocketLost, Shapes, player
  <2> QED BY <2>1, AbandonedFits
<1>3. CASE WebShutdown
  <2>1. /\ scene' \in Scene /\ asked' \in BOOLEAN
        /\ UNCHANGED <<port, made, astray>> /\ Abandoned /\ evs' = <<>>
    BY <1>3, Zenon DEF WebShutdown, Shapes, player
  <2>2. up' \in {"running", "quitting", "over"}
    BY <1>3 DEF WebShutdown
  <2> QED BY <2>1, <2>2, AbandonedFits
<1>4. ASSUME NEW id \in hung, HangsUp(id) PROVE Shapes'
  BY <1>4, Zenon DEF HangsUp, Shapes, player
<1> QED
  BY <1>1, <1>2, <1>3, <1>4, AskedFits, PeersFit, FrameFits, ForwardedFits, EndedFits,
     TakenIsKept, JoinTaken, AnsweredFits
  DEF Next, Native, Browser, Player, Listens, Serves, Page, GatewayListens, GatewayServes, Answered

LEMMA ShapesAtFirst == NetInit => Shapes
<1> SUFFICES ASSUME NetInit PROVE Shapes
  OBVIOUS
<1>1. /\ port \in Ports /\ asked \in BOOLEAN /\ lost \in BOOLEAN /\ astray \in BOOLEAN
      /\ live = NoSession /\ scene = Alone
  BY Zenon DEF NetInit, Init
<1>2. cmds \in Seq(Command) /\ evs \in Seq(Line) /\ queue \in Seq(Event)
  BY EmptyFits, Zenon DEF NetInit, Init
<1>3. made \in Nat /\ made <= MaxSessions /\ readers \in 0..2
  BY NetAssumption DEF NetInit, Init
<1>4. dialing \in {"none", "host", "join"} /\ up \in {"running", "quitting", "over"}
  BY DEF NetInit, Init
<1>5. scene \in Scene
  BY <1>1, AloneFits
<1> QED BY <1>1, <1>2, <1>3, <1>4, <1>5, Zenon DEF Shapes

-----------------------------------------------------------------------------
(* What a patient player can rely on: the inductive invariant.             *)

(* One host or connect at a time is on its way, and one answer.            *)
Waiting ==
  /\ Among(Starts, cmds) => asked /\ dialing = "none" /\ ~Among(Answers, evs)
  /\ dialing # "none" => asked /\ ~Among(Reconfigures, cmds) /\ ~Among(Answers, evs)
  /\ Among(Answers, evs) => asked /\ ~Among(Reconfigures, cmds)
  /\ SoleStart(cmds) /\ SoleAnswer(evs)

(* Who joins does not host.                                                *)
Joining ==
  Among({"join"}, cmds) \/ dialing = "join" \/ Among({"welcome"}, evs) => ~scene.hosting

(* What the scene knows of a session, or is about to hear, is of the one   *)
(* that runs, if one does.                                                 *)
Knows ==
  /\ scene.session # 0 => ~asked /\ InSession(scene) /\ Is(live, scene.session)
  /\ Announces(evs, live)

Meant == Addressed(cmds, live) /\ (dialing # "none" => Impersonal(cmds))

(* A client's readers run until its connection is lost, and say so.        *)
Reading ==
  /\ live.kind = "client" /\ ~lost => readers = 2
  /\ lost => live.kind = "client"
  /\ Among({"Disconnected"}, queue) => lost

(* Nothing is under way that will change what runs.                        *)
Quiet == dialing = "none" /\ ~Among(Reconfigures, cmds) /\ socket \in {"none", "open"}

(* Then the scene is, or has been told to be, in the session that runs; a  *)
(* session that is over it will leave; and after a close it has left.      *)
Agreed ==
  up = "running" =>
    /\ Quiet => /\ live = NoSession => HeardAs(scene, evs, "off")
                /\ live.kind = "host" => HeardAs(scene, evs, "host")
                /\ live.kind = "client" /\ ~lost => HeardAs(scene, evs, "client")
                /\ live.kind = "client" /\ readers < 2 /\ ~Among({"Disconnected"}, queue)
                     => HeardAs(scene, evs, "off")
    /\ Among({"close"}, cmds) /\ ~Among(Starts, cmds) => HeardAs(scene, evs, "off")

(* What a browser's socket says of both ends.                              *)
Sockets ==
  port = "browser" =>
    /\ socket # "open" => live = NoSession /\ dialing = "none" /\ evs = <<>>
    /\ socket = "connecting" => Among(Starts, cmds)
    /\ socket \in {"none", "closed"} => ~Among(Starts, cmds)
    /\ socket = "none" /\ up = "running" => ~InSession(scene)
    /\ Among(Starts, cmds) \/ dialing # "none" => live = NoSession /\ ~Among({"disconnected"}, evs)
    /\ EndsLast(evs)

Inv == Waiting /\ Joining /\ Knows /\ Meant /\ Reading /\ Agreed /\ Sockets /\ ~astray

LEMMA AmongKinds ==
  ASSUME NEW q
  PROVE  /\ Among({"join"}, q) => Among(Starts, q)
         /\ Among(Starts, q) => Among(Reconfigures, q)
         /\ Among({"close"}, q) => Among(Reconfigures, q)
         /\ Among(Reconfigures, q) => Among(Starts, q) \/ Among({"close"}, q)
         /\ Among({"welcome"}, q) => Among(Answers, q)
         /\ Among({"hosting"}, q) => Among(Answers, q)
         /\ Among(Answers, q) => Among(Decides, q)
         /\ Among(Decides, q) => Among(Answers, q) \/ Among({"disconnected"}, q)
BY DEF Among, Starts, Reconfigures, Answers, Decides

(* What a step changes that leaves lines, commands and the scene alone.    *)
LEMMA PeersKeep ==
  ASSUME Shapes, Inv, Peers \/ ReaderEnds, UNCHANGED web
  PROVE  Inv'
<1>0. UNCHANGED <<port, scene, asked, cmds, evs, live, dialing, astray, up, socket>>
  BY DEF Peers, WorldArrives, RosterChanges, ConnectionLost, ReaderEnds, player, web
<1>1. \/ /\ UNCHANGED <<readers, lost>>
         /\ Among({"Disconnected"}, queue') <=> Among({"Disconnected"}, queue)
      \/ lost' = TRUE /\ live.kind = "client" /\ ~lost /\ UNCHANGED <<readers, queue>>
      \/ lost /\ lost' = lost /\ Among({"Disconnected"}, queue')
  <2>0. live.id \in Nat /\ {"own", "theirs"} \subseteq Streams
        /\ {"World", "Roster", "Disconnected"} \subseteq EventTypes /\ queue \in Seq(Event)
    BY DEF Shapes, NoSession, Streams, EventTypes
  <2>1. ASSUME NEW type \in {"World", "Roster", "Disconnected"}, NEW st \in Streams,
               queue' = queue \o Lines(<<type>>, live.id, st)
        PROVE  Among({"Disconnected"}, queue') <=> Among({"Disconnected"}, queue) \/ type = "Disconnected"
    <3>1. /\ queue' = Append(queue, LineOf(type, live.id, st))
          /\ LineOf(type, live.id, st) \in Event
      BY <2>0, <2>1, OneEvent, EventsFit
    <3>2. LineOf(type, live.id, st).type = type
      BY DEF LineOf
    <3> QED BY <2>0, <3>1, <3>2, AmongAppend
  <2>2. CASE WorldArrives \/ RosterChanges
    BY <2>0, <2>1, <2>2 DEF WorldArrives, RosterChanges
  <2>3. CASE ReaderEnds
    BY <2>0, <2>1, <2>3 DEF ReaderEnds
  <2>4. CASE ConnectionLost
    BY <2>4 DEF ConnectionLost
  <2> QED BY <2>2, <2>3, <2>4 DEF Peers
<1>2. Reading'
  BY <1>0, <1>1 DEF Inv, Reading
<1>3. Agreed'
  BY <1>0, <1>1 DEF Inv, Agreed, Reading, Quiet
<1> QED BY <1>0, <1>2, <1>3 DEF Inv, Waiting, Joining, Knows, Meant, Sockets

CommandOf(type) == [type |-> type, session |-> scene.session]

-----------------------------------------------------------------------------
(* The player asks.                                                        *)

(* What joins the queue of commands. *)
LEMMA SentSays ==
  ASSUME Shapes, NEW type \in Reconfigures \cup SwarmVerbs \cup Kinds, Send(type)
  PROVE  /\ \A types : Among(types, cmds') <=> Among(types, cmds) \/ type \in types
         /\ SoleStart(cmds) /\ (type \in Reconfigures => ~Among(Starts, cmds)) => SoleStart(cmds')
         /\ \A s : /\ Addressed(cmds, s)
                   /\ type \in Kinds /\ scene.session # 0
                        => Is(s, scene.session) /\ ~Among(Starts, cmds)
              => Addressed(cmds', s)
         /\ Impersonal(cmds) /\ (type \notin Kinds \/ scene.session = 0) => Impersonal(cmds')
<1>1. /\ CommandOf(type) \in Command /\ cmds \in Seq(Command)
      /\ cmds' = Append(cmds, CommandOf(type))
      /\ CommandOf(type).type = type /\ CommandOf(type).session = scene.session
  BY CommandsFit DEF Shapes, CommandOf, Send
<1>2. Personal(CommandOf(type)) <=> type \in Kinds /\ scene.session # 0
  BY <1>1 DEF Personal
<1>3. \A types : Among(types, cmds') <=> Among(types, cmds) \/ type \in types
  BY <1>1, AmongAppend
<1> HIDE DEF CommandOf
<1>4. /\ SoleStart(cmds) /\ (CommandOf(type).type \in Reconfigures => ~Among(Starts, cmds))
           => SoleStart(cmds')
      /\ \A s : /\ Addressed(cmds, s)
                /\ Personal(CommandOf(type)) => Is(s, CommandOf(type).session) /\ ~Among(Starts, cmds)
              => Addressed(cmds', s)
      /\ Impersonal(cmds) /\ ~Personal(CommandOf(type)) => Impersonal(cmds')
  BY <1>1, CommandQueued
<1> QED BY <1>1, <1>2, <1>3, <1>4

LEMMA AskSays ==
  ASSUME NEW s \in Scene
  PROVE  /\ ~InSession(s) => ~s.hosting /\ ~s.joined
         /\ NetHost(s).session = s.session
         /\ NetJoin(s).session = s.session /\ NetJoin(s).hosting = s.hosting
         /\ CmdHost(s).session = s.session
         /\ CmdJoin(s).session = s.session /\ CmdJoin(s).hosting = s.hosting
         /\ NetLeave(s).session = 0 /\ Mode(NetLeave(s)) = "off" /\ ~NetLeave(s).hosting
         /\ CmdLeave(s).session = 0 /\ Mode(CmdLeave(s)) = "off" /\ ~CmdLeave(s).hosting
BY DEF InSession, Mode, Scene, NetHost, NetJoin, NetLeave, CmdHost, CmdJoin, CmdLeave,
       NetReset, SessionOver, RestoreOwn, DiscardOwn, Streams

(* Nothing is under way when nothing was asked. *)
LEMMA NothingAsked ==
  ASSUME Inv, ~asked
  PROVE  /\ ~Among(Starts, cmds) /\ dialing = "none" /\ ~Among(Answers, evs)
         /\ ~Among({"join"}, cmds) /\ ~Among({"welcome"}, evs)
BY AmongKinds DEF Inv, Waiting

LEMMA StartAskedKeeps ==
  ASSUME Shapes, Inv, Patient, AskHost \/ AskJoin \/ WebJoin, port # "browser" => UNCHANGED web
  PROVE  Inv'
<1>1. PICK type \in Starts :
        /\ Send(type)
        /\ (type = "join" => scene'.hosting = scene.hosting)
        /\ scene'.session = scene.session /\ asked' = TRUE
        /\ ~InSession(scene) /\ ~asked /\ up = "running"
        /\ UNCHANGED <<port, evs, queue, live, dialing, readers, lost, astray, up>>
        /\ IF port = "browser" THEN socket = "none" /\ socket' = "connecting" /\ type = "join"
                               ELSE socket' = socket
  <2>1. CASE AskHost
    <3>1. scene'.session = scene.session
      BY <2>1, AskSays DEF AskHost, Shapes
    <3> QED BY <2>1, <3>1 DEF AskHost, Starts, Queued, MayStart, Waits, thread, web
  <2>2. CASE AskJoin \/ WebJoin
    <3>1. scene'.session = scene.session /\ scene'.hosting = scene.hosting
      BY <2>2, AskSays DEF AskJoin, WebJoin, Shapes
    <3> QED BY <2>2, <3>1 DEF AskJoin, WebJoin, Starts, Queued, MayStart, Waits, thread, web
  <2> QED BY <2>1, <2>2
<1>2. /\ \A types : Among(types, cmds') <=> Among(types, cmds) \/ type \in types
      /\ SoleStart(cmds) /\ ~Among(Starts, cmds) => SoleStart(cmds')
      /\ \A s : Addressed(cmds, s) => Addressed(cmds', s)
  <2>1. type \in Reconfigures \cup SwarmVerbs \cup Kinds /\ type \notin Kinds
    BY DEF Starts, Reconfigures, Kinds
  <2> QED BY <1>1, <2>1, SentSays
<1>3. /\ ~Among(Starts, cmds) /\ dialing = "none" /\ ~Among(Answers, evs)
      /\ ~Among({"join"}, cmds) /\ ~Among({"welcome"}, evs) /\ scene.session = 0
  BY <1>1, NothingAsked DEF Inv, Knows
<1>4. Among(Starts, cmds') /\ Among(Reconfigures, cmds')
  BY <1>2, AmongKinds
<1>5. Waiting'
  BY <1>1, <1>2, <1>3 DEF Inv, Waiting
<1>6. Joining'
  <2>1. CASE type = "join"
    BY <1>1, <2>1, AskSays DEF Joining, Shapes
  <2>2. CASE type = "host"
    <3>1. ~Among({"join"}, cmds')
      BY <1>2, <1>3, <2>2
    <3> QED BY <1>1, <1>3, <3>1 DEF Joining
  <2> QED BY <2>1, <2>2 DEF Starts
<1>7. Knows' /\ Meant'
  BY <1>1, <1>2, <1>3 DEF Inv, Knows, Meant
<1>8. Reading'
  BY <1>1 DEF Inv, Reading
<1>9. Agreed'
  BY <1>4 DEF Agreed, Quiet
<1>10. Sockets'
  BY <1>1, <1>3, <1>4, AmongEmpty DEF Inv, Sockets
<1> QED BY <1>1, <1>5, <1>6, <1>7, <1>8, <1>9, <1>10 DEF Inv

LEMMA LeaveKeeps ==
  ASSUME Shapes, Inv, Patient, AskLeave \/ WebLeave, UNCHANGED web
  PROVE  Inv'
<1>1. /\ scene'.session = 0 /\ Mode(scene') = "off" /\ ~scene'.hosting
      /\ InSession(scene) /\ up = "running" /\ ~asked /\ Send("close")
      /\ UNCHANGED <<port, asked, evs, queue, live, dialing, readers, lost, astray, up, socket>>
  <2>1. scene' = NetLeave(scene) \/ scene' = CmdLeave(scene)
    BY DEF AskLeave, WebLeave
  <2>2. scene'.session = 0 /\ Mode(scene') = "off" /\ ~scene'.hosting
    BY <2>1, AskSays DEF Shapes
  <2>3. CASE AskLeave
    BY <2>2, <2>3 DEF AskLeave, MayLeave, Queued, Waits, thread, web
  <2>4. CASE WebLeave
    <3>1. socket # "none"
      BY <2>4 DEF WebLeave, MayLeave, Inv, Sockets
    <3> QED BY <2>2, <2>4, <3>1 DEF WebLeave, MayLeave, Queued, Waits, thread, web
  <2> QED BY <2>3, <2>4
<1>2. /\ \A types : Among(types, cmds') <=> Among(types, cmds) \/ "close" \in types
      /\ SoleStart(cmds) /\ ~Among(Starts, cmds) => SoleStart(cmds')
      /\ \A s : Addressed(cmds, s) => Addressed(cmds', s)
  <2>1. "close" \in Reconfigures \cup SwarmVerbs \cup Kinds /\ "close" \notin Kinds
    BY DEF Reconfigures, Kinds
  <2> QED BY <1>1, <2>1, SentSays
<1>3. /\ ~Among(Starts, cmds) /\ dialing = "none" /\ ~Among(Answers, evs)
      /\ ~Among({"join"}, cmds) /\ ~Among({"welcome"}, evs)
  BY <1>1, NothingAsked
<1>4. Among(Reconfigures, cmds') /\ ~Among(Starts, cmds')
  <2>1. "close" \in Reconfigures /\ "close" \notin Starts
    BY DEF Reconfigures, Starts
  <2> QED BY <1>2, <1>3, <2>1
<1>5. Waiting'
  BY <1>1, <1>2, <1>3, <1>4 DEF Inv, Waiting
<1>6. Joining'
  BY <1>1 DEF Joining
<1>7. Knows' /\ Meant'
  BY <1>1, <1>2, <1>3 DEF Inv, Knows, Meant
<1>8. Reading'
  BY <1>1 DEF Inv, Reading
<1>9. Agreed'
  <2>1. HeardAs(scene', evs, "off")
    <3>1. ASSUME NEW i \in DOMAIN evs, evs[i].type \in Decides PROVE ModeOf(evs[i].type) = "off"
      <4>1. evs[i].type \notin Answers
        BY <1>3 DEF Among
      <4> QED BY <3>1, <4>1 DEF Decides, Answers, ModeOf
    <3> QED BY <1>1, <3>1 DEF HeardAs
  <2> QED BY <1>1, <1>4, <2>1 DEF Agreed, Quiet
<1>10. Sockets'
  <2>1. Mode(scene') = "off" => ~InSession(scene')
    BY DEF InSession
  <2>2. port = "browser" => socket # "none"
    BY <1>1 DEF Inv, Sockets
  <2>3. port = "browser" => socket # "connecting"
    BY <1>3 DEF Inv, Sockets
  <2> QED BY <1>1, <1>3, <1>4, <2>1, <2>2, <2>3 DEF Inv, Sockets
<1> QED BY <1>1, <1>5, <1>6, <1>7, <1>8, <1>9, <1>10 DEF Inv

(* A line of chat, a pose or a verb of the swarm. *)
LEMMA TellAskedKeeps ==
  ASSUME Shapes, Inv, NEW type \in Kinds \cup SwarmVerbs, Send(type),
         UNCHANGED <<port, player, evs, thread, astray, up, web>>
  PROVE  Inv'
<1>1. UNCHANGED <<port, scene, asked, evs, queue, live, dialing, readers, lost, astray, up, socket>>
  BY DEF player, thread, web
<1>2. type \in Reconfigures \cup SwarmVerbs \cup Kinds /\ type \notin Reconfigures /\ type \notin Starts
      /\ type \notin {"join"} /\ type \notin {"close"}
  BY DEF Reconfigures, Starts, Kinds, SwarmVerbs
<1>3. scene.session # 0 => Is(live, scene.session) /\ ~Among(Starts, cmds) /\ dialing = "none"
  BY NothingAsked DEF Inv, Knows
<1>4. /\ \A types : type \notin types => (Among(types, cmds') <=> Among(types, cmds))
      /\ SoleStart(cmds) => SoleStart(cmds')
      /\ Addressed(cmds, live) => Addressed(cmds', live)
      /\ Impersonal(cmds) /\ dialing # "none" => Impersonal(cmds')
  BY <1>2, <1>3, SentSays
<1>5. /\ Among(Starts, cmds') <=> Among(Starts, cmds)
      /\ Among(Reconfigures, cmds') <=> Among(Reconfigures, cmds)
      /\ Among({"join"}, cmds') <=> Among({"join"}, cmds)
      /\ Among({"close"}, cmds') <=> Among({"close"}, cmds)
  BY <1>2, <1>4
<1>6. Waiting' /\ Joining' /\ Knows' /\ Meant' /\ Reading'
  BY <1>1, <1>4, <1>5 DEF Inv, Waiting, Joining, Knows, Meant, Reading
<1>7. Agreed' /\ Sockets'
  BY <1>1, <1>5 DEF Inv, Agreed, Sockets, Quiet
<1> QED BY <1>1, <1>6, <1>7 DEF Inv

-----------------------------------------------------------------------------
(* The thread and the gateway serve.                                       *)

(* A thread that has no session owes nobody anything of one.               *)
LEMMA NoneIsFine ==
  /\ \A q : Announces(q, NoSession)
  /\ \A q, s : Addressed(q, s) => Addressed(q, NoSession)
  /\ \A q, s : Impersonal(q) => Addressed(q, s)
  /\ NoSession.kind = "none" /\ NoSession.id = 0
BY DEF Announces, Addressed, Impersonal, Is, NoSession

LEMMA NothingWaits ==
  /\ SoleStart(<<>>) /\ SoleAnswer(<<>>) /\ EndsLast(<<>>) /\ Impersonal(<<>>)
  /\ \A s : Announces(<<>>, s) /\ Addressed(<<>>, s)
BY EmptyAt DEF SoleStart, SoleAnswer, EndsLast, Impersonal, Announces, Addressed

(* The thread takes what reconfigures nothing.                             *)
LEMMA TakenKeeps ==
  ASSUME Shapes, Inv, cmds # <<>>, Head(cmds).type \notin Reconfigures, cmds' = Tail(cmds),
         UNCHANGED <<port, scene, asked, evs, thread, up, socket>>, ~astray',
         port = "browser" => socket = "open"
  PROVE  Inv'
<1>0. UNCHANGED <<live, dialing, queue, readers, lost>> /\ cmds \in Seq(Command)
  BY DEF thread, Shapes
<1>1. /\ Among(Starts, cmds') <=> Among(Starts, cmds)
      /\ Among(Reconfigures, cmds') <=> Among(Reconfigures, cmds)
      /\ Among({"join"}, cmds') <=> Among({"join"}, cmds)
      /\ Among({"close"}, cmds') <=> Among({"close"}, cmds)
  <2>1. /\ Head(cmds).type \notin Starts /\ Head(cmds).type \notin {"join"}
        /\ Head(cmds).type \notin {"close"}
    BY DEF Starts, Reconfigures
  <2> QED BY <1>0, <2>1, AmongTail
<1>2. /\ SoleStart(cmds) => SoleStart(cmds')
      /\ Addressed(cmds, live) => Addressed(cmds', live)
      /\ Impersonal(cmds) => Impersonal(cmds')
  BY <1>0, CommandTaken
<1>3. Waiting' /\ Joining' /\ Knows' /\ Meant' /\ Reading'
  BY <1>0, <1>1, <1>2 DEF Inv, Waiting, Joining, Knows, Meant, Reading
<1>4. Agreed' /\ Sockets'
  BY <1>0, <1>1 DEF Inv, Agreed, Sockets, Quiet
<1> QED BY <1>3, <1>4 DEF Inv

LEMMA ToldKeeps ==
  ASSUME Shapes, Inv, Tell \/ GatewayTell, UNCHANGED web
  PROVE  Inv'
<1>1. /\ cmds # <<>> /\ Head(cmds).type \in Kinds /\ cmds' = Tail(cmds)
      /\ UNCHANGED <<port, scene, asked, evs, thread, up, socket>>
      /\ (port = "browser" => socket = "open")
  BY DEF Tell, GatewayTell, AtTheGateway, Takes, player, web
<1>2. Head(cmds).type \notin Reconfigures
  BY <1>1 DEF Kinds, Reconfigures
<1>3. Head(cmds).session \notin {0, live.id} => live = NoSession
  <2>1. Head(cmds).session # 0 => Personal(Head(cmds))
    BY <1>1 DEF Personal
  <2>2. Personal(Head(cmds)) => Is(live, Head(cmds).session)
    BY <1>1, CommandTaken DEF Inv, Meant, Shapes
  <2> QED BY <2>1, <2>2 DEF Is
<1>4. ~(live.kind \in Carriers(Head(cmds).type) /\ Head(cmds).session \notin {0, live.id})
  <2>1. "none" \notin Carriers(Head(cmds).type)
    BY DEF Carriers, GoatsCarries, GodotCarries
  <2> QED BY <1>3, <2>1, NoneIsFine
<1>5. ~astray'
  <2>1. ~astray
    BY DEF Inv
  <2>2. CASE Tell
    <3>1. astray' = (astray \/ (/\ live.kind \in Carriers(Head(cmds).type)
                                /\ Head(cmds).session \notin {0, live.id}))
      BY <2>2 DEF Tell
    <3> QED BY Zenon, <1>4, <2>1, <3>1
  <2>3. CASE GatewayTell
    <3>1. astray' = (astray \/ (/\ live # NoSession
                                /\ Head(cmds).type \in GatewayCarries
                                /\ Head(cmds).session \notin {0, live.id}))
      BY <2>3 DEF GatewayTell
    <3> QED BY Zenon, <1>3, <2>1, <3>1
  <2> QED BY <2>2, <2>3
<1> QED BY <1>1, <1>2, <1>5, TakenKeeps

LEMMA SwarmKeeps ==
  ASSUME Shapes, Inv, SwarmJoin \/ SwarmLeave, UNCHANGED web
  PROVE  Inv'
<1>1. /\ cmds # <<>> /\ Head(cmds).type \in {"swarm_join", "swarm_leave"} /\ cmds' = Tail(cmds)
      /\ UNCHANGED <<port, scene, asked, evs, thread, up, socket>> /\ port # "browser"
      /\ UNCHANGED astray
  BY DEF SwarmJoin, SwarmLeave, Takes, player, web
<1>2. Head(cmds).type \notin Reconfigures
  BY <1>1 DEF Reconfigures
<1>3. ~astray'
  BY Zenon, <1>1 DEF Inv
<1> QED BY <1>1, <1>2, <1>3, TakenKeeps

(* A dial begins.                                                          *)
LEMMA DialKeeps ==
  ASSUME Shapes, Inv, cmds # <<>>, Head(cmds).type \in Starts, cmds' = Tail(cmds),
         dialing = "none", dialing' = Head(cmds).type, live' = NoSession,
         lost' = FALSE, ~Among({"Disconnected"}, queue'),
         UNCHANGED <<port, scene, asked, evs, up, socket, astray>>,
         port = "browser" => socket = "open"
  PROVE  Inv'
<1>1. /\ Among(Starts, cmds) /\ (Head(cmds).type = "join" => Among({"join"}, cmds))
      /\ cmds \in Seq(Command)
      /\ dialing' # "none"
  BY AmongTail DEF Shapes, Starts
<1>2. asked /\ ~Among(Answers, evs) /\ SoleStart(cmds) /\ Addressed(cmds, live)
  BY <1>1 DEF Inv, Waiting, Meant
<1>3. ~Among(Reconfigures, cmds') /\ Impersonal(cmds') /\ SoleStart(cmds')
  BY <1>1, <1>2, CommandTaken
<1>4. ~Among(Starts, cmds') /\ ~Among({"close"}, cmds') /\ ~Among({"join"}, cmds')
      /\ ~Among({"welcome"}, evs)
  BY <1>2, <1>3, AmongKinds
<1>5. Waiting'
  BY <1>2, <1>3, <1>4 DEF Inv, Waiting
<1>6. Joining'
  BY <1>1, <1>4 DEF Inv, Joining
<1>7. Knows' /\ Meant'
  BY <1>1, <1>2, <1>3, NoneIsFine DEF Inv, Knows, Meant, Is
<1>8. Reading' /\ Agreed'
  BY <1>1, <1>4, NoneIsFine DEF Reading, Agreed, Quiet
<1>9. Sockets'
  BY <1>1, <1>4 DEF Inv, Sockets
<1>10. ~astray'
  BY Zenon DEF Inv
<1> QED BY <1>5, <1>6, <1>7, <1>8, <1>9, <1>10 DEF Inv

LEMMA ReplaceKeeps ==
  ASSUME Shapes, Inv, Replace, UNCHANGED web
  PROVE  Inv'
<1>1. /\ cmds # <<>> /\ cmds' = Tail(cmds) /\ live' = NoSession /\ dialing = "none"
      /\ queue' = <<>> /\ readers' = 0 /\ lost' = FALSE
      /\ UNCHANGED <<port, scene, asked, evs, up, socket, astray>> /\ port # "browser"
      /\ Head(cmds).type \in Reconfigures /\ ~Among({"Disconnected"}, queue')
      /\ cmds \in Seq(Command)
  BY AmongEmpty DEF Replace, Takes, Idle, Stop, Closed, player, web, Shapes
<1>2. CASE Head(cmds).type \in Starts
  <2>1. dialing' = Head(cmds).type
    BY <1>2 DEF Replace, Starts
  <2> QED BY <1>1, <1>2, <2>1, DialKeeps
<1>3. CASE Head(cmds).type = "close"
  <2>1. /\ dialing' = "none"
        /\ \A types : Among(types, cmds) <=> "close" \in types \/ Among(types, cmds')
        /\ "close" \in Reconfigures /\ "close" \notin Starts
    BY <1>1, <1>3, AmongTail DEF Replace, Reconfigures, Starts
  <2>2. SoleStart(cmds') /\ Addressed(cmds', NoSession)
    BY <1>1, CommandTaken, NoneIsFine DEF Inv, Waiting, Meant
  <2>3. ~Among(Answers, evs) /\ (Among(Starts, cmds') <=> Among(Starts, cmds))
        /\ Among({"close"}, cmds) /\ (Among({"join"}, cmds') => Among({"join"}, cmds))
    BY <2>1 DEF Inv, Waiting
  <2>4. Waiting' /\ Joining'
    BY <1>1, <2>1, <2>2, <2>3 DEF Inv, Waiting, Joining
  <2>5. Knows' /\ Meant' /\ Reading'
    BY <1>1, <2>1, <2>2, NoneIsFine DEF Inv, Knows, Meant, Reading, Is
  <2>6. Agreed'
    <3>1. ~Among(Reconfigures, cmds') => ~Among(Starts, cmds')
      BY AmongKinds
    <3> QED BY <1>1, <2>3, <3>1, NoneIsFine DEF Inv, Agreed, Quiet
  <2>7. Sockets'
    BY <1>1 DEF Sockets
  <2>8. ~astray'
    BY Zenon, <1>1 DEF Inv
  <2> QED BY <2>4, <2>5, <2>6, <2>7, <2>8 DEF Inv
<1> QED BY <1>1, <1>2, <1>3 DEF Reconfigures, Starts

LEMMA JoinTakenKeeps ==
  ASSUME Shapes, Inv, GatewayTakesJoin
  PROVE  Inv'
<1>1. /\ cmds # <<>> /\ cmds' = Tail(cmds) /\ dialing = "none" /\ port = "browser"
      /\ UNCHANGED <<port, scene, asked, up, socket, astray, live, queue, lost>>
      /\ Head(cmds).type = "join" /\ Head(cmds).type \in Starts /\ socket = "open"
      /\ cmds \in Seq(Command)
  BY DEF GatewayTakesJoin, AtTheGateway, Takes, Idle, player, web, Shapes, Starts
<1>2. Among(Starts, cmds)
  BY <1>1, AmongTail
<1>3. live = NoSession /\ lost = FALSE /\ ~Among({"Disconnected"}, queue)
  <2>1. live = NoSession
    BY <1>1, <1>2 DEF Inv, Sockets
  <2>2. ~lost
    BY <2>1, NoneIsFine DEF Inv, Reading
  <2> QED BY <2>1, <2>2 DEF Inv, Reading, Shapes
<1>4. dialing' = "join" /\ UNCHANGED evs
  BY <1>3 DEF GatewayTakesJoin
<1> QED BY <1>1, <1>3, <1>4, DialKeeps

LEMMA GatewayCloseKeeps ==
  ASSUME Shapes, Inv, GatewayClose
  PROVE  Inv'
<1> DEFINE l == LineOf("disconnected", live.id, "own")
<1>1. /\ cmds # <<>> /\ Head(cmds).type = "close" /\ cmds' = <<>>
      /\ dialing = "none" /\ dialing' = "none" /\ port = "browser" /\ socket = "open"
      /\ queue' = <<>> /\ lost' = FALSE /\ live' = NoSession
      /\ UNCHANGED <<port, scene, asked, up, socket, astray>> /\ cmds \in Seq(Command)
  BY DEF GatewayClose, AtTheGateway, Takes, Idle, Closed, player, web, Shapes
<1>2. Among(Reconfigures, cmds)
  <2>1. Head(cmds).type \in Reconfigures
    BY <1>1 DEF Reconfigures
  <2> QED BY <1>1, <2>1, AmongTail
<1>3. ~Among(Answers, evs) /\ SoleAnswer(evs) /\ EndsLast(evs)
  BY <1>1, <1>2 DEF Inv, Waiting, Sockets
<1>4. /\ evs' = Append(evs, l) /\ l \in Line /\ evs \in Seq(Line)
      /\ l.type = "disconnected"
  <2>1. live.id \in Nat
    BY DEF Shapes, NoSession
  <2>2. l \in Line
    BY <2>1, LinesFit DEF LineTypes, Streams
  <2> QED BY <2>2, EndedFits DEF Shapes, LineOf
<1> HIDE DEF l
<1>5. l.type \notin Answers /\ l.type \in Decides /\ ModeOf(l.type) = "off"
      /\ l.type \notin {"welcome"}
  BY <1>4 DEF Answers, Decides, ModeOf
<1>6. /\ ~Among(Answers, evs') /\ SoleAnswer(evs') /\ EndsLast(evs')
      /\ HeardAs(scene, evs', "off") /\ ~Among({"welcome"}, evs')
  <2>1. ~Among(Answers, evs')
    BY <1>3, <1>4, <1>5, AmongAppend
  <2>2. HeardAs(scene, evs', "off")
    BY <1>4, <1>5, HeardAppend
  <2>3. SoleAnswer(evs') /\ EndsLast(evs')
    BY <1>3, <1>4, <1>5, LineSent
  <2> QED BY <2>1, <2>2, <2>3, AmongKinds
<1>7. Waiting' /\ Joining'
  BY <1>1, <1>6, NothingWaits, AmongEmpty DEF Waiting, Joining
<1>8. Knows' /\ Meant' /\ Reading'
  BY <1>1, NoneIsFine, NothingWaits, AmongEmpty DEF Inv, Knows, Meant, Reading, Is
<1>9. Agreed'
  BY <1>1, <1>6, NoneIsFine, AmongEmpty DEF Agreed
<1>10. Sockets'
  BY <1>1, <1>6, AmongEmpty DEF Sockets
<1>11. ~astray'
  BY Zenon, <1>1 DEF Inv
<1> QED BY <1>7, <1>8, <1>9, <1>10, <1>11 DEF Inv

(* An event of the session becomes a line.                                 *)
LEMMA ForwardKeeps ==
  ASSUME Shapes, Inv, \/ Forward /\ UNCHANGED web
                      \/ GatewayForward
  PROVE  Inv'
<1> DEFINE e == Head(queue)
           l == ToEvent(e)
<1>1. /\ queue # <<>> /\ queue' = Tail(queue) /\ evs' = Append(evs, l) /\ e \in Event
      /\ evs \in Seq(Line) /\ queue \in Seq(Event)
  BY ForwardedFits DEF Shapes
<1>2. /\ UNCHANGED <<port, scene, asked, cmds, live, dialing, readers, lost, up, socket, astray>>
      /\ (port = "browser" => socket = "open")
  BY DEF Forward, GatewayForward, player, web
<1>3. /\ l \in Line /\ l.type \notin Answers /\ ~Joins(l)
      /\ (l.type \in Decides <=> e.type = "Disconnected")
      /\ (l.type = "disconnected" <=> e.type = "Disconnected")
  BY <1>1, ToldLine
<1>4. Among({"Disconnected"}, queue) <=> e.type = "Disconnected" \/ Among({"Disconnected"}, queue')
  BY <1>1, AmongTail
<1> HIDE DEF l, e
<1>5. /\ Among(Answers, evs') <=> Among(Answers, evs)
      /\ Among({"welcome"}, evs') <=> Among({"welcome"}, evs)
      /\ Among({"disconnected"}, evs') <=> Among({"disconnected"}, evs) \/ e.type = "Disconnected"
  <2>1. l.type \notin {"welcome"}
    BY <1>3 DEF Answers
  <2> QED BY <1>1, <1>3, <2>1, AmongAppend
<1>6. /\ SoleAnswer(evs) => SoleAnswer(evs')
      /\ EndsLast(evs) => EndsLast(evs')
      /\ \A s : Announces(evs, s) => Announces(evs', s)
  BY <1>1, <1>3, LineSent
<1>7. /\ e.type # "Disconnected" => \A m : HeardAs(scene, evs, m) => HeardAs(scene, evs', m)
      /\ e.type = "Disconnected" => HeardAs(scene, evs', "off")
  <2>1. CASE e.type = "Disconnected"
    <3>1. l.type \in Decides /\ ModeOf(l.type) = "off"
      BY <1>3, <2>1 DEF ModeOf
    <3> QED BY <1>1, <1>3, <2>1, <3>1, HeardAppend
  <2>2. CASE e.type # "Disconnected"
    BY <1>1, <1>3, <2>2, HeardAppend
  <2> QED BY <2>1, <2>2
<1>8. /\ e.type = "Disconnected" => lost /\ live.kind = "client" /\ live # NoSession
      /\ Among({"Disconnected"}, queue') => lost
  BY <1>4, NoneIsFine DEF Inv, Reading
<1>9. Waiting' /\ Joining' /\ Knows' /\ Meant' /\ Reading'
  BY <1>2, <1>5, <1>6, <1>8 DEF Inv, Waiting, Joining, Knows, Meant, Reading
<1>10. Agreed'
  <2>1. CASE e.type = "Disconnected"
    BY <1>2, <1>7, <1>8, <2>1 DEF Agreed
  <2>2. CASE e.type # "Disconnected"
    BY <1>2, <1>4, <1>7, <2>2 DEF Inv, Agreed, Quiet
  <2> QED BY <2>1, <2>2
<1>11. Sockets'
  BY <1>2, <1>5, <1>6, <1>8 DEF Inv, Sockets
<1>12. ~astray'
  BY Zenon, <1>2 DEF Inv
<1> QED BY <1>9, <1>10, <1>11, <1>12 DEF Inv

(* A client is over.                                                       *)
LEMMA EndedKeeps ==
  ASSUME Shapes, Inv, \/ (GoatsEnded \/ GodotEnded) /\ UNCHANGED web
                      \/ GatewayEnded
  PROVE  Inv'
<1>1. /\ dialing = "none" /\ live.kind = "client" /\ readers = 0 /\ queue = <<>>
      /\ live' = NoSession /\ queue' = <<>> /\ lost' = FALSE /\ live # NoSession
      /\ UNCHANGED <<port, scene, asked, cmds, dialing, up, socket, astray>>
      /\ (port = "browser" => socket = "open")
  BY NoneIsFine DEF GoatsEnded, GodotEnded, GatewayEnded, Over, Idle, Stop, Closed, player, web
<1>2. \/ evs' = evs
      \/ \E l \in Line : /\ evs' = Append(evs, l)
                         /\ l.type \notin Answers /\ ~Joins(l) /\ l.type \notin {"welcome"}
                         /\ (l.type \in Decides => ModeOf(l.type) = "off")
                         /\ (port # "browser" \/ l.type = "disconnected")
  <2>1. LineOf("unknown", live.id, "own") \in Line /\ LineOf("disconnected", live.id, "own") \in Line
    <3>1. live.id \in Nat
      BY DEF Shapes, NoSession
    <3> QED BY <3>1, LinesFit DEF LineTypes, Streams
  <2>2. CASE GoatsEnded
    BY <2>2 DEF GoatsEnded
  <2>3. CASE GodotEnded
    <3>1. evs' = Append(evs, LineOf("unknown", live.id, "own")) /\ port # "browser"
      BY <2>3, EndedFits DEF GodotEnded
    <3> QED BY <2>1, <3>1 DEF LineOf, Answers, Joins, Decides
  <2>4. CASE GatewayEnded
    <3>1. evs' = Append(evs, LineOf("disconnected", live.id, "own"))
      BY <2>4, EndedFits
    <3> QED BY <2>1, <3>1 DEF LineOf, Answers, Joins, Decides, ModeOf
  <2> QED BY <2>2, <2>3, <2>4
<1>3. evs \in Seq(Line)
  BY DEF Shapes
<1>4. /\ Among(Answers, evs') <=> Among(Answers, evs)
      /\ Among({"welcome"}, evs') <=> Among({"welcome"}, evs)
      /\ SoleAnswer(evs) => SoleAnswer(evs')
      /\ EndsLast(evs) => EndsLast(evs')
      /\ HeardAs(scene, evs, "off") => HeardAs(scene, evs', "off")
  <2>1. CASE evs' = evs
    BY <2>1
  <2>2. ASSUME NEW l \in Line, evs' = Append(evs, l),
               l.type \notin Answers, ~Joins(l), l.type \notin {"welcome"},
               l.type \in Decides => ModeOf(l.type) = "off"
        PROVE  /\ Among(Answers, evs') <=> Among(Answers, evs)
               /\ Among({"welcome"}, evs') <=> Among({"welcome"}, evs)
               /\ SoleAnswer(evs) => SoleAnswer(evs')
               /\ EndsLast(evs) => EndsLast(evs')
               /\ HeardAs(scene, evs, "off") => HeardAs(scene, evs', "off")
    <3>1. /\ Among(Answers, evs') <=> Among(Answers, evs)
          /\ Among({"welcome"}, evs') <=> Among({"welcome"}, evs)
      BY <1>3, <2>2, AmongAppend
    <3>2. /\ SoleAnswer(evs) => SoleAnswer(evs')
          /\ EndsLast(evs) => EndsLast(evs')
      BY <1>3, <2>2, LineSent
    <3>3. HeardAs(scene, evs, "off") => HeardAs(scene, evs', "off")
      BY <1>3, <2>2, HeardAppend
    <3> QED BY <3>1, <3>2, <3>3
  <2> QED BY <1>2, <2>1, <2>2
<1>5. Waiting' /\ Joining'
  BY <1>1, <1>4 DEF Inv, Waiting, Joining
<1>6. Knows' /\ Meant' /\ Reading'
  BY <1>1, NoneIsFine, AmongEmpty DEF Inv, Knows, Meant, Reading, Is
<1>7. Agreed'
  BY <1>1, <1>4, NoneIsFine, AmongEmpty DEF Inv, Agreed, Quiet
<1>8. Sockets'
  BY <1>1, <1>4 DEF Inv, Sockets
<1>9. ~astray'
  BY Zenon, <1>1 DEF Inv
<1> QED BY <1>5, <1>6, <1>7, <1>8, <1>9 DEF Inv

(* The window closes; the thread ends when the channel is read out.        *)
LEMMA EndingKeeps ==
  ASSUME Shapes, Inv, Shutdown \/ ThreadEnds, UNCHANGED web
  PROVE  Inv'
<1>1. /\ UNCHANGED <<port, scene, asked, cmds, evs, dialing, socket, astray>>
      /\ up' # "running" /\ port # "browser"
      /\ \/ UNCHANGED <<live, queue, readers, lost>>
         \/ live' = NoSession /\ queue' = <<>> /\ lost' = FALSE
  BY DEF Shutdown, ThreadEnds, Closed, player, thread, web
<1>2. Waiting' /\ Joining' /\ Knows' /\ Meant'
  BY <1>1, NoneIsFine DEF Inv, Waiting, Joining, Knows, Meant, Is
<1>3. Reading' /\ Agreed' /\ Sockets'
  BY <1>1, NoneIsFine, AmongEmpty DEF Inv, Reading, Agreed, Sockets
<1>4. ~astray'
  BY Zenon, <1>1 DEF Inv
<1> QED BY <1>2, <1>3, <1>4 DEF Inv

(* A dial is answered.                                                     *)
LEMMA AnsweredKeeps ==
  ASSUME Shapes, Inv, DialsAlone, Answered, UNCHANGED web
  PROVE  Inv'
<1>1. /\ dialing # "none" /\ dialing' = "none"
      /\ UNCHANGED <<port, scene, asked, cmds, astray, up, socket>>
      /\ evs \in Seq(Line)
  BY AnsweredFits DEF player, web, Shapes
<1>2. /\ asked /\ ~Among(Reconfigures, cmds) /\ ~Among(Answers, evs) /\ live = NoSession
      /\ ~Among(Starts, cmds) /\ ~Among({"join"}, cmds) /\ ~Among({"close"}, cmds)
      /\ ~Among({"welcome"}, evs) /\ scene.session = 0 /\ Impersonal(cmds)
      /\ SoleAnswer(evs) /\ SoleStart(cmds)
      /\ (dialing = "join" => ~scene.hosting)
      /\ (port = "browser" => EndsLast(evs) /\ ~Among({"disconnected"}, evs) /\ socket = "open")
  <2>1. asked /\ ~Among(Reconfigures, cmds) /\ ~Among(Answers, evs)
    BY <1>1 DEF Inv, Waiting
  <2> QED BY <1>1, <2>1, AmongKinds DEF Inv, Waiting, Joining, Knows, Meant, Sockets, DialsAlone
<1>3. \A i \in DOMAIN evs : ~Joins(evs[i])
  BY <1>2 DEF Among, Joins, Answers
<1>4. ASSUME NEW q \in Seq(Line), NEW l \in Line, q = Append(evs, l), l.type \in Answers,
             Joins(l) => Is(live', l.session)
      PROVE  /\ SoleAnswer(q) /\ Announces(q, live') /\ (port = "browser" => EndsLast(q))
             /\ HeardAs(scene, q, ModeOf(l.type))
             /\ (Among({"welcome"}, q) => l.type = "welcome")
  <2>1. Announces(evs, live')
    BY <1>3 DEF Announces
  <2>2. SoleAnswer(q) /\ Announces(q, live') /\ (port = "browser" => EndsLast(q))
    BY <1>1, <1>2, <1>4, <2>1, LineSent
  <2>3. HeardAs(scene, q, ModeOf(l.type))
    BY <1>1, <1>4, HeardAppend DEF Decides
  <2>4. Among({"welcome"}, q) => l.type = "welcome"
    BY <1>1, <1>2, <1>4, AmongAppend
  <2> QED BY <2>2, <2>3, <2>4
<1>5. /\ SoleAnswer(evs') /\ Announces(evs', live') /\ (port = "browser" => EndsLast(evs'))
      /\ (Among({"welcome"}, evs') => dialing = "join")
      /\ \/ live' = NoSession /\ HeardAs(scene, evs', "off") /\ UNCHANGED <<queue, lost>>
         \/ /\ live'.kind = "client" /\ HeardAs(scene, evs', "client") /\ readers' = 2
            /\ lost' = FALSE /\ ~Among({"Disconnected"}, queue')
         \/ /\ live'.kind = "host" /\ HeardAs(scene, evs', "host")
            /\ lost' = FALSE /\ ~Among({"Disconnected"}, queue')
  <2>1. CASE evs' = Append(evs, LineOf("error", 0, "own")) /\ LineOf("error", 0, "own") \in Line
             /\ UNCHANGED <<live, queue, readers, lost>>
    <3> DEFINE l == LineOf("error", 0, "own")
    <3>1. l.type = "error" /\ l.type \in Answers /\ ~Joins(l) /\ ModeOf(l.type) = "off"
      BY DEF LineOf, Answers, Joins, ModeOf
    <3> HIDE DEF l
    <3>2. l \in Line /\ evs' = Append(evs, l) /\ evs' \in Seq(Line)
      BY <1>1, <2>1, AppendAt DEF l
    <3>3. /\ SoleAnswer(evs') /\ Announces(evs', live') /\ (port = "browser" => EndsLast(evs'))
          /\ HeardAs(scene, evs', "off") /\ ~Among({"welcome"}, evs')
      BY <1>4, <3>1, <3>2
    <3> QED BY <1>2, <2>1, <3>3
  <2>2. CASE /\ evs' = Append(evs, LineOf("welcome", live'.id, "own"))
             /\ LineOf("welcome", live'.id, "own") \in Line
             /\ live' = [kind |-> "client", id |-> made'] /\ lost' = FALSE /\ readers' = 2
             /\ ~Among({"Disconnected"}, queue') /\ dialing = "join"
    <3> DEFINE l == LineOf("welcome", live'.id, "own")
    <3>1. l.type = "welcome" /\ l.type \in Answers /\ ModeOf(l.type) = "client"
          /\ Is(live', l.session)
      BY DEF LineOf, Answers, ModeOf, Is
    <3> HIDE DEF l
    <3>2. l \in Line /\ evs' = Append(evs, l) /\ evs' \in Seq(Line)
      BY <1>1, <2>2, AppendAt DEF l
    <3>3. /\ SoleAnswer(evs') /\ Announces(evs', live') /\ (port = "browser" => EndsLast(evs'))
          /\ HeardAs(scene, evs', "client")
      BY <1>4, <3>1, <3>2
    <3> QED BY <2>2, <3>3
  <2>3. CASE /\ evs' = Append(Append(evs, LineOf("hosting", live'.id, "own")),
                              LineOf("ticket", live'.id, "own"))
             /\ LineOf("hosting", live'.id, "own") \in Line
             /\ LineOf("ticket", live'.id, "own") \in Line
             /\ live' = [kind |-> "host", id |-> made'] /\ lost' = FALSE
             /\ ~Among({"Disconnected"}, queue') /\ port # "browser"
    <3> DEFINE l == LineOf("hosting", live'.id, "own")
               k == LineOf("ticket", live'.id, "own")
               q == Append(evs, l)
    <3>1. /\ l.type = "hosting" /\ l.type \in Answers /\ ModeOf(l.type) = "host"
          /\ Is(live', l.session)
          /\ k.type \notin Answers /\ k.type \notin Decides /\ ~Joins(k) /\ k.type \notin {"welcome"}
      BY DEF LineOf, Answers, Decides, ModeOf, Is, Joins
    <3> HIDE DEF l, k
    <3>2. l \in Line /\ k \in Line /\ q \in Seq(Line) /\ evs' = Append(q, k)
      BY <1>1, <2>3, AppendAt DEF l, k
    <3>3. /\ SoleAnswer(q) /\ Announces(q, live') /\ HeardAs(scene, q, "host")
          /\ ~Among({"welcome"}, q)
      BY <1>4, <3>1, <3>2
    <3> HIDE DEF q
    <3>4. SoleAnswer(evs') /\ Announces(evs', live')
      BY <3>1, <3>2, <3>3, LineSent
    <3>5. HeardAs(scene, evs', "host") /\ ~Among({"welcome"}, evs')
      BY <3>1, <3>2, <3>3, HeardAppend, AmongAppend
    <3> QED BY <2>3, <3>4, <3>5
  <2> QED BY <2>1, <2>2, <2>3, AnsweredFits
<1>6. Waiting' /\ Joining'
  BY <1>1, <1>2, <1>5 DEF Waiting, Joining
<1>7. Knows' /\ Meant'
  BY <1>1, <1>2, <1>5, NoneIsFine DEF Knows, Meant
<1>8. Reading'
  BY <1>2, <1>5, NoneIsFine DEF Inv, Reading
<1>9. Agreed'
  BY <1>1, <1>2, <1>5, NoneIsFine DEF Agreed
<1>10. Sockets'
  BY <1>1, <1>2, <1>5 DEF Sockets
<1>11. ~astray'
  BY Zenon, <1>1 DEF Inv
<1> QED BY <1>6, <1>7, <1>8, <1>9, <1>10, <1>11 DEF Inv

-----------------------------------------------------------------------------
(* The scene reads, and sockets come and go.                               *)

(* What a frame reads and what it leaves, and what both say.               *)
LEMMA FrameReads ==
  ASSUME Shapes, Inv, NEW n \in 1..Len(evs),
         NEW read, NEW rest, Cut(evs, n, read, rest),
         Drained(read)
  PROVE  /\ Expected(read) /\ SoleAnswer(rest) /\ Announces(rest, live)
         /\ (EndsLast(evs) => EndsLast(rest) /\ EndsLast(read))
         /\ SoleAnswer(read)
         /\ \A types : Among(types, evs) <=> Among(types, read) \/ Among(types, rest)
         /\ ~(Among(Answers, read) /\ Among(Answers, rest))
         /\ \A m : HeardAs(scene, evs, m) => HeardAs(scene', rest, m)
         /\ \A m : HeardAs(scene, read, m) => Mode(scene') = m
         /\ scene'.session # 0 => /\ InSession(scene') /\ Is(live, scene'.session)
                                  /\ Among(Answers, read) \/ scene'.session = scene.session
         /\ (scene'.hosting => scene.hosting \/ Among({"hosting"}, read))
<1>1. evs \in Seq(Line) /\ SoleAnswer(evs) /\ Announces(evs, live) /\ scene \in Scene
  BY DEF Shapes, Inv, Waiting, Knows
<1>2. /\ read \in Seq(Line) /\ rest \in Seq(Line)
      /\ \A types : Among(types, evs) <=> Among(types, read) \/ Among(types, rest)
      /\ SoleAnswer(read) /\ SoleAnswer(rest)
      /\ ~(Among(Answers, read) /\ Among(Answers, rest))
      /\ (EndsLast(evs) => EndsLast(read) /\ EndsLast(rest))
      /\ Announces(read, live) /\ Announces(rest, live)
      /\ \A s, m : HeardAs(s, evs, m) /\ ~Among(Decides, rest) => HeardAs(s, read, m)
      /\ \A s, t, m : HeardAs(s, evs, m) /\ (~Among(Decides, rest) => Mode(t) = m)
              => HeardAs(t, rest, m)
  <2>1. /\ read \in Seq(Line) /\ rest \in Seq(Line)
        /\ \A types : Among(types, evs) <=> Among(types, read) \/ Among(types, rest)
        /\ SoleAnswer(read) /\ SoleAnswer(rest)
        /\ ~(Among(Answers, read) /\ Among(Answers, rest))
    BY <1>1, LinesRead
  <2>2. EndsLast(evs) => EndsLast(read) /\ EndsLast(rest)
    BY <1>1, LinesRead
  <2>3. Announces(read, live) /\ Announces(rest, live)
    BY <1>1, LinesRead
  <2>4. \A s, m : HeardAs(s, evs, m) /\ ~Among(Decides, rest) => HeardAs(s, read, m)
    BY <1>1, LinesRead
  <2>5. \A s, t, m : HeardAs(s, evs, m) /\ (~Among(Decides, rest) => Mode(t) = m)
              => HeardAs(t, rest, m)
    BY <1>1, LinesRead
  <2> QED BY <2>1, <2>2, <2>3, <2>4, <2>5
<1>3. Among({"welcome"}, read) => ~Among({"hosting"}, read)
  <2> SUFFICES ASSUME NEW i \in DOMAIN read, read[i].type = "welcome",
                      NEW j \in DOMAIN read, read[j].type = "hosting"
               PROVE  FALSE
    BY DEF Among
  <2>1. i = j
    BY <1>2 DEF SoleAnswer, Answers
  <2> QED BY <2>1
<1>4. Expected(read)
  BY <1>1, <1>2, <1>3 DEF Expected, Inv, Knows, Joining
<1>5. /\ scene'.session # 0 =>
           /\ InSession(scene')
           /\ \/ scene'.session = scene.session
              \/ \E i \in 1..Len(read) : Joins(read[i]) /\ scene'.session = read[i].session
      /\ (scene'.hosting => scene.hosting \/ Among({"hosting"}, read))
      /\ \A m : HeardAs(scene, read, m) => Mode(scene') = m
  BY <1>4, DrainedSays
<1>6. DOMAIN read = 1..Len(read)
  BY <1>2
<1>7. scene'.session # 0 => /\ InSession(scene') /\ Is(live, scene'.session)
                            /\ Among(Answers, read) \/ scene'.session = scene.session
  <2>1. CASE scene'.session = scene.session
    BY <1>5, <2>1 DEF Inv, Knows
  <2>2. ASSUME NEW i \in 1..Len(read), Joins(read[i]), scene'.session = read[i].session
        PROVE  Is(live, scene'.session) /\ Among(Answers, read)
    BY <1>2, <1>6, <2>2 DEF Announces, Among, Joins, Answers
  <2> QED BY <1>5, <2>1, <2>2
<1>8. \A m : HeardAs(scene, evs, m) => HeardAs(scene', rest, m)
  BY <1>2, <1>5
<1> QED BY <1>2, <1>4, <1>5, <1>7, <1>8

LEMMA EveryLine ==
  ASSUME NEW S, NEW q \in Seq(S), q # <<>>
  PROVE  /\ Len(q) \in 1..Len(q) /\ SubSeq(q, 1, Len(q)) = q
         /\ SubSeq(q, Len(q) + 1, Len(q)) = <<>>
OBVIOUS

LEMMA Unanswered ==
  ASSUME NEW q \in Seq(Line)
  PROVE  (\A i \in 1..Len(q) : q[i].type \notin {"hosting", "welcome", "error"}) <=> ~Among(Answers, q)
<1>1. DOMAIN q = 1..Len(q)
  OBVIOUS
<1> QED BY <1>1 DEF Among, Answers

(* A frame that leaves the session as it is.                               *)
LEMMA FrameKeeps ==
  ASSUME Shapes, Inv, NEW n \in 1..Len(evs),
         NEW read, NEW rest, Cut(evs, n, read, rest),
         Drained(read), evs' = rest,
         port = "browser" => ~Among({"disconnected"}, read) /\ socket = "open",
         UNCHANGED <<port, cmds, live, dialing, queue, readers, lost, up, socket, astray>>
  PROVE  Inv'
<1>0. read \in Seq(Line) /\ evs \in Seq(Line) /\ DOMAIN read = 1..Len(read)
  <2>1. evs \in Seq(Line)
    BY DEF Shapes
  <2>2. read \in Seq(Line)
    BY <2>1, LinesRead
  <2> QED BY <2>1, <2>2
<1>1. /\ SoleAnswer(rest) /\ Announces(rest, live)
      /\ (EndsLast(evs) => EndsLast(rest))
      /\ \A types : Among(types, evs) <=> Among(types, read) \/ Among(types, rest)
      /\ ~(Among(Answers, read) /\ Among(Answers, rest))
      /\ \A m : HeardAs(scene, evs, m) => HeardAs(scene', rest, m)
      /\ scene'.session # 0 => /\ InSession(scene') /\ Is(live, scene'.session)
                               /\ Among(Answers, read) \/ scene'.session = scene.session
      /\ (scene'.hosting => scene.hosting \/ Among({"hosting"}, read))
  BY FrameReads
<1>2. asked' <=> asked /\ ~Among(Answers, read)
  <2>1. asked' = (asked /\ \A i \in 1..Len(read) :
                   read[i].type \notin {"hosting", "welcome", "error"}
                     \cup (IF port = "browser" THEN {"disconnected"} ELSE {}))
    BY DEF Drained
  <2>2. (\A i \in 1..Len(read) :
                   read[i].type \notin {"hosting", "welcome", "error"}
                     \cup (IF port = "browser" THEN {"disconnected"} ELSE {}))
        <=> \A i \in 1..Len(read) : read[i].type \notin {"hosting", "welcome", "error"}
    BY <1>0 DEF Among
  <2>3. asked \in BOOLEAN
    BY DEF Shapes
  <2> QED BY <1>0, <2>1, <2>2, <2>3, Unanswered
<1>3. Waiting'
  BY <1>1, <1>2 DEF Inv, Waiting
<1>4. Joining'
  <2>1. Among({"hosting"}, read) => Among(Answers, read)
    BY AmongKinds
  <2>2. Among({"join"}, cmds) \/ dialing = "join" => ~Among(Answers, evs)
    BY AmongKinds DEF Inv, Waiting
  <2>3. Among({"welcome"}, rest) => Among(Answers, rest)
    BY AmongKinds
  <2> QED BY <1>1, <2>1, <2>2, <2>3 DEF Inv, Joining
<1>5. Knows' /\ Meant' /\ Reading'
  BY <1>1, <1>2 DEF Inv, Knows, Meant, Reading
<1>6. Agreed'
  BY <1>1 DEF Inv, Agreed, Quiet
<1>7. Sockets'
  BY <1>1 DEF Inv, Sockets
<1>8. ~astray'
  BY Zenon DEF Inv
<1> QED BY <1>3, <1>4, <1>5, <1>6, <1>7, <1>8 DEF Inv

(* A socket goes with what was on its way.                                 *)
LEMMA AbandonedKeeps ==
  ASSUME Shapes, Inv, Abandoned, evs' = <<>>, UNCHANGED <<port, astray>>, port = "browser",
         scene'.session # 0 => ~asked' /\ InSession(scene'), ~InSession(scene') \/ socket' = "closed" \/ up' # "running",
         socket' \in {"none", "closed"}
  PROVE  Inv'
<1>1. /\ live' = NoSession /\ dialing' = "none" /\ queue' = <<>> /\ lost' = FALSE
      /\ cmds' = <<>>
  BY DEF Abandoned
<1>2. Waiting' /\ Joining' /\ Knows' /\ Meant'
  BY <1>1, NoneIsFine, NothingWaits, AmongEmpty DEF Waiting, Joining, Knows, Meant, Is
<1>3. Reading'
  BY <1>1, NoneIsFine, AmongEmpty DEF Reading
<1>4. Agreed'
  <2>1. ~InSession(scene') => HeardAs(scene', evs', "off")
    BY HeardEmpty DEF InSession
  <2> QED BY <1>1, <2>1, NoneIsFine, AmongEmpty DEF Agreed, Quiet
<1>5. Sockets'
  BY <1>1, NothingWaits, AmongEmpty DEF Sockets
<1>6. ~astray'
  BY Zenon DEF Inv
<1> QED BY <1>2, <1>3, <1>4, <1>5, <1>6 DEF Inv

LEMMA FramesKeep ==
  ASSUME Shapes, Inv, PollEvents, UNCHANGED web
  PROVE  Inv'
<1>1. /\ port # "browser" /\ evs # <<>> /\ Drained(evs) /\ evs' = <<>>
      /\ UNCHANGED <<port, cmds, live, dialing, queue, readers, lost, up, socket, astray>>
  BY DEF PollEvents, thread, web
<1>2. Len(evs) \in 1..Len(evs) /\ Cut(evs, Len(evs), evs, <<>>)
  BY <1>1, EveryLine DEF Cut, Shapes
<1> QED BY <1>1, <1>2, FrameKeeps

(* A line that ends the session is the last the bridge reads of it.        *)
LEMMA EndIsHeard ==
  ASSUME NEW q \in Seq(Line), Ends(q), SoleAnswer(q), EndsLast(q)
  PROVE  HeardAs(scene, q, "off") /\ Among(Decides, q)
<1>0. DOMAIN q = 1..Len(q)
  OBVIOUS
<1>1. PICK k \in DOMAIN q : q[k].type \in {"error", "disconnected"}
  BY <1>0 DEF Ends
<1>2. Among(Decides, q)
  BY <1>1 DEF Among, Decides, Answers
<1>3. ASSUME NEW i \in DOMAIN q, q[i].type \in Decides,
             \A j \in DOMAIN q : j > i => q[j].type \notin Decides
      PROVE  ModeOf(q[i].type) = "off"
  <2>1. CASE q[i].type \in {"hosting", "welcome"}
    <3>1. q[i].type \in Answers /\ q[k].type \in Decides
      BY <1>1, <2>1 DEF Answers, Decides
    <3>2. CASE q[k].type = "error"
      <4>1. i = k
        BY <3>1, <3>2 DEF SoleAnswer, Answers
      <4> QED BY <2>1, <3>2, <4>1
    <3>3. CASE q[k].type = "disconnected"
      <4>1. i < k
        BY <3>1, <3>3 DEF EndsLast
      <4>2. k > i
        BY <1>0, <4>1
      <4> QED BY <1>3, <3>1, <4>2
    <3> QED BY <1>1, <3>2, <3>3
  <2>2. CASE q[i].type \notin {"hosting", "welcome"}
    BY <2>2 DEF ModeOf
  <2> QED BY <2>1, <2>2
<1> QED BY <1>2, <1>3 DEF HeardAs

LEMMA WebPollKeeps ==
  ASSUME Shapes, Inv, WebPoll
  PROVE  Inv'
<1>1. PICK n \in 1..Len(evs) :
        LET lines == SubSeq(evs, 1, n)
        IN /\ Drained(lines)
           /\ IF Ends(lines)
                THEN socket' = "none" /\ Abandoned /\ evs' = <<>>
                ELSE /\ evs' = SubSeq(evs, n + 1, Len(evs))
                     /\ UNCHANGED <<socket, hung, live, dialing, queue, readers, lost, cmds>>
  BY DEF WebPoll
<1> DEFINE read == SubSeq(evs, 1, n)
           rest == SubSeq(evs, n + 1, Len(evs))
<1>2. Cut(evs, n, read, rest) /\ Drained(read)
  BY <1>1 DEF Cut
<1>3. \/ Ends(read) /\ socket' = "none" /\ Abandoned /\ evs' = <<>>
      \/ /\ ~Ends(read) /\ evs' = rest
         /\ UNCHANGED <<socket, live, dialing, queue, readers, lost, cmds>>
  BY <1>1
<1> HIDE DEF read, rest
<1>4. port = "browser" /\ UNCHANGED <<port, up, astray>> /\ socket = "open" /\ evs \in Seq(Line)
  BY DEF WebPoll, Shapes
<1>5. /\ read \in Seq(Line) /\ SoleAnswer(read) /\ EndsLast(read)
      /\ \A m : HeardAs(scene, read, m) => Mode(scene') = m
      /\ (scene'.session # 0 => InSession(scene'))
  <2>1. read \in Seq(Line)
    BY <1>2, <1>4, LinesRead
  <2>2. EndsLast(evs)
    BY <1>4 DEF Inv, Sockets
  <2> QED BY <1>2, <2>1, <2>2, FrameReads
<1>6. CASE Ends(read) /\ socket' = "none" /\ Abandoned /\ evs' = <<>>
  <2>1. Mode(scene') = "off"
    BY <1>5, <1>6, EndIsHeard
  <2>2. ~InSession(scene') /\ ~(scene'.session # 0)
    BY <1>5, <2>1 DEF InSession
  <2> QED BY <1>4, <1>6, <2>2, AbandonedKeeps
<1>7. CASE /\ ~Ends(read) /\ evs' = rest
           /\ UNCHANGED <<socket, live, dialing, queue, readers, lost, cmds>>
  <2>1. ~Among({"disconnected"}, read)
    <3>1. DOMAIN read = 1..Len(read)
      BY <1>5
    <3> QED BY <1>7, <3>1 DEF Among, Ends
  <2> QED BY <1>2, <1>4, <1>7, <2>1, FrameKeeps
<1> QED BY <1>3, <1>6, <1>7

LEMMA PollClosedKeeps ==
  ASSUME Shapes, Inv, HungOK, WebPollClosed
  PROVE  Inv'
<1> DEFINE l == LineOf("disconnected", 0, "own")
           q == <<l>>
<1>1. /\ port = "browser" /\ socket = "closed" /\ socket' = "none"
      /\ UNCHANGED <<port, cmds, evs, live, dialing, queue, readers, lost, astray, up>>
      /\ live = NoSession /\ dialing = "none" /\ evs = <<>> /\ ~Among(Starts, cmds)
  BY DEF WebPollClosed, HungOK, thread, Inv, Sockets
<1>2. Lines(<<"disconnected">>, 0, "own") = q /\ Drained(q)
  <2>1. Lines(<<"disconnected">>, 0, "own") = q
    BY DEF Lines, LineOf
  <2> QED BY <2>1 DEF WebPollClosed
<1>3. l \in Line /\ l.type = "disconnected"
  BY LinesFit DEF LineTypes, Streams, LineOf
<1> HIDE DEF l
<1>4. q \in Seq(Line) /\ Len(q) = 1 /\ q[1].type = "disconnected" /\ DOMAIN q = 1..1
  BY <1>3
<1> HIDE DEF q
<1>5. Expected(q) /\ HeardAs(scene, q, "off")
  <2>1. ~Among({"welcome"}, q)
    BY <1>4 DEF Among
  <2>2. Expected(q)
    BY <1>4, <2>1 DEF Expected, Shapes, Inv, Knows
  <2>3. HeardAs(scene, q, "off")
    BY <1>4 DEF HeardAs, Among, Decides, ModeOf
  <2> QED BY <2>2, <2>3
<1>6. Mode(scene') = "off" /\ scene'.session = 0 /\ ~InSession(scene')
  <2>1. Mode(scene') = "off"
    BY <1>2, <1>5, DrainedSays
  <2>2. scene'.session # 0 => InSession(scene')
    BY <1>2, <1>5, DrainedSays
  <2> QED BY <2>1, <2>2 DEF InSession
<1>7. Waiting' /\ Joining' /\ Knows' /\ Meant' /\ Reading'
  <2>1. ~Among({"join"}, cmds)
    BY <1>1, AmongKinds
  <2> QED BY <1>1, <1>6, <2>1, NothingWaits, AmongEmpty
          DEF Inv, Waiting, Joining, Knows, Meant, Reading
<1>8. Agreed'
  BY <1>1, <1>6, HeardEmpty, NoneIsFine DEF Agreed
<1>9. Sockets'
  BY <1>1, <1>6, NothingWaits, AmongEmpty DEF Sockets
<1>10. ~astray'
  BY Zenon, <1>1 DEF Inv
<1> QED BY <1>7, <1>8, <1>9, <1>10 DEF Inv

LEMMA SocketsKeep ==
  ASSUME Shapes, Inv, HungOK, SocketOpens \/ SocketLost \/ WebShutdown
  PROVE  Inv'
<1>1. CASE SocketOpens
  <2>1. /\ UNCHANGED <<port, scene, asked, cmds, evs, live, dialing, queue, readers, lost, up, astray>>
        /\ socket = "connecting" /\ socket' = "open" /\ port = "browser"
    BY <1>1 DEF SocketOpens, vars, player, thread, HungOK
  <2>2. Among(Starts, cmds) /\ Among(Reconfigures, cmds)
    BY <2>1, AmongKinds DEF Inv, Sockets
  <2>3. Waiting' /\ Joining' /\ Knows' /\ Meant' /\ Reading'
    BY <2>1 DEF Inv, Waiting, Joining, Knows, Meant, Reading
  <2>4. Agreed' /\ Sockets'
    BY <2>1, <2>2 DEF Inv, Agreed, Quiet, Sockets
  <2>5. ~astray'
    BY Zenon, <2>1 DEF Inv
  <2> QED BY <2>3, <2>4, <2>5 DEF Inv
<1>2. CASE SocketLost \/ WebShutdown
  <2>1. /\ UNCHANGED <<port, scene, asked, astray>> /\ Abandoned /\ evs' = <<>> /\ port = "browser"
        /\ socket' = "closed" \/ up' # "running"
        /\ socket' \in {"none", "closed"}
    BY <1>2 DEF SocketLost, WebShutdown, player, HungOK
  <2>2. scene'.session # 0 => ~asked' /\ InSession(scene')
    BY <2>1 DEF Inv, Knows
  <2> QED BY <2>1, <2>2, AbandonedKeeps
<1> QED BY <1>1, <1>2

LEMMA AskedKeeps ==
  ASSUME Shapes, Inv, Patient, HungOK,
         \/ /\ AskHost \/ AskJoin \/ AskLeave \/ (\E kind \in Tells : AskTell(kind))
               \/ \E verb \in SwarmVerbs : AskSwarm(verb)
            /\ UNCHANGED web
         \/ WebJoin \/ WebLeave \/ \E kind \in Tells : WebSend(kind)
  PROVE  Inv'
<1>1. CASE ((AskHost \/ AskJoin) /\ UNCHANGED web) \/ WebJoin
  BY <1>1, StartAskedKeeps DEF WebJoin
<1>2. CASE (AskLeave /\ UNCHANGED web) \/ WebLeave
  BY <1>2, LeaveKeeps DEF WebLeave
<1>3. ASSUME NEW kind \in Tells, (AskTell(kind) /\ UNCHANGED web) \/ WebSend(kind) PROVE Inv'
  <2>1. kind \in Kinds \cup SwarmVerbs
    BY TellsAssumption
  <2>2. Send(kind) /\ UNCHANGED <<port, player, evs, thread, astray, up, web>>
    BY <1>3 DEF AskTell, WebSend, Queued
  <2> QED BY <2>1, <2>2, TellAskedKeeps
<1>4. ASSUME NEW verb \in SwarmVerbs, AskSwarm(verb), UNCHANGED web PROVE Inv'
  <2>1. Send(verb) /\ UNCHANGED <<port, player, evs, thread, astray, up, web>>
    BY <1>4 DEF AskSwarm, Queued
  <2> QED BY <2>1, TellAskedKeeps
<1> QED BY <1>1, <1>2, <1>3, <1>4

-----------------------------------------------------------------------------
(* All of it.                                                              *)

LEMMA InvIsKept ==
  ASSUME Patient, Shapes, Accounted, Inv, [Next]_allvars
  PROVE  Inv'
<1>0. HungOK /\ DialsAlone
  BY DEF Accounted
<1>1. CASE Native /\ UNCHANGED web
  <2>1. CASE Peers \/ ReaderEnds
    BY <1>1, <2>1, PeersKeep
  <2>2. CASE Player
    BY <1>0, <1>1, <2>2, AskedKeeps, EndingKeeps DEF Player
  <2>3. CASE PollEvents
    BY <1>1, <2>3, FramesKeep
  <2>4. CASE Listens
    BY <1>1, <2>4, ForwardKeeps, EndedKeeps DEF Listens
  <2>5. CASE Serves
    BY <1>0, <1>1, <2>5, ToldKeeps, SwarmKeeps, ReplaceKeeps, AnsweredKeeps, EndingKeeps
       DEF Serves, Answered
  <2> QED BY <1>1, <2>1, <2>2, <2>3, <2>4, <2>5 DEF Native
<1>2. CASE Browser
  <2>1. CASE WebJoin \/ WebLeave \/ \E kind \in Tells : WebSend(kind)
    BY <1>0, <2>1, AskedKeeps
  <2>2. CASE WebShutdown \/ SocketOpens \/ SocketLost
    BY <1>0, <2>2, SocketsKeep
  <2>3. CASE Page
    BY <1>0, <2>3, WebPollKeeps, PollClosedKeeps DEF Page
  <2>4. CASE GatewayListens
    BY <2>4, ForwardKeeps, EndedKeeps DEF GatewayListens
  <2>5. CASE GatewayServes
    <3>1. CASE GatewayTell
      BY <3>1, ToldKeeps DEF GatewayTell
    <3>2. CASE GatewayJoins
      BY <1>0, <3>2, AnsweredKeeps DEF GatewayJoins, Answered
    <3> QED BY <2>5, <3>1, <3>2, JoinTakenKeeps, GatewayCloseKeeps DEF GatewayServes
  <2>6. CASE \E id \in hung : HangsUp(id)
    <3>1. UNCHANGED <<port, scene, asked, cmds, evs, live, dialing, queue, readers, lost,
                      astray, up, socket>>
      BY <2>6 DEF HangsUp, player
    <3> QED BY <3>1, Zenon DEF Inv, Waiting, Joining, Knows, Meant, Reading, Agreed, Sockets, Quiet
  <2> QED BY <1>2, <2>1, <2>2, <2>3, <2>4, <2>5, <2>6 DEF Browser
<1>3. CASE UNCHANGED allvars
  <2>1. UNCHANGED <<port, scene, asked, cmds, evs, live, dialing, queue, readers, lost,
                    astray, up, socket>>
    BY <1>3 DEF allvars, vars, player, thread, web
  <2> QED BY <2>1, Zenon DEF Inv, Waiting, Joining, Knows, Meant, Reading, Agreed, Sockets, Quiet
<1> QED BY <1>1, <1>2, <1>3 DEF Next

LEMMA InvAtFirst == NetInit => Inv
<1> SUFFICES ASSUME NetInit PROVE Inv
  OBVIOUS
<1>1. /\ scene = Alone /\ asked = FALSE /\ cmds = <<>> /\ evs = <<>> /\ queue = <<>>
      /\ live = NoSession /\ dialing = "none" /\ readers = 0 /\ lost = FALSE
      /\ astray = FALSE /\ socket = "none"
  BY DEF NetInit, Init
<1>2. Mode(scene) = "off" /\ ~InSession(scene) /\ scene.session = 0
  BY <1>1 DEF Alone, Mode, InSession
<1>3. Waiting /\ Joining /\ Knows /\ Meant
  BY <1>1, <1>2, NothingWaits, AmongEmpty DEF Waiting, Joining, Knows, Meant
<1>4. Reading /\ Sockets
  BY <1>1, <1>2, NoneIsFine, NothingWaits, AmongEmpty DEF Reading, Sockets
<1>5. Agreed
  BY <1>1, <1>2, NoneIsFine, HeardEmpty, AmongEmpty DEF Agreed
<1> QED BY <1>1, <1>3, <1>4, <1>5 DEF Inv

(* The thread, the scene and their queues keep to their types: sessions are *)
(* numbered as they start, a queue holds what its end understands.          *)
THEOREM TypeCorrect == Spec => []TypeOK
<1>1. Shapes /\ Accounted /\ SwarmIsFlag => TypeOK
  <2> SUFFICES ASSUME Shapes, Accounted, SwarmIsFlag PROVE TypeOK
    OBVIOUS
  <2>1. advert \in BOOLEAN
    BY Zenon DEF Accounted, AdvertsMatch
  <2>2. MaxSessions \in Nat /\ made \in Nat /\ made <= MaxSessions
    BY NetAssumption DEF Shapes
  <2>3. made \in 0..MaxSessions /\ 1..made \subseteq 1..MaxSessions
    BY <2>2
  <2>4. open \subseteq 1..made
    <3>1. live.id \in 0..made
      BY DEF Accounted, LiveOK, NoSession
    <3>2. made \in Nat /\ hung \subseteq 1..made
      BY DEF Accounted, LiveOK, HungOK
    <3>3. {live.id} \ {0} \subseteq 1..made
      BY <3>1, <3>2
    <3>4. open = ({live.id} \ {0}) \cup hung
      BY DEF Accounted, SessionsAreClosed
    <3> QED BY ONLY <3>2, <3>3, <3>4, Zenon
  <2>5. live \in Session \cup {NoSession}
    BY <2>3 DEF Shapes, Session
  <2>6. {lost, swarm, advert, astray} \subseteq BOOLEAN
    BY Zenon, <2>1 DEF Shapes, SwarmIsFlag
  <2> QED BY <2>3, <2>4, <2>5, <2>6 DEF Shapes, TypeOK
<1> QED BY <1>1, ShapesAtFirst, ShapesAreKept, BooksAtFirst, BooksAreKept, FlagAtFirst,
           FlagIsKept, PTL DEF Spec

LEMMA PatientHolds ==
  ASSUME Patient
  PROVE  Spec => []Inv
BY InvAtFirst, InvIsKept, ShapesAtFirst, ShapesAreKept, BooksAtFirst, BooksAreKept,
   FlagAtFirst, FlagIsKept, PTL DEF Spec

(* What a patient player says in a session never reaches another: between   *)
(* what was said in it and the session that follows there is the close or   *)
(* the host that replaces it (`handle` of net.rs, net_web.rs's queue).      *)
THEOREM WordsStayWhereTheyWereSaid ==
  ASSUME Patient
  PROVE  Spec => []NothingGoesAstray
<1>1. Inv => NothingGoesAstray
  BY DEF Inv, NothingGoesAstray
<1> QED BY <1>1, PatientHolds, PTL

(* With all lines drained and all commands taken, the scene of a patient    *)
(* player is in the session the thread runs, as what the thread is in it.   *)
THEOREM RestIsAgreement ==
  ASSUME Patient
  PROVE  Spec => []AtRestTheyAgree
<1>1. Inv /\ Shapes => AtRestTheyAgree
  <2> SUFFICES ASSUME Inv, Shapes, Rest PROVE Mode(scene) = IF live = NoSession THEN "off" ELSE live.kind
    BY DEF AtRestTheyAgree
  <2>1. up = "running" /\ Quiet /\ ~lost /\ evs = <<>>
    BY AmongEmpty DEF Rest, Quiet
  <2>2. /\ live = NoSession => Mode(scene) = "off"
        /\ live.kind = "host" => Mode(scene) = "host"
        /\ live.kind = "client" => Mode(scene) = "client"
    BY <2>1, HeardEmpty DEF Inv, Agreed
  <2>3. live = NoSession \/ live.kind \in {"host", "client"}
    BY DEF Shapes
  <2>4. NoSession.kind = "none"
    BY DEF NoSession
  <2> QED BY <2>2, <2>3, <2>4
<1> QED BY <1>1, PatientHolds, ShapesAtFirst, ShapesAreKept, PTL DEF Spec

=============================================================================
