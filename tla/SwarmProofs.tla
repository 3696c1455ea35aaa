---------------------------- MODULE SwarmProofs ----------------------------
(***************************************************************************)
(* No dead portals, for any number of nodes, subscriptions and sessions,   *)
(* any queue length and any number of losses; and the list keeps to        *)
(* MAX_HOSTS.                                                              *)
(***************************************************************************)
EXTENDS Swarm, SequenceTheorems, FiniteSetTheorems, TLAPS

(* What a queue says of a session, and whether it takes it back.           *)
SaidIn(q, t) == \E i \in DOMAIN q : q[i] = Advert(t)
KilledIn(q, t) ==
  \E i \in DOMAIN q : /\ q[i].do \in {"withdraw", "leave"}
                      /\ \A j \in i..Len(q) : q[j] # Advert(t)

Says(s, t) == own[s] = t \/ SaidIn(cmds[s], t)

(* Types, and who a session, a swarm and a queue belong to.                *)
Typed ==
  /\ TypeOK
  /\ cmds \in [Subs -> Seq(Command)]
  /\ \A s \in Subs : IsFiniteSet(Listed(s))

Belongs ==
  /\ \A n \in Nodes : session[n] \notin fresh
  /\ \A n \in Nodes : current[n] # None =>
       \A i \in DOMAIN cmds[current[n]] : cmds[current[n]][i].do # "leave"
  /\ \A s \in Subs \ On :
       own[s] = None /\ cmds[s] = <<>> /\ \A t \in Tickets : hosts[s][t] = Absent

(* A task that says that somebody hosts is told otherwise, or was missed.  *)
Told ==
  \A s \in Subs, t \in Tickets : Says(s, t) =>
    /\ Home[t] = Owner[s] /\ t \notin fresh
    /\ \/ t \in missed
       \/ KilledIn(cmds[s], t)
       \/ t \in Hosted /\ current[Owner[s]] = s

(* What is over, and ought to be forgotten.                                *)
Ended(t) == t \notin Hosted \cup fresh \cup missed

(* Nothing speaks of what ended before this tick, and no list is younger.  *)
Ages ==
  /\ \A t \in fresh : over[t] = 0
  /\ \A t \in Tickets : Ended(t) =>
       /\ \A s \in Subs : Says(s, t) => over[t] = 0
       /\ \A m \in net : m.kind = "advert" /\ m.ticket = t => over[t] = 0
       /\ \A s \in Subs : t \in Listed(s) => over[t] <= hosts[s][t]
  /\ \A s \in On \cap ticked, t \in Tickets : hosts[s][t] # TTL


-----------------------------------------------------------------------------
(* The queue to a task.                                                    *)

LEMMA Commands ==
  /\ \A t \in Tickets : Advert(t) \in Command /\ Advert(t).do = "advert" /\ Advert(t).ticket = t
  /\ \A do \in {"withdraw", "peers", "leave"} : Cmd(do) \in Command /\ Cmd(do).do = do
  /\ \A c \in Command : c.do = "advert" => c.ticket \in Tickets /\ c = Advert(c.ticket)
  /\ \A c \in Command : c.do \in {"advert", "withdraw", "peers", "leave"}
BY DEF Advert, Cmd, Command

LEMMA AppendSays ==
  ASSUME NEW q \in Seq(Command), NEW c \in Command, NEW t \in Tickets
  PROVE  /\ SaidIn(Append(q, c), t) => SaidIn(q, t) \/ c = Advert(t)
         /\ KilledIn(q, t) /\ c # Advert(t) => KilledIn(Append(q, c), t)
         /\ c.do \in {"withdraw", "leave"} => KilledIn(Append(q, c), t)
<1> DEFINE p == Append(q, c)
<1>1. /\ p \in Seq(Command) /\ Len(q) \in Nat /\ Len(p) = Len(q) + 1
      /\ DOMAIN q = 1..Len(q) /\ DOMAIN p = 1..Len(p)
      /\ \A i \in 1..Len(q) : p[i] = q[i]
      /\ p[Len(p)] = c
  BY AppendProperties
<1> HIDE DEF p
<1>2. SaidIn(p, t) => SaidIn(q, t) \/ c = Advert(t)
  BY <1>1 DEF SaidIn
<1>3. ASSUME KilledIn(q, t), c # Advert(t) PROVE KilledIn(p, t)
  <2>1. PICK i \in 1..Len(q) : /\ q[i].do \in {"withdraw", "leave"}
                               /\ \A j \in i..Len(q) : q[j] # Advert(t)
    BY <1>1, <1>3 DEF KilledIn
  <2>2. \A j \in i..Len(p) : p[j] # Advert(t)
    BY <1>1, <1>3, <2>1
  <2> QED BY <1>1, <2>1, <2>2 DEF KilledIn
<1>4. ASSUME c.do \in {"withdraw", "leave"} PROVE KilledIn(p, t)
  <2>1. c # Advert(t)
    BY <1>4, Commands
  <2>2. Len(p) \in DOMAIN p /\ \A j \in Len(p)..Len(p) : p[j] # Advert(t)
    BY <1>1, <2>1
  <2> QED BY <1>1, <1>4, <2>2 DEF KilledIn
<1> QED BY <1>2, <1>3, <1>4 DEF p

LEMMA TailSays ==
  ASSUME NEW q \in Seq(Command), q # <<>>, NEW t \in Tickets
  PROVE  /\ SaidIn(Tail(q), t) => SaidIn(q, t)
         /\ Head(q) = Advert(t) => SaidIn(q, t)
         /\ KilledIn(q, t) /\ (SaidIn(Tail(q), t) \/ Head(q).do \in {"advert", "peers"})
              => KilledIn(Tail(q), t)
<1> DEFINE p == Tail(q)
<1>1. /\ p \in Seq(Command) /\ Len(q) \in Nat \ {0} /\ Len(p) = Len(q) - 1
      /\ DOMAIN q = 1..Len(q) /\ DOMAIN p = 1..Len(p)
      /\ \A i \in 1..Len(p) : p[i] = q[i + 1]
      /\ Head(q) = q[1]
  BY HeadTailProperties, EmptySeq
<1> HIDE DEF p
<1>2. ASSUME SaidIn(p, t) PROVE SaidIn(q, t) /\ \E j \in 2..Len(q) : q[j] = Advert(t)
  <2>1. PICK i \in 1..Len(p) : p[i] = Advert(t)
    BY <1>1, <1>2 DEF SaidIn
  <2>2. i + 1 \in 2..Len(q) /\ i + 1 \in 1..Len(q) /\ q[i + 1] = Advert(t)
    BY <1>1, <2>1
  <2> QED BY <1>1, <2>2 DEF SaidIn
<1>3. Head(q) = Advert(t) => SaidIn(q, t)
  BY <1>1 DEF SaidIn
<1>4. ASSUME KilledIn(q, t), SaidIn(p, t) \/ Head(q).do \in {"advert", "peers"}
      PROVE  KilledIn(p, t)
  <2>1. PICK i \in 1..Len(q) : /\ q[i].do \in {"withdraw", "leave"}
                               /\ \A j \in i..Len(q) : q[j] # Advert(t)
    BY <1>1, <1>4 DEF KilledIn
  <2>2. i # 1
    <3>1. CASE SaidIn(p, t)
      BY <1>1, <1>2, <2>1, <3>1
    <3>2. CASE Head(q).do \in {"advert", "peers"}
      BY <1>1, <2>1, <3>2
    <3> QED BY <1>4, <3>1, <3>2
  <2>3. i - 1 \in 1..Len(p) /\ p[i - 1] = q[i]
    BY <1>1, <2>1, <2>2
  <2>4. ASSUME NEW j \in (i - 1)..Len(p) PROVE p[j] # Advert(t)
    <3>1. j \in 1..Len(p) /\ j + 1 \in i..Len(q)
      BY <1>1, <2>1, <2>3
    <3> QED BY <1>1, <2>1, <3>1
  <2> QED BY <1>1, <2>1, <2>3, <2>4 DEF KilledIn
<1> QED BY <1>2, <1>3, <1>4 DEF p

LEMMA NothingSaid == \A t \in Tickets : ~SaidIn(<<>>, t) /\ ~KilledIn(<<>>, t)
BY DEF SaidIn, KilledIn

LEMMA Queues ==
  ASSUME Typed, NEW s \in Subs, NEW c \in Command
  PROVE  /\ TrySend(s, c) \in [Subs -> Seq(Command)]
         /\ \A u \in Subs \ {s} : TrySend(s, c)[u] = cmds[u]
         /\ TrySend(s, c)[s] = IF Room(s) THEN Append(cmds[s], c) ELSE cmds[s]
<1>1. cmds \in [Subs -> Seq(Command)] /\ Append(cmds[s], c) \in Seq(Command)
  BY AppendProperties DEF Typed
<1> QED BY <1>1 DEF TrySend

LEMMA LastWords ==
  ASSUME Typed, NEW s \in Subs
  PROVE  /\ LastWord(s) \in [Subs -> Seq(Command)]
         /\ \A u \in Subs \ {s} : LastWord(s)[u] = cmds[u]
         /\ LastWord(s) = cmds \/ LastWord(s)[s] = Append(cmds[s], Cmd("leave"))
<1>1. cmds \in [Subs -> Seq(Command)] /\ Append(cmds[s], Cmd("leave")) \in Seq(Command)
  BY AppendProperties, Commands DEF Typed
<1> QED BY <1>1 DEF LastWord

LEMMA Tells ==
  ASSUME Typed, NEW n \in Nodes, NEW c \in Command
  PROVE  /\ Tell(n, c) \in [Subs -> Seq(Command)]
         /\ \A u \in Subs : current[n] # u => Tell(n, c)[u] = cmds[u]
         /\ \A u \in Subs : current[n] = u =>
              Tell(n, c)[u] = IF Room(u) THEN Append(cmds[u], c) ELSE cmds[u]
<1>1. current[n] \in Subs \cup {None} /\ None \notin Subs /\ cmds \in [Subs -> Seq(Command)]
  BY NamesAssumption DEF Typed, TypeOK
<1>2. CASE current[n] = None
  BY <1>1, <1>2 DEF Tell
<1>3. CASE current[n] # None
  BY <1>1, <1>3, Queues DEF Tell
<1> QED BY <1>2, <1>3

-----------------------------------------------------------------------------
(* A list.                                                                 *)

In(list) == {t \in Tickets : list[t] # Absent}

LEMMA FewerFit ==
  ASSUME NEW A, NEW B, A \subseteq B, IsFiniteSet(B), Cardinality(B) <= MaxHosts
  PROVE  IsFiniteSet(A) /\ Cardinality(A) <= MaxHosts
<1>1. IsFiniteSet(A) /\ Cardinality(A) <= Cardinality(B)
  BY FS_Subset
<1>2. Cardinality(A) \in Nat /\ Cardinality(B) \in Nat /\ MaxHosts \in Nat
  BY <1>1, FS_CardinalityType, NumbersAssumption
<1> QED BY <1>1, <1>2

LEMMA AdmittedFits ==
  ASSUME NEW list \in [Tickets -> Age], NEW t \in Tickets, NEW new \in Admitted(list, t),
         IsFiniteSet(In(list)), Cardinality(In(list)) <= MaxHosts
  PROVE  /\ new \in [Tickets -> Age]
         /\ IsFiniteSet(In(new)) /\ Cardinality(In(new)) <= MaxHosts
         /\ \A u \in Tickets : new[u] = Absent \/ new[u] = list[u] \/ (u = t /\ new[u] = 0)
<1> DEFINE with == [list EXCEPT ![t] = 0]
<1>0. 0 \in Age /\ Absent \in Age /\ Absent # 0 /\ MaxHosts \in Nat
  BY NumbersAssumption DEF Age, Absent
<1>1. with \in [Tickets -> Age] /\ In(with) = In(list) \cup {t}
  BY <1>0 DEF In
<1>2. /\ IsFiniteSet(In(with)) /\ Cardinality(In(with)) \in Nat
      /\ Cardinality(In(with)) <= MaxHosts + 1
  <2> HIDE DEF with
  <2>1. IsFiniteSet(In(with)) /\ Cardinality(In(with)) \in Nat /\ Cardinality(In(list)) \in Nat
    <3>1. IsFiniteSet(In(list) \cup {t})
      BY FS_AddElement
    <3> QED BY <1>1, <3>1, FS_CardinalityType
  <2>2. \/ Cardinality(In(with)) = Cardinality(In(list))
        \/ Cardinality(In(with)) = Cardinality(In(list)) + 1
    BY <1>1, FS_AddElement
  <2> QED BY <1>0, <2>1, <2>2
<1>3. CASE Cardinality(In(with)) <= MaxHosts
  <2>1. new = with
    BY <1>3 DEF Admitted, In
  <2> QED BY <1>1, <1>2, <1>3, <2>1
<1>4. CASE ~(Cardinality(In(with)) <= MaxHosts)
  <2>1. PICK u \in In(with) : new = [with EXCEPT ![u] = Absent]
    BY <1>4 DEF Admitted, In
  <2>2. u \in Tickets /\ In(new) = In(with) \ {u}
    BY <1>0, <1>1, <2>1 DEF In
  <2>3. IsFiniteSet(In(new)) /\ Cardinality(In(new)) = Cardinality(In(with)) - 1
    <3> HIDE DEF with
    <3>1. IsFiniteSet(In(with) \ {u}) /\ Cardinality(In(with) \ {u}) = Cardinality(In(with)) - 1
      BY <1>2, <2>1, FS_RemoveElement
    <3> QED BY <2>2, <3>1
  <2>4. Cardinality(In(new)) <= MaxHosts
    BY <1>0, <1>2, <2>3
  <2> QED BY <1>0, <1>1, <2>1, <2>2, <2>3, <2>4
<1> QED BY <1>3, <1>4

-----------------------------------------------------------------------------
(* Types, part by part.                                                    *)

Threads ==
  /\ session \in [Nodes -> Tickets \cup {None}]
  /\ current \in [Nodes -> Subs \cup {None}]
  /\ shown \in [Nodes -> SUBSET Tickets]
  /\ fresh \subseteq Tickets /\ missed \subseteq Tickets
  /\ over \in [Tickets -> 0..LongOver]
  /\ heard \in 0..MaxPeers /\ lost \in 0..MaxLost

Tasks ==
  /\ task \in [Subs -> {"new", "on", "over"}]
  /\ own \in [Subs -> Tickets \cup {None}]
  /\ cmds \in [Subs -> Seq(Command)]
  /\ since \in [Subs -> 0..Every]
  /\ met \subseteq Subs /\ ticked \subseteq Subs \cup Nodes /\ net \subseteq Message

Lists ==
  /\ hosts \in [Subs -> [Tickets -> Age]]
  /\ \A s \in Subs : IsFiniteSet(In(hosts[s])) /\ Cardinality(In(hosts[s])) <= MaxHosts

Sessions == \A n \in Nodes : session[n] # None => Home[session[n]] = n /\ session[n] \notin fresh

Swarms ==
  \A n \in Nodes : current[n] # None =>
    /\ Owner[current[n]] = n /\ task[current[n]] = "on"
    /\ \A i \in DOMAIN cmds[current[n]] : cmds[current[n]][i].do # "leave"

Rest ==
  \A s \in Subs : task[s] # "on" =>
    own[s] = None /\ cmds[s] = <<>> /\ \A t \in Tickets : hosts[s][t] = Absent

Parts == Threads /\ Tasks /\ Lists /\ Sessions /\ Swarms /\ Rest

LEMMA PartsAreAll == Parts <=> Typed /\ Belongs
<1> USE DEF Parts, Typed, TypeOK, Belongs, Threads, Tasks, Lists, Sessions, Swarms, Rest, On,
        Listed, In
<1>1. Parts => Typed
  <2> SUFFICES ASSUME Parts PROVE Typed
    OBVIOUS
  <2>1. \A s \in Subs : \A i \in DOMAIN cmds[s] : cmds[s][i] \in Command
    OBVIOUS
  <2>2. \A s \in Subs : Cardinality(Listed(s)) <= MaxHosts /\ IsFiniteSet(Listed(s))
    OBVIOUS
  <2>3. \A n \in Nodes : session[n] # None => Home[session[n]] = n
    OBVIOUS
  <2>4. \A n \in Nodes : current[n] # None => Owner[current[n]] = n /\ current[n] \in On
    OBVIOUS
  <2> HIDE DEF Listed, On, In
  <2> QED BY <2>1, <2>2, <2>3, <2>4
<1>2. Parts => Belongs
  BY NamesAssumption
<1>3. Typed /\ Belongs => Parts
  OBVIOUS
<1> QED BY <1>1, <1>2, <1>3

LEMMA ListsOf ==
  ASSUME Lists, NEW s \in Subs, NEW list \in [Tickets -> Age],
         IsFiniteSet(In(list)), Cardinality(In(list)) <= MaxHosts,
         hosts' = [hosts EXCEPT ![s] = list]
  PROVE  Lists'
BY DEF Lists

LEMMA HeadIsCommand ==
  ASSUME Parts, NEW s \in Subs, HandleCommand(s)
  PROVE  /\ cmds[s] \in Seq(Command) /\ cmds[s] # <<>> /\ Head(cmds[s]) \in Command
         /\ Tail(cmds[s]) \in Seq(Command)
         /\ Head(cmds[s]).do \in {"advert", "withdraw", "peers", "leave"}
         /\ Head(cmds[s]).do = "advert" => Head(cmds[s]).ticket \in Tickets
<1>1. cmds[s] \in Seq(Command) /\ cmds[s] # <<>>
  BY DEF Parts, Tasks, HandleCommand
<1> QED BY <1>1, HeadTailProperties, Commands

LEMMA ThreadsAreKept == Parts /\ [Next]_vars => Threads'
<1> SUFFICES ASSUME Parts, [Next]_vars PROVE Threads'
  OBVIOUS
<1> USE NumbersAssumption, NamesAssumption DEF Parts, Threads, Tasks, LongOver, client, history, Discover, Broadcast
<1>1. ASSUME NEW n \in Nodes, NEW t \in Tickets, Host(n, t) PROVE Threads'
  BY <1>1 DEF Host
<1>2. ASSUME NEW n \in Nodes, NEW s \in Subs, SwarmJoin(n, s) PROVE Threads'
  BY <1>2 DEF SwarmJoin
<1>3. ASSUME NEW n \in Nodes, Announce(n) PROVE Threads'
  BY <1>3 DEF Announce
<1>4. ASSUME NEW n \in Nodes, Stop(n) PROVE Threads'
  BY <1>4 DEF Stop
<1>5. ASSUME NEW n \in Nodes, SwarmLeave(n) \/ SwarmJoinFails(n) PROVE Threads'
  <2>1. missed' \subseteq Tickets
    BY <1>5 DEF SwarmLeave, SwarmJoinFails, StopSwarm
  <2>2. current' \in [Nodes -> Subs \cup {None}]
    BY <1>5 DEF SwarmLeave, SwarmJoinFails
  <2>3. shown' \in [Nodes -> SUBSET Tickets]
    BY <1>5 DEF SwarmLeave, SwarmJoinFails
  <2>4. UNCHANGED <<session, fresh, over, heard, lost>>
    BY <1>5 DEF SwarmLeave, SwarmJoinFails
  <2> QED BY <2>1, <2>2, <2>3, <2>4
<1>6. ASSUME NEW n \in Nodes, Crash(n) PROVE Threads'
  BY <1>6 DEF Crash
<1>7. ASSUME NEW s \in Subs, HandleCommand(s) PROVE Threads'
  <2>1. CASE Head(cmds[s]).do = "advert"
    BY <1>7, <2>1 DEF HandleCommand, TakeAdvert
  <2>2. CASE Head(cmds[s]).do = "withdraw"
    BY <1>7, <2>2 DEF HandleCommand, TakeWithdraw
  <2>3. CASE Head(cmds[s]).do = "peers"
    BY <1>7, <2>3 DEF HandleCommand
  <2>4. CASE Head(cmds[s]).do = "leave"
    BY <1>7, <2>4 DEF HandleCommand, TakeLeave
  <2> QED BY <1>7, HeadIsCommand, <2>1, <2>2, <2>3, <2>4
<1>8. ASSUME NEW s \in Subs, GreetNeighbour(s) PROVE Threads'
  BY <1>8 DEF GreetNeighbour
<1>9. ASSUME NEW s \in Subs, TickerFires(s) PROVE Threads'
  BY <1>9 DEF TickerFires
<1>10. ASSUME NEW s \in Subs, HearBeacon(s) PROVE Threads'
  BY <1>10 DEF HearBeacon
<1>11. ASSUME NEW m \in net, Receive(m) PROVE Threads'
  <2>1. UNCHANGED <<session, current, fresh, over, missed, heard, lost>>
    BY <1>11 DEF Receive
  <2>2. shown' \in [Nodes -> SUBSET Tickets]
    <3>1. shown' = shown \/ \E u \in Nodes, l \in SUBSET Tickets : shown' = [shown EXCEPT ![u] = l]
      <4>1. m.to \in Subs
        BY DEF Message
      <4>2. Owner[m.to] \in Nodes
        BY <4>1, OwnerAssumption
      <4>3. \A list : Discover(m.to, list) =>
              shown' = shown \/ \E l \in SUBSET Tickets : shown' = [shown EXCEPT ![Owner[m.to]] = l]
        BY <4>2
      <4>4. shown' = shown \/ \E list : Discover(m.to, list)
        <5>1. CASE ReceiveAdvert(m)
          <6> HIDE DEF Discover
          <6> QED BY <5>1 DEF ReceiveAdvert
        <5>2. CASE ReceiveGone(m)
          <6> HIDE DEF Discover
          <6> QED BY <5>2 DEF ReceiveGone
        <5> QED BY <1>11, <5>1, <5>2 DEF Receive
      <4> QED BY <4>2, <4>3, <4>4
    <3>2. PICK u \in Nodes, l \in SUBSET Tickets : shown' = shown \/ shown' = [shown EXCEPT ![u] = l]
      <4>1. CASE shown' = shown
        <5>1. m.to \in Subs
          BY DEF Message
        <5> QED BY <4>1, <5>1, OwnerAssumption
      <4>2. CASE shown' # shown
        BY <3>1, <4>2
      <4> QED BY <4>1, <4>2
    <3>3. shown \in [Nodes -> SUBSET Tickets]
      OBVIOUS
    <3> QED BY ONLY <3>2, <3>3
  <2> QED BY <2>1, <2>2
<1>12. ASSUME NEW m \in net, Lose(m) PROVE Threads'
  BY <1>12 DEF Lose
<1>13. ASSUME Advance PROVE Threads'
  BY <1>13 DEF Advance
<1>14. ASSUME UNCHANGED vars PROVE Threads'
  BY <1>14 DEF vars
<1> QED
  BY <1>1, <1>2, <1>3, <1>4, <1>5, <1>6, <1>7, <1>8, <1>9, <1>10, <1>11, <1>12, <1>13, <1>14 DEF Next

LEMMA SessionsAreKept == Parts /\ [Next]_vars => Sessions'
<1> SUFFICES ASSUME Parts, [Next]_vars PROVE Sessions'
  OBVIOUS
<1> USE NamesAssumption DEF Parts, Threads, Tasks, Sessions, client, history, Discover, Broadcast
<1>1. ASSUME NEW n \in Nodes, NEW t \in Tickets, Host(n, t) PROVE Sessions'
  BY <1>1 DEF Host
<1>2. ASSUME NEW n \in Nodes, NEW s \in Subs, SwarmJoin(n, s) PROVE Sessions'
  BY <1>2 DEF SwarmJoin
<1>3. ASSUME NEW n \in Nodes, Announce(n) PROVE Sessions'
  BY <1>3 DEF Announce
<1>4. ASSUME NEW n \in Nodes, Stop(n) PROVE Sessions'
  BY <1>4 DEF Stop
<1>5. ASSUME NEW n \in Nodes, SwarmLeave(n) \/ SwarmJoinFails(n) PROVE Sessions'
  BY <1>5 DEF SwarmLeave, SwarmJoinFails, StopSwarm
<1>6. ASSUME NEW n \in Nodes, Crash(n) PROVE Sessions'
  BY <1>6 DEF Crash
<1>7. ASSUME NEW s \in Subs, HandleCommand(s) PROVE Sessions'
  <2>1. CASE Head(cmds[s]).do = "advert"
    BY <1>7, <2>1 DEF HandleCommand, TakeAdvert
  <2>2. CASE Head(cmds[s]).do = "withdraw"
    BY <1>7, <2>2 DEF HandleCommand, TakeWithdraw
  <2>3. CASE Head(cmds[s]).do = "peers"
    BY <1>7, <2>3 DEF HandleCommand
  <2>4. CASE Head(cmds[s]).do = "leave"
    BY <1>7, <2>4 DEF HandleCommand, TakeLeave
  <2> QED BY <1>7, HeadIsCommand, <2>1, <2>2, <2>3, <2>4
<1>8. ASSUME NEW s \in Subs, GreetNeighbour(s) PROVE Sessions'
  BY <1>8 DEF GreetNeighbour
<1>9. ASSUME NEW s \in Subs, TickerFires(s) PROVE Sessions'
  BY <1>9 DEF TickerFires
<1>10. ASSUME NEW s \in Subs, HearBeacon(s) PROVE Sessions'
  BY <1>10 DEF HearBeacon
<1>11. ASSUME NEW m \in net, Receive(m) PROVE Sessions'
  BY <1>11 DEF Receive
<1>12. ASSUME NEW m \in net, Lose(m) PROVE Sessions'
  BY <1>12 DEF Lose
<1>13. ASSUME Advance PROVE Sessions'
  BY <1>13 DEF Advance
<1>14. ASSUME UNCHANGED vars PROVE Sessions'
  BY <1>14 DEF vars
<1> QED
  BY <1>1, <1>2, <1>3, <1>4, <1>5, <1>6, <1>7, <1>8, <1>9, <1>10, <1>11, <1>12, <1>13, <1>14 DEF Next


LEMMA Broadcasts ==
  ASSUME NEW kind \in {"advert", "gone"}, NEW t \in Tickets
  PROVE  Broadcast(kind, t) \subseteq Message
BY DEF Broadcast, Message, On

LEMMA TasksAreKept == Parts /\ [Next]_vars => Tasks'
<1> SUFFICES ASSUME Parts, [Next]_vars PROVE Tasks'
  OBVIOUS
<1> USE NumbersAssumption, NamesAssumption DEF Parts, Threads, Tasks, client, history, Discover
<1>1. ASSUME NEW n \in Nodes, NEW t \in Tickets, Host(n, t) PROVE Tasks'
  <2>1. cmds' \in [Subs -> Seq(Command)]
    BY <1>1, PartsAreAll, Tells, Commands DEF Host
  <2> QED BY <1>1, <2>1 DEF Host
<1>2. ASSUME NEW n \in Nodes, NEW s \in Subs, SwarmJoin(n, s) PROVE Tasks'
  <2>0. task[s] = "new" /\ Owner[s] = n /\ (session[n] # None => Advert(session[n]) \in Command)
    BY <1>2, Commands DEF SwarmJoin
  <2>1. PICK quit \in [Subs -> Seq(Command)] :
          cmds' = IF session[n] = None THEN quit
                  ELSE [quit EXCEPT ![s] = <<Advert(session[n])>>]
    <3>1. (current[n] # None) => LastWord(current[n]) \in [Subs -> Seq(Command)]
      BY PartsAreAll, LastWords
    <3> QED BY <1>2, <3>1 DEF SwarmJoin
  <2>2. session[n] # None => <<Advert(session[n])>> \in Seq(Command)
    BY <2>0
  <2>3. cmds' \in [Subs -> Seq(Command)]
    BY <2>1, <2>2
  <2> QED BY <1>2, <2>3 DEF SwarmJoin, On
<1>3. ASSUME NEW n \in Nodes, Announce(n) PROVE Tasks'
  <2>1. cmds' \in [Subs -> Seq(Command)]
    BY <1>3, PartsAreAll, Tells, Commands DEF Announce
  <2> QED BY <1>3, <2>1 DEF Announce
<1>4. ASSUME NEW n \in Nodes, Stop(n) PROVE Tasks'
  <2>1. cmds' \in [Subs -> Seq(Command)]
    BY <1>4, PartsAreAll, Tells, Commands DEF Stop
  <2> QED BY <1>4, <2>1 DEF Stop
<1>5. ASSUME NEW n \in Nodes, SwarmLeave(n) \/ SwarmJoinFails(n) PROVE Tasks'
  <2>1. current[n] # None => LastWord(current[n]) \in [Subs -> Seq(Command)]
    BY PartsAreAll, LastWords
  <2>2. cmds' \in [Subs -> Seq(Command)]
    BY <1>5, <2>1 DEF SwarmLeave, SwarmJoinFails, StopSwarm
  <2> QED BY <1>5, <2>2 DEF SwarmLeave, SwarmJoinFails
<1>6. ASSUME NEW n \in Nodes, Crash(n) PROVE Tasks'
  BY <1>6 DEF Crash
<1>7. ASSUME NEW s \in Subs, HandleCommand(s) PROVE Tasks'
  <2>b. own[s] # None => \A kind \in {"advert", "gone"} : Broadcast(kind, own[s]) \subseteq Message
    BY Broadcasts
  <2>1. CASE Head(cmds[s]).do = "advert"
    <3>1. net' \subseteq Message
      BY <1>7, HeadIsCommand, Broadcasts, <2>1 DEF HandleCommand, TakeAdvert
    <3>2. cmds' \in [Subs -> Seq(Command)]
      BY <1>7, <2>1, HeadIsCommand DEF HandleCommand
    <3>3. since' \in [Subs -> 0..Every]
      <4>1. 0 \in 0..Every
        BY NumbersAssumption
      <4>2. since' = [since EXCEPT ![s] = 0]
        BY <1>7, <2>1 DEF HandleCommand, TakeAdvert
      <4> QED BY <4>1, <4>2
    <3>4. own' \in [Subs -> Tickets \cup {None}]
      BY <1>7, <2>1, HeadIsCommand DEF HandleCommand, TakeAdvert
    <3>5. UNCHANGED <<task, met, ticked>>
      BY <1>7, <2>1 DEF HandleCommand, TakeAdvert
    <3> QED BY <3>1, <3>2, <3>3, <3>4, <3>5
  <2>2. CASE Head(cmds[s]).do = "withdraw"
    BY <1>7, HeadIsCommand, Broadcasts, <2>2 DEF HandleCommand, TakeWithdraw
  <2>3. CASE Head(cmds[s]).do = "peers"
    BY <1>7, HeadIsCommand, Broadcasts, <2>3 DEF HandleCommand
  <2>4. CASE Head(cmds[s]).do = "leave"
    <3>1. net' \subseteq Message
      BY <1>7, <2>b, <2>4 DEF HandleCommand, TakeLeave
    <3>2. cmds' \in [Subs -> Seq(Command)]
      BY <1>7, <2>4, HeadIsCommand DEF HandleCommand
    <3> QED BY <1>7, <2>4, <3>1, <3>2 DEF HandleCommand, TakeLeave
  <2> QED BY <1>7, HeadIsCommand, Broadcasts, <2>1, <2>2, <2>3, <2>4
<1>8. ASSUME NEW s \in Subs, GreetNeighbour(s) PROVE Tasks'
  <2>b. own[s] # None => \A kind \in {"advert", "gone"} : Broadcast(kind, own[s]) \subseteq Message
    BY Broadcasts
  <2>1. net' \subseteq Message
    BY <1>8, <2>b DEF GreetNeighbour
  <2>2. since' \in [Subs -> 0..Every]
    <3>1. 0 \in 0..Every
      BY NumbersAssumption
    <3>2. since' = since \/ since' = [since EXCEPT ![s] = 0]
      BY <1>8 DEF GreetNeighbour
    <3> QED BY <3>1, <3>2
  <2>3. UNCHANGED <<task, own, cmds>> /\ met' \subseteq Subs /\ ticked' \subseteq Subs \cup Nodes
    BY <1>8 DEF GreetNeighbour
  <2> QED BY <2>1, <2>2, <2>3

<1>9. ASSUME NEW s \in Subs, TickerFires(s) PROVE Tasks'
  <2>b. own[s] # None => \A kind \in {"advert", "gone"} : Broadcast(kind, own[s]) \subseteq Message
    BY Broadcasts
  <2>1. net' \subseteq Message
    BY <1>9, <2>b DEF TickerFires
  <2>2. since' \in [Subs -> 0..Every]
    <3>1. 0 \in 0..Every
      BY NumbersAssumption
    <3>2. since' = since \/ since' = [since EXCEPT ![s] = 0]
      BY <1>9 DEF TickerFires
    <3> QED BY <3>1, <3>2
  <2>3. UNCHANGED <<task, own, cmds>> /\ met' \subseteq Subs /\ ticked' \subseteq Subs \cup Nodes
    BY <1>9 DEF TickerFires
  <2> QED BY <2>1, <2>2, <2>3

<1>10. ASSUME NEW s \in Subs, HearBeacon(s) PROVE Tasks'
  <2>1. Append(cmds[s], Cmd("peers")) \in Seq(Command)
    BY Commands, AppendProperties
  <2> QED BY <1>10, <2>1 DEF HearBeacon
<1>11. ASSUME NEW m \in net, Receive(m) PROVE Tasks'
  BY <1>11 DEF Receive
<1>12. ASSUME NEW m \in net, Lose(m) PROVE Tasks'
  BY <1>12 DEF Lose
<1>13. ASSUME Advance PROVE Tasks'
  BY <1>13 DEF Advance
<1>14. ASSUME UNCHANGED vars PROVE Tasks'
  BY <1>14 DEF vars
<1> QED
  BY <1>1, <1>2, <1>3, <1>4, <1>5, <1>6, <1>7, <1>8, <1>9, <1>10, <1>11, <1>12, <1>13, <1>14 DEF Next

(* A swarm without a task keeps nothing.                                   *)
LEMMA RestIsKept == Parts /\ [Next]_vars => Rest'
<1> SUFFICES ASSUME Parts, [Next]_vars, NEW u \in Subs, task'[u] # "on"
             PROVE  (own[u] = None /\ cmds[u] = <<>> /\ \A k \in Tickets : hosts[u][k] = Absent)'
  BY DEF Rest
<1> USE DEF Parts, Threads, Tasks, Lists, Swarms, Rest, On, client, history, Discover
<1>1. ASSUME NEW n \in Nodes, NEW t \in Tickets, Host(n, t)
      PROVE  (own[u] = None /\ cmds[u] = <<>> /\ \A k \in Tickets : hosts[u][k] = Absent)'
  <2>1. current[n] # u
    BY <1>1, NamesAssumption DEF Host
  <2>2. cmds'[u] = cmds[u]
    BY <1>1, <2>1, PartsAreAll, Tells, Commands DEF Host
  <2> QED BY <1>1, <2>2 DEF Host
<1>2. ASSUME NEW n \in Nodes, NEW s \in Subs, SwarmJoin(n, s)
      PROVE  (own[u] = None /\ cmds[u] = <<>> /\ \A k \in Tickets : hosts[u][k] = Absent)'
  <2>1. u # s /\ task[u] # "on" /\ current[n] # u
    BY <1>2, NamesAssumption DEF SwarmJoin
  <2>2. current[n] # None => LastWord(current[n])[u] = cmds[u]
    BY <2>1, PartsAreAll, LastWords
  <2>3. current[n] # None => LastWord(current[n]) \in [Subs -> Seq(Command)]
    BY PartsAreAll, LastWords
  <2>4. cmds'[u] = cmds[u]
    BY <1>2, <2>1, <2>2, <2>3 DEF SwarmJoin
  <2> QED BY <1>2, <2>1, <2>4 DEF SwarmJoin
<1>3. ASSUME NEW n \in Nodes, Announce(n)
      PROVE  (own[u] = None /\ cmds[u] = <<>> /\ \A k \in Tickets : hosts[u][k] = Absent)'
  <2>1. current[n] # u
    BY <1>3, NamesAssumption DEF Announce
  <2>2. cmds'[u] = cmds[u]
    BY <1>3, <2>1, PartsAreAll, Tells, Commands DEF Announce
  <2> QED BY <1>3, <2>2 DEF Announce
<1>4. ASSUME NEW n \in Nodes, Stop(n)
      PROVE  (own[u] = None /\ cmds[u] = <<>> /\ \A k \in Tickets : hosts[u][k] = Absent)'
  <2>1. current[n] # u
    BY <1>4, NamesAssumption DEF Stop
  <2>2. cmds'[u] = cmds[u]
    BY <1>4, <2>1, PartsAreAll, Tells, Commands DEF Stop
  <2> QED BY <1>4, <2>2 DEF Stop
<1>5. ASSUME NEW n \in Nodes, SwarmLeave(n) \/ SwarmJoinFails(n)
      PROVE  (own[u] = None /\ cmds[u] = <<>> /\ \A k \in Tickets : hosts[u][k] = Absent)'
  <2>1. current[n] # u
    BY <1>5, NamesAssumption DEF SwarmLeave, SwarmJoinFails
  <2>2. cmds'[u] = cmds[u]
    BY <1>5, <2>1, PartsAreAll, LastWords DEF SwarmLeave, SwarmJoinFails, StopSwarm
  <2> QED BY <1>5, <2>2 DEF SwarmLeave, SwarmJoinFails
<1>6. ASSUME NEW n \in Nodes, Crash(n)
      PROVE  (own[u] = None /\ cmds[u] = <<>> /\ \A k \in Tickets : hosts[u][k] = Absent)'
  BY <1>6 DEF Crash
<1>7. ASSUME NEW s \in Subs, HandleCommand(s)
      PROVE  (own[u] = None /\ cmds[u] = <<>> /\ \A k \in Tickets : hosts[u][k] = Absent)'
  <2>1. CASE u # s
    <3>1. task'[u] = task[u] /\ own'[u] = own[u] /\ cmds'[u] = cmds[u] /\ hosts'[u] = hosts[u]
      <4>1. CASE Head(cmds[s]).do = "advert"
        BY <1>7, <2>1, <4>1 DEF HandleCommand, TakeAdvert
      <4>2. CASE Head(cmds[s]).do = "withdraw"
        BY <1>7, <2>1, <4>2 DEF HandleCommand, TakeWithdraw
      <4>3. CASE Head(cmds[s]).do = "peers"
        BY <1>7, <2>1, <4>3 DEF HandleCommand
      <4>4. CASE Head(cmds[s]).do = "leave"
        BY <1>7, <2>1, <4>4 DEF HandleCommand, TakeLeave
      <4> QED BY <1>7, HeadIsCommand, <4>1, <4>2, <4>3, <4>4
    <3> QED BY <3>1
  <2>2. CASE u = s
    <3>1. Head(cmds[s]).do = "leave"
      BY <1>7, <2>2, HeadIsCommand DEF HandleCommand, TakeAdvert, TakeWithdraw
    <3>2. own'[s] = None /\ hosts'[s] = [t \in Tickets |-> Absent]
      BY <1>7, <3>1 DEF HandleCommand, TakeLeave
    <3>3. cmds' = [cmds EXCEPT ![s] = <<>>]
      BY <1>7, <3>1 DEF HandleCommand
    <3> QED BY <2>2, <3>2, <3>3
  <2> QED BY <2>1, <2>2
<1>8. ASSUME NEW s \in Subs, GreetNeighbour(s)
      PROVE  (own[u] = None /\ cmds[u] = <<>> /\ \A k \in Tickets : hosts[u][k] = Absent)'
  BY <1>8 DEF GreetNeighbour
<1>9. ASSUME NEW s \in Subs, TickerFires(s)
      PROVE  (own[u] = None /\ cmds[u] = <<>> /\ \A k \in Tickets : hosts[u][k] = Absent)'
  BY <1>9 DEF TickerFires
<1>10. ASSUME NEW s \in Subs, HearBeacon(s)
      PROVE  (own[u] = None /\ cmds[u] = <<>> /\ \A k \in Tickets : hosts[u][k] = Absent)'
  BY <1>10 DEF HearBeacon
<1>11. ASSUME NEW m \in net, Receive(m)
      PROVE  (own[u] = None /\ cmds[u] = <<>> /\ \A k \in Tickets : hosts[u][k] = Absent)'
  <2>1. m.to # u /\ m.to \in Subs
    BY <1>11 DEF Receive, Message
  <2>2. hosts'[u] = hosts[u]
    BY <1>11, <2>1 DEF Receive, ReceiveAdvert, ReceiveGone
  <2> QED BY <1>11, <2>2 DEF Receive
<1>12. ASSUME NEW m \in net, Lose(m)
      PROVE  (own[u] = None /\ cmds[u] = <<>> /\ \A k \in Tickets : hosts[u][k] = Absent)'
  BY <1>12 DEF Lose
<1>13. ASSUME Advance
      PROVE  (own[u] = None /\ cmds[u] = <<>> /\ \A k \in Tickets : hosts[u][k] = Absent)'
  <2>1. \A t \in Tickets : Older(hosts[u][t]) = Absent
    BY <1>13, NumbersAssumption DEF Advance, Older, Absent
  <2> QED BY <1>13, <2>1 DEF Advance
<1>14. ASSUME UNCHANGED vars
      PROVE  (own[u] = None /\ cmds[u] = <<>> /\ \A k \in Tickets : hosts[u][k] = Absent)'
  BY <1>14 DEF vars
<1> QED
  BY <1>1, <1>2, <1>3, <1>4, <1>5, <1>6, <1>7, <1>8, <1>9, <1>10, <1>11, <1>12, <1>13, <1>14 DEF Next

LEMMA NoLeaves ==
  ASSUME NEW q \in Seq(Command), \A i \in DOMAIN q : q[i].do # "leave"
  PROVE  /\ \A c \in Command : c.do # "leave" =>
              \A i \in DOMAIN Append(q, c) : Append(q, c)[i].do # "leave"
         /\ q # <<>> => /\ Head(q).do # "leave"
                         /\ \A i \in DOMAIN Tail(q) : Tail(q)[i].do # "leave"
<1>1. ASSUME NEW c \in Command, c.do # "leave", NEW i \in DOMAIN Append(q, c)
      PROVE  Append(q, c)[i].do # "leave"
  BY <1>1, AppendProperties
<1>2. ASSUME q # <<>>
      PROVE  Head(q).do # "leave" /\ \A i \in DOMAIN Tail(q) : Tail(q)[i].do # "leave"
  <2> DEFINE p == Tail(q)
  <2>1. /\ Len(q) \in Nat \ {0} /\ Len(p) = Len(q) - 1 /\ DOMAIN q = 1..Len(q)
        /\ DOMAIN p = 1..Len(p) /\ \A i \in 1..Len(p) : p[i] = q[i + 1]
        /\ Head(q) = q[1]
    BY <1>2, HeadTailProperties, EmptySeq
  <2> HIDE DEF p
  <2>2. \A i \in 1..Len(p) : i + 1 \in DOMAIN q
    BY <2>1
  <2>3. \A i \in DOMAIN p : p[i].do # "leave"
    BY <2>1, <2>2
  <2>4. 1 \in DOMAIN q
    BY <2>1
  <2> QED BY <2>1, <2>3, <2>4 DEF p
<1> QED BY <1>1, <1>2

LEMMA SwarmsAreKept == Parts /\ [Next]_vars => Swarms'
<1> SUFFICES ASSUME Parts, [Next]_vars PROVE Swarms'
  OBVIOUS
<1>t. Typed /\ current' \in [Nodes -> Subs \cup {None}]
  BY PartsAreAll, ThreadsAreKept DEF Threads
<1> SUFFICES ASSUME NEW k \in Nodes, NEW u \in Subs, current'[k] = u
             PROVE  /\ Owner[u] = k /\ task'[u] = "on"
                    /\ \A i \in DOMAIN cmds'[u] : cmds'[u][i].do # "leave"
  BY <1>t DEF Swarms
<1>s. ASSUME NEW c \in Command, c.do # "leave", current[k] = u, task'[u] = task[u],
             cmds'[u] = cmds[u] \/ cmds'[u] = Append(cmds[u], c)
      PROVE  /\ Owner[u] = k /\ task'[u] = "on"
             /\ \A i \in DOMAIN cmds'[u] : cmds'[u][i].do # "leave"
  <2>1. u # None /\ cmds[u] \in Seq(Command)
    BY NamesAssumption DEF Parts, Tasks
  <2>2. Owner[u] = k /\ task[u] = "on" /\ \A i \in DOMAIN cmds[u] : cmds[u][i].do # "leave"
    BY <1>s, <2>1 DEF Parts, Swarms
  <2>3. \A i \in DOMAIN Append(cmds[u], c) : Append(cmds[u], c)[i].do # "leave"
    BY ONLY <1>s, <2>1, <2>2, NoLeaves
  <2> QED BY <1>s, <2>2, <2>3
<1> USE NamesAssumption, OwnerAssumption DEF Parts, Threads, Tasks, Sessions, Swarms, On, client
<1>0. cmds[u] \in Seq(Command) /\ u # None
  BY DEF Parts
<1>a. current[k] = u => \A i \in DOMAIN cmds[u] : cmds[u][i].do # "leave"
  BY <1>0
<1>1. ASSUME NEW n \in Nodes, NEW t \in Tickets, Host(n, t)
      PROVE  Owner[u] = k /\ task'[u] = "on" /\ \A i \in DOMAIN cmds'[u] : cmds'[u][i].do # "leave"
  <2>1. current' = current /\ task' = task /\ u = current[k] /\ cmds' = Tell(n, Advert(t))
    BY <1>0, <1>1 DEF Host
  <2>2. Advert(t) \in Command /\ Advert(t).do # "leave"
    BY <1>0, <1>1, Commands DEF Host
  <2>3. cmds'[u] = cmds[u] \/ cmds'[u] = Append(cmds[u], Advert(t))
    BY ONLY <2>1, <2>2, <1>0, <1>t, n \in Nodes, Tells
  <2> QED BY ONLY <2>1, <2>2, <2>3, <1>s
<1>2. ASSUME NEW n \in Nodes, NEW s \in Subs, SwarmJoin(n, s)
      PROVE  Owner[u] = k /\ task'[u] = "on" /\ \A i \in DOMAIN cmds'[u] : cmds'[u][i].do # "leave"
  <2>1. current[n] # None =>
          /\ current[n] # s /\ LastWord(current[n]) \in [Subs -> Seq(Command)]
          /\ \A w \in Subs \ {current[n]} : LastWord(current[n])[w] = cmds[w]
    <3>1. current[n] # None => current[n] \in Subs /\ current[n] # s
      BY <1>2 DEF SwarmJoin
    <3> QED BY ONLY <3>1, <1>t, LastWords
  <2>2. CASE k = n
    <3>1. u = s /\ Owner[s] = n /\ task'[s] = "on" /\ cmds[s] = <<>>
      BY <1>0, <1>2, <2>2 DEF SwarmJoin, Rest
    <3>2. cmds'[s] = <<>> \/ (session[n] # None /\ cmds'[s] = <<Advert(session[n])>>)
      BY <1>0, <1>2, <2>1, <3>1 DEF SwarmJoin
    <3>3. session[n] # None => Advert(session[n]).do # "leave"
      BY Commands
    <3> QED BY <2>2, <3>1, <3>2, <3>3
  <2>3. CASE k # n
    <3>1. u = current[k] /\ u # s /\ u # current[n] /\ task'[u] = task[u]
      BY <1>0, <1>2, <2>3 DEF SwarmJoin
    <3>2. cmds'[u] = cmds[u]
      BY <1>0, <1>2, <2>1, <3>1 DEF SwarmJoin
    <3> QED BY <3>1, <3>2
  <2> QED BY <2>2, <2>3
<1>3. ASSUME NEW n \in Nodes, Announce(n)
      PROVE  Owner[u] = k /\ task'[u] = "on" /\ \A i \in DOMAIN cmds'[u] : cmds'[u][i].do # "leave"
  <2>1. current' = current /\ task' = task /\ u = current[k] /\ cmds' = Tell(n, Advert(session[n]))
    BY <1>0, <1>3 DEF Announce
  <2>2. Advert(session[n]) \in Command /\ Advert(session[n]).do # "leave"
    BY <1>0, <1>3, Commands DEF Announce
  <2>3. cmds'[u] = cmds[u] \/ cmds'[u] = Append(cmds[u], Advert(session[n]))
    BY ONLY <2>1, <2>2, <1>0, <1>t, n \in Nodes, Tells
  <2> QED BY ONLY <2>1, <2>2, <2>3, <1>s
<1>4. ASSUME NEW n \in Nodes, Stop(n)
      PROVE  Owner[u] = k /\ task'[u] = "on" /\ \A i \in DOMAIN cmds'[u] : cmds'[u][i].do # "leave"
  <2>1. current' = current /\ task' = task /\ u = current[k] /\ cmds' = Tell(n, Cmd("withdraw"))
    BY <1>0, <1>4 DEF Stop
  <2>2. Cmd("withdraw") \in Command /\ Cmd("withdraw").do # "leave"
    BY <1>0, <1>4, Commands DEF Stop
  <2>3. cmds'[u] = cmds[u] \/ cmds'[u] = Append(cmds[u], Cmd("withdraw"))
    BY ONLY <2>1, <2>2, <1>0, <1>t, n \in Nodes, Tells
  <2> QED BY ONLY <2>1, <2>2, <2>3, <1>s
<1>5. ASSUME NEW n \in Nodes, SwarmLeave(n) \/ SwarmJoinFails(n)
      PROVE  Owner[u] = k /\ task'[u] = "on" /\ \A i \in DOMAIN cmds'[u] : cmds'[u][i].do # "leave"
  <2>1. k # n /\ u = current[k] /\ u # current[n] /\ task' = task /\ current[n] \in Subs
    BY <1>0, <1>5 DEF SwarmLeave, SwarmJoinFails
  <2>2. cmds'[u] = cmds[u]
    BY <1>0, <1>5, <2>1, PartsAreAll, LastWords DEF SwarmLeave, SwarmJoinFails, StopSwarm
  <2>3. Owner[u] = k /\ task[u] = "on"
    BY <1>0, <2>1
  <2> QED BY ONLY <2>1, <2>2, <2>3, <1>a
<1>6. ASSUME NEW n \in Nodes, Crash(n)
      PROVE  Owner[u] = k /\ task'[u] = "on" /\ \A i \in DOMAIN cmds'[u] : cmds'[u][i].do # "leave"
  <2>1. k # n /\ u = current[k] /\ Owner[u] # n
    BY <1>0, <1>6 DEF Crash
  <2>2. task'[u] = task[u] /\ cmds'[u] = cmds[u]
    BY <1>0, <1>6, <2>1 DEF Crash
  <2> QED BY <2>1, <2>2
<1>7. ASSUME NEW s \in Subs, HandleCommand(s)
      PROVE  Owner[u] = k /\ task'[u] = "on" /\ \A i \in DOMAIN cmds'[u] : cmds'[u][i].do # "leave"
  <2>1. u = current[k] /\ cmds[u] \in Seq(Command)
    BY <1>0, <1>7 DEF HandleCommand
  <2>2. CASE u # s
    <3>1. cmds'[u] = cmds[u]
      BY <1>0, <1>7, <2>2 DEF HandleCommand
    <3>2. task'[u] = task[u]
      <4>1. task' = task \/ task' = [task EXCEPT ![s] = "over"]
        BY <1>0, <1>7, HeadIsCommand DEF HandleCommand, TakeAdvert, TakeWithdraw, TakeLeave
      <4> QED BY <2>2, <4>1
    <3> QED BY <2>1, <3>1, <3>2
  <2>3. CASE u = s
    <3>1. cmds[s] # <<>> /\ Head(cmds[s]).do # "leave"
      BY <1>0, <1>7, <2>1, <2>3, <1>a, HeadIsCommand, NoLeaves
    <3>2. cmds'[s] = Tail(cmds[s])
      BY <1>0, <1>7, <3>1 DEF HandleCommand
    <3>3. task' = task
      BY <1>0, <1>7, <3>1, HeadIsCommand DEF HandleCommand, TakeAdvert, TakeWithdraw
    <3>4. \A i \in DOMAIN Tail(cmds[u]) : Tail(cmds[u])[i].do # "leave"
      BY ONLY <1>0, <1>a, <2>1, <2>3, <3>1, NoLeaves
    <3>5. Owner[u] = k /\ task[u] = "on"
      BY <1>0, <2>1
    <3> QED BY ONLY <2>1, <2>3, <3>2, <3>3, <3>4, <3>5
  <2> QED BY <2>2, <2>3
<1>8. ASSUME NEW s \in Subs, GreetNeighbour(s)
      PROVE  Owner[u] = k /\ task'[u] = "on" /\ \A i \in DOMAIN cmds'[u] : cmds'[u][i].do # "leave"
  BY <1>0, <1>8 DEF GreetNeighbour
<1>9. ASSUME NEW s \in Subs, TickerFires(s)
      PROVE  Owner[u] = k /\ task'[u] = "on" /\ \A i \in DOMAIN cmds'[u] : cmds'[u][i].do # "leave"
  BY <1>0, <1>9 DEF TickerFires
<1>10. ASSUME NEW s \in Subs, HearBeacon(s)
      PROVE  Owner[u] = k /\ task'[u] = "on" /\ \A i \in DOMAIN cmds'[u] : cmds'[u][i].do # "leave"
  <2>1. u = current[k] /\ task' = task /\ (cmds'[u] = cmds[u] \/ cmds'[u] = Append(cmds[u], Cmd("peers")))
    BY <1>0, <1>10 DEF HearBeacon
  <2>2. Cmd("peers") \in Command /\ Cmd("peers").do # "leave"
    BY Commands
  <2> QED BY ONLY <2>1, <2>2, <1>s
<1>11. ASSUME NEW m \in net, Receive(m)
      PROVE  Owner[u] = k /\ task'[u] = "on" /\ \A i \in DOMAIN cmds'[u] : cmds'[u][i].do # "leave"
  BY <1>0, <1>11 DEF Receive
<1>12. ASSUME NEW m \in net, Lose(m)
      PROVE  Owner[u] = k /\ task'[u] = "on" /\ \A i \in DOMAIN cmds'[u] : cmds'[u][i].do # "leave"
  BY <1>0, <1>12 DEF Lose
<1>13. ASSUME Advance
      PROVE  Owner[u] = k /\ task'[u] = "on" /\ \A i \in DOMAIN cmds'[u] : cmds'[u][i].do # "leave"
  BY <1>0, <1>13 DEF Advance
<1>14. ASSUME UNCHANGED vars
      PROVE  Owner[u] = k /\ task'[u] = "on" /\ \A i \in DOMAIN cmds'[u] : cmds'[u][i].do # "leave"
  BY <1>0, <1>14 DEF vars
<1> QED
  BY <1>1, <1>2, <1>3, <1>4, <1>5, <1>6, <1>7, <1>8, <1>9, <1>10, <1>11, <1>12, <1>13, <1>14 DEF Next

LEMMA ListsAreKept == Parts /\ [Next]_vars => Lists'
<1> SUFFICES ASSUME Parts, [Next]_vars PROVE Lists'
  OBVIOUS
<1> USE NumbersAssumption DEF Parts, Threads, Tasks, Lists, On, client
<1>1. ASSUME NEW n \in Nodes, NEW t \in Tickets, Host(n, t) PROVE Lists'
  BY <1>1 DEF Host
<1>2. ASSUME NEW n \in Nodes, NEW s \in Subs, SwarmJoin(n, s) PROVE Lists'
  BY <1>2 DEF SwarmJoin
<1>3. ASSUME NEW n \in Nodes, Announce(n) PROVE Lists'
  BY <1>3 DEF Announce
<1>4. ASSUME NEW n \in Nodes, Stop(n) PROVE Lists'
  BY <1>4 DEF Stop
<1>5. ASSUME NEW n \in Nodes, SwarmLeave(n) \/ SwarmJoinFails(n) PROVE Lists'
  BY <1>5 DEF SwarmLeave, SwarmJoinFails, StopSwarm
<1>6. ASSUME NEW n \in Nodes, Crash(n) PROVE Lists'
  <2>1. IsFiniteSet({}) /\ Cardinality({}) <= MaxHosts /\ In([t \in Tickets |-> Absent]) = {}
    BY FS_EmptySet DEF In
  <2>2. Absent \in Age
    BY DEF Absent, Age
  <2>3. \A u \in Subs : hosts'[u] = hosts[u] \/ hosts'[u] = [t \in Tickets |-> Absent]
    BY <1>6 DEF Crash
  <2>4. hosts' \in [Subs -> [Tickets -> Age]]
    BY <1>6, <2>2 DEF Crash
  <2> QED BY <2>1, <2>3, <2>4
<1>7. ASSUME NEW s \in Subs, HandleCommand(s) PROVE Lists'
  <2>1. CASE hosts' = hosts
    BY <2>1
  <2>2. CASE hosts' = [hosts EXCEPT ![s] = [t \in Tickets |-> Absent]]
    <3>1. IsFiniteSet({}) /\ Cardinality({}) <= MaxHosts /\ In([t \in Tickets |-> Absent]) = {}
      BY FS_EmptySet DEF In
    <3>2. [t \in Tickets |-> Absent] \in [Tickets -> Age]
      BY DEF Absent, Age
    <3> QED BY <2>2, <3>1, <3>2, ListsOf
  <2> QED BY <1>7, <2>1, <2>2, HeadIsCommand DEF HandleCommand, TakeAdvert, TakeWithdraw, TakeLeave
<1>8. ASSUME NEW s \in Subs, GreetNeighbour(s) PROVE Lists'
  BY <1>8 DEF GreetNeighbour
<1>9. ASSUME NEW s \in Subs, TickerFires(s) PROVE Lists'
  <2> DEFINE list == [t \in Tickets |-> Kept(hosts[s][t])]
  <2>1. list \in [Tickets -> Age] /\ In(list) \subseteq In(hosts[s])
    BY DEF Kept, Age, Absent, In
  <2>2. IsFiniteSet(In(list)) /\ Cardinality(In(list)) <= MaxHosts
    BY <2>1, FewerFit
  <2>3. hosts' = [hosts EXCEPT ![s] = list]
    BY <1>9 DEF TickerFires, Discover
  <2> QED BY <2>1, <2>2, <2>3, ListsOf
<1>10. ASSUME NEW s \in Subs, HearBeacon(s) PROVE Lists'
  BY <1>10 DEF HearBeacon
<1>11. ASSUME NEW m \in net, Receive(m) PROVE Lists'
  <2>0. m.to \in Subs /\ m.ticket \in Tickets
    BY DEF Message
  <2>1. CASE hosts' = hosts
    BY <2>1
  <2>2. ASSUME NEW list \in Admitted(hosts[m.to], m.ticket), hosts' = [hosts EXCEPT ![m.to] = list]
        PROVE  Lists'
    <3>1. /\ list \in [Tickets -> Age] /\ IsFiniteSet(In(list))
          /\ Cardinality(In(list)) <= MaxHosts
      <4>1. /\ hosts[m.to] \in [Tickets -> Age] /\ IsFiniteSet(In(hosts[m.to]))
            /\ Cardinality(In(hosts[m.to])) <= MaxHosts
        BY <2>0
      <4> QED BY ONLY <2>0, <2>2, <4>1, AdmittedFits
    <3> QED BY <2>0, <2>2, <3>1, ListsOf
  <2>3. CASE ReceiveGone(m)
    <3> DEFINE list == [hosts[m.to] EXCEPT ![m.ticket] = Absent]
    <3>1. list \in [Tickets -> Age] /\ In(list) \subseteq In(hosts[m.to])
      BY <2>0 DEF Age, Absent, In
    <3>2. IsFiniteSet(In(list)) /\ Cardinality(In(list)) <= MaxHosts
      BY <2>0, <3>1, FewerFit
    <3>3. hosts' = [hosts EXCEPT ![m.to] = list]
      BY <2>3 DEF ReceiveGone, Discover
    <3> QED BY <2>0, <3>1, <3>2, <3>3, ListsOf
  <2> QED BY <1>11, <2>1, <2>2, <2>3 DEF Receive, ReceiveAdvert, Discover
<1>12. ASSUME NEW m \in net, Lose(m) PROVE Lists'
  BY <1>12 DEF Lose
<1>13. ASSUME Advance PROVE Lists'
  <2>1. hosts' \in [Subs -> [Tickets -> Age]]
    BY <1>13 DEF Advance, Older, Age, Absent
  <2>2. ASSUME NEW u \in Subs PROVE In(hosts'[u]) = In(hosts[u])
    BY <1>13 DEF Advance, Older, Age, Absent, In
  <2> QED BY <2>1, <2>2
<1>14. ASSUME UNCHANGED vars PROVE Lists'
  BY <1>14 DEF vars
<1> QED
  BY <1>1, <1>2, <1>3, <1>4, <1>5, <1>6, <1>7, <1>8, <1>9, <1>10, <1>11, <1>12, <1>13, <1>14 DEF Next

LEMMA PartsAreKept == Parts /\ [Next]_vars => Parts'
BY ThreadsAreKept, TasksAreKept, ListsAreKept, SessionsAreKept, SwarmsAreKept, RestIsKept DEF Parts

-----------------------------------------------------------------------------
(* Who says that somebody hosts.                                           *)

Answered(s, t) ==
  \/ t \in missed
  \/ KilledIn(cmds[s], t)
  \/ t \in Hosted /\ current[Owner[s]] = s

LEMMA QueueGrows ==
  ASSUME Parts, NEW u \in Subs, NEW t \in Tickets, NEW c \in Command, own'[u] = own[u],
         cmds'[u] = cmds[u] \/ cmds'[u] = Append(cmds[u], c)
  PROVE  /\ Says(u, t)' => Says(u, t) \/ (c = Advert(t) /\ cmds'[u] = Append(cmds[u], c))
         /\ KilledIn(cmds[u], t) /\ c # Advert(t) => KilledIn(cmds[u], t)'
         /\ c.do \in {"withdraw", "leave"} /\ cmds'[u] = Append(cmds[u], c)
              => KilledIn(cmds[u], t)'
<1>1. cmds[u] \in Seq(Command)
  BY DEF Parts, Tasks
<1>2. CASE cmds'[u] = cmds[u]
  BY <1>2 DEF Says, SaidIn, KilledIn
<1>3. CASE cmds'[u] = Append(cmds[u], c)
  <2>1. SaidIn(cmds'[u], t) => SaidIn(cmds[u], t) \/ c = Advert(t)
    BY <1>1, <1>3, AppendSays
  <2>2. KilledIn(cmds[u], t) /\ c # Advert(t) => KilledIn(cmds'[u], t)
    BY <1>1, <1>3, AppendSays
  <2>3. c.do \in {"withdraw", "leave"} => KilledIn(cmds'[u], t)
    BY <1>1, <1>3, AppendSays
  <2> QED BY <1>3, <2>1, <2>2, <2>3 DEF Says
<1> QED BY <1>2, <1>3

LEMMA ToldIsKept == Parts /\ Told /\ [Next]_vars => Told'
<1> SUFFICES ASSUME Parts, Told, [Next]_vars, NEW u \in Subs, NEW t \in Tickets, Says(u, t)'
             PROVE  Home[t] = Owner[u] /\ t \notin fresh' /\ Answered(u, t)'
  BY DEF Told, Answered
<1>p. Parts /\ Typed
  BY PartsAreAll
<1>t. Says(u, t) => Home[t] = Owner[u] /\ t \notin fresh /\ Answered(u, t)
  BY DEF Told, Answered
\* The end of a subscription: its Leave, or what it will not hear is missed.
<1>q. ASSUME NEW n \in Nodes, current[n] \in Subs, UNCHANGED <<own, session, fresh>>,
             current'[n] # u, \A k \in Nodes \ {n} : current'[k] = current[k],
             /\ u # current[n] => cmds'[u] = cmds[u]
             /\ u = current[n] => \/ cmds'[u] = cmds[u] /\ missed' = missed \cup
                                        {y \in Tickets : Home[y] = n /\ y \notin fresh}
                                  \/ cmds'[u] = Append(cmds[u], Cmd("leave")),
             missed \subseteq missed'
      PROVE  Home[t] = Owner[u] /\ t \notin fresh' /\ Answered(u, t)'
  <2>1. Cmd("leave") \in Command /\ Cmd("leave") # Advert(t) /\ Cmd("leave").do = "leave"
    BY Commands
  <2>2. Says(u, t) /\ (KilledIn(cmds[u], t) => KilledIn(cmds[u], t)')
    BY <1>q, <2>1, <1>p, QueueGrows
  <2>3. CASE u = current[n]
    <3>1. Owner[u] = n
      BY <1>q, <2>3, <1>p, NamesAssumption DEF Parts, Swarms
    <3>2. t \in missed' \/ KilledIn(cmds[u], t)'
      BY <1>q, <2>1, <2>2, <2>3, <3>1, <1>p, <1>t, QueueGrows
    <3> QED BY <1>q, <2>2, <3>2, <1>t DEF Answered
  <2>4. CASE u # current[n]
    <3>1. t \in Hosted /\ current[Owner[u]] = u => t \in Hosted' /\ current'[Owner[u]] = u
      BY <1>q, <2>4, OwnerAssumption DEF Hosted
    <3> QED BY <1>q, <2>2, <3>1, <1>t DEF Answered
  <2> QED BY <2>3, <2>4
<1>1. ASSUME NEW n \in Nodes, NEW x \in Tickets, Host(n, x)
      PROVE  Home[t] = Owner[u] /\ t \notin fresh' /\ Answered(u, t)'
  <2>0. /\ cmds' = Tell(n, Advert(x)) /\ UNCHANGED <<own, current, missed>>
        /\ fresh' = fresh \ {x} /\ session' = [session EXCEPT ![n] = x]
        /\ session[n] = None /\ Home[x] = n /\ x \in fresh /\ Advert(x) \in Command
    BY <1>1, Commands DEF Host
  <2>1. cmds'[u] = cmds[u] \/ (current[n] = u /\ cmds'[u] = Append(cmds[u], Advert(x)))
    BY ONLY <2>0, <1>p, n \in Nodes, u \in Subs, Tells
  <2>2. Says(u, t) \/ (t = x /\ current[n] = u)
    BY <2>0, <2>1, <1>p, QueueGrows, Commands
  <2>3. CASE t = x
    <3>1. ~Says(u, t) /\ current[n] = u
      BY <2>0, <2>2, <2>3, <1>t
    <3>2. Owner[u] = n /\ u # None /\ session'[n] = x
      BY <2>0, <3>1, <1>p, NamesAssumption DEF Parts, Swarms, Threads
    <3> QED BY <2>0, <2>3, <3>1, <3>2 DEF Answered, Hosted
  <2>4. CASE t # x
    <3>1. Says(u, t)
      BY <2>2, <2>4
    <3>2. KilledIn(cmds[u], t) => KilledIn(cmds[u], t)'
      BY <2>0, <2>1, <2>4, <1>p, QueueGrows, Commands
    <3>3. t \in Hosted => t \in Hosted'
      BY <2>0, <1>p, NamesAssumption DEF Hosted, Parts, Threads
    <3> QED BY <2>0, <3>1, <3>2, <3>3, <1>t DEF Answered
  <2> QED BY <2>3, <2>4
<1>2. ASSUME NEW n \in Nodes, NEW s \in Subs, SwarmJoin(n, s)
      PROVE  Home[t] = Owner[u] /\ t \notin fresh' /\ Answered(u, t)'
  <2>0. /\ task[s] = "new" /\ Owner[s] = n /\ current' = [current EXCEPT ![n] = s]
        /\ UNCHANGED <<own, session, fresh>> /\ own[s] = None /\ cmds[s] = <<>>
        /\ current[n] # s
    <3>1. /\ task[s] = "new" /\ Owner[s] = n /\ current' = [current EXCEPT ![n] = s]
          /\ UNCHANGED <<own, session, fresh>>
      BY <1>2 DEF SwarmJoin
    <3>2. s # None
      BY NamesAssumption
    <3> QED BY <3>1, <3>2, <1>p DEF Parts, Rest, Swarms
  <2>1. current[n] # None =>
          /\ LastWord(current[n]) \in [Subs -> Seq(Command)]
          /\ \A w \in Subs \ {current[n]} : LastWord(current[n])[w] = cmds[w]
          /\ \/ LastWord(current[n]) = cmds
             \/ LastWord(current[n])[current[n]] = Append(cmds[current[n]], Cmd("leave"))
    <3>1. current[n] # None => current[n] \in Subs
      BY <1>p DEF Parts, Threads
    <3> QED BY ONLY <3>1, <1>p, LastWords
  <2>2. CASE u = s
    <3>1. session[n] # None /\ t = session[n]
      <4>1. SaidIn(cmds'[s], t)
        BY <2>0, <2>2, NamesAssumption DEF Says
      <4>2. session[n] = None => cmds'[s] = <<>>
        BY <1>2, <2>0, <2>1, <1>p DEF SwarmJoin, Parts, Tasks
      <4>3. session[n] # None => cmds'[s] = <<Advert(session[n])>>
        BY <1>2, <2>0, <2>1, <1>p DEF SwarmJoin, Parts, Tasks
      <4>4. session[n] # None
        BY <4>1, <4>2, NothingSaid
      <4>5. Advert(session[n]) = Advert(t)
        BY <4>1, <4>3, <4>4 DEF SaidIn
      <4> QED BY <4>4, <4>5 DEF Advert
    <3>2. Home[t] = n /\ t \notin fresh
      BY <3>1, <1>p DEF Parts, Sessions
    <3>3. t \in Hosted' /\ current'[n] = s
      BY <2>0, <3>1, <3>2, <1>p DEF Hosted, Parts, Threads
    <3> QED BY <2>0, <2>2, <3>2, <3>3 DEF Answered
  <2>3. CASE u # s
    <3>1. cmds'[u] = IF current[n] = None THEN cmds[u] ELSE LastWord(current[n])[u]
      BY <1>2, <2>1, <2>3, <1>p DEF SwarmJoin, Parts, Tasks
    <3>2. CASE current[n] = None
      <4>1. cmds'[u] = cmds[u] /\ Says(u, t)
        BY <2>0, <3>1, <3>2 DEF Says
      <4>2. KilledIn(cmds[u], t) => KilledIn(cmds[u], t)'
        BY <4>1
      <4>3. t \in Hosted /\ current[Owner[u]] = u => t \in Hosted' /\ current'[Owner[u]] = u
        BY <2>0, <3>2, <1>p, NamesAssumption DEF Hosted, Parts, Threads
      <4>4. missed' = missed
        BY <1>2, <3>2 DEF SwarmJoin
      <4> QED BY <2>0, <4>1, <4>2, <4>3, <4>4, <1>t DEF Answered
    <3>3. CASE current[n] # None
      <4>1. current[n] \in Subs /\ cmds'[u] = LastWord(current[n])[u]
        BY <3>1, <3>3, <1>p DEF Parts, Threads
      <4>2. missed' = IF LastWord(current[n]) = cmds
                        THEN missed \cup {y \in Tickets : Home[y] = n /\ y \notin fresh} ELSE missed
        BY <1>2, <3>3 DEF SwarmJoin
      <4>3. current'[n] # u /\ \A k \in Nodes \ {n} : current'[k] = current[k]
        BY <2>0, <2>3, <1>p DEF Parts, Threads
      <4>4. /\ u # current[n] => cmds'[u] = cmds[u]
            /\ u = current[n] => \/ LastWord(current[n]) = cmds /\ cmds'[u] = cmds[u]
                                 \/ cmds'[u] = Append(cmds[u], Cmd("leave"))
        BY <2>1, <3>3, <4>1
      <4> QED BY ONLY <2>0, <4>1, <4>2, <4>3, <4>4, n \in Nodes, <1>q
    <3> QED BY <3>2, <3>3
  <2> QED BY <2>2, <2>3
<1>3. ASSUME NEW n \in Nodes, Announce(n)
      PROVE  Home[t] = Owner[u] /\ t \notin fresh' /\ Answered(u, t)'
  <2>0. /\ cmds' = Tell(n, Advert(session[n])) /\ UNCHANGED <<own, session, current, fresh, missed>>
        /\ session[n] \in Tickets /\ Home[session[n]] = n /\ session[n] \notin fresh
        /\ Advert(session[n]) \in Command
    BY <1>3, <1>p, Commands, NamesAssumption DEF Announce, client, history, Parts, Threads, Sessions
  <2>1. cmds'[u] = cmds[u] \/ (current[n] = u /\ cmds'[u] = Append(cmds[u], Advert(session[n])))
    BY ONLY <2>0, <1>p, n \in Nodes, u \in Subs, Tells
  <2>2. CASE t = session[n] /\ current[n] = u
    <3>1. Owner[u] = n
      BY <2>2, <1>p, NamesAssumption DEF Parts, Swarms
    <3> QED BY <2>0, <2>2, <3>1 DEF Answered, Hosted
  <2>3. CASE ~(t = session[n] /\ current[n] = u)
    <3>1. Says(u, t) /\ (KilledIn(cmds[u], t) => KilledIn(cmds[u], t)')
      <4>1. CASE cmds'[u] = cmds[u]
        BY <2>0, <4>1 DEF Says
      <4>2. CASE cmds'[u] # cmds[u]
        <5>1. Advert(session[n]) # Advert(t)
          BY <2>0, <2>1, <2>3, <4>2, Commands
        <5> QED BY <2>0, <2>1, <5>1, <1>p, QueueGrows
      <4> QED BY <4>1, <4>2
    <3> QED BY <2>0, <3>1, <1>t DEF Answered, Hosted
  <2> QED BY <2>2, <2>3
<1>4. ASSUME NEW n \in Nodes, Stop(n)
      PROVE  Home[t] = Owner[u] /\ t \notin fresh' /\ Answered(u, t)'
  <2>0. /\ cmds' = Tell(n, Cmd("withdraw")) /\ UNCHANGED <<own, current, fresh>>
        /\ session' = [session EXCEPT ![n] = None]
        /\ missed' = IF Unheard(n) THEN missed \cup {session[n]} ELSE missed
        /\ Cmd("withdraw") \in Command /\ Cmd("withdraw").do = "withdraw"
    BY <1>4, Commands DEF Stop
  <2>1. /\ cmds'[u] = cmds[u] \/ cmds'[u] = Append(cmds[u], Cmd("withdraw"))
        /\ current[n] = u /\ Room(u) => cmds'[u] = Append(cmds[u], Cmd("withdraw"))
    BY ONLY <2>0, <1>p, n \in Nodes, u \in Subs, Tells
  <2>2. Cmd("withdraw") # Advert(t)
    BY <2>0, Commands
  <2>3. /\ Says(u, t) /\ (KilledIn(cmds[u], t) => KilledIn(cmds[u], t)')
        /\ current[n] = u /\ Room(u) => KilledIn(cmds[u], t)'
    BY <2>0, <2>1, <2>2, <1>p, QueueGrows
  <2>4. CASE t \in Hosted /\ t \notin Hosted' /\ current[Owner[u]] = u
    <3>1. session[n] = t /\ Home[t] = n
      BY <2>0, <2>4, <1>p DEF Hosted, Parts, Threads
    <3>2. current[n] = u /\ u # None
      BY <2>3, <2>4, <3>1, <1>t, NamesAssumption
    <3>3. ~Room(u) => t \in missed'
      BY <2>0, <3>1, <3>2 DEF Unheard
    <3> QED BY <2>0, <2>3, <3>2, <3>3, <1>t DEF Answered
  <2>5. CASE ~(t \in Hosted /\ t \notin Hosted' /\ current[Owner[u]] = u)
    <3>1. t \in missed => t \in missed'
      BY <2>0
    <3> QED BY <2>0, <2>3, <2>5, <3>1, <1>t DEF Answered
  <2> QED BY <2>4, <2>5
<1>5. ASSUME NEW n \in Nodes, SwarmLeave(n) \/ SwarmJoinFails(n)
      PROVE  Home[t] = Owner[u] /\ t \notin fresh' /\ Answered(u, t)'
  <2>0. /\ current[n] \in Subs /\ current' = [current EXCEPT ![n] = None]
        /\ cmds' = LastWord(current[n]) /\ UNCHANGED <<own, session, fresh>>
        /\ missed' = IF cmds' = cmds
                       THEN missed \cup {y \in Tickets : Home[y] = n /\ y \notin fresh} ELSE missed
    BY <1>5, <1>p, NamesAssumption DEF SwarmLeave, SwarmJoinFails, StopSwarm, Parts, Threads
  <2>1. /\ u # current[n] => cmds'[u] = cmds[u]
        /\ u = current[n] => (cmds' = cmds \/ cmds'[u] = Append(cmds[u], Cmd("leave")))
    BY ONLY <2>0, <1>p, u \in Subs, LastWords
  <2>2. current'[n] # u /\ \A k \in Nodes \ {n} : current'[k] = current[k]
    BY <2>0, <1>p, NamesAssumption DEF Parts, Threads
  <2>3. missed \subseteq missed'
    BY <2>0
  <2> QED BY ONLY <2>0, <2>1, <2>2, <2>3, n \in Nodes, <1>q
<1>6. ASSUME NEW n \in Nodes, Crash(n)
      PROVE  Home[t] = Owner[u] /\ t \notin fresh' /\ Answered(u, t)'
  <2>0. /\ current' = [current EXCEPT ![n] = None] /\ session' = [session EXCEPT ![n] = None]
        /\ UNCHANGED <<fresh, missed>>
    BY <1>6 DEF Crash
  <2>1. Owner[u] # n
    <3>1. SUFFICES ASSUME Owner[u] = n PROVE FALSE
      OBVIOUS
    <3>2. own'[u] = None /\ cmds'[u] = <<>>
      BY <1>6, <3>1, <1>p DEF Crash, On, Parts, Rest
    <3> QED BY <3>2, NothingSaid, NamesAssumption DEF Says
  <2>2. own'[u] = own[u] /\ cmds'[u] = cmds[u]
    BY <1>6, <2>1 DEF Crash
  <2>3. Says(u, t) /\ (KilledIn(cmds[u], t) => KilledIn(cmds[u], t)')
    BY <2>2 DEF Says
  <2>4. Home[t] = Owner[u] /\ t \notin fresh /\ Answered(u, t)
    BY <2>3, <1>t
  <2>5. t \in Hosted /\ current[Owner[u]] = u => t \in Hosted' /\ current'[Owner[u]] = u
    BY <2>0, <2>1, <2>4, <1>p, OwnerAssumption DEF Hosted, Parts, Threads
  <2> QED BY <2>0, <2>3, <2>4, <2>5 DEF Answered
<1>7. ASSUME NEW s \in Subs, HandleCommand(s)
      PROVE  Home[t] = Owner[u] /\ t \notin fresh' /\ Answered(u, t)'
  <2>0. UNCHANGED <<session, current, fresh, missed>>
    BY <1>7 DEF HandleCommand, history
  <2>1. CASE u # s
    <3>1. own'[u] = own[u] /\ cmds'[u] = cmds[u]
      <4>1. \E v : own' = own \/ own' = [own EXCEPT ![s] = v]
        BY <1>7, <1>p, HeadIsCommand DEF HandleCommand, TakeAdvert, TakeWithdraw, TakeLeave
      <4>2. PICK v : own' = own \/ own' = [own EXCEPT ![s] = v]
        BY <4>1
      <4>3. own'[u] = own[u]
        BY <2>1, <4>2, <1>p DEF Parts, Tasks
      <4>4. cmds'[u] = cmds[u]
        BY <1>7, <2>1 DEF HandleCommand
      <4> QED BY <4>3, <4>4
    <3> QED BY <2>0, <3>1, <1>t DEF Says, Answered, Hosted
  <2>2. CASE u = s
    <3>0. /\ cmds[s] \in Seq(Command) /\ cmds[s] # <<>> /\ Head(cmds[s]) \in Command
          /\ Head(cmds[s]).do \in {"advert", "withdraw", "peers", "leave"}
          /\ Head(cmds[s]).do = "advert" => Head(cmds[s]) = Advert(Head(cmds[s]).ticket)
      BY <1>7, <1>p, HeadIsCommand, Commands
    <3>1. Head(cmds[s]).do # "leave"
      <4>1. SUFFICES ASSUME Head(cmds[s]).do = "leave" PROVE FALSE
        OBVIOUS
      <4>2. own'[s] = None /\ cmds'[s] = <<>>
        BY <1>7, <4>1, <1>p DEF HandleCommand, TakeLeave, Parts, Tasks
      <4> QED BY <2>2, <4>2, NothingSaid, NamesAssumption DEF Says
    <3>2. cmds'[s] = Tail(cmds[s])
      BY <1>7, <3>1, <1>p DEF HandleCommand, Parts, Tasks
    <3>3. CASE Head(cmds[s]).do = "advert"
      <4>1. own'[s] = Head(cmds[s]).ticket
        BY <1>7, <3>3, <1>p DEF HandleCommand, TakeAdvert, Parts, Tasks
      <4>2. Says(s, t)
        BY <2>2, <3>0, <3>2, <3>3, <4>1, TailSays DEF Says
      <4>3. KilledIn(cmds[s], t) => KilledIn(Tail(cmds[s]), t)
        BY <3>0, <3>3, TailSays
      <4> QED BY <2>0, <2>2, <3>2, <4>2, <4>3, <1>t DEF Answered, Hosted
    <3>4. CASE Head(cmds[s]).do = "withdraw"
      <4>1. own'[s] = None
        BY <1>7, <3>4, <1>p DEF HandleCommand, TakeWithdraw, Parts, Tasks
      <4>2. SaidIn(Tail(cmds[s]), t)
        BY <2>2, <3>2, <4>1, NamesAssumption DEF Says
      <4>3. Says(s, t) /\ (KilledIn(cmds[s], t) => KilledIn(Tail(cmds[s]), t))
        BY <3>0, <4>2, TailSays DEF Says
      <4> QED BY <2>0, <2>2, <3>2, <4>3, <1>t DEF Answered, Hosted
    <3>5. CASE Head(cmds[s]).do = "peers"
      <4>1. own' = own
        BY <1>7, <3>5 DEF HandleCommand
      <4>2. Says(s, t) /\ (KilledIn(cmds[s], t) => KilledIn(Tail(cmds[s]), t))
        BY <2>2, <3>0, <3>2, <3>5, <4>1, TailSays DEF Says
      <4> QED BY <2>0, <2>2, <3>2, <4>2, <1>t DEF Answered, Hosted
    <3> QED BY <3>0, <3>1, <3>3, <3>4, <3>5
  <2> QED BY <2>1, <2>2
<1>8. ASSUME NEW s \in Subs, GreetNeighbour(s)
      PROVE  Home[t] = Owner[u] /\ t \notin fresh' /\ Answered(u, t)'
  <2>1. UNCHANGED <<own, cmds, session, current, fresh, missed>>
    BY <1>8 DEF GreetNeighbour, client, history
  <2> QED BY <2>1, <1>t DEF Says, Answered, Hosted
<1>9. ASSUME NEW s \in Subs, TickerFires(s)
      PROVE  Home[t] = Owner[u] /\ t \notin fresh' /\ Answered(u, t)'
  <2>1. UNCHANGED <<own, cmds, session, current, fresh, missed>>
    BY <1>9 DEF TickerFires, client, history
  <2> QED BY <2>1, <1>t DEF Says, Answered, Hosted
<1>10. ASSUME NEW s \in Subs, HearBeacon(s)
      PROVE  Home[t] = Owner[u] /\ t \notin fresh' /\ Answered(u, t)'
  <2>1. /\ UNCHANGED <<own, session, current, fresh, missed>>
        /\ cmds'[u] = cmds[u] \/ cmds'[u] = Append(cmds[u], Cmd("peers"))
    BY <1>10, <1>p DEF HearBeacon, client, history, Parts, Tasks
  <2>2. Cmd("peers") \in Command /\ Cmd("peers") # Advert(t)
    BY Commands
  <2>3. Says(u, t) /\ (KilledIn(cmds[u], t) => KilledIn(cmds[u], t)')
    BY <2>1, <2>2, <1>p, QueueGrows
  <2> QED BY <2>1, <2>3, <1>t DEF Answered, Hosted
<1>11. ASSUME NEW m \in net, Receive(m)
      PROVE  Home[t] = Owner[u] /\ t \notin fresh' /\ Answered(u, t)'
  <2>1. UNCHANGED <<own, cmds, session, current, fresh, missed>>
    BY <1>11 DEF Receive, client, history
  <2> QED BY <2>1, <1>t DEF Says, Answered, Hosted
<1>12. ASSUME NEW m \in net, Lose(m)
      PROVE  Home[t] = Owner[u] /\ t \notin fresh' /\ Answered(u, t)'
  <2>1. UNCHANGED <<own, cmds, session, current, fresh, missed>>
    BY <1>12 DEF Lose, client, history
  <2> QED BY <2>1, <1>t DEF Says, Answered, Hosted
<1>13. ASSUME Advance
      PROVE  Home[t] = Owner[u] /\ t \notin fresh' /\ Answered(u, t)'
  <2>1. UNCHANGED <<own, cmds, session, current, fresh, missed>>
    BY <1>13 DEF Advance, client, history
  <2> QED BY <2>1, <1>t DEF Says, Answered, Hosted
<1>14. ASSUME UNCHANGED vars
      PROVE  Home[t] = Owner[u] /\ t \notin fresh' /\ Answered(u, t)'
  <2>1. UNCHANGED <<own, cmds, session, current, fresh, missed>>
    BY <1>14 DEF vars, client, history
  <2> QED BY <2>1, <1>t DEF Says, Answered, Hosted
<1> QED
  BY <1>1, <1>2, <1>3, <1>4, <1>5, <1>6, <1>7, <1>8, <1>9, <1>10, <1>11, <1>12, <1>13, <1>14 DEF Next

-----------------------------------------------------------------------------
(* Ages.                                                                   *)

\* What ended in this step has an age of 0; what had ended keeps its age.
LEMMA HowItEnds ==
  ASSUME Parts, Next, ~Advance, NEW t \in Tickets, Ended(t)'
  PROVE  (Ended(t) /\ over'[t] = over[t]) \/ over'[t] = 0
<1> USE NamesAssumption, OwnerAssumption DEF Parts, Threads, Sessions, Ended, Hosted, client, history
<1>1. ASSUME NEW n \in Nodes, NEW x \in Tickets, Host(n, x)
      PROVE  (Ended(t) /\ over'[t] = over[t]) \/ over'[t] = 0
  <2>1. /\ session[n] = None /\ Home[x] = n /\ session' = [session EXCEPT ![n] = x]
        /\ fresh' = fresh \ {x} /\ UNCHANGED <<over, missed>>
    BY <1>1 DEF Host
  <2>2. t # x
    BY <2>1
  <2> QED BY <2>1, <2>2
<1>2. ASSUME NEW n \in Nodes, NEW s \in Subs, SwarmJoin(n, s)
      PROVE  (Ended(t) /\ over'[t] = over[t]) \/ over'[t] = 0
  <2>1. UNCHANGED <<session, fresh, over>> /\ missed \subseteq missed'
    BY <1>2 DEF SwarmJoin
  <2> QED BY <2>1
<1>3. ASSUME NEW n \in Nodes, Announce(n)
      PROVE  (Ended(t) /\ over'[t] = over[t]) \/ over'[t] = 0
  <2>1. UNCHANGED <<session, fresh, over, missed>>
    BY <1>3 DEF Announce
  <2> QED BY <2>1
<1>4. ASSUME NEW n \in Nodes, Stop(n)
      PROVE  (Ended(t) /\ over'[t] = over[t]) \/ over'[t] = 0
  <2>1. /\ session' = [session EXCEPT ![n] = None] /\ over' = [over EXCEPT ![session[n]] = 0]
        /\ session[n] # None /\ UNCHANGED fresh /\ missed \subseteq missed'
    BY <1>4 DEF Stop
  <2> QED BY <2>1
<1>5. ASSUME NEW n \in Nodes, SwarmLeave(n) \/ SwarmJoinFails(n)
      PROVE  (Ended(t) /\ over'[t] = over[t]) \/ over'[t] = 0
  <2>1. UNCHANGED <<session, fresh, over>> /\ missed \subseteq missed'
    BY <1>5 DEF SwarmLeave, SwarmJoinFails, StopSwarm
  <2> QED BY <2>1
<1>6. ASSUME NEW n \in Nodes, Crash(n)
      PROVE  (Ended(t) /\ over'[t] = over[t]) \/ over'[t] = 0
  <2>1. /\ session' = [session EXCEPT ![n] = None] /\ UNCHANGED <<fresh, missed>>
        /\ over' = IF session[n] = None THEN over ELSE [over EXCEPT ![session[n]] = 0]
    BY <1>6 DEF Crash
  <2> QED BY <2>1
<1>7. ASSUME NEW s \in Subs, HandleCommand(s)
      PROVE  (Ended(t) /\ over'[t] = over[t]) \/ over'[t] = 0
  <2>1. UNCHANGED <<session, fresh, over, missed>>
    BY <1>7 DEF HandleCommand
  <2> QED BY <2>1
<1>8. ASSUME NEW s \in Subs, GreetNeighbour(s)
      PROVE  (Ended(t) /\ over'[t] = over[t]) \/ over'[t] = 0
  <2>1. UNCHANGED <<session, fresh, over, missed>>
    BY <1>8 DEF GreetNeighbour
  <2> QED BY <2>1
<1>9. ASSUME NEW s \in Subs, TickerFires(s)
      PROVE  (Ended(t) /\ over'[t] = over[t]) \/ over'[t] = 0
  <2>1. UNCHANGED <<session, fresh, over, missed>>
    BY <1>9 DEF TickerFires
  <2> QED BY <2>1
<1>10. ASSUME NEW s \in Subs, HearBeacon(s)
      PROVE  (Ended(t) /\ over'[t] = over[t]) \/ over'[t] = 0
  <2>1. UNCHANGED <<session, fresh, over, missed>>
    BY <1>10 DEF HearBeacon
  <2> QED BY <2>1
<1>11. ASSUME NEW m \in net, Receive(m)
      PROVE  (Ended(t) /\ over'[t] = over[t]) \/ over'[t] = 0
  <2>1. UNCHANGED <<session, fresh, over, missed>>
    BY <1>11 DEF Receive
  <2> QED BY <2>1
<1>12. ASSUME NEW m \in net, Lose(m)
      PROVE  (Ended(t) /\ over'[t] = over[t]) \/ over'[t] = 0
  <2>1. UNCHANGED <<session, fresh, over, missed>>
    BY <1>12 DEF Lose
  <2> QED BY <2>1
<1> QED
  BY <1>1, <1>2, <1>3, <1>4, <1>5, <1>6, <1>7, <1>8, <1>9, <1>10, <1>11, <1>12 DEF Next
\* Nobody begins to speak of what has ended.
LEMMA SaidBefore ==
  ASSUME Parts, Next, NEW s \in Subs, NEW t \in Tickets, Ended(t), Says(s, t)'
  PROVE  Says(s, t)
<1>0. t \notin fresh /\ \A n \in Nodes : session[n] # t
  BY NamesAssumption DEF Ended, Hosted, Parts, Sessions
<1>p. Parts /\ Typed
  BY PartsAreAll
<1>1. ASSUME NEW n \in Nodes, NEW x \in Tickets, Host(n, x) PROVE Says(s, t)
  <2>0. cmds' = Tell(n, Advert(x)) /\ own' = own
    BY <1>1 DEF Host
  <2>1. Advert(x) \in Command /\ Advert(x) # Advert(t)
    BY <1>1, <1>0, <1>p, Commands, NamesAssumption DEF Host, Parts, Threads
  <2>2. cmds'[s] = cmds[s] \/ cmds'[s] = Append(cmds[s], Advert(x))
    BY ONLY <2>0, <2>1, <1>p, n \in Nodes, s \in Subs, Tells
  <2> QED BY <2>0, <2>1, <2>2, <1>p, QueueGrows
<1>2. ASSUME NEW n \in Nodes, NEW u \in Subs, SwarmJoin(n, u) PROVE Says(s, t)
  <2>0. u \in Subs /\ own' = own /\ cmds[u] = <<>> /\ current[n] # u
    BY <1>2, <1>p, NamesAssumption DEF SwarmJoin, Parts, Rest, Swarms
  <2>1. current[n] # None =>
          /\ LastWord(current[n]) \in [Subs -> Seq(Command)]
          /\ \A w \in Subs \ {current[n]} : LastWord(current[n])[w] = cmds[w]
          /\ \/ LastWord(current[n]) = cmds
             \/ LastWord(current[n])[current[n]] = Append(cmds[current[n]], Cmd("leave"))
    <3>1. current[n] # None => current[n] \in Subs
      BY <1>p DEF Parts, Threads
    <3> QED BY ONLY <3>1, <1>p, LastWords
  <2>2. CASE s = u
    <3>1. cmds'[u] = <<>> \/ (session[n] # None /\ cmds'[u] = <<Advert(session[n])>>)
      BY <1>2, <2>0, <2>1, <1>p DEF SwarmJoin, Parts, Tasks
    <3>2. session[n] # None => ~SaidIn(<<Advert(session[n])>>, t)
      BY <1>0 DEF SaidIn, Advert
    <3>3. ~SaidIn(cmds'[u], t)
      BY <3>1, <3>2, NothingSaid
    <3> QED BY <2>0, <2>2, <3>3 DEF Says
  <2>3. CASE s # u
    <3>1. cmds'[s] = IF current[n] = None THEN cmds[s] ELSE LastWord(current[n])[s]
      BY <1>2, <2>1, <2>3, <1>p DEF SwarmJoin, Parts, Tasks
    <3>2. cmds'[s] = cmds[s] \/ cmds'[s] = Append(cmds[s], Cmd("leave"))
      <4>1. CASE current[n] = s
        BY <2>1, <3>1, <4>1, NamesAssumption
      <4>2. CASE current[n] # s
        BY <2>1, <3>1, <4>2
      <4> QED BY <4>1, <4>2
    <3>3. Cmd("leave") \in Command /\ Cmd("leave") # Advert(t)
      BY Commands
    <3> QED BY <2>0, <3>2, <3>3, <1>p, QueueGrows
  <2> QED BY <2>2, <2>3
<1>3. ASSUME NEW n \in Nodes, Announce(n) PROVE Says(s, t)
  <2>0. cmds' = Tell(n, Advert(session[n])) /\ own' = own
    BY <1>3 DEF Announce
  <2>1. Advert(session[n]) \in Command /\ Advert(session[n]) # Advert(t)
    BY <1>3, <1>0, <1>p, Commands, NamesAssumption DEF Announce, Parts, Threads
  <2>2. cmds'[s] = cmds[s] \/ cmds'[s] = Append(cmds[s], Advert(session[n]))
    BY ONLY <2>0, <2>1, <1>p, n \in Nodes, s \in Subs, Tells
  <2> QED BY <2>0, <2>1, <2>2, <1>p, QueueGrows
<1>4. ASSUME NEW n \in Nodes, Stop(n) PROVE Says(s, t)
  <2>0. cmds' = Tell(n, Cmd("withdraw")) /\ own' = own
    BY <1>4 DEF Stop
  <2>1. Cmd("withdraw") \in Command /\ Cmd("withdraw") # Advert(t)
    BY <1>4, <1>0, <1>p, Commands, NamesAssumption DEF Stop, Parts, Threads
  <2>2. cmds'[s] = cmds[s] \/ cmds'[s] = Append(cmds[s], Cmd("withdraw"))
    BY ONLY <2>0, <2>1, <1>p, n \in Nodes, s \in Subs, Tells
  <2> QED BY <2>0, <2>1, <2>2, <1>p, QueueGrows
<1>5. ASSUME NEW n \in Nodes, SwarmLeave(n) \/ SwarmJoinFails(n) PROVE Says(s, t)
  <2>1. current[n] \in Subs /\ cmds' = LastWord(current[n]) /\ own' = own
    BY <1>5, <1>p, NamesAssumption DEF SwarmLeave, SwarmJoinFails, StopSwarm, Parts, Threads
  <2>2. cmds'[s] = cmds[s] \/ cmds'[s] = Append(cmds[s], Cmd("leave"))
    BY ONLY <2>1, <1>p, s \in Subs, LastWords
  <2>3. Cmd("leave") \in Command /\ Cmd("leave") # Advert(t)
    BY Commands
  <2> QED BY <2>1, <2>2, <2>3, <1>p, QueueGrows
<1>6. ASSUME NEW n \in Nodes, Crash(n) PROVE Says(s, t)
  <2>1. (own'[s] = None /\ cmds'[s] = <<>>) \/ (own'[s] = own[s] /\ cmds'[s] = cmds[s])
    BY <1>6, <1>p DEF Crash, Parts, Tasks
  <2> QED BY <2>1, NothingSaid, NamesAssumption DEF Says
<1>7. ASSUME NEW u \in Subs, HandleCommand(u) PROVE Says(s, t)
  <2>0. /\ cmds[u] \in Seq(Command) /\ cmds[u] # <<>> /\ Head(cmds[u]) \in Command
        /\ Head(cmds[u]).do \in {"advert", "withdraw", "peers", "leave"}
        /\ Head(cmds[u]).do = "advert" => Head(cmds[u]) = Advert(Head(cmds[u]).ticket)
    BY <1>7, <1>p, HeadIsCommand, Commands
  <2>1. cmds' = [cmds EXCEPT ![u] = IF Head(cmds[u]).do = "leave" THEN <<>> ELSE Tail(cmds[u])]
    BY <1>7, <1>p DEF HandleCommand, Parts, Tasks
  <2>2. \/ own' = own
        \/ own' = [own EXCEPT ![u] = None]
        \/ own' = [own EXCEPT ![u] = Head(cmds[u]).ticket] /\ Head(cmds[u]).do = "advert"
    BY <1>7, <2>0 DEF HandleCommand, TakeAdvert, TakeWithdraw, TakeLeave
  <2>3. own'[s] = t => Says(s, t)
    <3>1. CASE own' = [own EXCEPT ![u] = Head(cmds[u]).ticket] /\ Head(cmds[u]).do = "advert"
      BY <2>0, <3>1, <1>p, TailSays DEF Says, Parts, Tasks
    <3> QED BY <2>2, <3>1, <1>p, NamesAssumption DEF Says, Parts, Tasks
  <2>4. SaidIn(cmds'[s], t) => Says(s, t)
    BY <2>0, <2>1, <1>p, TailSays, NothingSaid DEF Says, Parts, Tasks
  <2> QED BY <2>3, <2>4 DEF Says
<1>8. ASSUME NEW u \in Subs, GreetNeighbour(u) PROVE Says(s, t)
  <2>1. UNCHANGED <<own, cmds>>
    BY <1>8 DEF GreetNeighbour
  <2> QED BY <2>1 DEF Says
<1>9. ASSUME NEW u \in Subs, TickerFires(u) PROVE Says(s, t)
  <2>1. UNCHANGED <<own, cmds>>
    BY <1>9 DEF TickerFires
  <2> QED BY <2>1 DEF Says
<1>10. ASSUME NEW u \in Subs, HearBeacon(u) PROVE Says(s, t)
  <2>1. own' = own /\ (cmds'[s] = cmds[s] \/ cmds'[s] = Append(cmds[s], Cmd("peers")))
    BY <1>10, <1>p DEF HearBeacon, Parts, Tasks
  <2>2. Cmd("peers") \in Command /\ Cmd("peers") # Advert(t)
    BY Commands
  <2> QED BY <2>1, <2>2, <1>p, QueueGrows
<1>11. ASSUME NEW m \in net, Receive(m) PROVE Says(s, t)
  <2>1. UNCHANGED <<own, cmds>>
    BY <1>11 DEF Receive
  <2> QED BY <2>1 DEF Says
<1>12. ASSUME NEW m \in net, Lose(m) PROVE Says(s, t)
  <2>1. UNCHANGED <<own, cmds>>
    BY <1>12 DEF Lose
  <2> QED BY <2>1 DEF Says
<1>13. ASSUME Advance PROVE Says(s, t)
  <2>1. UNCHANGED <<own, cmds>>
    BY <1>13 DEF Advance
  <2> QED BY <2>1 DEF Says
<1> QED
  BY <1>1, <1>2, <1>3, <1>4, <1>5, <1>6, <1>7, <1>8, <1>9, <1>10, <1>11, <1>12, <1>13 DEF Next

\* A list gets younger by an advert that was under way.
ListedSince(s, t) ==
  \/ hosts'[s][t] = hosts[s][t]
  \/ hosts'[s][t] = Absent
  \/ hosts'[s][t] = 0 /\ \E m \in net : m.kind = "advert" /\ m.ticket = t

LEMMA WhatIsListed ==
  ASSUME Parts, Next, ~Advance, NEW s \in Subs, NEW t \in Tickets
  PROVE  ListedSince(s, t)
<1> USE DEF ListedSince, client
<1>1. ASSUME NEW n \in Nodes, NEW x \in Tickets, Host(n, x)
      PROVE  ListedSince(s, t)
  BY <1>1 DEF Host
<1>2. ASSUME NEW n \in Nodes, NEW u \in Subs, SwarmJoin(n, u)
      PROVE  ListedSince(s, t)
  BY <1>2 DEF SwarmJoin
<1>3. ASSUME NEW n \in Nodes, Announce(n)
      PROVE  ListedSince(s, t)
  BY <1>3 DEF Announce
<1>4. ASSUME NEW n \in Nodes, Stop(n)
      PROVE  ListedSince(s, t)
  BY <1>4 DEF Stop
<1>5. ASSUME NEW n \in Nodes, SwarmLeave(n) \/ SwarmJoinFails(n)
      PROVE  ListedSince(s, t)
  BY <1>5 DEF SwarmLeave, SwarmJoinFails, StopSwarm
<1>6. ASSUME NEW n \in Nodes, Crash(n)
      PROVE  ListedSince(s, t)
  <2>1. hosts'[s] = hosts[s] \/ hosts'[s] = [y \in Tickets |-> Absent]
    BY <1>6 DEF Crash
  <2> QED BY <2>1
<1>7. ASSUME NEW u \in Subs, HandleCommand(u)
      PROVE  ListedSince(s, t)
  <2>1. hosts' = hosts \/ hosts' = [hosts EXCEPT ![u] = [y \in Tickets |-> Absent]]
    BY <1>7, HeadIsCommand DEF HandleCommand, TakeAdvert, TakeWithdraw, TakeLeave
  <2>2. hosts \in [Subs -> [Tickets -> Age]]
    BY DEF Parts, Lists
  <2> QED BY <2>1, <2>2
<1>8. ASSUME NEW u \in Subs, GreetNeighbour(u)
      PROVE  ListedSince(s, t)
  BY <1>8 DEF GreetNeighbour
<1>9. ASSUME NEW u \in Subs, TickerFires(u)
      PROVE  ListedSince(s, t)
  <2>1. hosts' = [hosts EXCEPT ![u] = [y \in Tickets |-> Kept(hosts[u][y])]]
    BY <1>9 DEF TickerFires, Discover
  <2>2. hosts \in [Subs -> [Tickets -> Age]]
    BY DEF Parts, Lists
  <2> QED BY <2>1, <2>2 DEF Kept
<1>10. ASSUME NEW u \in Subs, HearBeacon(u)
      PROVE  ListedSince(s, t)
  BY <1>10 DEF HearBeacon
<1>11. ASSUME NEW w \in net, Receive(w)
      PROVE  ListedSince(s, t)
  <2>1. w.to \in Subs /\ w.ticket \in Tickets /\ hosts \in [Subs -> [Tickets -> Age]]
    BY DEF Message, Parts, Tasks, Lists
  <2>2. ASSUME NEW list \in Admitted(hosts[w.to], w.ticket), w.kind = "advert",
               hosts' = [hosts EXCEPT ![w.to] = list]
        PROVE  ListedSince(s, t)
    <3>1. /\ hosts[w.to] \in [Tickets -> Age] /\ IsFiniteSet(In(hosts[w.to]))
          /\ Cardinality(In(hosts[w.to])) <= MaxHosts
      BY <2>1 DEF Parts, Lists
    <3>2. \A y \in Tickets : list[y] = Absent \/ list[y] = hosts[w.to][y] \/ (y = w.ticket /\ list[y] = 0)
      BY ONLY <2>1, <2>2, <3>1, AdmittedFits
    <3> QED BY <2>1, <2>2, <3>2
  <2>3. CASE ReceiveGone(w)
    BY <2>1, <2>3 DEF ReceiveGone, Discover
  <2>4. CASE hosts' = hosts
    BY <2>4
  <2> QED BY <1>11, <2>2, <2>3, <2>4 DEF Receive, ReceiveAdvert, Discover
<1>12. ASSUME NEW w \in net, Lose(w)
      PROVE  ListedSince(s, t)
  BY <1>12 DEF Lose
<1> QED
  BY <1>1, <1>2, <1>3, <1>4, <1>5, <1>6, <1>7, <1>8, <1>9, <1>10, <1>11, <1>12 DEF Next

LEMMA WhatIsUnderWay ==
  ASSUME Parts, Next, ~Advance, NEW m \in net', m.kind = "advert"
  PROVE  m \in net \/ \E s \in Subs : Says(s, m.ticket)
<1> USE DEF client
<1>1. ASSUME NEW n \in Nodes, NEW x \in Tickets, Host(n, x)
      PROVE  m \in net \/ \E s \in Subs : Says(s, m.ticket)
  BY <1>1 DEF Host
<1>2. ASSUME NEW n \in Nodes, NEW u \in Subs, SwarmJoin(n, u)
      PROVE  m \in net \/ \E s \in Subs : Says(s, m.ticket)
  BY <1>2 DEF SwarmJoin
<1>3. ASSUME NEW n \in Nodes, Announce(n)
      PROVE  m \in net \/ \E s \in Subs : Says(s, m.ticket)
  BY <1>3 DEF Announce
<1>4. ASSUME NEW n \in Nodes, Stop(n)
      PROVE  m \in net \/ \E s \in Subs : Says(s, m.ticket)
  BY <1>4 DEF Stop
<1>5. ASSUME NEW n \in Nodes, SwarmLeave(n) \/ SwarmJoinFails(n)
      PROVE  m \in net \/ \E s \in Subs : Says(s, m.ticket)
  BY <1>5 DEF SwarmLeave, SwarmJoinFails, StopSwarm
<1>6. ASSUME NEW n \in Nodes, Crash(n)
      PROVE  m \in net \/ \E s \in Subs : Says(s, m.ticket)
  BY <1>6 DEF Crash
<1>7. ASSUME NEW u \in Subs, HandleCommand(u)
      PROVE  m \in net \/ \E s \in Subs : Says(s, m.ticket)
  <2>1. CASE Head(cmds[u]).do = "advert"
    <3>1. net' = net \cup Broadcast("advert", Head(cmds[u]).ticket)
      BY <1>7, <2>1 DEF HandleCommand, TakeAdvert
    <3>2. SaidIn(cmds[u], Head(cmds[u]).ticket)
      BY <1>7, <2>1, HeadIsCommand, Commands, TailSays
    <3> QED BY <3>1, <3>2 DEF Broadcast, Says
  <2>2. CASE Head(cmds[u]).do = "withdraw"
    <3>1. net' = net \/ net' = net \cup Broadcast("gone", own[u])
      BY <1>7, <2>2 DEF HandleCommand, TakeWithdraw
    <3> QED BY <3>1 DEF Broadcast
  <2>3. CASE Head(cmds[u]).do = "peers"
    BY <1>7, <2>3 DEF HandleCommand
  <2>4. CASE Head(cmds[u]).do = "leave"
    <3>1. net' \subseteq net \cup Broadcast("gone", own[u])
      BY <1>7, <2>4 DEF HandleCommand, TakeLeave
    <3> QED BY <3>1 DEF Broadcast
  <2> QED BY <1>7, HeadIsCommand, <2>1, <2>2, <2>3, <2>4
<1>8. ASSUME NEW u \in Subs, GreetNeighbour(u)
      PROVE  m \in net \/ \E s \in Subs : Says(s, m.ticket)
  <2>1. net' \subseteq net \cup (IF own[u] = None THEN {} ELSE Broadcast("advert", own[u]))
    BY <1>8 DEF GreetNeighbour
  <2> QED BY <2>1 DEF Broadcast, Says
<1>9. ASSUME NEW u \in Subs, TickerFires(u)
      PROVE  m \in net \/ \E s \in Subs : Says(s, m.ticket)
  <2>1. net' \subseteq net \cup (IF own[u] = None THEN {} ELSE Broadcast("advert", own[u]))
    BY <1>9 DEF TickerFires
  <2> QED BY <2>1 DEF Broadcast, Says
<1>10. ASSUME NEW u \in Subs, HearBeacon(u)
      PROVE  m \in net \/ \E s \in Subs : Says(s, m.ticket)
  BY <1>10 DEF HearBeacon
<1>11. ASSUME NEW w \in net, Receive(w)
      PROVE  m \in net \/ \E s \in Subs : Says(s, m.ticket)
  BY <1>11 DEF Receive
<1>12. ASSUME NEW w \in net, Lose(w)
      PROVE  m \in net \/ \E s \in Subs : Says(s, m.ticket)
  BY <1>12 DEF Lose
<1> QED
  BY <1>1, <1>2, <1>3, <1>4, <1>5, <1>6, <1>7, <1>8, <1>9, <1>10, <1>11, <1>12 DEF Next

LEMMA AgesAreKept == Parts /\ Told /\ Ages /\ [Next]_vars => Ages'
<1> SUFFICES ASSUME Parts, Told, Ages, [Next]_vars PROVE Ages'
  OBVIOUS
<1>p. Parts' /\ over' \in [Tickets -> Nat] /\ hosts' \in [Subs -> [Tickets -> Nat]]
  BY PartsAreKept, NumbersAssumption DEF Parts, Threads, Lists, Age, Absent, LongOver
<1>q. over \in [Tickets -> Nat] /\ hosts \in [Subs -> [Tickets -> Age]] /\ TTL \in Nat \ {0}
  BY NumbersAssumption DEF Parts, Threads, Lists, LongOver
<1>f. \A t \in fresh : over[t] = 0 /\ t \in Tickets
  BY DEF Ages, Parts, Threads
<1>1. CASE UNCHANGED vars
  BY <1>1 DEF vars, client, history, Ages, Ended, Hosted, Says, Listed, On
<1>2. CASE Next /\ ~Advance
  <2>1. \A t \in fresh' : over'[t] = 0
    <3>1. fresh' \subseteq fresh
      BY <1>2 DEF Next, Host, SwarmJoin, Announce, Stop, SwarmLeave, SwarmJoinFails, Crash,
                  HandleCommand, GreetNeighbour, TickerFires, HearBeacon, Receive, Lose, history
    <3>2. ASSUME NEW t \in fresh' PROVE over'[t] = 0
      <4>1. over[t] = 0 /\ t \in Tickets
        BY <1>f, <3>1
      <4>2. over' = over \/ \E n \in Nodes : session[n] # None /\ over' = [over EXCEPT ![session[n]] = 0]
        BY <1>2 DEF Next, Host, SwarmJoin, Announce, Stop, SwarmLeave, SwarmJoinFails, Crash,
                    HandleCommand, GreetNeighbour, TickerFires, HearBeacon, Receive, Lose, history
      <4> QED BY <4>1, <4>2, <1>q
    <3> QED BY <3>2
  <2>2. ASSUME NEW t \in Tickets, Ended(t)'
        PROVE  /\ \A s \in Subs : Says(s, t)' => over'[t] = 0
               /\ \A m \in net' : m.kind = "advert" /\ m.ticket = t => over'[t] = 0
               /\ \A s \in Subs : t \in Listed(s)' => over'[t] <= hosts'[s][t]
    <3>1. CASE over'[t] = 0
      BY <3>1, <1>p
    <3>2. CASE Ended(t) /\ over'[t] = over[t]
      <4>1. \A s \in Subs : Says(s, t) => over[t] = 0
        BY <3>2 DEF Ages
      <4>2. \A m \in net : m.kind = "advert" /\ m.ticket = t => over[t] = 0
        BY <3>2 DEF Ages
      <4>3. \A s \in Subs : Says(s, t)' => over'[t] = 0
        BY <1>2, <3>2, <4>1, SaidBefore
      <4>4. ASSUME NEW m \in net', m.kind = "advert", m.ticket = t PROVE over'[t] = 0
        BY <1>2, <3>2, <4>1, <4>2, <4>4, WhatIsUnderWay
      <4>5. ASSUME NEW s \in Subs, t \in Listed(s)' PROVE over'[t] <= hosts'[s][t]
        <5>1. hosts'[s][t] # Absent
          BY <4>5 DEF Listed, Absent
        <5>2. ListedSince(s, t)
          BY <1>2, WhatIsListed
        <5>3. CASE hosts'[s][t] = hosts[s][t]
          BY <3>2, <5>1, <5>3 DEF Ages, Listed
        <5>4. CASE hosts'[s][t] = 0 /\ \E m \in net : m.kind = "advert" /\ m.ticket = t
          BY <3>2, <4>2, <5>4
        <5> QED BY <5>1, <5>2, <5>3, <5>4 DEF ListedSince
      <4> QED BY <4>3, <4>4, <4>5
    <3> QED BY <1>2, <2>2, <3>1, <3>2, HowItEnds
  <2>3. ASSUME NEW s \in On' \cap ticked', NEW t \in Tickets PROVE hosts'[s][t] # TTL
    <3>0. s \in Subs /\ task'[s] = "on" /\ Absent # TTL /\ 0 # TTL
      BY <1>q DEF On, Absent
    <3>1. CASE s \in On \cap ticked
      <4>1. hosts[s][t] # TTL
        BY <3>1 DEF Ages
      <4> QED BY <1>2, <3>0, <4>1, WhatIsListed DEF ListedSince
    <3>2. CASE s \notin On
      <4>1. hosts[s][t] = Absent
        BY <3>0, <3>2 DEF On, Parts, Rest
      <4> QED BY <1>2, <3>0, <4>1, WhatIsListed DEF ListedSince
    <3>3. CASE s \in On /\ s \notin ticked
      <4>1. TickerFires(s)
        <5>1. s \notin Nodes
          BY <3>0, NamesAssumption
        <5>2. \/ ticked' = ticked
              \/ \E n \in Nodes : ticked' = ticked \cup {n}
              \/ \E u \in Subs : TickerFires(u) /\ ticked' = ticked \cup {u}
          <6>1. ASSUME NEW n \in Nodes, Announce(n) PROVE ticked' = ticked \cup {n}
            BY <6>1 DEF Announce
          <6>2. ASSUME NEW u \in Subs, TickerFires(u) PROVE ticked' = ticked \cup {u}
            BY <6>2 DEF TickerFires
          <6>3. ASSUME NEW n \in Nodes,
                       \/ \E x \in Tickets : Host(n, x)
                       \/ \E u \in Subs : SwarmJoin(n, u)
                       \/ Stop(n) \/ SwarmLeave(n) \/ SwarmJoinFails(n) \/ Crash(n)
                PROVE  ticked' = ticked
            BY <6>3 DEF Host, SwarmJoin, Stop, SwarmLeave, SwarmJoinFails, Crash
          <6>4. ASSUME NEW u \in Subs, HandleCommand(u) \/ GreetNeighbour(u) \/ HearBeacon(u)
                PROVE  ticked' = ticked
            BY <6>4 DEF HandleCommand, GreetNeighbour, HearBeacon
          <6>5. ASSUME NEW m \in net, Receive(m) \/ Lose(m) PROVE ticked' = ticked
            BY <6>5 DEF Receive, Lose
          <6> QED BY <1>2, <6>1, <6>2, <6>3, <6>4, <6>5 DEF Next
        <5> QED BY <3>3, <5>1, <5>2
      <4>2. hosts'[s][t] = Kept(hosts[s][t])
        BY <3>0, <4>1, <1>q DEF TickerFires, Discover
      <4> QED BY <3>0, <4>2, <1>q DEF Kept, Age, Absent
    <3> QED BY <3>1, <3>2, <3>3
  <2> QED BY ONLY <2>1, <2>2, <2>3 DEF Ages
<1>3. CASE Advance
  <2>0. /\ net = {} /\ net' = {} /\ ticked' = {} /\ On \subseteq ticked
        /\ \A s \in On : cmds[s] = <<>>
        /\ UNCHANGED <<session, current, own, cmds, fresh, missed, task>>
        /\ hosts' = [s \in Subs |-> [t \in Tickets |-> Older(hosts[s][t])]]
        /\ \A t \in Tickets : over'[t] = IF t \in fresh \cup Hosted \/ over[t] = LongOver
                                       THEN over[t] ELSE over[t] + 1
    BY <1>3 DEF Advance, client
  <2>1. \A t \in fresh' : over'[t] = 0
    BY <2>0, <1>f
  <2>2. ASSUME NEW t \in Tickets, Ended(t)'
        PROVE  /\ \A s \in Subs : Says(s, t)' => over'[t] = 0
               /\ \A m \in net' : m.kind = "advert" /\ m.ticket = t => over'[t] = 0
               /\ \A s \in Subs : t \in Listed(s)' => over'[t] <= hosts'[s][t]
    <3>1. Ended(t) /\ over'[t] <= over[t] + 1
      BY <2>0, <2>2, <1>q DEF Ended, Hosted
    <3>2. ASSUME NEW s \in Subs, Says(s, t) PROVE FALSE
      <4>1. s \in On
        BY <3>2, NothingSaid, NamesAssumption DEF Parts, Rest, On, Says
      <4>2. KilledIn(cmds[s], t)
        BY <3>1, <3>2 DEF Told, Ended
      <4> QED BY <2>0, <4>1, <4>2, NothingSaid
    <3>3. ASSUME NEW s \in Subs, t \in Listed(s)' PROVE over'[t] <= hosts'[s][t]
      <4>1. hosts'[s][t] = Older(hosts[s][t]) /\ hosts'[s][t] # Absent
        BY <2>0, <3>3 DEF Listed, Absent
      <4>2. hosts[s][t] # Absent /\ hosts[s][t] \in Age
        BY <4>1, <1>q DEF Older, Absent
      <4>3. s \in On
        BY <4>2 DEF Parts, Rest, On
      <4>4. hosts[s][t] # TTL
        BY <2>0, <4>3 DEF Ages
      <4>5. hosts'[s][t] = hosts[s][t] + 1
        BY <4>1, <4>2, <4>4, <1>q DEF Older, Age, Absent
      <4>6. over[t] <= hosts[s][t]
        BY <3>1, <4>2 DEF Ages, Listed
      <4> QED BY <3>1, <4>2, <4>5, <4>6, <1>p, <1>q DEF Age
    <3>4. \A s \in Subs : ~Says(s, t)'
      BY <2>0, <3>2 DEF Says
    <3> QED BY <2>0, <3>3, <3>4
  <2> QED BY ONLY <2>0, <2>1, <2>2 DEF Ages
<1> QED BY <1>1, <1>2, <1>3

-----------------------------------------------------------------------------
LEMMA InitInv == Init => Parts /\ Told /\ Ages
<1> SUFFICES ASSUME Init PROVE Parts /\ Told /\ Ages
  OBVIOUS
<1>1. Threads /\ Sessions /\ Swarms /\ Rest
  BY NumbersAssumption DEF Init, Threads, Sessions, Swarms, Rest, LongOver
<1>2. Tasks
  BY NumbersAssumption DEF Init, Tasks
<1>3. Lists
  <2>1. IsFiniteSet({}) /\ Cardinality({}) <= MaxHosts
    BY FS_EmptySet, NumbersAssumption
  <2>2. hosts \in [Subs -> [Tickets -> Age]] /\ \A s \in Subs : In(hosts[s]) = {}
    BY NumbersAssumption DEF Init, In, Age, Absent
  <2> QED BY <2>1, <2>2 DEF Lists
<1>4. \A s \in Subs, t \in Tickets : ~Says(s, t)
  BY NothingSaid, NamesAssumption DEF Init, Says
<1>5. Told
  BY <1>4 DEF Told
<1>6. Ages
  <2>1. \A t \in Tickets : ~Ended(t)
    BY DEF Init, Ended
  <2> QED BY <2>1 DEF Init, Ages, On
<1> QED BY <1>1, <1>2, <1>3, <1>5, <1>6 DEF Parts

(* The inductive invariant: the parts of the state agree; a task that says *)
(* that somebody hosts who does not is told otherwise or was missed; and   *)
(* nothing speaks of what ended before this tick, nor is any list younger. *)
THEOREM InvHolds == Spec => [](Parts /\ Told /\ Ages)
<1>1. Parts /\ Told /\ Ages /\ [Next]_vars => (Parts /\ Told /\ Ages)'
  BY PartsAreKept, ToldIsKept, AgesAreKept
<1> QED BY InitInv, <1>1, PTL DEF Spec

(* Every variable keeps its type; a list never has more than MAX_HOSTS      *)
(* entries, and a swarm the network thread tells is one that still listens. *)
THEOREM TypeCorrect == Spec => []TypeOK
<1>1. Parts => TypeOK
  BY PartsAreAll DEF Typed
<1> QED BY <1>1, InvHolds, PTL

(* What a task lists is hosted, or stopped within the TTL, unless the queue *)
(* was full when the network thread wanted to take it back.                 *)
THEOREM PortalsDieWithTheirHosts == Spec => []NoDeadPortals
<1>1. Parts /\ Ages => NoDeadPortals
  <2> SUFFICES ASSUME Parts, Ages, NEW s \in On, NEW t \in Listed(s),
                      t \notin Hosted, t \notin missed
               PROVE  over[t] <= TTL + 1
    BY DEF NoDeadPortals
  <2>1. s \in Subs /\ t \in Tickets /\ over[t] \in Nat /\ TTL \in Nat
    BY NumbersAssumption DEF On, Listed, Parts, Threads, LongOver
  <2>2. CASE t \in fresh
    BY <2>1, <2>2 DEF Ages
  <2>3. CASE t \notin fresh
    <3>1. over[t] <= hosts[s][t] /\ hosts[s][t] \in Age
      BY <2>1, <2>3 DEF Ages, Ended, Parts, Lists
    <3> QED BY <2>1, <3>1 DEF Age, Absent
  <2> QED BY <2>2, <2>3
<1> QED BY <1>1, InvHolds, PTL
=============================================================================
