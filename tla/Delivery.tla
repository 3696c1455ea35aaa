----------------------------- MODULE Delivery ------------------------------
(***************************************************************************)
(* What chat promises, without handlers, streams and clocks: a line is     *)
(* answered at one moment, once, and what that moment makes due is shown   *)
(* on each console once, one sender's lines in the order they were said.   *)
(* Only a console whose connection is lost may miss what is due to it.     *)
(* Chat refines this module.                                               *)
(***************************************************************************)
EXTENDS Names

CONSTANTS
  Speakers,  \* the host and the connections
  Host,      \* the host, one of them
  HostName,
  All        \* the addressee of a line that is no whisper

VARIABLES
  seats,     \* the connected players, each a [name, conn] pair
  away,      \* the consoles whose connection was lost
  answered,  \* the lines that were answered
  due,       \* what is still to be shown, each a [line, kind, on]
  shown      \* what each console shows, in its order

deliveryVars == <<seats, away, answered, due, shown>>

Present == seats \cup {[name |-> HostName, conn |-> Host]}

Item(line, kind, console) == [line |-> line, kind |-> kind, on |-> console]

\* Who is called by the first word of the addressee.
Meant(line) == {s.conn : s \in {t \in Present : t.name = FirstWord(line.to)}}

\* Everyone present, or the addressee and the sender; to the host's own console
\* a whisper of the host to itself comes once.
Routed(line) ==
  IF line.to = All
  THEN {Item(line, "line", s.conn) : s \in Present}
  ELSE {Item(line, "line", p) : p \in Meant(line)}
         \cup {Item(line, "echo", p) :
                 p \in {line.from} \ (Meant(line) \cap {Host})}

Init ==
  /\ seats = {}
  /\ away = {}
  /\ answered = {}
  /\ due = {}
  /\ shown = [p \in Speakers |-> << >>]

\* Players come and go.
Reseat ==
  /\ UNCHANGED <<away, answered, due, shown>>

\* A line is routed, or sent back because nobody is called that, or because
\* its sender talks too much.  A sender's lines are taken in order.
Answer(line) ==
  /\ \A l \in answered : l.from = line.from => l.n < line.n
  /\ answered' = answered \cup {line}
  /\ \/ /\ line.to = All \/ Meant(line) # {}
        /\ due' = due \cup Routed(line)
     \/ /\ line.to # All /\ Meant(line) = {}
        /\ due' = due \cup {Item(line, "unknown", line.from)}
     \/ /\ line.from # Host
        /\ due' = due \cup {Item(line, "slow", line.from)}
  /\ UNCHANGED <<seats, away, shown>>

Show(item) ==
  /\ \A i \in due : i.on = item.on /\ i.line.from = item.line.from
                      => item.line.n <= i.line.n
  /\ due' = due \ {item}
  /\ shown' = [shown EXCEPT ![item.on] = Append(@, [line |-> item.line, kind |-> item.kind])]
  /\ UNCHANGED <<seats, away, answered>>

LoseConsole ==
  /\ away \subseteq away' /\ Host \notin away'
  /\ UNCHANGED <<seats, answered, due, shown>>

Drop ==
  /\ due' \subseteq due
  /\ \A item \in due \ due' : item.on \in away
  /\ UNCHANGED <<seats, away, answered, shown>>

Next ==
  \/ Reseat
  \/ \E line \in answered' \ answered : Answer(line)
  \/ \E item \in due : Show(item)
  \/ LoseConsole
  \/ Drop

Spec == Init /\ [][Next]_deliveryVars

=============================================================================
