-------------------------- MODULE SessionHistory --------------------------
(***************************************************************************)
(* Session with one bit of history: whether two players ever came or went  *)
(* at the same time.  It says what the announcements of                    *)
(* `handle_connection` do guarantee: when players do come and go at once,  *)
(* rosters cloned earlier are announced later, and none of this holds.     *)
(***************************************************************************)
EXTENDS Session

VARIABLE raced

\* The roster has changed for c, or is about to, and not everyone was told.
Moving(c) ==
  pc[c] \in Departed \cup (Admitted \ {"serving"})

Overlap == \E c, d \in Conns : c # d /\ Moving(c) /\ Moving(d)

HistoryInit == Init /\ raced = FALSE

HistoryNext == Next /\ raced' = (raced \/ Overlap')

HistorySpec == HistoryInit /\ [][HistoryNext]_<<vars, raced>>

LiveHistorySpec == HistorySpec /\ Fairness

\* When players come and go one after the other, no accepted greeting fails,
\* and once everything is delivered every client that is still connected, and
\* the host's own scene, show exactly the players in the session: nobody who
\* left, nobody missing (`handle_connection`, `Client::join_with_mods`).
SerialSessionsAgree ==
  ~raced =>
    /\ HandshakeCompletes
    /\ Settled =>
         /\ hosting => hostView = roster
         /\ \A c \in Conns :
              client[c] = "in" /\ link[c] = "up" => view[c] = roster

=============================================================================
