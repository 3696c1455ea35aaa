------------------------------ MODULE MCSwarm ------------------------------
(* One hosting node and one that looks for hosts.                          *)
EXTENDS Swarm
CONSTANTS host, guest, t1, hs, gs
HostAndGuest == {host, guest}
OneEach == {hs, gs}
OwnerOf == [s \in Subs |-> IF s = hs THEN host ELSE guest]
OneTicket == {t1}
AtHost == [t \in Tickets |-> host]
=============================================================================
