---------------------------- MODULE MCHostBridge ----------------------------
(* Both channels; in a session two connections of the first, where one can take the
   other's place, and one of the second. *)
EXTENDS HostBridge

MCMaxClients == [i \in Channels |-> IF i = 0 THEN 2 ELSE 1]
=============================================================================
