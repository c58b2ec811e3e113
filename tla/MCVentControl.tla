--------------------------- MODULE MCVentControl ---------------------------
(* Instances of VentControl for TLC: one client, short queues and delays.  *)
EXTENDS VentControl

MCClients == {2}

(* Everything the parser can produce. *)
AllRequests == Request
=============================================================================
