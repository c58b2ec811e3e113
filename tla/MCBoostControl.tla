---------------------------- MODULE MCBoostControl ----------------------------
(* An instance of BoostControl for TLC: one input, one client.  The fan     *)
(* runs at speed 1 and boosts to 2; the client asks for a speed below and  *)
(* for one above both.                                                     *)
EXTENDS BoostControl

MCClients == {2}

Ask(t, v) == [client |-> 2, message_type |-> t, value |-> v]

MCRequests == {Ask("SET_SPEED", v) : v \in {0, 3}}
=============================================================================
