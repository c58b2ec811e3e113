--------------------------- MODULE MCReceiveBuffer ---------------------------
(* An instance of ReceiveBuffer for TLC: two commands that share a piece,  *)
(* and VAK1.                                                               *)
EXTENDS ReceiveBuffer

MCVAK1 == <<"VA", "K1">>
MCCommands == {<<"SE", "T1">>, <<"SE", "T2">>, MCVAK1}
=============================================================================
