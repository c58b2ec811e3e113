------------------------------ MODULE MCServer ------------------------------
(* Instances of Server for TLC: one or two sockets, one request, a         *)
(* broadcast and a reply.                                                  *)
EXTENDS Server

OneSocket == {2}
TwoSockets == {2, 3}

Speed(c) == Message(c, "CURRENT_SPEED", 2)

MCReplies == {Speed(Broadcast), Speed(2)}

OneCommand == {[message_type |-> "GET_STATUS", value |-> 0]}

OneReply == {Speed(2)}

MCCommands == {[message_type |-> t, value |-> 0] : t \in {"GET_STATUS", "KEEPALIVE"}}

(* "Close the connection when no data received in the last 15 seconds"      *)
(* (server.c:181), in the units of the runs with the real ratios and with  *)
(* the same two passes of slack as SilentClosed.                           *)
ClosedAfter15s == \A i \in Sockets : sr[i] = "ESTABLISHED" => silent[i] <= 3 + 2
=============================================================================
