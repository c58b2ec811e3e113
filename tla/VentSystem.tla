------------------------------ MODULE VentSystem ------------------------------
(***************************************************************************)
(* server_task and ventcontrol_task with receive_queue and send_queue      *)
(* between them, and clients that connect, ask, wait for the answer, ask   *)
(* again if it was lost, and disconnect: what a client is told of the fan,  *)
(* from its command to the text it reads.  A command may come behind       *)
(* another one before the server reads, or cut in two.                     *)
(*                                                                         *)
(* In Server and VentControl anything may be in the queues that the other   *)
(* one fills; here they are filled by the other one.  No                   *)
(* input is active, and the clock of the server stands still (Timeout is   *)
(* 0): heartbeats, timeouts and the failures of recv and send are Server's *)
(* subject.                                                                *)
(*                                                                         *)
(* A definition named D_Xyz is D with a plausible bug, for the runs that   *)
(* check that a property would notice it; the specification uses none.     *)
(***************************************************************************)
EXTENDS Integers, Sequences, FiniteSets

CONSTANTS
  Sockets,       \* one client at a time on each
  ClientSpeeds,  \* the speeds the clients ask for
  QueueLength,   \* MAX_QUEUE_LENGTH
  SwitchDelay    \* RELAIS_SWITCH_DELAY_MS in ticks

(* Those of Server and VentControl: the sockets are BASE_PORT_ID and those  *)
(* that follow it, and the parser knows SET0 to SET3.                      *)
ASSUME SocketsAssumption ==
  Sockets \subseteq Nat /\ \E first, last \in Sockets : Sockets = first..last
ASSUME ClientSpeedsAssumption == ClientSpeeds \subseteq 0..3
ASSUME LimitsAssumption == QueueLength \in Nat \ {0} /\ SwitchDelay \in Nat \ {0}

VARIABLES
  (* of Server *)
  serverPc, turn, send_message, received_message, passed,
  socket_open, send_buffer, last_command_received, last_command_send,
  sr, rx, silent, unsent, stale,
  (* of VentControl *)
  ventPc, currentVakantie, actualSpeed, requestedSpeed, boostSpeed, pending,
  delay, relays, relVakantie, openFor, told, input_queue, inputBoost,
  (* of both *)
  receive_queue, send_queue,
  (* history *)
  seen,     \* the last speed each connection was sent, Unknown if none
  get,      \* waiting: the connection has sent GET and was sent no speed since;
            \* lost: so it has, but the GET was not read as the first command of
            \* a read, or a full queue has cost it or its answer; none: otherwise
  missed    \* a full queue has cost the last announcement

Get == [message_type |-> "GET_STATUS", value |-> 0]
Set(v) == [message_type |-> "SET_SPEED", value |-> v]
Requests == {Get} \cup {Set(v) : v \in ClientSpeeds}

(* What the parser makes nothing of: a piece of a command that was cut, or  *)
(* a command it does not know.  A heartbeat makes no other difference.     *)
Other == [message_type |-> "UNKNOWN", value |-> 0]

Commands == Requests \cup {Other}

V == INSTANCE VentControl
       WITH pc <- ventPc, Clients <- Sockets,
            Requests <- {[client |-> i, message_type |-> c.message_type, value |-> c.value] :
                          i \in Sockets, c \in Requests}

S == INSTANCE Server
       WITH pc <- serverPc, KeepAlive <- 0, Timeout <- 0, Replies <- V!Status, Faults <- {}

serverVars == <<serverPc, turn, send_message, received_message, passed,
                socket_open, send_buffer, last_command_received, last_command_send,
                sr, rx, silent, unsent, stale>>
ventVars == <<ventPc, currentVakantie, actualSpeed, requestedSpeed, boostSpeed, pending,
              delay, relays, relVakantie, openFor, told, input_queue, inputBoost>>
history == <<seen, get, missed>>
vars == <<serverVars, ventVars, receive_queue, send_queue, history>>

Unknown == -1

Init ==
  /\ S!Init /\ V!Init
  /\ seen = [i \in Sockets |-> Unknown]
  /\ get = [i \in Sockets |-> "none"]
  /\ missed = FALSE

-----------------------------------------------------------------------------
GetFrom(i) == S!Message(i, "GET_STATUS", 0)

(* A full queue costs the GET of socket i, or the answer to it. *)
Lose(i) == get' = [get EXCEPT ![i] = IF @ = "waiting" THEN "lost" ELSE @]

(* What socket i is sent in its turn, if that is a speed. *)
SpeedSent(i) == sr[i] = "ESTABLISHED" /\ S!Text(i).message_type = "CURRENT_SPEED"

ServerServes ==
  /\ S!Serve
  /\ UNCHANGED <<ventVars, missed>>
  /\ IF SpeedSent(turn)
     THEN /\ seen' = [seen EXCEPT ![turn] = S!Text(turn).value]
          /\ get' = [get EXCEPT ![turn] = IF rx[turn] = GetFrom(turn) THEN "waiting" ELSE "none"]
     ELSE UNCHANGED <<seen, get>>

ServerTakes == S!Take /\ UNCHANGED <<ventVars, history>>

ServerPuts ==
  /\ S!Put
  /\ IF Len(receive_queue) = QueueLength /\ received_message.message_type = "GET_STATUS"
     THEN Lose(received_message.client) ELSE UNCHANGED get
  /\ UNCHANGED <<ventVars, seen, missed>>

(* The next status message of ventcontrol_task is an announcement, a reply. *)
Announces == ventPc = "broadcast"
Replies == ventPc = "reply" /\ Head(pending).message_type = "CURRENT_SPEED"

VentRuns ==
  /\ V!Task
  /\ missed' = IF Announces THEN Len(send_queue) = QueueLength ELSE missed
  /\ IF Replies /\ Len(send_queue) = QueueLength
     THEN Lose(Head(pending).client) ELSE UNCHANGED get
  /\ UNCHANGED <<serverVars, seen>>

VentTick == V!Tick /\ UNCHANGED <<serverVars, history>>

(* FirmwareTest: a connection is made, commands are written and the answer  *)
(* to a GET awaited, the connection is closed; a reply may be under way to *)
(* the socket then, and find the next connection on it.  A client that     *)
(* gets no answer may ask again.                                           *)
ClientConnects(i) ==
  /\ S!Connect(i)
  /\ seen' = [seen EXCEPT ![i] = Unknown]
  /\ UNCHANGED <<ventVars, get, missed>>

(* The GET is the first thing the server will read; or it comes behind      *)
(* something that is unread, and is dropped with the rest of that read;    *)
(* or the server reads it in two pieces, the first of them now.            *)
GetComesFirst(i) == S!ClientSends(i, Get) /\ get' = [get EXCEPT ![i] = "waiting"]

GetComesBehind(i) ==
  /\ sr[i] = "ESTABLISHED" /\ rx[i] # S!None
  /\ get' = [get EXCEPT ![i] = "lost"]
  /\ UNCHANGED <<serverVars, receive_queue, send_queue>>

GetComesCut(i) == S!ClientSends(i, Other) /\ get' = [get EXCEPT ![i] = "lost"]

ClientGets(i) ==
  /\ get[i] # "waiting"
  /\ GetComesFirst(i) \/ GetComesBehind(i) \/ GetComesCut(i)
  /\ UNCHANGED <<ventVars, seen, missed>>

ClientSets(i) ==
  /\ get[i] # "waiting"
  /\ \E v \in ClientSpeeds : S!ClientSends(i, Set(v))
  /\ UNCHANGED <<ventVars, history>>

(* A heartbeat, the second piece of a command, or one of a SET. *)
ClientSendsOther(i) == S!ClientSends(i, Other) /\ UNCHANGED <<ventVars, history>>

ClientCloses(i) ==
  /\ S!ClientCloses(i)
  /\ get' = [get EXCEPT ![i] = "none"]
  /\ UNCHANGED <<ventVars, seen, missed>>

Next ==
  \/ ServerServes \/ ServerTakes \/ ServerPuts \/ VentRuns \/ VentTick
  \/ \E i \in Sockets :
       ClientConnects(i) \/ ClientGets(i) \/ ClientSets(i) \/ ClientSendsOther(i)
       \/ ClientCloses(i)

(* Both tasks are scheduled and the clock keeps ticking. *)
Fairness ==
  /\ WF_vars(ServerServes \/ ServerTakes \/ ServerPuts)
  /\ WF_vars(VentRuns) /\ WF_vars(VentTick)

Spec == Init /\ [][Next]_vars /\ Fairness
-----------------------------------------------------------------------------
(* Properties *)

(* Nothing is under way between the two tasks. *)
Quiet ==
  /\ serverPc = "take" /\ ventPc = "receive"
  /\ receive_queue = <<>> /\ send_queue = <<>>

(* Each task keeps what the other one's model takes for granted of it: the  *)
(* requests and status messages are those of VentControl and Server, and a  *)
(* full queue takes none.  So what is said of either task, whatever the    *)
(* other one does, holds in the system.                                    *)
RunsServer == S!Init /\ [][S!Next]_(S!vars)
RunsVentControl == V!Init /\ [][V!Next]_(V!vars)

(* When nothing is under way, every client that was told a speed was last   *)
(* told the actual one, also on a socket that was used before and for      *)
(* which replies were still in send_queue; unless send_queue was full for  *)
(* the announcement.                                                       *)
ClientsAgree ==
  Quiet /\ ~missed =>
    \A i \in Sockets : sr[i] = "ESTABLISHED" => seen[i] \in {actualSpeed, Unknown}

(* A GET is lost in no other way than the three that get = "lost" stands     *)
(* for: behind something unread, cut in two, or by a full queue.  As long  *)
(* as the client waits for any other, the GET or its answer is in one of   *)
(* the places between the two tasks, and if the server has taken the       *)
(* answer from send_queue, the socket still has its turn.                  *)
ToServe(i) == (serverPc = "serve" /\ turn <= i) \/ (serverPc = "put" /\ turn < i)

IsAnswer(m, i) == m.client = i /\ m.message_type = "CURRENT_SPEED"

GetUnderWay(i) ==
  \/ rx[i] = GetFrom(i) \/ received_message = GetFrom(i)
  \/ \E k \in 1..Len(receive_queue) : receive_queue[k] = GetFrom(i)
  \/ ventPc = "reply" /\ IsAnswer(Head(pending), i)
  \/ \E k \in 1..Len(send_queue) : IsAnswer(send_queue[k], i)
  \/ IsAnswer(send_message, i) /\ ToServe(i)

GetsUnderWay == \A i \in Sockets : get[i] = "waiting" => GetUnderWay(i)

(* A GET that the server reads first, and whole, is answered with a speed,  *)
(* unless the client closes the connection or a full queue has cost the    *)
(* GET or the answer; so is one that is sent again after it was lost.  The *)
(* connection is not reset and send finds the chip ready: else the answer  *)
(* may be lost too.                                                        *)
GetIsAnswered == \A i \in Sockets : get[i] = "waiting" ~> get[i] # "waiting"
=============================================================================
