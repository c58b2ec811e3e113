------------------------------- MODULE Server -------------------------------
(***************************************************************************)
(* server_task and server_loop (firmware/src/server.c): one task opens all  *)
(* the listening sockets of the WIZnet chip, serves them in turn for as    *)
(* long as it is to run, and opens them anew when it is started again.     *)
(* It takes status messages from send_queue and puts the commands of the   *)
(* clients on receive_queue.                                               *)
(*                                                                         *)
(* The chip (its socket states and what recv, send, socket and listen      *)
(* return), the clients and ventcontrol_task are external.  Serving one    *)
(* socket does not block and touches only that socket, so it is one step;  *)
(* the chip may change state between any two.                              *)
(*                                                                         *)
(* Time is counted in units of which the heartbeat and the timeout are     *)
(* multiples (5 s).  A pass over the sockets takes far less than a unit;   *)
(* the clock moves between two passes.                                     *)
(*                                                                         *)
(* A definition named D_Xyz is D with a plausible bug, for the runs that   *)
(* check that a property would notice it; the specification uses none.     *)
(***************************************************************************)
EXTENDS Integers, Sequences, FiniteSetsExt

CONSTANTS
  Sockets,      \* BASE_PORT_ID .. BASE_PORT_ID + LISTENING_SOCKET_COUNT - 1
  KeepAlive,    \* KEEP_ALIVE_SECONDS in units
  Timeout,      \* TIMEOUT_SECONDS in units; with 0 the clock stands still (a bound)
  QueueLength,  \* MAX_QUEUE_LENGTH
  Replies,      \* messages ventcontrol_task may put on send_queue
  Commands,     \* what clients send: [message_type, value]
  Faults        \* what may go wrong, see Fault

Broadcast == -1

(* message_t; what clients send is a message of their socket. *)
Message(c, t, v) == [client |-> c, message_type |-> t, value |-> v]

None == Message(Broadcast, "NO_MESSAGE", 0)
HB == Message(Broadcast, "KEEPALIVE", 0)

(* Parsed, or not recognised, but not put on receive_queue. *)
Ignored == {"KEEPALIVE", "UNKNOWN", "NO_MESSAGE"}

ASSUME SocketsAssumption ==
  /\ Sockets # {} /\ Sockets = Min(Sockets)..Max(Sockets)
  /\ Min(Sockets) \in Int /\ Max(Sockets) \in Int
ASSUME TimesAssumption == KeepAlive \in Nat /\ Timeout \in Nat /\ QueueLength \in Nat \ {0}

(* The parser makes something of every command, if only UNKNOWN. *)
ASSUME CommandsAssumption == \A c \in Commands : c.message_type # "NO_MESSAGE"

(* reset: a connection is lost without a FIN (the chip goes to SOCK_CLOSED  *)
(* by itself); busy: send returns SOCK_BUSY; short: recv returns SOCK_BUSY  *)
(* or fewer bytes than there are; stop: the link goes and comes.           *)
Fault == {"reset", "busy", "short", "stop"}

ASSUME FaultsAssumption == Faults \subseteq Fault

VARIABLES
  pc,                     \* take (from send_queue), serve (a socket), put (on receive_queue), stopped
  turn,                   \* the socket being served
  send_message,           \* None is NO_MESSAGE
  received_message,
  socket_open,            \* per socket, socket_data_t
  send_buffer,            \* None when send_size is 0
  last_command_received,  \* how long ago, up to Timeout + 1
  last_command_send,      \* how long ago, up to KeepAlive + 1
  receive_queue, send_queue,
  sr,                     \* the chip's Sn_SR
  rx,                     \* the first command in its receive buffer, None if that is empty
  passed,                 \* all sockets have been served since the clock moved
  silent,                 \* history: how long the connection has sent nothing
  unsent,                 \* history: how long the connection has been sent nothing
  stale                   \* history: send_buffer was filled before the connection was made

taskVars == <<pc, turn, send_message, received_message, passed>>
socketVars == <<socket_open, send_buffer, last_command_received, last_command_send>>
queueVars == <<receive_queue, send_queue>>
chipVars == <<sr, rx>>
history == <<silent, unsent, stale>>
vars == <<taskVars, socketVars, queueVars, chipVars, history>>

(* socket() and one turn of server_loop: the socket listens, unless one of  *)
(* them failed.                                                            *)
Opened == {"LISTEN", "INIT", "CLOSED"}

Init ==
  /\ pc = "take"
  /\ turn = Min(Sockets)
  /\ send_message = None
  /\ received_message = None
  /\ passed = FALSE
  /\ socket_open = [i \in Sockets |-> FALSE]
  /\ send_buffer = [i \in Sockets |-> None]
  /\ last_command_received = [i \in Sockets |-> 0]
  /\ last_command_send = [i \in Sockets |-> 0]
  /\ receive_queue = <<>>
  /\ send_queue = <<>>
  /\ sr \in [Sockets -> Opened]
  /\ rx = [i \in Sockets |-> None]
  /\ silent = [i \in Sockets |-> 0]
  /\ unsent = [i \in Sockets |-> 0]
  /\ stale = [i \in Sockets |-> FALSE]

-----------------------------------------------------------------------------
(* The task *)

(* xQueueReceive(send_queue, 100 ticks) *)
Take ==
  /\ pc = "take"
  /\ \/ /\ send_queue # <<>>
        /\ send_message' = Head(send_queue)
        /\ send_queue' = Tail(send_queue)
     \/ /\ send_queue = <<>>
        /\ send_message' = None
        /\ UNCHANGED send_queue
  /\ pc' = "serve"
  /\ turn' = Min(Sockets)
  /\ UNCHANGED <<received_message, passed, socketVars, receive_queue, chipVars, history>>

(* The text to send to socket i: a message for it, else what is left from   *)
(* before, else a heartbeat if it is time for one.                         *)
ForSocket_ByIndex(i) ==
  send_message # None /\ send_message.client \in {i - Min(Sockets), Broadcast}

ForSocket(i) == send_message # None /\ send_message.client \in {i, Broadcast}

Text_NoHeartbeat(i) ==
  IF socket_open[i] /\ ForSocket(i) THEN send_message ELSE send_buffer[i]

Text(i) ==
  IF ~socket_open[i] THEN send_buffer[i]
  ELSE IF ForSocket(i) THEN send_message
  ELSE IF send_buffer[i] = None /\ last_command_send[i] > KeepAlive THEN HB
  ELSE send_buffer[i]

(* On to the next socket; after the last one the pass is over. *)
NextSocket_StaysAfterPut ==
  /\ pc' = IF turn = Max(Sockets) /\ pc = "serve" THEN "take" ELSE "serve"
  /\ turn' = IF turn = Max(Sockets) \/ pc = "put" THEN turn ELSE turn + 1
  /\ passed' = (passed \/ pc' = "take")

NextSocket ==
  /\ pc' = IF turn = Max(Sockets) THEN "take" ELSE "serve"
  /\ turn' = IF turn = Max(Sockets) THEN turn ELSE turn + 1
  /\ passed' = (passed \/ pc' = "take")

(* The turn of socket i ends with these values, and nothing received. *)
Leave(i, state, open, text) ==
  /\ sr' = [sr EXCEPT ![i] = state]
  /\ socket_open' = [socket_open EXCEPT ![i] = open]
  /\ send_buffer' = [send_buffer EXCEPT ![i] = text]
  /\ rx' = [rx EXCEPT ![i] = None]
  /\ NextSocket
  /\ UNCHANGED <<received_message, last_command_received, last_command_send, history>>

(* The first pass that sees a connection starts its clocks. *)
ReceivedAgo(i) == IF socket_open[i] THEN last_command_received[i] ELSE 0
SentAgo(i) == IF socket_open[i] THEN last_command_send[i] ELSE 0

(* SOCK_ESTABLISHED, nothing received for longer than TIMEOUT_SECONDS *)
CloseSilent(i) ==
  /\ sr[i] = "ESTABLISHED"
  /\ rx[i] = None
  /\ ReceivedAgo(i) > Timeout
  /\ Leave(i, "CLOSED", FALSE, Text(i))

(* last_command_received after a pass *)
ReceivedNow_OrSent(i) == IF rx[i] # None \/ Text(i) # None THEN 0 ELSE ReceivedAgo(i)

ReceivedNow(i) == IF rx[i] # None THEN 0 ELSE ReceivedAgo(i)

(* handle_receive_bufffer of what recv returned: only the first command of  *)
(* it is used, and put on receive_queue if it is a request.                *)
Handle(c) ==
  IF c.message_type \in Ignored
  THEN NextSocket /\ UNCHANGED received_message
  ELSE pc' = "put" /\ received_message' = c /\ UNCHANGED <<turn, passed>>

(* SOCK_ESTABLISHED: the connection is known from now on, with these clocks. *)
Seen(i, receivedAgo, sentAgo) ==
  /\ sr[i] = "ESTABLISHED"
  /\ socket_open' = [socket_open EXCEPT ![i] = TRUE]
  /\ last_command_received' = [last_command_received EXCEPT ![i] = receivedAgo]
  /\ last_command_send' = [last_command_send EXCEPT ![i] = sentAgo]
  /\ UNCHANGED <<sr, silent>>

(* send of the text there is.  SOCK_BUSY is taken for a success. *)
SentNow(i) == IF Text(i) # None THEN 0 ELSE SentAgo(i)

SendText(i) ==
  /\ send_buffer' = [send_buffer EXCEPT ![i] = None]
  /\ \/ unsent' = [unsent EXCEPT ![i] = IF Text(i) # None THEN 0 ELSE @]
     \/ "busy" \in Faults /\ UNCHANGED unsent
  /\ stale' = [stale EXCEPT ![i] = FALSE]

(* recv, if there is something to read, and send *)
Connected(i) ==
  /\ ReceivedNow(i) <= Timeout
  /\ Seen(i, ReceivedNow(i), SentNow(i))
  /\ SendText(i)
  /\ rx' = [rx EXCEPT ![i] = None]
  /\ Handle(rx[i])

(* recv returned SOCK_BUSY: nothing was read, and nothing is sent. *)
ReceiveBusy(i) ==
  /\ "short" \in Faults
  /\ rx[i] # None
  /\ Seen(i, ReceivedAgo(i), SentAgo(i))
  /\ send_buffer' = [send_buffer EXCEPT ![i] = Text(i)]
  /\ NextSocket
  /\ UNCHANGED <<rx, received_message, unsent, stale>>

(* recv returned less than there was: neither receive_size nor the clock    *)
(* takes notice, so that what was read is seen only if receive_size covers *)
(* it for another reason.  The rest, commands or a part of one, is read in *)
(* a later pass.                                                           *)
ReceiveShort(i) ==
  /\ "short" \in Faults
  /\ rx[i] # None
  /\ Seen(i, ReceivedAgo(i), SentNow(i))
  /\ SendText(i)
  /\ \E c \in Commands : rx' = [rx EXCEPT ![i] = Message(i, c.message_type, c.value)]
  /\ Handle(None) \/ Handle(rx[i])

(* recv or send returned an error: the connection is gone. *)
ReceiveError(i) ==
  "reset" \in Faults /\ sr[i] = "ESTABLISHED" /\ rx[i] # None /\ Leave(i, "CLOSED", FALSE, Text(i))

SendError(i) ==
  /\ "reset" \in Faults /\ sr[i] = "ESTABLISHED"
  /\ ReceivedNow(i) <= Timeout
  /\ Text(i) # None
  /\ Leave(i, "CLOSED", FALSE, None)

(* SOCK_CLOSE_WAIT: what the client sent before it closed is not read. *)
CloseWait_StaysOpen(i) ==
  sr[i] = "CLOSE_WAIT" /\ Leave(i, "CLOSED", socket_open[i], Text(i))

CloseWait(i) == sr[i] = "CLOSE_WAIT" /\ Leave(i, "CLOSED", FALSE, Text(i))

(* SOCK_CLOSED: socket() leaves socket_open as it is, unless it fails. *)
Reopen_OnlyIfOpen(i) ==
  sr[i] = "CLOSED" /\ socket_open[i] /\ Leave(i, "INIT", socket_open[i], Text(i))

Reopen(i) == sr[i] = "CLOSED" /\ Leave(i, "INIT", socket_open[i], Text(i))

ReopenFails(i) == sr[i] = "CLOSED" /\ Leave(i, "CLOSED", FALSE, Text(i))

(* SOCK_INIT: listen, which closes the socket when it fails. *)
Listen_KeepsText(i) == sr[i] = "INIT" /\ Leave(i, "LISTEN", socket_open[i], Text(i))

Listen(i) == sr[i] = "INIT" /\ Leave(i, "LISTEN", socket_open[i], None)

ListenFails(i) == sr[i] = "INIT" /\ Leave(i, "CLOSED", socket_open[i], None)

(* Any other state of the chip, here SOCK_LISTEN: nothing is done. *)
StillListening(i) == sr[i] = "LISTEN" /\ Leave(i, "LISTEN", socket_open[i], Text(i))

ServeSocket(i) ==
  \/ CloseSilent(i) \/ Connected(i) \/ ReceiveBusy(i) \/ ReceiveShort(i)
  \/ ReceiveError(i) \/ SendError(i) \/ CloseWait(i)
  \/ Reopen(i) \/ ReopenFails(i) \/ Listen(i) \/ ListenFails(i) \/ StillListening(i)

Serve ==
  /\ pc = "serve"
  /\ ServeSocket(turn)
  /\ UNCHANGED <<send_message, queueVars>>

(* xQueueSend(receive_queue, 10 ticks): a full queue costs the command. *)
Queued_NoRoomCheck(queue, m) == Append(queue, m)

Queued(queue, m) == IF Len(queue) < QueueLength THEN Append(queue, m) ELSE queue

Put ==
  /\ pc = "put"
  /\ receive_queue' = Queued(receive_queue, received_message)
  /\ received_message' = None
  /\ NextSocket
  /\ UNCHANGED <<send_message, socketVars, send_queue, chipVars, history>>

(* while (server_data->server_run): it is read once per pass. *)
Stop ==
  /\ "stop" \in Faults
  /\ pc = "take"
  /\ pc' = "stopped"
  /\ UNCHANGED <<turn, send_message, received_message, passed, socketVars, queueVars, chipVars, history>>

(* The semaphore is given: all sockets are opened anew, which ends the      *)
(* connections there are.                                                  *)
Restarted_KeepsOpen == UNCHANGED socket_open

Restarted == socket_open' = [i \in Sockets |-> FALSE]

Start ==
  /\ pc = "stopped"
  /\ pc' = "take"
  /\ Restarted
  /\ send_buffer' = [i \in Sockets |-> None]
  /\ sr' \in [Sockets -> Opened]
  /\ rx' = [i \in Sockets |-> None]
  /\ stale' = [i \in Sockets |-> FALSE]
  /\ UNCHANGED <<turn, send_message, received_message, passed, last_command_received,
                 last_command_send, queueVars, silent, unsent>>

Task == Take \/ Serve \/ Put

-----------------------------------------------------------------------------
(* The environment *)

UpTo(limit, n) == IF n < limit THEN n ELSE limit

Tick ==
  /\ Timeout > 0
  /\ pc = "stopped" \/ (pc = "take" /\ passed)
  /\ passed' = FALSE
  /\ last_command_received' = [i \in Sockets |-> UpTo(Timeout + 1, last_command_received[i] + 1)]
  /\ last_command_send' = [i \in Sockets |-> UpTo(KeepAlive + 1, last_command_send[i] + 1)]
  /\ silent' = [i \in Sockets |->
       IF sr[i] = "ESTABLISHED" THEN UpTo(Timeout + 3, silent[i] + 1) ELSE 0]
  /\ unsent' = [i \in Sockets |->
       IF sr[i] = "ESTABLISHED" THEN UpTo(KeepAlive + 3, unsent[i] + 1) ELSE 0]
  /\ UNCHANGED <<pc, turn, send_message, received_message, socket_open, send_buffer,
                 queueVars, chipVars, stale>>

Connect(i) ==
  /\ sr[i] = "LISTEN"
  /\ sr' = [sr EXCEPT ![i] = "ESTABLISHED"]
  /\ silent' = [silent EXCEPT ![i] = 0]
  /\ unsent' = [unsent EXCEPT ![i] = 0]
  /\ stale' = [stale EXCEPT ![i] = send_buffer[i] # None]
  /\ UNCHANGED <<taskVars, socketVars, queueVars, rx>>

(* What arrives while rx is not empty comes after its first command, and    *)
(* is read and dropped with it.                                            *)
ClientSends(i, c) ==
  /\ sr[i] = "ESTABLISHED"
  /\ rx[i] = None
  /\ rx' = [rx EXCEPT ![i] = Message(i, c.message_type, c.value)]
  /\ silent' = [silent EXCEPT ![i] = 0]
  /\ UNCHANGED <<taskVars, socketVars, queueVars, sr, unsent, stale>>

ClientCloses(i) ==
  /\ sr[i] = "ESTABLISHED"
  /\ sr' = [sr EXCEPT ![i] = "CLOSE_WAIT"]
  /\ UNCHANGED <<taskVars, socketVars, queueVars, rx, history>>

ConnectionReset(i) ==
  /\ "reset" \in Faults
  /\ sr[i] \in {"ESTABLISHED", "CLOSE_WAIT"}
  /\ sr' = [sr EXCEPT ![i] = "CLOSED"]
  /\ rx' = [rx EXCEPT ![i] = None]
  /\ UNCHANGED <<taskVars, socketVars, queueVars, history>>

VentPuts(m) ==
  /\ Len(send_queue) < QueueLength
  /\ send_queue' = Append(send_queue, m)
  /\ UNCHANGED <<taskVars, socketVars, receive_queue, chipVars, history>>

VentTakes ==
  /\ receive_queue # <<>>
  /\ receive_queue' = Tail(receive_queue)
  /\ UNCHANGED <<taskVars, socketVars, send_queue, chipVars, history>>

Environment ==
  \/ Tick
  \/ \E i \in Sockets : Connect(i) \/ ClientCloses(i) \/ ConnectionReset(i)
  \/ \E i \in Sockets, c \in Commands : ClientSends(i, c)
  \/ \E m \in Replies : VentPuts(m)
  \/ VentTakes

Next == Task \/ Stop \/ Start \/ Environment

(* The task runs again and again; socket() and listen() do not fail, and    *)
(* recv is not busy or short, for ever.                                    *)
Fairness ==
  /\ WF_vars(Task)
  /\ \A i \in Sockets :
       /\ SF_vars(Serve /\ turn = i /\ Reopen(i))
       /\ SF_vars(Serve /\ turn = i /\ Listen(i))
       /\ SF_vars(Serve /\ turn = i /\ Connected(i))

Spec == Init /\ [][Next]_vars /\ Fairness
-----------------------------------------------------------------------------
(* Properties *)

TypeOK ==
  /\ pc \in {"take", "serve", "put", "stopped"}
  /\ turn \in Sockets
  /\ send_message \in Replies \cup {None}
  /\ pc = "put" <=> received_message # None
  /\ socket_open \in [Sockets -> BOOLEAN]
  /\ send_buffer \in [Sockets -> Replies \cup {None, HB}]
  /\ last_command_received \in [Sockets -> 0..Timeout + 1]
  /\ last_command_send \in [Sockets -> 0..KeepAlive + 1]
  /\ Len(receive_queue) <= QueueLength
  /\ Len(send_queue) <= QueueLength
  /\ sr \in [Sockets -> {"CLOSED", "INIT", "LISTEN", "ESTABLISHED", "CLOSE_WAIT"}]
  /\ \A i \in Sockets :
       rx[i] \in {None} \cup {Message(i, c.message_type, c.value) : c \in Commands}
  /\ passed \in BOOLEAN

(* A connection that sends nothing is closed at the timeout, give or take   *)
(* the pass in which it is first seen and the one in which it is closed.   *)
SilentClosed ==
  pc # "stopped" => \A i \in Sockets : sr[i] = "ESTABLISHED" => silent[i] <= Timeout + 2

(* Only a connection that was silent for the whole timeout is closed for    *)
(* it, never one for the silence of the connection before it.              *)
ClosedOnlyIfSilent ==
  [][\A i \in Sockets : Serve /\ turn = i /\ CloseSilent(i) => silent[i] > Timeout]_vars

(* A connection gets something to read, if only a heartbeat, at least every *)
(* KeepAlive, give or take the two passes.                                 *)
HeartbeatInTime ==
  pc # "stopped" => \A i \in Sockets : sr[i] = "ESTABLISHED" => unsent[i] <= KeepAlive + 2

(* A connection is never sent a text made for the one before it on the      *)
(* same socket.                                                            *)
NoStaleText == \A i \in Sockets : ~stale[i]

(* However busy the other sockets are, what a client sent is read, unless   *)
(* its connection ends.                                                    *)
CommandsAreRead == \A i \in Sockets : rx[i] # None ~> rx[i] = None

(* Whatever happens to its connections, a socket gets back to accepting    *)
(* and serving them.                                                       *)
SocketsRecover == \A i \in Sockets : []<>(sr[i] \in {"LISTEN", "ESTABLISHED"})
=============================================================================
