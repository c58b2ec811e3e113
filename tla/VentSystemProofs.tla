-------------------------- MODULE VentSystemProofs --------------------------
(***************************************************************************)
(* Proofs about VentSystem: that each task runs as its own model says, so   *)
(* that what is proved of it holds in the system; that the clients agree   *)
(* with the fan when nothing is under way; that a GET is lost in no other  *)
(* way than VentSystem names.                                              *)
(*                                                                         *)
(* The proofs about the two tasks are taken with the same substitutions as  *)
(* VentSystem takes their models; S!D and SP!D are then the same, as are   *)
(* V!D and VP!D, which the first part shows for the definitions used.      *)
(***************************************************************************)
EXTENDS VentSystem, SequenceTheorems, TLAPS

SP == INSTANCE ServerProofs
        WITH pc <- serverPc, KeepAlive <- 0, Timeout <- 0, Replies <- V!Status, Faults <- {}

VP == INSTANCE VentControlProofs
        WITH pc <- ventPc, Clients <- Sockets,
             Requests <- {[client |-> i, message_type |-> c.message_type, value |-> c.value] :
                           i \in Sockets, c \in Requests}

-----------------------------------------------------------------------------
(* S and SP, V and VP *)

LEMMA SameNames ==
  /\ S!None = SP!None /\ S!HB = SP!HB /\ S!Ignored = SP!Ignored
  /\ S!Min(Sockets) = SP!Min(Sockets) /\ S!Max(Sockets) = SP!Max(Sockets)
  /\ \A c, t, v : S!Message(c, t, v) = SP!Message(c, t, v)
BY DEF S!None, SP!None, S!HB, SP!HB, S!Message, SP!Message, S!Broadcast, SP!Broadcast,
       S!Ignored, SP!Ignored, S!Min, SP!Min, S!Max, SP!Max

LEMMA SameTake == S!Take => SP!Take
BY SameNames, Zenon DEF S!Take, SP!Take, S!socketVars, SP!socketVars, S!chipVars, SP!chipVars,
                 S!history, SP!history

LEMMA SameNextSocket == S!NextSocket <=> SP!NextSocket
BY SameNames, Zenon DEF S!NextSocket, SP!NextSocket

LEMMA SameText == \A i : S!Text(i) = SP!Text(i)
<1>1. \A i : S!ForSocket(i) <=> SP!ForSocket(i)
  BY SameNames DEF S!ForSocket, SP!ForSocket, S!Broadcast, SP!Broadcast
<1>2. QED
  BY <1>1, SameNames DEF S!Text, SP!Text

LEMMA SameLeave == \A i, s, o, t : S!Leave(i, s, o, t) <=> SP!Leave(i, s, o, t)
BY SameNames, SameNextSocket, Zenon DEF S!Leave, SP!Leave, S!history, SP!history

LEMMA SamePut == S!Put => SP!Put
<1>1. \A q, m : S!Queued(q, m) = SP!Queued(q, m)
  BY DEF S!Queued, SP!Queued
<1>2. QED
  BY <1>1, SameNames, SameNextSocket, Zenon
  DEF S!Put, SP!Put, S!socketVars, SP!socketVars, S!chipVars, SP!chipVars, S!history, SP!history

LEMMA SameServe == S!Serve => SP!Serve
<1> DEFINE i == turn
<1>1. S!ReceivedAgo(i) = SP!ReceivedAgo(i) /\ S!SentAgo(i) = SP!SentAgo(i)
  BY DEF S!ReceivedAgo, SP!ReceivedAgo, S!SentAgo, SP!SentAgo
<1>2. S!ReceivedNow(i) = SP!ReceivedNow(i)
  BY <1>1, SameNames DEF S!ReceivedNow, SP!ReceivedNow
<1>3. S!Handle(rx[i]) <=> SP!Handle(rx[i])
  BY SameNames, SameNextSocket, Zenon DEF S!Handle, SP!Handle
<1>4. S!Connected(i) => SP!Connected(i)
  <2>1. S!SentNow(i) = SP!SentNow(i)
    BY <1>1, SameText, SameNames DEF S!SentNow, SP!SentNow
  <2>2. \A r, t : S!Seen(i, r, t) => SP!Seen(i, r, t)
    BY Zenon DEF S!Seen, SP!Seen
  <2>3. S!SendText(i) => SP!SendText(i)
    BY SameText, SameNames, Zenon DEF S!SendText, SP!SendText
  <2>4. QED
    BY <1>2, <1>3, <2>1, <2>2, <2>3, SameNames, Zenon DEF S!Connected, SP!Connected
<1>5. S!CloseSilent(i) => SP!CloseSilent(i)
  BY <1>1, SameText, SameNames, SameLeave, Zenon DEF S!CloseSilent, SP!CloseSilent
<1>6. ~S!ReceiveError(i) /\ ~S!SendError(i) /\ ~S!ReceiveBusy(i) /\ ~S!ReceiveShort(i)
  BY DEF S!ReceiveError, S!SendError, S!ReceiveBusy, S!ReceiveShort
<1>7. /\ S!CloseWait(i) => SP!CloseWait(i)
      /\ S!Reopen(i) => SP!Reopen(i)
      /\ S!ReopenFails(i) => SP!ReopenFails(i)
      /\ S!Listen(i) => SP!Listen(i)
      /\ S!ListenFails(i) => SP!ListenFails(i)
      /\ S!StillListening(i) => SP!StillListening(i)
  BY SameText, SameNames, SameLeave, Zenon
  DEF S!CloseWait, SP!CloseWait, S!Reopen, SP!Reopen, S!ReopenFails, SP!ReopenFails,
      S!Listen, SP!Listen, S!ListenFails, SP!ListenFails, S!StillListening, SP!StillListening
<1> HIDE DEF i
<1>8. QED
  BY <1>4, <1>5, <1>6, <1>7, Zenon
  DEF S!Serve, SP!Serve, S!ServeSocket, SP!ServeSocket, S!queueVars, SP!queueVars, i

LEMMA SameClient ==
  /\ \A i \in Sockets : S!Connect(i) => SP!Connect(i)
  /\ \A i \in Sockets : S!ClientCloses(i) => SP!ClientCloses(i)
  /\ \A i \in Sockets, c \in Commands : S!ClientSends(i, c) => SP!ClientSends(i, c)
BY SameNames, Zenon
DEF S!Connect, SP!Connect, S!ClientCloses, SP!ClientCloses, S!ClientSends, SP!ClientSends,
    S!taskVars, SP!taskVars, S!socketVars, SP!socketVars, S!queueVars, SP!queueVars,
    S!history, SP!history

LEMMA SameMessages ==
  /\ \A c : V!SpeedMessage(c) = VP!SpeedMessage(c)
  /\ \A c, v : V!VakantieMessage(c, v) = VP!VakantieMessage(c, v)
  /\ V!wantedSpeed = VP!wantedSpeed
  /\ V!Status = VP!Status
BY DEF V!SpeedMessage, VP!SpeedMessage, V!VakantieMessage, VP!VakantieMessage,
       V!wantedSpeed, VP!wantedSpeed, V!Status, VP!Status, V!Broadcast, VP!Broadcast,
       V!Speeds, VP!Speeds

LEMMA SameRequests ==
  /\ V!HandleRequest => VP!HandleRequest
  /\ V!NoRequest => VP!NoRequest
<1>1. \A m : /\ V!SetSpeed(m) <=> VP!SetSpeed(m)
             /\ V!SetVakantie(m) <=> VP!SetVakantie(m)
             /\ V!GetStatus(m) <=> VP!GetStatus(m)
  BY SameMessages, Zenon DEF V!SetSpeed, VP!SetSpeed, V!SetVakantie, VP!SetVakantie,
                             V!GetStatus, VP!GetStatus
<1>2. V!HandleRequest => VP!HandleRequest
  BY <1>1, Zenon DEF V!HandleRequest, VP!HandleRequest
<1>3. V!NoRequest => VP!NoRequest
  BY Zenon DEF V!NoRequest, VP!NoRequest, V!relayVars, VP!relayVars, V!queueVars, VP!queueVars
<1>4. QED
  BY <1>2, <1>3

LEMMA SameSends ==
  /\ V!SendStatus => VP!SendStatus
  /\ V!DropStatus => VP!DropStatus
<1>1. V!SendDone => VP!SendDone
  BY Zenon DEF V!SendDone, VP!SendDone, V!AfterSend, VP!AfterSend, V!relayVars, VP!relayVars
<1>2. V!Lost = VP!Lost
  BY DEF V!Lost, VP!Lost
<1>3. QED
  BY <1>1, <1>2, Zenon DEF V!SendStatus, VP!SendStatus, V!DropStatus, VP!DropStatus

LEMMA SameInputs ==
  /\ V!HandleInput => VP!HandleInput
  /\ V!NoInput => VP!NoInput
<1>1. \A b : V!BoostOf(b) = VP!BoostOf(b)
  BY DEF V!BoostOf, VP!BoostOf, V!BOOST_SPEED, VP!BOOST_SPEED, V!NORMAL_SPEED, VP!NORMAL_SPEED
<1>2. QED
  BY <1>1, Zenon
  DEF V!HandleInput, VP!HandleInput, V!NoInput, VP!NoInput,
      V!relayVars, VP!relayVars, V!queueVars, VP!queueVars

LEMMA SameSwitch ==
  /\ V!KeepSpeed => VP!KeepSpeed
  /\ V!SelectLow => VP!SelectLow
  /\ V!SelectHigh => VP!SelectHigh
  /\ V!CloseRelay => VP!CloseRelay
<1>1. V!KeepSpeed => VP!KeepSpeed
  BY SameMessages, Zenon
  DEF V!KeepSpeed, VP!KeepSpeed, V!relayVars, VP!relayVars, V!queueVars, VP!queueVars
<1>2. V!Announce <=> VP!Announce
  BY SameMessages, Zenon DEF V!Announce, VP!Announce, V!Broadcast, VP!Broadcast
<1>3. V!Open(V!RelaysToOpen(V!wantedSpeed)) <=> VP!Open(VP!RelaysToOpen(VP!wantedSpeed))
  <2>1. \A n : V!RelaysToOpen(n) = VP!RelaysToOpen(n)
    BY Zenon DEF V!RelaysToOpen, VP!RelaysToOpen
  <2>2. \A r : V!Open(r) <=> VP!Open(r)
    BY Zenon DEF V!Open, VP!Open
  <2>3. QED
    BY <2>1, <2>2, SameMessages, Zenon
<1>4. V!SelectLow => VP!SelectLow
  BY <1>2, <1>3, SameMessages, Zenon
  DEF V!SelectLow, VP!SelectLow, V!queueVars, VP!queueVars
<1>5. V!SelectHigh => VP!SelectHigh
  BY <1>3, SameMessages, Zenon
  DEF V!SelectHigh, VP!SelectHigh, V!queueVars, VP!queueVars, V!SwitchTicks, VP!SwitchTicks
<1>6. V!CloseRelay => VP!CloseRelay
  <2>1. \A n : V!Close(n) <=> VP!Close(n)
    BY Zenon DEF V!Close, VP!Close
  <2>2. QED
    BY <1>2, <2>1, SameMessages, Zenon
    DEF V!CloseRelay, VP!CloseRelay, V!queueVars, VP!queueVars
<1>7. QED
  BY <1>1, <1>4, <1>5, <1>6

LEMMA SameTask == V!Task => VP!Task
BY SameRequests, SameSends, SameInputs, SameSwitch, Zenon DEF V!Task, VP!Task

LEMMA SameTick == V!Tick => VP!Tick
BY Zenon DEF V!Tick, VP!Tick, V!taskVars, VP!taskVars, V!queueVars, VP!queueVars

-----------------------------------------------------------------------------
(* The assumptions of Server and VentControl hold of what they are given. *)

LEMMA SocketRange ==
  /\ Sockets # {} /\ Sockets = SP!Min(Sockets)..SP!Max(Sockets)
  /\ SP!Min(Sockets) \in Sockets /\ SP!Max(Sockets) \in Sockets
  /\ SP!Min(Sockets) \in Int /\ SP!Max(Sockets) \in Int
  /\ \A i \in Sockets : SP!Min(Sockets) <= i /\ i <= SP!Max(Sockets)
<1>1. PICK first, last \in Sockets : Sockets = first..last
  BY SocketsAssumption
<1>2. Sockets \subseteq Nat /\ first \in Nat /\ last \in Nat
  BY SocketsAssumption
<1>3. \A i \in Sockets : first <= i /\ i <= last
  BY <1>1, <1>2
<1>4. SP!Min(Sockets) \in Sockets /\ \A i \in Sockets : SP!Min(Sockets) <= i
  BY <1>1, <1>3 DEF SP!Min
<1>5. SP!Max(Sockets) \in Sockets /\ \A i \in Sockets : SP!Max(Sockets) >= i
  BY <1>1, <1>2, <1>3 DEF SP!Max
<1>6. SP!Min(Sockets) = first /\ SP!Max(Sockets) = last
  BY <1>1, <1>2, <1>3, <1>4, <1>5
<1>7. \A i \in Sockets : SP!Min(Sockets) <= i /\ i <= SP!Max(Sockets)
  BY <1>3, <1>6
<1>8. QED
  BY <1>1, <1>2, <1>4, <1>5, <1>6, <1>7

LEMMA ServerConstants ==
  /\ 0 \in Nat /\ QueueLength \in Nat \ {0}
  /\ \A c \in Commands : c.message_type # "NO_MESSAGE"
  /\ {} \subseteq SP!Fault
BY LimitsAssumption DEF Commands, Requests, Other, Get, Set

LEMMA VentConstants ==
  /\ Sockets \subseteq Nat
  /\ {[client |-> i, message_type |-> c.message_type, value |-> c.value] :
        i \in Sockets, c \in Requests} \subseteq VP!Request
  /\ QueueLength \in Nat \ {0} /\ SwitchDelay \in Nat \ {0}
<1>1. ASSUME NEW i \in Sockets, NEW c \in Requests
      PROVE  [client |-> i, message_type |-> c.message_type, value |-> c.value] \in VP!Request
  BY ClientSpeedsAssumption DEF Requests, Get, Set, VP!Request, VP!Speeds
<1>2. {[client |-> i, message_type |-> c.message_type, value |-> c.value] :
         i \in Sockets, c \in Requests} \subseteq VP!Request
  <2> SUFFICES ASSUME NEW r \in {[client |-> i, message_type |-> c.message_type, value |-> c.value] :
                                   i \in Sockets, c \in Requests}
               PROVE  r \in VP!Request
    OBVIOUS
  <2>1. PICK i \in Sockets, c \in Requests :
          r = [client |-> i, message_type |-> c.message_type, value |-> c.value]
    OBVIOUS
  <2>2. QED
    BY <1>1, <2>1
<1>3. QED
  BY <1>2, SocketsAssumption, LimitsAssumption

-----------------------------------------------------------------------------
(* Each task runs as its own model says *)

(* What the parser made nothing of is not passed on. *)
Parsed == received_message.message_type # "UNKNOWN"

(* With what the proofs about Server and VentControl say of the tasks. *)
TasksInv == SP!CleanInv /\ VP!StatusInv /\ Parsed

LEMMA InitTasks == Init => TasksInv
<1> SUFFICES ASSUME Init PROVE TasksInv
  OBVIOUS
<1>1. SP!Init
  BY SameNames, Zenon DEF Init, S!Init, SP!Init, S!Opened, SP!Opened
<1>2. VP!Init
  BY DEF Init, V!Init, VP!Init
<1>3. SP!CleanInv
  BY <1>1, SocketRange, ServerConstants, SP!InitClean
<1>4. VP!StatusInv
  BY <1>2, VentConstants, VP!InitStatus
<1>5. Parsed
  BY DEF Init, S!Init, Parsed, S!None, S!Message
<1>6. QED
  BY <1>3, <1>4, <1>5 DEF TasksInv

(* A step of ventcontrol_task takes a request, puts a status message or     *)
(* touches neither queue.                                                  *)
LEMMA VentTouches ==
  ASSUME TasksInv, V!Task
  PROVE  \/ /\ receive_queue # <<>> /\ receive_queue' = Tail(receive_queue)
            /\ send_queue' = send_queue
         \/ /\ receive_queue' = receive_queue
            /\ Head(pending) \in V!Status
            /\ Len(send_queue) < QueueLength
            /\ send_queue' = Append(send_queue, Head(pending))
         \/ receive_queue' = receive_queue /\ send_queue' = send_queue
<1>1. CASE V!HandleRequest
  BY <1>1 DEF V!HandleRequest
<1>2. CASE V!SendStatus
  <2>1. VP!SendDone /\ VP!TypeOK /\ VP!SendsSomething
    <3>1. VP!SendStatus
      BY <1>2, SameSends
    <3>2. QED
      BY <3>1 DEF VP!SendStatus, TasksInv, VP!StatusInv, VP!Inv
  <2>2. Head(pending) \in VP!Status
    BY <2>1, VentConstants, VP!StatusSent
  <2>3. QED
    BY <1>2, <2>2, SameMessages DEF V!SendStatus, V!SendDone
<1>3. CASE V!DropStatus
  BY <1>3 DEF V!DropStatus, V!SendDone
<1>4. CASE V!NoRequest \/ V!NoInput \/ V!KeepSpeed
  BY <1>4 DEF V!NoRequest, V!NoInput, V!KeepSpeed, V!queueVars
<1>5. CASE V!HandleInput
  BY <1>5 DEF V!HandleInput
<1>6. CASE V!SelectLow \/ V!SelectHigh \/ V!CloseRelay
  BY <1>6 DEF V!SelectLow, V!SelectHigh, V!CloseRelay, V!queueVars
<1>7. QED
  BY <1>1, <1>2, <1>3, <1>4, <1>5, <1>6 DEF V!Task

(* A step of the system is one of the server or of its environment, or      *)
(* changes nothing of them.                                                *)
LEMMA ServerSteps ==
  ASSUME TasksInv, [Next]_vars
  PROVE  [S!Next]_(S!vars) /\ [SP!Next]_(SP!vars)
<1> USE DEF S!vars, S!taskVars, S!socketVars, S!queueVars, S!chipVars, S!history,
            SP!vars, SP!taskVars, SP!socketVars, SP!queueVars, SP!chipVars, SP!history
<1>1. CASE ServerServes \/ ServerTakes \/ ServerPuts
  <2>1. S!Task
    BY <1>1 DEF ServerServes, ServerTakes, ServerPuts, S!Task
  <2>2. SP!Task
    BY <2>1, SameServe, SameTake, SamePut DEF S!Task, SP!Task
  <2>3. QED
    BY <2>1, <2>2 DEF S!Next, SP!Next
<1>2. CASE VentRuns
  <2>1. V!Task /\ UNCHANGED serverVars
    BY <1>2 DEF VentRuns
  <2>2. CASE /\ receive_queue # <<>> /\ receive_queue' = Tail(receive_queue)
             /\ send_queue' = send_queue
    <3>1. S!VentTakes /\ SP!VentTakes
      BY <2>1, <2>2 DEF serverVars, S!VentTakes, SP!VentTakes
    <3>2. QED
      BY <3>1 DEF S!Next, SP!Next, S!Environment, SP!Environment
  <2>3. CASE /\ receive_queue' = receive_queue
             /\ Head(pending) \in V!Status
             /\ Len(send_queue) < QueueLength
             /\ send_queue' = Append(send_queue, Head(pending))
    <3>1. S!VentPuts(Head(pending)) /\ SP!VentPuts(Head(pending))
      BY <2>1, <2>3 DEF serverVars, S!VentPuts, SP!VentPuts
    <3>2. QED
      BY <2>3, <3>1 DEF S!Next, SP!Next, S!Environment, SP!Environment
  <2>4. CASE receive_queue' = receive_queue /\ send_queue' = send_queue
    BY <2>1, <2>4 DEF serverVars
  <2>5. QED
    BY <2>1, <2>2, <2>3, <2>4, VentTouches
<1>3. CASE VentTick
  BY <1>3 DEF VentTick, serverVars, V!Tick, V!queueVars
<1>4. CASE \E i \in Sockets : ClientConnects(i) \/ ClientCloses(i)
  <2>1. PICK i \in Sockets : S!Connect(i) \/ S!ClientCloses(i)
    BY <1>4 DEF ClientConnects, ClientCloses
  <2>2. SP!Connect(i) \/ SP!ClientCloses(i)
    BY <2>1, SameClient
  <2>3. QED
    BY <2>1, <2>2 DEF S!Next, SP!Next, S!Environment, SP!Environment
<1>5. CASE \E i \in Sockets, c \in Commands : S!ClientSends(i, c)
  <2>1. PICK i \in Sockets, c \in Commands : S!ClientSends(i, c)
    BY <1>5
  <2>2. SP!ClientSends(i, c)
    BY <2>1, SameClient
  <2>3. QED
    BY <2>1, <2>2 DEF S!Next, SP!Next, S!Environment, SP!Environment
<1>6. CASE UNCHANGED <<serverVars, receive_queue, send_queue>>
  BY <1>6 DEF serverVars
<1>7. ASSUME NEW i \in Sockets, ClientGets(i) \/ ClientSets(i) \/ ClientSendsOther(i)
      PROVE  \/ \E c \in Commands : S!ClientSends(i, c)
             \/ UNCHANGED <<serverVars, receive_queue, send_queue>>
  BY <1>7, Zenon
  DEF ClientGets, GetComesFirst, GetComesBehind, GetComesCut, ClientSets, ClientSendsOther,
      Commands, Requests
<1>8. QED
  BY <1>1, <1>2, <1>3, <1>4, <1>5, <1>6, <1>7 DEF Next, vars

(* What the server puts on receive_queue is a command of a client. *)
LEMMA PutsRequest ==
  ASSUME TasksInv, serverPc = "put"
  PROVE  received_message \in {[client |-> i, message_type |-> c.message_type, value |-> c.value] :
                                 i \in Sockets, c \in Requests}
<1>1. received_message \in SP!Received /\ received_message # SP!None
  BY DEF TasksInv, SP!CleanInv, SP!Types, SP!MessageTypes
<1>2. PICK i \in Sockets, c \in Commands :
        received_message = SP!Message(i, c.message_type, c.value)
  BY <1>1 DEF SP!Received
<1>3. c \in Requests
  BY <1>2 DEF TasksInv, Parsed, SP!Message, Commands, Other
<1>4. QED
  BY <1>2, <1>3 DEF SP!Message

(* A step of the system is one of ventcontrol_task or of its environment, or *)
(* changes nothing of them.                                                *)
LEMMA VentSteps ==
  ASSUME TasksInv, [Next]_vars
  PROVE  [V!Next]_(V!vars) /\ [VP!Next]_(VP!vars)
<1> USE DEF V!vars, V!taskVars, V!relayVars, V!queueVars,
            VP!vars, VP!taskVars, VP!relayVars, VP!queueVars
<1>1. CASE VentRuns
  <2>1. V!Task /\ VP!Task
    BY <1>1, SameTask DEF VentRuns
  <2>2. QED
    BY <2>1 DEF V!Next, VP!Next
<1>2. CASE VentTick
  <2>1. V!Tick /\ VP!Tick
    BY <1>2, SameTick DEF VentTick
  <2>2. QED
    BY <2>1 DEF V!Next, VP!Next
<1>3. CASE ServerTakes
  <2>1. /\ UNCHANGED <<ventVars, receive_queue>>
        /\ \/ send_queue # <<>> /\ send_queue' = Tail(send_queue)
           \/ send_queue' = send_queue
    BY <1>3 DEF ServerTakes, S!Take
  <2>2. CASE send_queue # <<>> /\ send_queue' = Tail(send_queue)
    <3>1. V!ServerTake /\ VP!ServerTake
      BY <2>1, <2>2 DEF ventVars, V!ServerTake, VP!ServerTake
    <3>2. QED
      BY <3>1 DEF V!Next, VP!Next, V!Environment, VP!Environment
  <2>3. CASE send_queue' = send_queue
    BY <2>1, <2>3 DEF ventVars
  <2>4. QED
    BY <2>1, <2>2, <2>3
<1>4. CASE ServerPuts
  <2>1. /\ serverPc = "put" /\ UNCHANGED <<ventVars, send_queue>>
        /\ receive_queue' = IF Len(receive_queue) < QueueLength
                            THEN Append(receive_queue, received_message) ELSE receive_queue
    BY <1>4 DEF ServerPuts, S!Put, S!Queued
  <2>2. CASE Len(receive_queue) < QueueLength
    <3>1. V!ServerPut(received_message) /\ VP!ServerPut(received_message)
      BY <2>1, <2>2 DEF ventVars, V!ServerPut, VP!ServerPut
    <3>2. V!Environment /\ VP!Environment
      BY <2>1, <3>1, PutsRequest DEF V!Environment, VP!Environment
    <3>3. QED
      BY <3>2 DEF V!Next, VP!Next
  <2>3. CASE ~(Len(receive_queue) < QueueLength)
    BY <2>1, <2>3 DEF ventVars
  <2>4. QED
    BY <2>2, <2>3
<1>5. CASE ServerServes
  BY <1>5 DEF ServerServes, S!Serve, S!queueVars, ventVars
<1>6. CASE \E i \in Sockets :
             \/ ClientConnects(i) \/ ClientGets(i) \/ ClientSets(i) \/ ClientSendsOther(i)
             \/ ClientCloses(i)
  BY <1>6 DEF ClientConnects, ClientGets, GetComesFirst, GetComesBehind, GetComesCut, ClientSets,
              ClientSendsOther, ClientCloses, S!Connect, S!ClientSends, S!ClientCloses,
              S!queueVars, ventVars
<1>7. CASE UNCHANGED vars
  BY <1>7 DEF vars, ventVars
<1>8. QED
  BY <1>1, <1>2, <1>3, <1>4, <1>5, <1>6, <1>7 DEF Next

LEMMA StepParsed ==
  ASSUME Parsed, [S!Next]_(S!vars)
  PROVE  Parsed'
<1> USE DEF S!taskVars, Parsed
<1>1. CASE S!Serve
  <2>1. CASE S!Connected(turn)
    <3>1. S!Handle(rx[turn])
      BY <2>1 DEF S!Connected
    <3>2. QED
      BY <3>1 DEF S!Handle, S!Ignored
  <2>2. CASE ~S!Connected(turn)
    BY <1>1, <2>2
    DEF S!Serve, S!ServeSocket, S!ReceiveBusy, S!ReceiveShort, S!CloseSilent, S!ReceiveError,
        S!SendError, S!CloseWait, S!Reopen, S!ReopenFails, S!Listen, S!ListenFails,
        S!StillListening, S!Leave
  <2>3. QED
    BY <2>1, <2>2
<1>2. CASE S!Take \/ S!Put \/ S!Stop \/ S!Start
  BY <1>2 DEF S!Take, S!Put, S!Stop, S!Start, S!None, S!Message
<1>3. CASE S!Environment
  BY <1>3 DEF S!Environment, S!Tick, S!Connect, S!ClientSends, S!ClientCloses,
              S!ConnectionReset, S!VentPuts, S!VentTakes
<1>4. CASE UNCHANGED S!vars
  BY <1>4 DEF S!vars
<1>5. QED
  BY <1>1, <1>2, <1>3, <1>4 DEF S!Next, S!Task

LEMMA StepTasks == TasksInv /\ [Next]_vars => TasksInv'
<1> SUFFICES ASSUME TasksInv, [Next]_vars PROVE TasksInv'
  OBVIOUS
<1>1. [SP!Next]_(SP!vars) /\ [VP!Next]_(VP!vars) /\ Parsed'
  BY ServerSteps, VentSteps, StepParsed DEF TasksInv
<1>2. SP!CleanInv /\ VP!StatusInv /\ VP!Inv
  BY DEF TasksInv, VP!StatusInv
<1>3. SP!CleanInv'
  BY <1>1, <1>2, SocketRange, ServerConstants, SP!StepClean
<1>4. VP!Inv'
  BY <1>1, <1>2, VentConstants, VP!StepInv
<1>5. VP!PendingFresh' /\ VP!ToldFresh'
  BY <1>1, <1>2, VentConstants, VP!StatusStep
<1>6. QED
  BY <1>1, <1>3, <1>4, <1>5 DEF TasksInv, VP!StatusInv

-----------------------------------------------------------------------------
(* What the clients are told *)

(* The announcement of the actual speed, and a message with another one. *)
Current == [client |-> -1, message_type |-> "CURRENT_SPEED", value |-> actualSpeed]
Stale(m) == m.message_type = "CURRENT_SPEED" /\ m.value # actualSpeed

Covered == \E k \in 1..Len(send_queue) : send_queue[k] = Current

(* The last change of the speed has been announced, in a queue with room.   *)
Settled == ~missed /\ ventPc # "broadcast"

(* A stale message is overtaken: in the queue by an announcement after it,  *)
(* one that the server has taken by an announcement in the queue, and a    *)
(* client that was told a stale speed has an announcement to come.         *)
QueueAgrees ==
  \A j \in 1..Len(send_queue) : Stale(send_queue[j]) =>
    \E k \in 1..Len(send_queue) : k > j /\ send_queue[k] = Current

TakenAgrees == serverPc \in {"serve", "put"} /\ Stale(send_message) => Covered

SeenAgrees ==
  \A i \in Sockets : sr[i] = "ESTABLISHED" =>
    \/ seen[i] \in {Unknown, actualSpeed}
    \/ Covered
    \/ send_message = Current /\ ToServe(i)

(* The task announces the speed it has just reached. *)
Announced == ventPc = "broadcast" => pending = <<Current>>

(* A connection has nothing in send_buffer, and is told nothing before the  *)
(* pass that sees it.                                                      *)
SocketsClear ==
  \A i \in Sockets :
    /\ sr[i] \in {"LISTEN", "ESTABLISHED"} => send_buffer[i] = S!None
    /\ sr[i] = "ESTABLISHED" /\ ~socket_open[i] => seen[i] = Unknown

AgreeInv ==
  /\ TasksInv
  /\ DOMAIN seen = Sockets
  /\ SocketsClear
  /\ Announced
  /\ Settled => QueueAgrees /\ TakenAgrees /\ SeenAgrees

(* What is known of the state variables from the proofs about the tasks. *)
LEMMA Known ==
  ASSUME TasksInv
  PROVE  /\ turn \in Sockets /\ turn \in Int
         /\ sr \in [Sockets -> SP!States]
         /\ socket_open \in [Sockets -> BOOLEAN]
         /\ DOMAIN send_buffer = Sockets
         /\ send_queue \in Seq(V!Status) /\ Len(send_queue) \in Nat
         /\ \A i \in Sockets : sr[i] \in SP!Opened => ~socket_open[i]
         /\ \A i \in 1..Len(pending) : ~Stale(pending[i])
         /\ pending \in Seq(V!Status)
         /\ ventPc \in {"reply", "broadcast"} => pending # <<>>
<1>1. /\ SP!Types /\ (\A i \in Sockets : SP!Clean(i))
      /\ VP!TypeOK /\ VP!SendsSomething /\ VP!PendingFresh
  BY DEF TasksInv, SP!CleanInv, VP!StatusInv, VP!Inv
<1>2. turn \in Sockets /\ turn \in Int
  BY <1>1, SocketsAssumption DEF SP!Types, SP!TaskTypes
<1>3. sr \in [Sockets -> SP!States]
  BY <1>1 DEF SP!Types, SP!ChipTypes
<1>4. socket_open \in [Sockets -> BOOLEAN] /\ DOMAIN send_buffer = Sockets
  BY <1>1 DEF SP!Types, SP!SocketTypes
<1>5. send_queue \in Seq(V!Status) /\ Len(send_queue) \in Nat
  BY <1>1, LenProperties DEF SP!Types, SP!QueueTypes
<1>6. \A i \in Sockets : sr[i] \in SP!Opened => ~socket_open[i]
  BY <1>1 DEF SP!Clean
<1>7. \A i \in 1..Len(pending) : ~Stale(pending[i])
  BY <1>1 DEF VP!PendingFresh, Stale
<1>8. pending \in Seq(V!Status) /\ (ventPc \in {"reply", "broadcast"} => pending # <<>>)
  BY <1>1, SameMessages DEF VP!TypeOK, VP!SendsSomething
<1>9. QED
  BY <1>2, <1>3, <1>4, <1>5, <1>6, <1>7, <1>8

LEMMA InitAgree == Init => AgreeInv
<1> SUFFICES ASSUME Init PROVE AgreeInv
  OBVIOUS
<1>1. TasksInv
  BY InitTasks
<1>2. /\ send_queue = <<>> /\ serverPc = "take" /\ ventPc = "receive"
      /\ seen = [i \in Sockets |-> Unknown]
      /\ send_buffer = [i \in Sockets |-> S!None]
  BY DEF Init, S!Init, V!Init
<1>3. SocketsClear /\ Announced /\ DOMAIN seen = Sockets
  BY <1>2 DEF SocketsClear, Announced
<1>4. QueueAgrees
  <2>1. Len(send_queue) = 0
    BY <1>2, EmptySeq
  <2>2. QED
    BY <2>1 DEF QueueAgrees
<1>5. TakenAgrees /\ SeenAgrees
  BY <1>2 DEF TakenAgrees, SeenAgrees
<1>6. QED
  BY <1>1, <1>3, <1>4, <1>5 DEF AgreeInv

(* What a connection is sent in its turn, if it is a speed, is the message  *)
(* the server has taken; an announcement is sent to every one that is seen. *)
LEMMA SpeedText ==
  ASSUME SocketsClear, NEW i \in Sockets, sr[i] = "ESTABLISHED"
  PROVE  /\ SpeedSent(i) => S!Text(i) = send_message /\ send_message.message_type = "CURRENT_SPEED"
         /\ socket_open[i] /\ send_message = Current => SpeedSent(i)
<1>1. send_buffer[i] = S!None
  BY DEF SocketsClear
<1>2. S!None.message_type = "NO_MESSAGE" /\ S!HB.message_type = "KEEPALIVE"
  BY DEF S!None, S!HB, S!Message
<1>3. S!Text(i) \in {S!None, S!HB} \/ S!Text(i) = send_message
  BY <1>1 DEF S!Text
<1>4. SpeedSent(i) => S!Text(i) = send_message /\ send_message.message_type = "CURRENT_SPEED"
  BY <1>2, <1>3 DEF SpeedSent
<1>5. ASSUME socket_open[i], send_message = Current
      PROVE  SpeedSent(i)
  <2>1. send_message.client = -1 /\ send_message.message_type = "CURRENT_SPEED"
    BY <1>5 DEF Current
  <2>2. S!ForSocket(i)
    BY <2>1, <1>2 DEF S!ForSocket, S!Broadcast
  <2>3. S!Text(i) = send_message
    BY <1>5, <2>2 DEF S!Text
  <2>4. QED
    BY <2>1, <2>3 DEF SpeedSent
<1>6. QED
  BY <1>4, <1>5

(* The turns of the other sockets are still to come. *)
LEMMA TurnMoves ==
  ASSUME TasksInv, serverPc \in {"serve", "put"}, S!NextSocket
  PROVE  /\ \A i \in Sockets : ToServe(i) /\ i # turn => ToServe(i)'
         /\ serverPc' \in {"take", "serve"}
<1>1. turn \in Sockets /\ turn \in Int /\ Sockets \subseteq Int
  BY Known, SocketsAssumption
<1>2. \A i \in Sockets : i <= S!Max(Sockets)
  BY SocketRange, SameNames
<1>3. ASSUME NEW i \in Sockets, ToServe(i), i # turn
      PROVE  ToServe(i)'
  <2>1. i \in Int /\ turn < i
    BY <1>1, <1>3 DEF ToServe
  <2>2. turn # S!Max(Sockets)
    BY <1>1, <1>2, <2>1
  <2>3. serverPc' = "serve" /\ turn' = turn + 1
    BY <2>2 DEF S!NextSocket
  <2>4. QED
    BY <1>1, <2>1, <2>3 DEF ToServe
<1>4. QED
  BY <1>3 DEF S!NextSocket

(* The turn of a socket. *)
LEMMA ServeTurn ==
  ASSUME AgreeInv, S!Serve
  PROVE  /\ turn \in Sockets /\ serverPc = "serve"
         /\ \A j \in Sockets : j # turn =>
              /\ sr'[j] = sr[j] /\ socket_open'[j] = socket_open[j]
              /\ send_buffer'[j] = send_buffer[j]
         /\ sr'[turn] = "ESTABLISHED" => sr[turn] = "ESTABLISHED" /\ socket_open'[turn]
         /\ sr'[turn] \in {"LISTEN", "ESTABLISHED"} => send_buffer'[turn] = S!None
         /\ \A j \in Sockets : ToServe(j) /\ j # turn => ToServe(j)'
<1> TasksInv /\ SocketsClear
  BY DEF AgreeInv
<1>1. turn \in Sockets /\ serverPc = "serve"
  BY Known DEF S!Serve
<1>2. ASSUME NEW j \in Sockets, j # turn
      PROVE  /\ sr'[j] = sr[j] /\ socket_open'[j] = socket_open[j]
             /\ send_buffer'[j] = send_buffer[j]
  <2>1. SP!Serve /\ SP!Types
    BY SameServe DEF TasksInv, SP!CleanInv
  <2>2. QED
    BY <1>2, <2>1, SocketRange, ServerConstants, SP!ServeOthers
<1>3. /\ sr \in [Sockets -> SP!States] /\ socket_open \in [Sockets -> BOOLEAN]
      /\ DOMAIN send_buffer = Sockets /\ DOMAIN sr = Sockets /\ DOMAIN socket_open = Sockets
      /\ sr[turn] \in SP!Opened => ~socket_open[turn]
  BY <1>1, Known
<1>4. CASE S!Connected(turn)
  <2>1. sr' = sr /\ socket_open' = [socket_open EXCEPT ![turn] = TRUE]
        /\ send_buffer' = [send_buffer EXCEPT ![turn] = S!None]
        /\ sr[turn] = "ESTABLISHED" /\ S!Handle(rx[turn])
    BY <1>4 DEF S!Connected, S!Seen, S!SendText
  <2>2. S!NextSocket \/ (serverPc' = "put" /\ turn' = turn)
    BY <2>1 DEF S!Handle
  <2>3. \A j \in Sockets : ToServe(j) /\ j # turn => ToServe(j)'
    <3>1. CASE S!NextSocket
      BY <1>1, <3>1, TurnMoves
    <3>2. CASE serverPc' = "put" /\ turn' = turn
      BY <1>1, <3>2, SocketsAssumption DEF ToServe
    <3>3. QED
      BY <2>2, <3>1, <3>2
  <2>4. QED
    BY <1>1, <1>2, <1>3, <2>1, <2>3
<1>5. CASE ~S!Connected(turn)
  <2>1. PICK state, open, text :
          /\ S!Leave(turn, state, open, text)
          /\ \/ state \in {"CLOSED", "INIT"}
             \/ state = "LISTEN" /\ text = S!None
             \/ state = "LISTEN" /\ sr[turn] = "LISTEN" /\ text = S!Text(turn)
    <3>1. S!ServeSocket(turn)
      BY DEF S!Serve
    <3>2. CASE S!CloseSilent(turn)
      BY <3>2 DEF S!CloseSilent
    <3>3. CASE S!CloseWait(turn)
      BY <3>3 DEF S!CloseWait
    <3>4. CASE S!Reopen(turn) \/ S!ReopenFails(turn)
      BY <3>4 DEF S!Reopen, S!ReopenFails
    <3>5. CASE S!Listen(turn) \/ S!ListenFails(turn)
      BY <3>5 DEF S!Listen, S!ListenFails
    <3>6. CASE S!StillListening(turn)
      BY <3>6 DEF S!StillListening
    <3>7. /\ ~S!ReceiveError(turn) /\ ~S!SendError(turn)
          /\ ~S!ReceiveBusy(turn) /\ ~S!ReceiveShort(turn)
      BY DEF S!ReceiveError, S!SendError, S!ReceiveBusy, S!ReceiveShort
    <3>8. QED
      BY <1>5, <3>1, <3>2, <3>3, <3>4, <3>5, <3>6, <3>7 DEF S!ServeSocket
  <2>2. /\ sr'[turn] = state /\ send_buffer'[turn] = text /\ S!NextSocket
    BY <1>1, <1>3, <2>1 DEF S!Leave
  <2>3. state = "LISTEN" => text = S!None
    <3>1. sr[turn] = "LISTEN" => ~socket_open[turn] /\ send_buffer[turn] = S!None
      BY <1>1, <1>3 DEF SP!Opened, SocketsClear
    <3>2. sr[turn] = "LISTEN" => S!Text(turn) = S!None
      BY <3>1 DEF S!Text
    <3>3. QED
      BY <2>1, <3>2
  <2>4. QED
    BY <1>1, <1>2, <2>1, <2>2, <2>3, TurnMoves
<1>6. QED
  BY <1>4, <1>5

(* A turn tells one socket; a stale speed it only tells with an             *)
(* announcement in the queue.                                              *)
LEMMA ServesAgree ==
  ASSUME AgreeInv, ServerServes
  PROVE  SocketsClear' /\ Announced' /\ DOMAIN seen' = Sockets
         /\ (Settled' => QueueAgrees' /\ TakenAgrees' /\ SeenAgrees')
<1> TasksInv /\ SocketsClear /\ Announced /\ DOMAIN seen = Sockets
  BY DEF AgreeInv
<1>1. /\ S!Serve /\ UNCHANGED ventVars /\ missed' = missed
      /\ send_message' = send_message /\ send_queue' = send_queue
      /\ \/ SpeedSent(turn) /\ seen' = [seen EXCEPT ![turn] = S!Text(turn).value]
         \/ ~SpeedSent(turn) /\ seen' = seen
  BY DEF ServerServes, S!Serve, S!queueVars
<1>2. /\ turn \in Sockets /\ serverPc = "serve"
      /\ \A j \in Sockets : j # turn =>
           sr'[j] = sr[j] /\ socket_open'[j] = socket_open[j] /\ send_buffer'[j] = send_buffer[j]
      /\ sr'[turn] = "ESTABLISHED" => sr[turn] = "ESTABLISHED" /\ socket_open'[turn]
      /\ sr'[turn] \in {"LISTEN", "ESTABLISHED"} => send_buffer'[turn] = S!None
      /\ \A j \in Sockets : ToServe(j) /\ j # turn => ToServe(j)'
  BY <1>1, ServeTurn
<1>3. \A j \in Sockets : j # turn => seen'[j] = seen[j]
  BY <1>1
<1>4. SocketsClear'
  <2> SUFFICES ASSUME NEW j \in Sockets
               PROVE  /\ sr'[j] \in {"LISTEN", "ESTABLISHED"} => send_buffer'[j] = S!None
                      /\ sr'[j] = "ESTABLISHED" /\ ~socket_open'[j] => seen'[j] = Unknown
    BY DEF SocketsClear, S!None, S!Message, S!Broadcast
  <2>1. CASE j = turn
    BY <1>2, <2>1
  <2>2. CASE j # turn
    BY <1>2, <1>3, <2>2 DEF SocketsClear
  <2>3. QED
    BY <2>1, <2>2
<1>5. /\ actualSpeed' = actualSpeed /\ ventPc' = ventPc /\ pending' = pending
      /\ Current' = Current
  BY <1>1 DEF ventVars, Current
<1>6. Announced' /\ DOMAIN seen' = Sockets
  BY <1>1, <1>5 DEF Announced
<1>7. ASSUME Settled'
      PROVE  QueueAgrees' /\ TakenAgrees' /\ SeenAgrees'
  <2>1. QueueAgrees /\ TakenAgrees /\ SeenAgrees
    BY <1>1, <1>5, <1>7 DEF Settled, AgreeInv
  <2>2. QueueAgrees' /\ (Covered => Covered')
    BY <1>1, <1>5, <2>1 DEF QueueAgrees, Covered, Stale
  <2>3. TakenAgrees'
    BY <1>1, <1>2, <1>5, <2>1, <2>2 DEF TakenAgrees, Stale
  <2>4. ASSUME NEW j \in Sockets, sr'[j] = "ESTABLISHED", ~Covered
        PROVE  seen'[j] \in {Unknown, actualSpeed} \/ (send_message = Current /\ ToServe(j)')
    <3>1. CASE j # turn
      BY <1>2, <1>3, <2>1, <2>4, <3>1 DEF SeenAgrees
    <3>2. CASE j = turn
      <4>1. sr[turn] = "ESTABLISHED"
        BY <1>2, <2>4, <3>2
      <4>2. CASE SpeedSent(turn)
        <5>1. send_message.message_type = "CURRENT_SPEED" /\ seen'[turn] = send_message.value
          BY <1>1, <1>2, <4>1, <4>2, SpeedText
        <5>2. ~Stale(send_message)
          BY <1>2, <2>1, <2>4 DEF TakenAgrees
        <5>3. QED
          BY <3>2, <5>1, <5>2 DEF Stale
      <4>3. CASE ~SpeedSent(turn)
        <5>1. seen'[turn] = seen[turn]
          BY <1>1, <4>3
        <5>2. socket_open[turn] => send_message # Current
          BY <1>2, <4>1, <4>3, SpeedText
        <5>3. ~socket_open[turn] => seen[turn] = Unknown
          BY <1>2, <4>1 DEF SocketsClear
        <5>4. QED
          BY <1>2, <2>1, <2>4, <3>2, <4>1, <5>1, <5>2, <5>3 DEF SeenAgrees
      <4>4. QED
        BY <4>2, <4>3
    <3>3. QED
      BY <3>1, <3>2
  <2>5. SeenAgrees'
    BY <1>1, <1>5, <2>2, <2>4 DEF SeenAgrees, Unknown
  <2>6. QED
    BY <2>2, <2>3, <2>5
<1>8. QED
  BY <1>4, <1>6, <1>7

(* What is taken from the queue is still to be served to everyone. *)
LEMMA TakesAgree ==
  ASSUME AgreeInv, ServerTakes
  PROVE  SocketsClear' /\ Announced' /\ DOMAIN seen' = Sockets
         /\ (Settled' => QueueAgrees' /\ TakenAgrees' /\ SeenAgrees')
<1> TasksInv /\ SocketsClear /\ Announced /\ DOMAIN seen = Sockets
  BY DEF AgreeInv
<1>1. /\ serverPc = "take" /\ serverPc' = "serve" /\ turn' = S!Min(Sockets)
      /\ \/ /\ send_queue # <<>> /\ send_message' = Head(send_queue)
            /\ send_queue' = Tail(send_queue)
         \/ /\ send_queue = <<>> /\ send_message' = S!None /\ send_queue' = send_queue
      /\ UNCHANGED <<sr, socket_open, send_buffer>>
      /\ UNCHANGED ventVars /\ UNCHANGED <<seen, missed>>
  BY DEF ServerTakes, S!Take, S!socketVars, S!chipVars, history
<1>2. actualSpeed' = actualSpeed /\ ventPc' = ventPc /\ pending' = pending /\ Current' = Current
  BY <1>1 DEF ventVars, Current
<1>3. SocketsClear' /\ Announced' /\ DOMAIN seen' = Sockets
  BY <1>1, <1>2 DEF SocketsClear, Announced, S!None, S!Message, S!Broadcast, Unknown
<1>4. ASSUME Settled'
      PROVE  QueueAgrees' /\ TakenAgrees' /\ SeenAgrees'
  <2>1. QueueAgrees /\ TakenAgrees /\ SeenAgrees
    BY <1>1, <1>2, <1>4 DEF Settled, AgreeInv
  <2>2. \A i \in Sockets : ToServe(i)'
    BY <1>1, SocketRange, SameNames DEF ToServe
  <2>3. \A i \in Sockets : ~ToServe(i)
    BY <1>1 DEF ToServe
  <2>4. CASE send_queue # <<>>
    <3>1. /\ send_queue \in Seq(V!Status) /\ Len(send_queue) \in Nat /\ Len(send_queue) >= 1
          /\ Len(send_queue') = Len(send_queue) - 1
          /\ send_message' = send_queue[1]
          /\ \A k \in 1..Len(send_queue') : send_queue'[k] = send_queue[k + 1]
      <4>1. send_queue \in Seq(V!Status) /\ Len(send_queue) \in Nat
        BY Known
      <4>2. /\ Len(send_queue) >= 1 /\ Head(send_queue) = send_queue[1]
            /\ Len(Tail(send_queue)) = Len(send_queue) - 1
            /\ \A k \in 1..Len(Tail(send_queue)) : Tail(send_queue)[k] = send_queue[k + 1]
        BY <2>4, <4>1, EmptySeq, HeadTailProperties
      <4>3. QED
        BY <1>1, <2>4, <4>1, <4>2
    <3>2. \A k \in 1..Len(send_queue) : k > 1 =>
            k - 1 \in 1..Len(send_queue') /\ send_queue[k] = send_queue'[k - 1]
      BY <3>1
    <3>3. Covered => send_message' = Current \/ Covered'
      <4> SUFFICES ASSUME NEW k \in 1..Len(send_queue), send_queue[k] = Current
                   PROVE  send_message' = Current \/ Covered'
        BY DEF Covered
      <4>1. CASE k = 1
        BY <3>1, <4>1
      <4>2. CASE k > 1
        BY <1>2, <3>2, <4>2 DEF Covered
      <4>3. QED
        BY <3>1, <4>1, <4>2
    <3>4. TakenAgrees'
      <4> SUFFICES ASSUME Stale(send_message)' PROVE Covered'
        BY DEF TakenAgrees
      <4>1. Stale(send_queue[1]) /\ 1 \in 1..Len(send_queue)
        BY <1>2, <3>1 DEF Stale
      <4>2. PICK k \in 1..Len(send_queue) : k > 1 /\ send_queue[k] = Current
        BY <2>1, <4>1 DEF QueueAgrees
      <4>3. QED
        BY <1>2, <3>2, <4>2 DEF Covered
    <3>5. QueueAgrees'
      <4> SUFFICES ASSUME NEW j \in 1..Len(send_queue'), Stale(send_queue[j])'
                   PROVE  \E k \in 1..Len(send_queue') : k > j /\ send_queue'[k] = Current'
        BY DEF QueueAgrees, Stale
      <4>1. j + 1 \in 1..Len(send_queue) /\ Stale(send_queue[j + 1])
        BY <1>2, <3>1 DEF Stale
      <4>2. PICK k \in 1..Len(send_queue) : k > j + 1 /\ send_queue[k] = Current
        BY <2>1, <4>1 DEF QueueAgrees
      <4>3. k - 1 > j /\ k - 1 \in 1..Len(send_queue') /\ send_queue'[k - 1] = Current'
        BY <1>2, <3>1, <3>2, <4>2
      <4>4. QED
        BY <4>3
    <3>6. SeenAgrees'
      BY <1>1, <1>2, <2>1, <2>2, <2>3, <3>3 DEF SeenAgrees, Unknown
    <3>7. QED
      BY <3>4, <3>5, <3>6
  <2>5. CASE send_queue = <<>>
    <3>1. send_queue' = send_queue /\ Len(send_queue) = 0 /\ send_message' = S!None
      BY <1>1, <2>5, EmptySeq
    <3>2. QueueAgrees' /\ ~Covered
      BY <3>1 DEF QueueAgrees, Covered
    <3>3. TakenAgrees'
      BY <3>1 DEF TakenAgrees, Stale, S!None, S!Message
    <3>4. SeenAgrees'
      BY <1>1, <1>2, <2>1, <2>3, <3>2 DEF SeenAgrees, Unknown
    <3>5. QED
      BY <3>2, <3>3, <3>4
  <2>6. QED
    BY <2>4, <2>5
<1>5. QED
  BY <1>3, <1>4

(* Putting a request leaves the other sockets their turns. *)
LEMMA PutsAgree ==
  ASSUME AgreeInv, ServerPuts
  PROVE  SocketsClear' /\ Announced' /\ DOMAIN seen' = Sockets
         /\ (Settled' => QueueAgrees' /\ TakenAgrees' /\ SeenAgrees')
<1> TasksInv /\ SocketsClear /\ Announced /\ DOMAIN seen = Sockets
  BY DEF AgreeInv
<1>1. /\ serverPc = "put" /\ S!NextSocket
      /\ UNCHANGED <<send_message, send_queue, sr, socket_open, send_buffer>>
      /\ UNCHANGED ventVars /\ UNCHANGED <<seen, missed>>
  BY DEF ServerPuts, S!Put, S!socketVars, S!chipVars
<1>2. actualSpeed' = actualSpeed /\ ventPc' = ventPc /\ pending' = pending /\ Current' = Current
  BY <1>1 DEF ventVars, Current
<1>3. SocketsClear' /\ Announced' /\ DOMAIN seen' = Sockets
  BY <1>1, <1>2 DEF SocketsClear, Announced, S!None, S!Message, S!Broadcast, Unknown
<1>4. ASSUME Settled'
      PROVE  QueueAgrees' /\ TakenAgrees' /\ SeenAgrees'
  <2>1. QueueAgrees /\ TakenAgrees /\ SeenAgrees
    BY <1>1, <1>2, <1>4 DEF Settled, AgreeInv
  <2>2. QueueAgrees' /\ (Covered => Covered')
    BY <1>1, <1>2, <2>1 DEF QueueAgrees, Covered, Stale
  <2>3. TakenAgrees'
    BY <1>1, <1>2, <2>1, <2>2 DEF TakenAgrees, Stale
  <2>4. \A i \in Sockets : ToServe(i) => ToServe(i)'
    <3>1. \A i \in Sockets : ToServe(i) => i # turn
      BY <1>1, Known DEF ToServe
    <3>2. QED
      BY <1>1, <3>1, TurnMoves
  <2>5. SeenAgrees'
    BY <1>1, <1>2, <2>1, <2>2, <2>4 DEF SeenAgrees, Unknown
  <2>6. QED
    BY <2>2, <2>3, <2>5
<1>5. QED
  BY <1>3, <1>4

(* A status message that is not stale keeps the agreement, and an           *)
(* announcement makes it.                                                  *)
LEMMA SendsAgree ==
  ASSUME AgreeInv, NEW m \in V!Status, send_queue' = Append(send_queue, m), ~Stale(m),
         m = Current \/ Settled,
         UNCHANGED <<actualSpeed, serverPc, turn, send_message, sr, seen>>
  PROVE  QueueAgrees' /\ TakenAgrees' /\ SeenAgrees'
<1>1. send_queue \in Seq(V!Status) /\ Len(send_queue) \in Nat
  BY Known DEF AgreeInv
<1>2. /\ Len(send_queue') = Len(send_queue) + 1
      /\ \A k \in 1..Len(send_queue) : send_queue'[k] = send_queue[k]
      /\ send_queue'[Len(send_queue) + 1] = m
  BY <1>1, AppendProperties
<1>3. Current' = Current
  BY DEF Current
<1>4. m = Current \/ (QueueAgrees /\ TakenAgrees /\ SeenAgrees)
  BY DEF AgreeInv
<1>5. Covered \/ m = Current => Covered'
  BY <1>1, <1>2, <1>3 DEF Covered
<1>6. QueueAgrees'
  <2> SUFFICES ASSUME NEW j \in 1..Len(send_queue'), Stale(send_queue[j])'
               PROVE  \E k \in 1..Len(send_queue') : k > j /\ send_queue'[k] = Current'
    BY DEF QueueAgrees, Stale
  <2>1. Stale(send_queue'[j]) /\ j # Len(send_queue) + 1
    BY <1>2 DEF Stale
  <2>2. j \in 1..Len(send_queue) /\ Stale(send_queue[j])
    BY <1>1, <1>2, <2>1
  <2>3. CASE m = Current
    BY <1>1, <1>2, <1>3, <2>2, <2>3
  <2>4. CASE QueueAgrees
    <3>1. PICK k \in 1..Len(send_queue) : k > j /\ send_queue[k] = Current
      BY <2>2, <2>4 DEF QueueAgrees
    <3>2. QED
      BY <1>1, <1>2, <1>3, <3>1
  <2>5. QED
    BY <1>4, <2>3, <2>4
<1>7. TakenAgrees'
  BY <1>3, <1>4, <1>5 DEF TakenAgrees, Stale
<1>8. SeenAgrees'
  BY <1>3, <1>4, <1>5 DEF SeenAgrees, ToServe, Unknown
<1>9. QED
  BY <1>6, <1>7, <1>8

(* What is known of a step that changes no queue, message or turn, and      *)
(* tells no connection anything.                                           *)
LEMMA QuietAgree ==
  ASSUME AgreeInv,
         UNCHANGED <<actualSpeed, serverPc, turn, send_message, send_queue>>,
         \A i \in Sockets : sr'[i] = "ESTABLISHED" =>
           (sr[i] = "ESTABLISHED" /\ seen'[i] = seen[i]) \/ seen'[i] = Unknown,
         Settled
  PROVE  QueueAgrees' /\ TakenAgrees' /\ SeenAgrees'
<1>1. QueueAgrees /\ TakenAgrees /\ SeenAgrees
  BY DEF AgreeInv
<1>2. Current' = Current
  BY DEF Current
<1>3. QueueAgrees' /\ (Covered => Covered')
  BY <1>1, <1>2 DEF QueueAgrees, Covered, Stale
<1>4. TakenAgrees'
  BY <1>1, <1>2, <1>3 DEF TakenAgrees, Stale
<1>5. \A i \in Sockets : ToServe(i) => ToServe(i)'
  BY DEF ToServe
<1>6. SeenAgrees'
  BY <1>1, <1>2, <1>3, <1>5 DEF SeenAgrees, Unknown
<1>7. QED
  BY <1>3, <1>4, <1>6

(* A step of ventcontrol_task that sends no announcement sends nothing      *)
(* stale; the speed changes where the announcement is made.                *)
LEMMA VentChanges ==
  ASSUME AgreeInv, V!Task
  PROVE  /\ Announced'
         /\ ventPc = "broadcast" => ventPc' = "receive"
         /\ ventPc' # "broadcast" => actualSpeed' = actualSpeed
<1> Announced
  BY DEF AgreeInv
<1>1. CASE V!HandleRequest
  BY <1>1 DEF V!HandleRequest, V!SetSpeed, V!SetVakantie, V!GetStatus, Announced
<1>2. CASE V!SendStatus \/ V!DropStatus
  <2>1. /\ ventPc \in {"reply", "broadcast"} /\ pending' = Tail(pending)
        /\ ventPc' = IF Tail(pending) = <<>> THEN V!AfterSend[ventPc] ELSE ventPc
        /\ actualSpeed' = actualSpeed
    BY <1>2 DEF V!SendStatus, V!DropStatus, V!SendDone
  <2>2. CASE ventPc = "broadcast"
    <3>1. pending = <<Current>>
      BY <2>2 DEF Announced
    <3>2. Tail(pending) = <<>>
      BY <3>1
    <3>3. ventPc' = "receive"
      BY <2>1, <2>2, <3>2 DEF V!AfterSend
    <3>4. QED
      BY <2>1, <3>3 DEF Announced
  <2>3. CASE ventPc = "reply"
    <3>1. ventPc' \in {"reply", "input"}
      BY <2>1, <2>3 DEF V!AfterSend
    <3>2. QED
      BY <2>1, <2>3, <3>1 DEF Announced
  <2>4. QED
    BY <2>1, <2>2, <2>3
<1>3. CASE V!NoRequest \/ V!HandleInput \/ V!NoInput \/ V!KeepSpeed
  BY <1>3 DEF V!NoRequest, V!HandleInput, V!NoInput, V!KeepSpeed, Announced
<1>4. CASE V!SelectHigh
  BY <1>4 DEF V!SelectHigh, Announced
<1>5. CASE V!SelectLow \/ V!CloseRelay
  <2>1. ventPc # "broadcast" /\ V!Announce
    BY <1>5 DEF V!SelectLow, V!CloseRelay
  <2>2. pending' = <<Current>>' /\ ventPc' = "broadcast"
    BY <2>1 DEF V!Announce, V!SpeedMessage, V!Broadcast, Current
  <2>3. QED
    BY <2>1, <2>2 DEF Announced
<1>6. QED
  BY <1>1, <1>2, <1>3, <1>4, <1>5 DEF V!Task

(* A step of ventcontrol_task either is the announcement or keeps what was  *)
(* settled.                                                                *)
LEMMA VentAgrees ==
  ASSUME AgreeInv, VentRuns
  PROVE  SocketsClear' /\ Announced' /\ DOMAIN seen' = Sockets
         /\ (Settled' => QueueAgrees' /\ TakenAgrees' /\ SeenAgrees')
<1> TasksInv /\ SocketsClear /\ Announced /\ DOMAIN seen = Sockets
  BY DEF AgreeInv
<1>1. /\ V!Task /\ UNCHANGED serverVars /\ seen' = seen
      /\ missed' = IF ventPc = "broadcast" THEN Len(send_queue) = QueueLength ELSE missed
  BY DEF VentRuns, Announces
<1>2. UNCHANGED <<serverPc, turn, send_message, sr, socket_open, send_buffer>>
  BY <1>1 DEF serverVars
<1>3. SocketsClear' /\ DOMAIN seen' = Sockets
  BY <1>1, <1>2 DEF SocketsClear, S!None, S!Message, S!Broadcast, Unknown
<1>4. /\ Announced'
      /\ ventPc = "broadcast" => ventPc' = "receive"
      /\ ventPc' # "broadcast" => actualSpeed' = actualSpeed
  BY <1>1, VentChanges
<1>5. ASSUME Settled'
      PROVE  QueueAgrees' /\ TakenAgrees' /\ SeenAgrees'
  <2>1. actualSpeed' = actualSpeed /\ ~missed'
    BY <1>4, <1>5 DEF Settled
  <2>2. CASE ventPc = "broadcast"
    <3>1. pending = <<Current>> /\ Head(pending) = Current
      BY <2>2 DEF Announced
    <3>2. Len(send_queue) # QueueLength
      BY <1>1, <2>1, <2>2
    <3>3. V!SendStatus
      BY <1>1, <2>2, <3>2
      DEF V!Task, V!HandleRequest, V!NoRequest, V!DropStatus, V!HandleInput, V!NoInput,
          V!KeepSpeed, V!SelectLow, V!SelectHigh, V!CloseRelay
    <3>4. send_queue' = Append(send_queue, Current)
      BY <3>1, <3>3 DEF V!SendStatus
    <3>5. Current \in V!Status /\ ~Stale(Current)
      <4>1. Head(pending) \in V!Status
        BY <3>1, Known, ElementOfSeq
      <4>2. QED
        BY <3>1, <4>1 DEF Stale, Current
    <3>6. QED
      BY <1>1, <1>2, <2>1, <3>4, <3>5, SendsAgree
  <2>3. CASE ventPc # "broadcast"
    <3>1. Settled
      BY <1>1, <1>5, <2>3 DEF Settled
    <3>2. CASE send_queue' = send_queue
      BY <1>1, <1>2, <2>1, <3>1, <3>2, QuietAgree
    <3>3. CASE V!SendStatus
      <4>1. send_queue' = Append(send_queue, Head(pending)) /\ pending # <<>>
        BY <3>3, Known DEF V!SendStatus, V!SendDone
      <4>2. Head(pending) \in V!Status /\ ~Stale(Head(pending))
        <5>1. /\ pending \in Seq(V!Status) /\ pending # <<>>
              /\ \A i \in 1..Len(pending) : ~Stale(pending[i])
          BY <4>1, Known
        <5>2. Head(pending) = pending[1] /\ 1 \in 1..Len(pending)
          BY <5>1, EmptySeq, HeadTailProperties
        <5>3. QED
          BY <5>1, <5>2, ElementOfSeq
      <4>3. QED
        BY <1>1, <1>2, <2>1, <3>1, <4>1, <4>2, SendsAgree
    <3>4. V!SendStatus \/ send_queue' = send_queue
      BY <1>1
      DEF V!Task, V!HandleRequest, V!NoRequest, V!DropStatus, V!HandleInput, V!NoInput,
          V!KeepSpeed, V!SelectLow, V!SelectHigh, V!CloseRelay, V!queueVars
    <3>5. QED
      BY <3>2, <3>3, <3>4
  <2>4. QED
    BY <2>2, <2>3
<1>6. QED
  BY <1>3, <1>4, <1>5

(* A client's step: its connection is new, or told nothing. *)
LEMMA ClientAgrees ==
  ASSUME AgreeInv, NEW i \in Sockets,
         \/ ClientConnects(i) \/ ClientGets(i) \/ ClientSets(i) \/ ClientSendsOther(i)
         \/ ClientCloses(i)
  PROVE  SocketsClear' /\ Announced' /\ DOMAIN seen' = Sockets
         /\ (Settled' => QueueAgrees' /\ TakenAgrees' /\ SeenAgrees')
<1> TasksInv /\ SocketsClear /\ Announced /\ DOMAIN seen = Sockets
  BY DEF AgreeInv
<1> DOMAIN sr = Sockets
  BY Known
<1>0. DOMAIN seen' = Sockets
  <2>1. seen' = seen \/ seen' = [seen EXCEPT ![i] = Unknown]
    BY DEF ClientConnects, ClientGets, ClientSets, ClientSendsOther, ClientCloses, history
  <2>2. QED
    BY <2>1
<1> USE DEF ClientConnects, ClientGets, GetComesFirst, GetComesBehind, GetComesCut, ClientSets,
            ClientSendsOther, ClientCloses, serverVars,
            S!Connect, S!ClientSends, S!ClientCloses, S!taskVars, S!socketVars, S!queueVars, history
<1>1. /\ UNCHANGED <<serverPc, turn, send_message, send_queue, socket_open, send_buffer>>
      /\ UNCHANGED ventVars /\ missed' = missed
  OBVIOUS
<1>2. UNCHANGED <<actualSpeed, ventPc, pending>>
  BY <1>1 DEF ventVars
<1>3. ASSUME NEW j \in Sockets, sr'[j] = "ESTABLISHED"
      PROVE  (sr[j] = "ESTABLISHED" /\ seen'[j] = seen[j]) \/ seen'[j] = Unknown
  <2>1. \/ /\ sr' = [sr EXCEPT ![i] = "ESTABLISHED"]
           /\ seen' = [seen EXCEPT ![i] = Unknown]
        \/ /\ seen' = seen
           /\ sr' = sr \/ sr' = [sr EXCEPT ![i] = "CLOSE_WAIT"]
    OBVIOUS
  <2>2. QED
    BY <1>3, <2>1
<1>4. ASSUME NEW j \in Sockets, sr'[j] \in {"LISTEN", "ESTABLISHED"}
      PROVE  sr[j] \in {"LISTEN", "ESTABLISHED"}
  BY <1>4
<1>5. SocketsClear'
  BY <1>1, <1>3, <1>4 DEF SocketsClear, S!None, S!Message, S!Broadcast, Unknown
<1>6. Announced'
  BY <1>2 DEF Announced, Current
<1>7. Settled' => QueueAgrees' /\ TakenAgrees' /\ SeenAgrees'
  <2>1. Settled' => Settled
    BY <1>1, <1>2 DEF Settled
  <2>2. QED
    BY <1>1, <1>2, <1>3, <2>1, QuietAgree
<1>8. QED
  BY <1>0, <1>5, <1>6, <1>7

LEMMA StepAgree == AgreeInv /\ [Next]_vars => AgreeInv'
<1> SUFFICES ASSUME AgreeInv, [Next]_vars PROVE AgreeInv'
  OBVIOUS
<1> TasksInv /\ SocketsClear /\ Announced /\ DOMAIN seen = Sockets
  BY DEF AgreeInv
<1> TasksInv'
  BY StepTasks
<1> USE DEF AgreeInv
<1>1. CASE ServerServes
  BY <1>1, ServesAgree
<1>2. CASE ServerTakes
  BY <1>2, TakesAgree
<1>3. CASE ServerPuts
  BY <1>3, PutsAgree
<1>4. CASE VentRuns
  BY <1>4, VentAgrees
<1>5. CASE VentTick \/ UNCHANGED vars
  <2>1. /\ UNCHANGED <<serverPc, turn, send_message, send_queue, sr, socket_open, send_buffer>>
        /\ UNCHANGED <<actualSpeed, ventPc, pending, missed, seen>>
    BY <1>5 DEF VentTick, V!Tick, V!taskVars, V!queueVars, vars, serverVars, ventVars, history
  <2>2. SocketsClear' /\ Announced' /\ DOMAIN seen' = Sockets
    BY <2>1 DEF SocketsClear, S!None, S!Message, S!Broadcast, Unknown, Announced, Current
  <2>3. Settled' => QueueAgrees' /\ TakenAgrees' /\ SeenAgrees'
    <3>1. Settled' => Settled
      BY <2>1 DEF Settled
    <3>2. QED
      BY <2>1, <3>1, QuietAgree
  <2>4. QED
    BY <2>2, <2>3
<1>6. CASE \E i \in Sockets :
             \/ ClientConnects(i) \/ ClientGets(i) \/ ClientSets(i) \/ ClientSendsOther(i)
         \/ ClientCloses(i)
  BY <1>6, ClientAgrees
<1>7. QED
  BY <1>1, <1>2, <1>3, <1>4, <1>5, <1>6 DEF Next

-----------------------------------------------------------------------------
(* The GETs that are under way *)

(* The clock stands still, so no connection is closed for its silence; who  *)
(* waits is connected, and the server has seen the connection or is about  *)
(* to, when it reads the GET.                                              *)
NoSilence == \A i \in Sockets : last_command_received[i] = 0

Waits ==
  \A i \in Sockets : get[i] = "waiting" =>
    sr[i] = "ESTABLISHED" /\ (socket_open[i] \/ rx[i] = GetFrom(i))

WaitInv == AgreeInv /\ DOMAIN get = Sockets /\ NoSilence /\ Waits /\ GetsUnderWay

(* Where the messages are, from the proofs about the tasks. *)
LEMMA KnownMessages ==
  ASSUME TasksInv
  PROVE  /\ DOMAIN rx = Sockets
         /\ serverPc = "put" <=> received_message # S!None
         /\ receive_queue \in Seq(SP!Received) /\ Len(receive_queue) \in Nat
         /\ Len(receive_queue) <= QueueLength
         /\ DOMAIN last_command_received = Sockets
         /\ \A i \in Sockets : GetFrom(i) # S!None
<1>1. SP!Types
  BY DEF TasksInv, SP!CleanInv
<1>2. DOMAIN rx = Sockets
  BY <1>1 DEF SP!Types, SP!ChipTypes
<1>3. serverPc = "put" <=> received_message # S!None
  BY <1>1, SameNames DEF SP!Types, SP!MessageTypes
<1>4. /\ receive_queue \in Seq(SP!Received) /\ Len(receive_queue) \in Nat
      /\ Len(receive_queue) <= QueueLength
  BY <1>1, LenProperties DEF SP!Types, SP!QueueTypes
<1>5. DOMAIN last_command_received = Sockets
  BY <1>1 DEF SP!Types, SP!SocketTypes
<1>6. \A i \in Sockets : GetFrom(i) # S!None
  BY DEF GetFrom, S!None, S!Message
<1>7. QED
  BY <1>2, <1>3, <1>4, <1>5, <1>6

(* A full queue ends the wait for a GET, and begins none. *)
LEMMA LoseOnly ==
  ASSUME DOMAIN get = Sockets
  PROVE  \A c : Lose(c) => /\ DOMAIN get' = Sockets
                          /\ \A i \in Sockets : get'[i] = "waiting" => get[i] = "waiting" /\ i # c
BY DEF Lose

(* An element of a queue that is not empty is the first one, or moves up    *)
(* when that is taken.                                                     *)
LEMMA MovesUp ==
  ASSUME NEW T, NEW q \in Seq(T), q # <<>>
  PROVE  /\ Head(q) = q[1] /\ Len(q) \in Nat /\ Len(Tail(q)) \in Nat
         /\ \A k \in 1..Len(q) :
              k = 1 \/ (k - 1 \in 1..Len(Tail(q)) /\ Tail(q)[k - 1] = q[k])
<1>1. /\ Len(q) \in Nat /\ Len(q) >= 1 /\ Head(q) = q[1]
      /\ Len(Tail(q)) = Len(q) - 1
      /\ \A k \in 1..Len(Tail(q)) : Tail(q)[k] = q[k + 1]
  BY EmptySeq, LenProperties, HeadTailProperties
<1>2. ASSUME NEW k \in 1..Len(q), k # 1
      PROVE  k - 1 \in 1..Len(Tail(q)) /\ Tail(q)[k - 1] = q[k]
  BY <1>1, <1>2
<1>3. QED
  BY <1>1, <1>2

LEMMA InitWait == Init => WaitInv
<1> SUFFICES ASSUME Init PROVE WaitInv
  OBVIOUS
<1>1. get = [i \in Sockets |-> "none"] /\ last_command_received = [i \in Sockets |-> 0]
  BY DEF Init, S!Init
<1>2. QED
  BY <1>1, InitAgree DEF WaitInv, NoSilence, Waits, GetsUnderWay

(* The turn of a connection that waits, and of one that does not. *)
LEMMA ServeReads ==
  ASSUME WaitInv, S!Serve
  PROVE  /\ turn \in Sockets /\ serverPc = "serve"
         /\ \A j \in Sockets : j # turn => rx'[j] = rx[j]
         /\ NoSilence'
         /\ sr[turn] = "ESTABLISHED" =>
              /\ sr'[turn] = "ESTABLISHED" /\ socket_open'[turn]
              /\ rx[turn] = GetFrom(turn) => received_message' = GetFrom(turn)
<1> AgreeInv /\ TasksInv /\ NoSilence
  BY DEF WaitInv, AgreeInv
<1>1. /\ turn \in Sockets /\ serverPc = "serve" /\ S!ServeSocket(turn)
      /\ DOMAIN rx = Sockets /\ DOMAIN last_command_received = Sockets
      /\ DOMAIN socket_open = Sockets
  BY Known, KnownMessages DEF S!Serve
<1>2. S!ReceivedAgo(turn) = 0 /\ S!ReceivedNow(turn) = 0
  BY <1>1 DEF S!ReceivedAgo, S!ReceivedNow, NoSilence
<1>3. CASE S!Connected(turn)
  <2>1. /\ sr' = sr /\ socket_open' = [socket_open EXCEPT ![turn] = TRUE]
        /\ rx' = [rx EXCEPT ![turn] = S!None]
        /\ last_command_received' = [last_command_received EXCEPT ![turn] = 0]
        /\ S!Handle(rx[turn])
    BY <1>2, <1>3 DEF S!Connected, S!Seen
  <2>2. rx[turn] = GetFrom(turn) => received_message' = GetFrom(turn)
    BY <2>1 DEF S!Handle, GetFrom, S!Message, S!Ignored
  <2>3. NoSilence'
    BY <1>1, <2>1 DEF NoSilence
  <2>4. QED
    BY <1>1, <2>1, <2>2, <2>3 DEF GetFrom, S!Message
<1>4. CASE ~S!Connected(turn)
  <2>1. ~S!CloseSilent(turn)
    BY <1>2 DEF S!CloseSilent
  <2>2. /\ ~S!ReceiveError(turn) /\ ~S!SendError(turn)
        /\ ~S!ReceiveBusy(turn) /\ ~S!ReceiveShort(turn)
    BY DEF S!ReceiveError, S!SendError, S!ReceiveBusy, S!ReceiveShort
  <2>3. PICK state, open, text : sr[turn] # "ESTABLISHED" /\ S!Leave(turn, state, open, text)
    BY <1>1, <1>4, <2>1, <2>2
    DEF S!ServeSocket, S!CloseWait, S!Reopen, S!ReopenFails, S!Listen, S!ListenFails,
        S!StillListening
  <2>4. rx' = [rx EXCEPT ![turn] = S!None] /\ last_command_received' = last_command_received
    BY <2>3 DEF S!Leave
  <2>5. QED
    BY <1>1, <2>3, <2>4 DEF NoSilence
<1>5. QED
  BY <1>3, <1>4

(* A turn that answers a GET frees the client, unless it reads the next     *)
(* one; a turn that reads a GET passes it on.                              *)
LEMMA ServesWait ==
  ASSUME WaitInv, ServerServes
  PROVE  DOMAIN get' = Sockets /\ NoSilence' /\ Waits' /\ GetsUnderWay'
<1> AgreeInv /\ TasksInv /\ SocketsClear /\ Waits /\ GetsUnderWay /\ DOMAIN get = Sockets
  BY DEF WaitInv, AgreeInv
<1>1. /\ S!Serve /\ UNCHANGED <<send_message, receive_queue, send_queue, ventPc, pending>>
      /\ \/ /\ SpeedSent(turn)
            /\ get' = [get EXCEPT ![turn] = IF rx[turn] = GetFrom(turn) THEN "waiting" ELSE "none"]
         \/ ~SpeedSent(turn) /\ get' = get
  BY DEF ServerServes, S!Serve, S!queueVars, ventVars
<1>2. /\ turn \in Sockets /\ serverPc = "serve"
      /\ \A j \in Sockets : j # turn =>
           sr'[j] = sr[j] /\ socket_open'[j] = socket_open[j] /\ rx'[j] = rx[j]
      /\ \A j \in Sockets : ToServe(j) /\ j # turn => ToServe(j)'
      /\ NoSilence'
      /\ sr[turn] = "ESTABLISHED" =>
           /\ sr'[turn] = "ESTABLISHED" /\ socket_open'[turn]
           /\ rx[turn] = GetFrom(turn) => received_message' = GetFrom(turn)
  BY <1>1, ServeTurn, ServeReads
<1>3. \A j \in Sockets : received_message # GetFrom(j)
  BY <1>2, KnownMessages
<1>4. DOMAIN get' = Sockets
  BY <1>1
<1>5. ASSUME NEW j \in Sockets, j # turn, get'[j] = "waiting"
      PROVE  /\ sr'[j] = "ESTABLISHED" /\ (socket_open'[j] \/ rx'[j] = GetFrom(j))
             /\ GetUnderWay(j)'
  <2>1. get[j] = "waiting" /\ GetUnderWay(j)
    BY <1>1, <1>5 DEF GetsUnderWay
  <2>2. GetUnderWay(j)'
    BY <1>1, <1>2, <1>3, <1>5, <2>1 DEF GetUnderWay, IsAnswer, GetFrom, S!Message
  <2>3. QED
    BY <1>2, <1>5, <2>1, <2>2 DEF Waits
<1>6. ASSUME NEW j \in Sockets, j = turn, get'[j] = "waiting"
      PROVE  sr'[j] = "ESTABLISHED" /\ socket_open'[j] /\ GetUnderWay(j)'
  <2>1. CASE SpeedSent(j)
    <3>1. rx[j] = GetFrom(j) /\ sr[j] = "ESTABLISHED"
      BY <1>1, <1>2, <1>6, <2>1 DEF SpeedSent
    <3>2. QED
      BY <1>2, <1>6, <3>1 DEF GetUnderWay, GetFrom, S!Message
  <2>2. CASE ~SpeedSent(j)
    <3>1. /\ get[j] = "waiting" /\ GetUnderWay(j) /\ sr[j] = "ESTABLISHED"
          /\ socket_open[j] \/ rx[j] = GetFrom(j)
      BY <1>1, <1>2, <1>6, <2>2 DEF GetsUnderWay, Waits
    <3>2. CASE rx[j] = GetFrom(j)
      BY <1>2, <1>6, <3>1, <3>2 DEF GetUnderWay, GetFrom, S!Message
    <3>3. CASE rx[j] # GetFrom(j)
      <4>1. ~IsAnswer(send_message, j)
        <5> SUFFICES ASSUME IsAnswer(send_message, j) PROVE SpeedSent(j)
          BY <2>2
        <5>1. S!ForSocket(j)
          BY DEF IsAnswer, S!ForSocket, S!None, S!Message
        <5>2. S!Text(j) = send_message
          BY <3>1, <3>3, <5>1 DEF S!Text
        <5>3. QED
          BY <3>1, <5>2 DEF SpeedSent, IsAnswer
      <4>2. QED
        BY <1>1, <1>2, <1>3, <1>6, <3>1, <3>3, <4>1 DEF GetUnderWay, IsAnswer, GetFrom, S!Message
    <3>4. QED
      BY <3>2, <3>3
  <2>3. QED
    BY <2>1, <2>2
<1>7. Waits'
  <2> SUFFICES ASSUME NEW j \in Sockets, get'[j] = "waiting"
               PROVE  sr'[j] = "ESTABLISHED" /\ (socket_open'[j] \/ rx'[j] = GetFrom(j))
    BY DEF Waits, GetFrom, S!Message
  <2>1. QED
    BY <1>5, <1>6
<1>8. GetsUnderWay'
  <2> SUFFICES ASSUME NEW j \in Sockets, get'[j] = "waiting" PROVE GetUnderWay(j)'
    BY DEF GetsUnderWay
  <2>1. QED
    BY <1>5, <1>6
<1>9. QED
  BY <1>2, <1>4, <1>7, <1>8

(* The answer taken from send_queue is still to be served to its socket. *)
LEMMA TakesWait ==
  ASSUME WaitInv, ServerTakes
  PROVE  DOMAIN get' = Sockets /\ NoSilence' /\ Waits' /\ GetsUnderWay'
<1> AgreeInv /\ TasksInv /\ NoSilence /\ Waits /\ GetsUnderWay /\ DOMAIN get = Sockets
  BY DEF WaitInv, AgreeInv
<1>1. /\ serverPc = "take" /\ serverPc' = "serve" /\ turn' = S!Min(Sockets)
      /\ \/ /\ send_queue # <<>> /\ send_message' = Head(send_queue)
            /\ send_queue' = Tail(send_queue)
         \/ /\ send_queue = <<>> /\ send_queue' = send_queue
      /\ UNCHANGED <<received_message, receive_queue, ventPc, pending, rx, sr, socket_open>>
      /\ UNCHANGED <<last_command_received, get>>
  BY DEF ServerTakes, S!Take, S!socketVars, S!chipVars, history, ventVars
<1>2. \A i \in Sockets : ToServe(i)' /\ ~ToServe(i)
  BY <1>1, SocketRange, SameNames DEF ToServe
<1>3. NoSilence' /\ Waits'
  BY <1>1 DEF NoSilence, Waits, GetFrom, S!Message
<1>4. ASSUME NEW i \in Sockets, get[i] = "waiting"
      PROVE  GetUnderWay(i)'
  <2>1. GetUnderWay(i)
    BY <1>4 DEF GetsUnderWay
  <2>2. CASE \E k \in 1..Len(send_queue) : IsAnswer(send_queue[k], i)
    <3>1. PICK k \in 1..Len(send_queue) : IsAnswer(send_queue[k], i)
      BY <2>2
    <3>2. send_queue # <<>> /\ send_queue \in Seq(V!Status)
      BY <3>1, Known, EmptySeq
    <3>3. k = 1 \/ (k - 1 \in 1..Len(send_queue') /\ send_queue'[k - 1] = send_queue[k])
      BY <1>1, <3>2, MovesUp
    <3>4. send_message' = send_queue[1]
      BY <1>1, <3>2, MovesUp
    <3>5. IsAnswer(send_message, i)' \/ \E n \in 1..Len(send_queue') : IsAnswer(send_queue[n], i)'
      BY <3>1, <3>3, <3>4 DEF IsAnswer
    <3>6. QED
      BY <1>2, <3>5 DEF GetUnderWay
  <2>3. CASE ~\E k \in 1..Len(send_queue) : IsAnswer(send_queue[k], i)
    BY <1>1, <1>2, <2>1, <2>3 DEF GetUnderWay, IsAnswer, GetFrom, S!Message
  <2>4. QED
    BY <2>2, <2>3
<1>5. QED
  BY <1>1, <1>3, <1>4 DEF GetsUnderWay

(* A GET that finds no room in receive_queue is lost. *)
LEMMA PutsWait ==
  ASSUME WaitInv, ServerPuts
  PROVE  DOMAIN get' = Sockets /\ NoSilence' /\ Waits' /\ GetsUnderWay'
<1> AgreeInv /\ TasksInv /\ NoSilence /\ Waits /\ GetsUnderWay /\ DOMAIN get = Sockets
  BY DEF WaitInv, AgreeInv
<1>1. /\ serverPc = "put" /\ S!NextSocket
      /\ receive_queue' = IF Len(receive_queue) < QueueLength
                          THEN Append(receive_queue, received_message) ELSE receive_queue
      /\ IF Len(receive_queue) = QueueLength /\ received_message.message_type = "GET_STATUS"
         THEN Lose(received_message.client) ELSE get' = get
      /\ UNCHANGED <<send_message, send_queue, ventPc, pending, rx, sr, socket_open>>
      /\ UNCHANGED last_command_received
  BY DEF ServerPuts, S!Put, S!Queued, S!socketVars, S!chipVars, ventVars
<1>2. DOMAIN get' = Sockets /\ \A i \in Sockets : get'[i] = "waiting" => get[i] = "waiting"
  BY <1>1, LoseOnly
<1>3. NoSilence' /\ Waits'
  BY <1>1, <1>2 DEF NoSilence, Waits, GetFrom, S!Message
<1>4. \A i \in Sockets : ToServe(i) => ToServe(i)'
  <2>1. \A i \in Sockets : ToServe(i) => i # turn
    BY <1>1, Known DEF ToServe
  <2>2. QED
    BY <1>1, <2>1, TurnMoves
<1>5. ASSUME NEW i \in Sockets, get'[i] = "waiting"
      PROVE  GetUnderWay(i)'
  <2>1. GetUnderWay(i)
    BY <1>2, <1>5 DEF GetsUnderWay
  <2>2. CASE Len(receive_queue) < QueueLength
    <3>1. /\ Len(receive_queue) \in Nat
          /\ Len(receive_queue') = Len(receive_queue) + 1
          /\ \A k \in 1..Len(receive_queue) : receive_queue'[k] = receive_queue[k]
          /\ receive_queue'[Len(receive_queue) + 1] = received_message
      <4>1. receive_queue \in Seq(SP!Received) /\ received_message \in SP!Received
        BY KnownMessages DEF TasksInv, SP!CleanInv, SP!Types, SP!MessageTypes
      <4>2. QED
        BY <1>1, <2>2, <4>1, KnownMessages, AppendProperties
    <3>2. CASE received_message = GetFrom(i)
      <4>1. Len(receive_queue) + 1 \in 1..Len(receive_queue')
        BY <3>1
      <4>2. QED
        BY <3>1, <3>2, <4>1 DEF GetUnderWay, GetFrom, S!Message
    <3>3. CASE \E k \in 1..Len(receive_queue) : receive_queue[k] = GetFrom(i)
      <4>1. PICK k \in 1..Len(receive_queue) : receive_queue[k] = GetFrom(i)
        BY <3>3
      <4>2. k \in 1..Len(receive_queue') /\ receive_queue'[k] = GetFrom(i)
        BY <3>1, <4>1
      <4>3. QED
        BY <4>2 DEF GetUnderWay, GetFrom, S!Message
    <3>4. CASE ~(received_message = GetFrom(i)
                 \/ \E k \in 1..Len(receive_queue) : receive_queue[k] = GetFrom(i))
      BY <1>1, <1>4, <2>1, <3>4 DEF GetUnderWay, IsAnswer, GetFrom, S!Message
    <3>5. QED
      BY <3>2, <3>3, <3>4
  <2>3. CASE ~(Len(receive_queue) < QueueLength)
    <3>1. Len(receive_queue) = QueueLength /\ receive_queue' = receive_queue
      BY <1>1, <2>3, KnownMessages, LimitsAssumption
    <3>2. received_message # GetFrom(i)
      <4> SUFFICES ASSUME received_message = GetFrom(i) PROVE FALSE
        OBVIOUS
      <4>1. received_message.client = i /\ received_message.message_type = "GET_STATUS"
        BY DEF GetFrom, S!Message
      <4>2. Lose(i)
        BY <1>1, <3>1, <4>1
      <4>3. QED
        BY <1>5, <4>2, LoseOnly
    <3>3. QED
      BY <1>1, <1>4, <2>1, <3>1, <3>2 DEF GetUnderWay, IsAnswer, GetFrom, S!Message
  <2>4. QED
    BY <2>2, <2>3
<1>6. QED
  BY <1>2, <1>3, <1>5 DEF GetsUnderWay

(* A request is taken: the answer to a GET is made at once. *)
LEMMA RequestWaits ==
  ASSUME WaitInv, VentRuns, V!HandleRequest, NEW i \in Sockets, GetUnderWay(i)
  PROVE  GetUnderWay(i)'
<1> AgreeInv /\ TasksInv
  BY DEF WaitInv, AgreeInv
<1>1. /\ UNCHANGED <<turn, serverPc, rx, received_message, send_message, send_queue>>
      /\ ventPc = "receive" /\ receive_queue # <<>>
      /\ receive_queue' = Tail(receive_queue)
      /\ LET m == Head(receive_queue) IN V!SetSpeed(m) \/ V!SetVakantie(m) \/ V!GetStatus(m)
  BY DEF VentRuns, V!HandleRequest, serverVars
<1>2. CASE \E k \in 1..Len(receive_queue) : receive_queue[k] = GetFrom(i)
  <2>1. PICK k \in 1..Len(receive_queue) : receive_queue[k] = GetFrom(i)
    BY <1>2
  <2>2. /\ Head(receive_queue) = receive_queue[1]
        /\ k = 1 \/ (k - 1 \in 1..Len(receive_queue') /\ receive_queue'[k - 1] = receive_queue[k])
    BY <1>1, KnownMessages, MovesUp
  <2>3. CASE k = 1
    <3>1. Head(receive_queue) = GetFrom(i)
      BY <2>1, <2>2, <2>3
    <3>2. GetFrom(i).message_type = "GET_STATUS" /\ GetFrom(i).client = i
      BY DEF GetFrom, S!Message
    <3>3. V!GetStatus(Head(receive_queue))
      BY <1>1, <3>1, <3>2 DEF V!SetSpeed, V!SetVakantie
    <3>4. /\ ventPc' = "reply"
          /\ pending' = <<V!SpeedMessage(i), V!VakantieMessage(i, currentVakantie)>>
      BY <3>1, <3>2, <3>3 DEF V!GetStatus
    <3>5. IsAnswer(Head(pending), i)'
      BY <3>4 DEF IsAnswer, V!SpeedMessage
    <3>6. QED
      BY <3>4, <3>5 DEF GetUnderWay
  <2>4. CASE k # 1
    BY <2>1, <2>2, <2>4 DEF GetUnderWay, GetFrom, S!Message
  <2>5. QED
    BY <2>3, <2>4
<1>3. CASE ~\E k \in 1..Len(receive_queue) : receive_queue[k] = GetFrom(i)
  BY <1>1, <1>3 DEF GetUnderWay, IsAnswer, ToServe, GetFrom, S!Message
<1>4. QED
  BY <1>2, <1>3

(* An answer is sent, or the client no longer waits for it. *)
LEMMA SendWaits ==
  ASSUME WaitInv, VentRuns, V!SendStatus \/ V!DropStatus,
         NEW i \in Sockets, get'[i] = "waiting", GetUnderWay(i)
  PROVE  GetUnderWay(i)'
<1> AgreeInv /\ TasksInv /\ DOMAIN get = Sockets
  BY DEF WaitInv, AgreeInv
<1>1. /\ UNCHANGED <<turn, serverPc, rx, received_message, send_message, receive_queue>>
      /\ ventPc = "reply" /\ IsAnswer(Head(pending), i) /\ Len(send_queue) = QueueLength
           => Lose(i)
  BY DEF VentRuns, Replies, IsAnswer, V!SendStatus, V!DropStatus, V!SendDone, serverVars
<1>2. CASE V!SendStatus
  <2>1. send_queue' = Append(send_queue, Head(pending)) /\ ventPc \in {"reply", "broadcast"}
    BY <1>2 DEF V!SendStatus, V!SendDone
  <2>2. Head(pending) \in V!Status
    BY <2>1, Known, HeadTailProperties
  <2>3. /\ Len(send_queue) \in Nat /\ Len(send_queue') = Len(send_queue) + 1
        /\ \A k \in 1..Len(send_queue) : send_queue'[k] = send_queue[k]
        /\ send_queue'[Len(send_queue) + 1] = Head(pending)
    BY <2>1, <2>2, Known, AppendProperties
  <2>4. CASE IsAnswer(Head(pending), i)
    <3>1. Len(send_queue) + 1 \in 1..Len(send_queue')
      BY <2>3
    <3>2. QED
      BY <2>3, <2>4, <3>1 DEF GetUnderWay, IsAnswer
  <2>5. CASE \E k \in 1..Len(send_queue) : IsAnswer(send_queue[k], i)
    <3>1. PICK k \in 1..Len(send_queue) : IsAnswer(send_queue[k], i)
      BY <2>5
    <3>2. k \in 1..Len(send_queue') /\ send_queue'[k] = send_queue[k]
      BY <2>3, <3>1
    <3>3. QED
      BY <3>1, <3>2 DEF GetUnderWay, IsAnswer
  <2>6. CASE ~(IsAnswer(Head(pending), i)
               \/ \E k \in 1..Len(send_queue) : IsAnswer(send_queue[k], i))
    BY <1>1, <2>6 DEF GetUnderWay, IsAnswer, ToServe, GetFrom, S!Message
  <2>7. QED
    BY <2>4, <2>5, <2>6
<1>3. CASE V!DropStatus
  <2>1. send_queue' = send_queue /\ Len(send_queue) = QueueLength
    BY <1>3 DEF V!DropStatus
  <2>2. ~(ventPc = "reply" /\ IsAnswer(Head(pending), i))
    BY <1>1, <2>1, LoseOnly
  <2>3. QED
    BY <1>1, <2>1, <2>2 DEF GetUnderWay, IsAnswer, ToServe, GetFrom, S!Message
<1>4. QED
  BY <1>2, <1>3

(* ventcontrol_task does not lose what it has taken. *)
LEMMA VentWaits ==
  ASSUME WaitInv, VentRuns
  PROVE  DOMAIN get' = Sockets /\ NoSilence' /\ Waits' /\ GetsUnderWay'
<1> AgreeInv /\ TasksInv /\ NoSilence /\ Waits /\ GetsUnderWay /\ DOMAIN get = Sockets
  BY DEF WaitInv, AgreeInv
<1>1. /\ V!Task
      /\ UNCHANGED <<turn, serverPc, rx, received_message, send_message>>
      /\ UNCHANGED <<sr, socket_open, last_command_received>>
      /\ (\E c : Lose(c)) \/ get' = get
  BY DEF VentRuns, serverVars
<1>2. DOMAIN get' = Sockets /\ \A i \in Sockets : get'[i] = "waiting" => get[i] = "waiting"
  BY <1>1, LoseOnly
<1>3. NoSilence' /\ Waits'
  BY <1>1, <1>2 DEF NoSilence, Waits, GetFrom, S!Message
<1>4. ASSUME NEW i \in Sockets, get'[i] = "waiting"
      PROVE  GetUnderWay(i)'
  <2>1. GetUnderWay(i)
    BY <1>2, <1>4 DEF GetsUnderWay
  <2>2. CASE V!HandleRequest
    BY <2>1, <2>2, RequestWaits
  <2>3. CASE V!SendStatus \/ V!DropStatus
    BY <1>4, <2>1, <2>3, SendWaits
  <2>4. CASE /\ V!NoRequest \/ V!HandleInput \/ V!NoInput \/ V!KeepSpeed
                \/ V!SelectLow \/ V!SelectHigh \/ V!CloseRelay
    <3>1. ventPc # "reply" /\ UNCHANGED <<receive_queue, send_queue>>
      BY <2>4 DEF V!NoRequest, V!HandleInput, V!NoInput, V!KeepSpeed, V!SelectLow,
                  V!SelectHigh, V!CloseRelay, V!queueVars
    <3>2. QED
      BY <1>1, <2>1, <3>1 DEF GetUnderWay, IsAnswer, ToServe, GetFrom, S!Message
  <2>5. QED
    BY <1>1, <2>2, <2>3, <2>4 DEF V!Task
<1>5. QED
  BY <1>2, <1>3, <1>4 DEF GetsUnderWay

(* A client waits from a GET on that comes first, until it closes the       *)
(* connection; what it sends besides leaves the GET where it is.           *)
LEMMA ClientWaits ==
  ASSUME WaitInv, NEW i \in Sockets,
         \/ ClientConnects(i) \/ ClientGets(i) \/ ClientSets(i) \/ ClientSendsOther(i)
         \/ ClientCloses(i)
  PROVE  DOMAIN get' = Sockets /\ NoSilence' /\ Waits' /\ GetsUnderWay'
<1> AgreeInv /\ TasksInv /\ NoSilence /\ Waits /\ GetsUnderWay /\ DOMAIN get = Sockets
  BY DEF WaitInv, AgreeInv
<1> DOMAIN sr = Sockets /\ DOMAIN rx = Sockets
  BY Known, KnownMessages
<1> USE DEF S!Connect, S!ClientSends, S!ClientCloses, S!taskVars, S!socketVars, S!queueVars, history
<1>1. /\ UNCHANGED <<turn, serverPc, received_message, send_message, receive_queue, send_queue>>
      /\ UNCHANGED <<socket_open, last_command_received>>
      /\ UNCHANGED ventVars
  BY DEF ClientConnects, ClientGets, GetComesFirst, GetComesBehind, GetComesCut, ClientSets,
         ClientSendsOther, ClientCloses, serverVars
<1>2. UNCHANGED <<ventPc, pending>>
  BY <1>1 DEF ventVars
<1>3. NoSilence'
  BY <1>1 DEF NoSilence
<1>4. DOMAIN get' = Sockets
  <2>1. get' = get \/ \E g \in {"none", "waiting", "lost"} : get' = [get EXCEPT ![i] = g]
    BY DEF ClientConnects, ClientGets, GetComesFirst, GetComesBehind, GetComesCut, ClientSets,
           ClientSendsOther, ClientCloses
  <2>2. QED
    BY <2>1
<1>5. ASSUME NEW j \in Sockets, get'[j] = "waiting"
      PROVE  \/ /\ get[j] = "waiting" /\ sr'[j] = sr[j]
                /\ rx'[j] = rx[j] \/ rx[j] = S!None
             \/ sr'[j] = "ESTABLISHED" /\ rx'[j] = GetFrom(j)
  <2>1. CASE ClientConnects(i)
    <3>1. get' = get /\ sr[i] = "LISTEN" /\ rx' = rx
          /\ sr' = [sr EXCEPT ![i] = "ESTABLISHED"]
      BY <2>1 DEF ClientConnects
    <3>2. j # i
      BY <1>5, <3>1 DEF Waits
    <3>3. QED
      BY <1>5, <3>1, <3>2
  <2>2. CASE ClientGets(i)
    <3>1. CASE GetComesFirst(i)
      <4>1. /\ get' = [get EXCEPT ![i] = "waiting"] /\ sr' = sr /\ sr[i] = "ESTABLISHED"
            /\ rx' = [rx EXCEPT ![i] = GetFrom(i)]
        BY <3>1 DEF GetComesFirst, Get, GetFrom
      <4>2. QED
        BY <1>5, <4>1
    <3>2. CASE GetComesBehind(i) \/ GetComesCut(i)
      <4>1. /\ get' = [get EXCEPT ![i] = "lost"] /\ sr' = sr
            /\ \A k \in Sockets : k # i => rx'[k] = rx[k]
        BY <3>2 DEF GetComesBehind, GetComesCut, serverVars
      <4>2. QED
        BY <1>5, <4>1
    <3>3. QED
      BY <2>2, <3>1, <3>2 DEF ClientGets
  <2>3. CASE ClientSets(i)
    <3>1. /\ get[i] # "waiting" /\ get' = get /\ sr' = sr
          /\ \A k \in Sockets : k # i => rx'[k] = rx[k]
      BY <2>3 DEF ClientSets
    <3>2. QED
      BY <1>5, <3>1
  <2>4. CASE ClientSendsOther(i)
    <3>1. /\ get' = get /\ sr' = sr /\ rx[i] = S!None
          /\ \A k \in Sockets : k # i => rx'[k] = rx[k]
      BY <2>4 DEF ClientSendsOther
    <3>2. QED
      BY <1>5, <3>1
  <2>5. CASE ClientCloses(i)
    <3>1. /\ get' = [get EXCEPT ![i] = "none"] /\ rx' = rx
          /\ sr' = [sr EXCEPT ![i] = "CLOSE_WAIT"]
      BY <2>5 DEF ClientCloses
    <3>2. QED
      BY <1>5, <3>1
  <2>6. QED
    BY <2>1, <2>2, <2>3, <2>4, <2>5
<1>6. Waits'
  <2> SUFFICES ASSUME NEW j \in Sockets, get'[j] = "waiting"
               PROVE  sr'[j] = "ESTABLISHED" /\ (socket_open'[j] \/ rx'[j] = GetFrom(j))
    BY DEF Waits, GetFrom, S!Message
  <2>1. QED
    BY <1>1, <1>5, KnownMessages DEF Waits
<1>7. GetsUnderWay'
  <2> SUFFICES ASSUME NEW j \in Sockets, get'[j] = "waiting" PROVE GetUnderWay(j)'
    BY DEF GetsUnderWay
  <2>1. CASE rx'[j] = GetFrom(j)
    BY <2>1 DEF GetUnderWay, GetFrom, S!Message
  <2>2. CASE rx'[j] # GetFrom(j)
    <3>1. GetUnderWay(j) /\ rx[j] # GetFrom(j)
      BY <1>5, <2>2, KnownMessages DEF GetsUnderWay
    <3>2. QED
      BY <1>1, <1>2, <3>1 DEF GetUnderWay, IsAnswer, ToServe, GetFrom, S!Message
  <2>3. QED
    BY <2>1, <2>2
<1>8. QED
  BY <1>3, <1>4, <1>6, <1>7

LEMMA StepWait == WaitInv /\ [Next]_vars => WaitInv'
<1> SUFFICES ASSUME WaitInv, [Next]_vars PROVE WaitInv'
  OBVIOUS
<1>1. AgreeInv'
  BY StepAgree DEF WaitInv
<1>2. DOMAIN get' = Sockets /\ NoSilence' /\ Waits' /\ GetsUnderWay'
  <2>1. CASE ServerServes
    BY <2>1, ServesWait
  <2>2. CASE ServerTakes
    BY <2>2, TakesWait
  <2>3. CASE ServerPuts
    BY <2>3, PutsWait
  <2>4. CASE VentRuns
    BY <2>4, VentWaits
  <2>5. CASE VentTick \/ UNCHANGED vars
    <3>1. /\ UNCHANGED <<turn, serverPc, rx, received_message, send_message>>
          /\ UNCHANGED <<sr, socket_open, last_command_received, get>>
          /\ UNCHANGED <<ventPc, pending, receive_queue, send_queue>>
      BY <2>5 DEF VentTick, V!Tick, V!taskVars, V!queueVars, vars, serverVars, ventVars, history
    <3>2. \A i \in Sockets : GetUnderWay(i) => GetUnderWay(i)'
      BY <3>1 DEF GetUnderWay, IsAnswer, ToServe, GetFrom, S!Message
    <3>3. GetsUnderWay'
      BY <3>1, <3>2 DEF WaitInv, GetsUnderWay
    <3>4. QED
      BY <3>1, <3>3 DEF WaitInv, NoSilence, Waits, GetFrom, S!Message
  <2>6. CASE \E i \in Sockets :
               \/ ClientConnects(i) \/ ClientGets(i) \/ ClientSets(i) \/ ClientSendsOther(i)
         \/ ClientCloses(i)
    BY <2>6, ClientWaits
  <2>7. QED
    BY <2>1, <2>2, <2>3, <2>4, <2>5, <2>6 DEF Next
<1>3. QED
  BY <1>1, <1>2 DEF WaitInv

-----------------------------------------------------------------------------
(* Theorems *)

LEMMA TasksInvariance == Spec => []TasksInv
BY InitTasks, StepTasks, PTL DEF Spec

(* ventcontrol_task and the clients are to the server what Server says its  *)
(* environment may be: they send commands of theirs, and ventcontrol_task  *)
(* puts nothing but status messages, and none in a full queue.             *)
THEOREM RunsServerHolds == Spec => RunsServer
<1>1. Init => S!Init
  BY DEF Init
<1>2. TasksInv /\ [Next]_vars => [S!Next]_(S!vars)
  BY ServerSteps
<1>3. QED
  BY <1>1, <1>2, TasksInvariance, PTL DEF Spec, RunsServer

(* The server is to ventcontrol_task what VentControl says it may be: what  *)
(* it puts on receive_queue is a request of one of its clients, whichever  *)
(* sockets are served in between, and none is put in a full queue.         *)
THEOREM RunsVentControlHolds == Spec => RunsVentControl
<1>1. Init => V!Init
  BY DEF Init
<1>2. TasksInv /\ [Next]_vars => [V!Next]_(V!vars)
  BY VentSteps
<1>3. QED
  BY <1>1, <1>2, TasksInvariance, PTL DEF Spec, RunsVentControl

(* With both tasks running: the relays are never closed together and are    *)
(* those of the speed the clients are told, and no connection is sent what *)
(* was meant for the one before it.                                        *)
THEOREM TasksStaySafe == Spec => [](V!Interlock /\ V!RelaysMatchSpeed /\ S!NoStaleText)
<1>1. TasksInv => V!Interlock /\ V!RelaysMatchSpeed /\ S!NoStaleText
  <2> SUFFICES ASSUME TasksInv PROVE V!Interlock /\ V!RelaysMatchSpeed /\ S!NoStaleText
    OBVIOUS
  <2>1. VP!Interlock /\ VP!RelaysMatchSpeed
    BY DEF TasksInv, VP!StatusInv, VP!Inv
  <2>2. V!Interlock /\ V!RelaysMatchSpeed
    BY <2>1 DEF V!Interlock, VP!Interlock, V!RelaysMatchSpeed, VP!RelaysMatchSpeed
  <2>3. S!NoStaleText
    BY DEF TasksInv, SP!CleanInv, SP!Clean, S!NoStaleText
  <2>4. QED
    BY <2>2, <2>3
<1>2. QED
  BY <1>1, TasksInvariance, PTL

(* A client that was told a speed, by a reply or an announcement, knows the *)
(* actual one when both tasks are at rest, for any number of clients, any   *)
(* order of the tasks' steps and connections that come and go: unless the  *)
(* full send_queue has cost the last announcement.                         *)
THEOREM ClientsAgreeHolds == Spec => []ClientsAgree
<1>1. AgreeInv => ClientsAgree
  <2> SUFFICES ASSUME AgreeInv, Quiet, ~missed, NEW i \in Sockets, sr[i] = "ESTABLISHED"
               PROVE  seen[i] \in {actualSpeed, Unknown}
    BY DEF ClientsAgree
  <2>1. Settled /\ SeenAgrees
    BY DEF Quiet, Settled, AgreeInv
  <2>2. ~Covered
    <3>1. Len(send_queue) = 0
      BY EmptySeq DEF Quiet
    <3>2. QED
      BY <3>1 DEF Covered
  <2>3. ~ToServe(i)
    BY DEF Quiet, ToServe
  <2>4. QED
    BY <2>1, <2>2, <2>3 DEF SeenAgrees
<1>2. QED
  BY <1>1, InitAgree, StepAgree, PTL DEF Spec

(* A GET that server_loop reads as the first command, and whole, passes two *)
(* queues and two tasks before it is answered, and only a full queue loses *)
(* it or the answer, for any number of clients: the timeout does not close *)
(* a connection that waits, no turn skips its answer, and neither the end  *)
(* of another connection nor what else this one sends takes it away.       *)
THEOREM GetsUnderWayHolds == Spec => []GetsUnderWay
<1>1. WaitInv => GetsUnderWay
  BY DEF WaitInv
<1>2. QED
  BY <1>1, InitWait, StepWait, PTL DEF Spec
=============================================================================
