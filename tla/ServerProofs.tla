----------------------------- MODULE ServerProofs -----------------------------
(***************************************************************************)
(* Proofs about Server for every number of sockets, every timeout and      *)
(* heartbeat and every length of the queues: its types, when a connection  *)
(* is closed, when it gets a heartbeat, and that it gets no text of an     *)
(* earlier one.                                                            *)
(***************************************************************************)
EXTENDS Server, SequenceTheorems, TLAPS

Texts == Replies \cup {None, HB}
States == {"CLOSED", "INIT", "LISTEN", "ESTABLISHED", "CLOSE_WAIT"}
Received == {None} \cup {Message(i, c.message_type, c.value) : i \in Sockets, c \in Commands}
From(i) == {None} \cup {Message(i, c.message_type, c.value) : c \in Commands}

(* The types, in parts. *)
TaskTypes ==
  /\ pc \in {"take", "serve", "put", "stopped"}
  /\ turn \in Sockets
  /\ passed \in BOOLEAN

MessageTypes ==
  /\ send_message \in Replies \cup {None}
  /\ received_message \in Received
  /\ pc = "put" <=> received_message # None

SocketTypes ==
  /\ socket_open \in [Sockets -> BOOLEAN]
  /\ send_buffer \in [Sockets -> Texts]
  /\ last_command_received \in [Sockets -> 0..Timeout + 1]
  /\ last_command_send \in [Sockets -> 0..KeepAlive + 1]

QueueTypes ==
  /\ receive_queue \in Seq(Received) /\ Len(receive_queue) <= QueueLength
  /\ send_queue \in Seq(Replies) /\ Len(send_queue) <= QueueLength

ChipTypes ==
  /\ sr \in [Sockets -> States]
  /\ rx \in [Sockets -> Received]
  /\ \A i \in Sockets : rx[i] \in From(i)

HistoryTypes ==
  /\ silent \in [Sockets -> Nat]
  /\ unsent \in [Sockets -> Nat]
  /\ stale \in [Sockets -> BOOLEAN]

Types ==
  TaskTypes /\ MessageTypes /\ SocketTypes /\ QueueTypes /\ ChipTypes /\ HistoryTypes

(* Socket i has had its turn since the clock moved. *)
Served(i) ==
  passed \/ (pc = "serve" /\ i < turn) \/ (pc = "put" /\ i <= turn)

(* What the timeout relies on.  A connection that has not been seen, or has *)
(* sent something that was not read, has done so within the last pass; of  *)
(* one that is watched the silence is counted, but for one unit, and at    *)
(* its turn it is closed for it.                                           *)
Watched(i) ==
  sr[i] = "ESTABLISHED" =>
    /\ ~socket_open[i] \/ rx[i] # None => silent[i] <= 1 /\ (Served(i) => silent[i] = 0)
    /\ socket_open[i] =>
         /\ silent[i] <= last_command_received[i] + 1
         /\ Served(i) => last_command_received[i] <= Timeout \/ silent[i] = 0

(* The same for the heartbeat. *)
Fed(i) ==
  sr[i] = "ESTABLISHED" =>
    /\ ~socket_open[i] => unsent[i] <= 1 /\ (Served(i) => unsent[i] = 0)
    /\ socket_open[i] =>
         /\ unsent[i] <= last_command_send[i] + 1
         /\ Served(i) => last_command_send[i] <= KeepAlive \/ unsent[i] = 0

TimeoutInv == Types /\ (pc # "stopped" => \A i \in Sockets : Watched(i))
HeartbeatInv == Types /\ (pc # "stopped" => \A i \in Sockets : Fed(i))

(* Without resets every connection begins with a socket that was closed by  *)
(* the task: nothing is left of the one before, neither a text nor the     *)
(* time it was silent.                                                     *)
Clean(i) ==
  /\ sr[i] \in Opened => ~socket_open[i]
  /\ sr[i] = "LISTEN" => send_buffer[i] = None
  /\ ~stale[i]
  /\ sr[i] = "ESTABLISHED" /\ socket_open[i] /\ rx[i] = None =>
       last_command_received[i] <= silent[i]

CleanInv == Types /\ \A i \in Sockets : Clean(i)
-----------------------------------------------------------------------------
(* Sockets, texts and turns *)

LEMMA Constants ==
  /\ KeepAlive \in Nat /\ Timeout \in Nat /\ QueueLength \in Nat /\ QueueLength > 0
  /\ Sockets \subseteq Int
  /\ Min(Sockets) \in Sockets /\ Max(Sockets) \in Sockets
  /\ \A i \in Sockets : Min(Sockets) <= i /\ i <= Max(Sockets)
  /\ \A i \in Sockets : i # Max(Sockets) => i + 1 \in Sockets
<1> DEFINE a == Min(Sockets)
           b == Max(Sockets)
<1>1. a \in Int /\ b \in Int /\ Sockets = a..b /\ Sockets # {}
  BY SocketsAssumption
<1> HIDE DEF a, b
<1>2. PICK x \in Sockets : TRUE
  BY <1>1
<1>3. a <= x /\ x <= b /\ x \in Int
  BY <1>1, <1>2
<1>4. a \in Sockets /\ b \in Sockets
  BY <1>1, <1>3
<1>5. \A i \in Sockets : a <= i /\ i <= b /\ (i # b => i + 1 \in Sockets)
  BY <1>1
<1>6. QED
  BY <1>1, <1>4, <1>5, TimesAssumption DEF a, b

LEMMA Distinct == None # HB /\ None.message_type \in Ignored /\ None \in Received
BY DEF None, HB, Message, Ignored, Received

LEMMA CommandIsSome ==
  ASSUME NEW i, NEW c \in Commands
  PROVE  Message(i, c.message_type, c.value) # None
<1>1. Message(i, c.message_type, c.value).message_type # "NO_MESSAGE"
  BY CommandsAssumption DEF Message
<1>2. QED
  BY <1>1 DEF None, Message

LEMMA TextType ==
  ASSUME Types, NEW i \in Sockets
  PROVE  /\ Text(i) \in Texts
         /\ Text(i) = None /\ socket_open[i] => last_command_send[i] <= KeepAlive
         /\ ~socket_open[i] => Text(i) = send_buffer[i]
<1>1. /\ send_buffer[i] \in Texts
      /\ send_message \in Replies \cup {None}
      /\ last_command_send[i] \in 0..KeepAlive + 1
  BY DEF Types, SocketTypes, MessageTypes
<1>2. last_command_send[i] \in Int /\ KeepAlive \in Int
  BY <1>1, Constants
<1>3. CASE ~socket_open[i]
  BY <1>1, <1>3 DEF Text
<1>4. CASE socket_open[i] /\ ForSocket(i)
  BY <1>1, <1>4 DEF Text, ForSocket, Texts
<1>5. CASE socket_open[i] /\ ~ForSocket(i)
  <2>1. CASE send_buffer[i] = None /\ last_command_send[i] > KeepAlive
    BY <1>5, <2>1, Distinct DEF Text, Texts
  <2>2. CASE ~(send_buffer[i] = None /\ last_command_send[i] > KeepAlive)
    <3>1. Text(i) = send_buffer[i]
      BY <1>5, <2>2 DEF Text
    <3>2. Text(i) = None => last_command_send[i] <= KeepAlive
      BY <3>1, <2>2, <1>2
    <3>3. QED
      BY <3>1, <3>2, <1>1
  <2>3. QED
    BY <2>1, <2>2
<1>6. QED
  BY <1>3, <1>4, <1>5

(* A turn ends: only the socket whose turn it was has been served since. *)
LEMMA TurnEnds ==
  ASSUME TaskTypes, pc \in {"serve", "put"}, NextSocket
  PROVE  /\ TaskTypes'
         /\ pc' \in {"take", "serve"}
         /\ \A j \in Sockets : Served(j)' => Served(j) \/ j = turn
<1>1. turn \in Sockets /\ turn \in Int /\ passed \in BOOLEAN
  BY Constants DEF TaskTypes
<1>2. CASE turn = Max(Sockets)
  <2>1. pc' = "take" /\ turn' = turn /\ passed' = TRUE
    BY <1>2, <1>1 DEF NextSocket
  <2>2. ASSUME NEW j \in Sockets, j # turn PROVE Served(j)
    <3>1. j < turn
      BY <1>1, <1>2, <2>2, Constants
    <3>2. QED
      BY <3>1, <1>1 DEF Served
  <2>3. QED
    BY <2>1, <2>2, <1>1 DEF TaskTypes
<1>3. CASE turn # Max(Sockets)
  <2>1. pc' = "serve" /\ turn' = turn + 1 /\ passed' = passed
    BY <1>3, <1>1 DEF NextSocket
  <2>2. turn + 1 \in Sockets
    BY <1>1, <1>3, Constants
  <2>3. ASSUME NEW j \in Sockets, Served(j)', j # turn PROVE Served(j)
    <3>1. CASE passed
      BY <3>1 DEF Served
    <3>2. CASE ~passed
      <4>1. j < turn + 1
        BY <2>1, <2>3, <3>2 DEF Served
      <4>2. j < turn
        BY <4>1, <1>1, <2>3, Constants
      <4>3. j <= turn
        BY <4>2, <1>1, Constants
      <4>4. QED
        BY <4>2, <4>3 DEF Served
    <3>3. QED
      BY <3>1, <3>2
  <2>4. QED
    BY <2>1, <2>2, <2>3, <1>1 DEF TaskTypes
<1>4. QED
  BY <1>2, <1>3

-----------------------------------------------------------------------------
(* The turn of a socket *)

(* The connection of the socket goes on. *)
GoesOn(i) == Connected(i) \/ ReceiveBusy(i) \/ ReceiveShort(i)

(* However the turn of a socket that is not served ends, the socket has no  *)
(* connection then.  It is only left open if it had none before, and only  *)
(* left with a text when it does not listen or did already.                *)
LEMMA Leaves ==
  ASSUME Types, ServeSocket(turn), ~GoesOn(turn)
  PROVE  \E state \in Opened, open \in BOOLEAN, text \in Texts :
           /\ Leave(turn, state, open, text)
           /\ open => socket_open[turn] /\ sr[turn] \in Opened
           /\ state = "LISTEN" => text = None \/ (sr[turn] = "LISTEN" /\ text = Text(turn))
<1>1. /\ turn \in Sockets /\ socket_open[turn] \in BOOLEAN
      /\ Text(turn) \in Texts /\ None \in Texts
  <2>1. turn \in Sockets
    BY DEF Types, TaskTypes
  <2>2. QED
    BY <2>1, TextType DEF Types, SocketTypes, Texts
<1>2. /\ "CLOSED" \in Opened /\ "INIT" \in Opened /\ "LISTEN" \in Opened
  BY DEF Opened
<1>3. CASE CloseSilent(turn)
  BY <1>1, <1>2, <1>3 DEF CloseSilent
<1>4. CASE ReceiveError(turn)
  BY <1>1, <1>2, <1>4 DEF ReceiveError
<1>5. CASE SendError(turn)
  BY <1>1, <1>2, <1>5 DEF SendError
<1>6. CASE CloseWait(turn)
  BY <1>1, <1>2, <1>6 DEF CloseWait
<1>7. CASE Reopen(turn)
  BY <1>1, <1>2, <1>7 DEF Reopen
<1>8. CASE ReopenFails(turn)
  BY <1>1, <1>2, <1>8 DEF ReopenFails
<1>9. CASE Listen(turn)
  BY <1>1, <1>2, <1>9 DEF Listen
<1>10. CASE ListenFails(turn)
  BY <1>1, <1>2, <1>10 DEF ListenFails
<1>11. CASE StillListening(turn)
  BY <1>1, <1>2, <1>11 DEF StillListening
<1>12. QED
  BY <1>3, <1>4, <1>5, <1>6, <1>7, <1>8, <1>9, <1>10, <1>11 DEF ServeSocket, GoesOn

LEMMA LeaveTypes ==
  ASSUME Types, Serve, NEW state \in Opened, NEW open \in BOOLEAN, NEW text \in Texts,
         Leave(turn, state, open, text)
  PROVE  Types'
<1> pc = "serve" /\ UNCHANGED <<send_message, queueVars>>
  BY DEF Serve
<1>1. /\ TaskTypes' /\ pc' # "put"
  <2>1. TaskTypes /\ NextSocket
    BY DEF Types, Leave
  <2>2. QED
    BY <2>1, TurnEnds
<1>2. MessageTypes'
  <2>1. UNCHANGED <<send_message, received_message>>
    BY DEF Leave
  <2>2. QED
    BY <2>1, <1>1 DEF Types, MessageTypes
<1>3. SocketTypes'
  BY DEF Types, SocketTypes, Leave
<1>4. QueueTypes'
  BY DEF Types, QueueTypes, queueVars
<1>5. ChipTypes'
  BY Distinct DEF Types, ChipTypes, From, Leave, Opened, States
<1>6. HistoryTypes'
  BY DEF Types, HistoryTypes, Leave, history
<1>7. QED
  BY <1>1, <1>2, <1>3, <1>4, <1>5, <1>6 DEF Types

(* A turn of a connected socket: the next one's, or the command is put. *)
LEMMA HandleTurn ==
  ASSUME TaskTypes, MessageTypes, pc = "serve", NEW c \in Received, Handle(c)
  PROVE  /\ TaskTypes' /\ pc' # "stopped"
         /\ received_message' \in Received
         /\ pc' = "put" <=> received_message' # None
         /\ \A j \in Sockets : Served(j)' => Served(j) \/ j = turn
<1>1. CASE c.message_type \in Ignored
  <2>1. NextSocket /\ received_message' = received_message
    BY <1>1 DEF Handle
  <2>2. QED
    BY <2>1, TurnEnds DEF MessageTypes
<1>2. CASE c.message_type \notin Ignored
  <2>1. pc' = "put" /\ received_message' = c /\ turn' = turn /\ passed' = passed
    BY <1>2 DEF Handle
  <2>2. c # None
    BY <1>2, Distinct
  <2>3. TaskTypes'
    BY <2>1 DEF TaskTypes
  <2>4. ASSUME NEW j \in Sockets, Served(j)', j # turn PROVE Served(j)
    <3>1. passed \/ j <= turn
      BY <2>1, <2>4 DEF Served
    <3>2. j <= turn => j < turn
      BY <2>4, Constants DEF TaskTypes
    <3>3. QED
      BY <3>1, <3>2 DEF Served
  <2>5. QED
    BY <2>1, <2>2, <2>3, <2>4
<1>3. QED
  BY <1>1, <1>2

LEMMA AgoTypes ==
  ASSUME Types, NEW i \in Sockets
  PROVE  /\ ReceivedNow(i) \in 0..Timeout + 1 /\ ReceivedAgo(i) \in 0..Timeout + 1
         /\ SentNow(i) \in 0..KeepAlive + 1 /\ SentAgo(i) \in 0..KeepAlive + 1
<1>1. last_command_received[i] \in 0..Timeout + 1 /\ last_command_send[i] \in 0..KeepAlive + 1
  BY DEF Types, SocketTypes
<1>2. 0 \in 0..Timeout + 1 /\ 0 \in 0..KeepAlive + 1
  BY Constants
<1>3. QED
  BY <1>1, <1>2 DEF ReceivedNow, ReceivedAgo, SentNow, SentAgo

LEMMA SendTypes ==
  ASSUME Types, SendText(turn)
  PROVE  /\ send_buffer' = [send_buffer EXCEPT ![turn] = None]
         /\ \E sent \in Nat : unsent' = [unsent EXCEPT ![turn] = sent]
         /\ stale' = [stale EXCEPT ![turn] = FALSE]
<1>1. turn \in Sockets /\ unsent \in [Sockets -> Nat] /\ 0 \in Nat
  BY DEF Types, TaskTypes, HistoryTypes
<1>2. unsent = [unsent EXCEPT ![turn] = unsent[turn]] /\ unsent[turn] \in Nat
  BY <1>1
<1>3. QED
  BY <1>1, <1>2 DEF SendText

(* What the turn of a connection that goes on may change: its own socket,   *)
(* the message that is put, and whose turn is next.                        *)
Turn(received, sent, text, unread, ago, old, c) ==
  /\ Seen(turn, received, sent)
  /\ send_buffer' = [send_buffer EXCEPT ![turn] = text]
  /\ rx' = [rx EXCEPT ![turn] = unread]
  /\ unsent' = [unsent EXCEPT ![turn] = ago]
  /\ stale' = [stale EXCEPT ![turn] = old]
  /\ Handle(c)

LEMMA GoesOnTurn ==
  ASSUME Types, GoesOn(turn)
  PROVE  \E received \in 0..Timeout + 1, sent \in 0..KeepAlive + 1, text \in Texts,
            unread \in From(turn), ago \in Nat, old \in BOOLEAN, c \in Received :
           Turn(received, sent, text, unread, ago, old, c)
<1>1. /\ turn \in Sockets /\ Text(turn) \in Texts /\ None \in Texts
      /\ rx \in [Sockets -> Received] /\ rx[turn] \in From(turn)
      /\ unsent \in [Sockets -> Nat] /\ stale \in [Sockets -> BOOLEAN]
      /\ None \in From(turn) /\ None \in Received
  BY TextType, Distinct DEF Types, TaskTypes, ChipTypes, HistoryTypes, Texts, From
<1>2. /\ ReceivedNow(turn) \in 0..Timeout + 1 /\ ReceivedAgo(turn) \in 0..Timeout + 1
      /\ SentNow(turn) \in 0..KeepAlive + 1 /\ SentAgo(turn) \in 0..KeepAlive + 1
  BY <1>1, AgoTypes
<1>3. CASE Connected(turn)
  BY <1>1, <1>2, <1>3, SendTypes DEF Connected, Turn
<1>4. CASE ReceiveBusy(turn)
  <2>1. Handle(None)
    BY <1>4, Distinct DEF ReceiveBusy, Handle
  <2>2. /\ rx' = [rx EXCEPT ![turn] = rx[turn]]
        /\ unsent' = [unsent EXCEPT ![turn] = unsent[turn]] /\ unsent[turn] \in Nat
        /\ stale' = [stale EXCEPT ![turn] = stale[turn]] /\ stale[turn] \in BOOLEAN
    BY <1>1, <1>4 DEF ReceiveBusy
  <2>3. QED
    BY <1>1, <1>2, <1>4, <2>1, <2>2 DEF ReceiveBusy, Turn
<1>5. CASE ReceiveShort(turn)
  <2>1. \E c \in {None, rx[turn]} : c \in Received /\ Handle(c)
    BY <1>1, <1>5 DEF ReceiveShort
  <2>2. \E unread \in From(turn) : rx' = [rx EXCEPT ![turn] = unread]
    BY <1>5 DEF ReceiveShort, From
  <2>3. QED
    BY <1>1, <1>2, <1>5, <2>1, <2>2, SendTypes DEF ReceiveShort, Turn
<1>6. QED
  BY <1>3, <1>4, <1>5 DEF GoesOn

LEMMA GoesOnTypes == Types /\ Serve /\ GoesOn(turn) => Types'
<1> SUFFICES ASSUME Types, Serve, GoesOn(turn) PROVE Types'
  OBVIOUS
<1> pc = "serve" /\ UNCHANGED <<send_message, queueVars>>
  BY DEF Serve
<1> turn \in Sockets
  BY DEF Types, TaskTypes
<1>1. PICK received \in 0..Timeout + 1, sent \in 0..KeepAlive + 1, text \in Texts,
           unread \in From(turn), ago \in Nat, old \in BOOLEAN, c \in Received :
             Turn(received, sent, text, unread, ago, old, c)
  BY GoesOnTurn
<1>2. TaskTypes' /\ MessageTypes'
  BY <1>1, HandleTurn DEF Turn, Types, MessageTypes
<1>3. SocketTypes'
  BY <1>1 DEF Types, SocketTypes, Turn, Seen
<1>4. QueueTypes'
  BY DEF Types, QueueTypes, queueVars
<1>5. ChipTypes'
  <2>1. unread \in Received
    BY <1>1 DEF From, Received
  <2>2. QED
    BY <1>1, <2>1 DEF Types, ChipTypes, Turn, Seen, From
<1>6. HistoryTypes'
  BY <1>1 DEF Types, HistoryTypes, Turn, Seen
<1>7. QED
  BY <1>2, <1>3, <1>4, <1>5, <1>6 DEF Types

(* What a turn leaves alone: the other sockets. *)
LEMMA ServeOthers ==
  ASSUME Types, Serve, NEW j \in Sockets, j # turn
  PROVE  /\ sr'[j] = sr[j] /\ rx'[j] = rx[j]
         /\ socket_open'[j] = socket_open[j] /\ send_buffer'[j] = send_buffer[j]
         /\ last_command_received'[j] = last_command_received[j]
         /\ last_command_send'[j] = last_command_send[j]
         /\ silent'[j] = silent[j] /\ unsent'[j] = unsent[j] /\ stale'[j] = stale[j]
         /\ Served(j)' => Served(j)
<1> pc = "serve" /\ ServeSocket(turn) /\ turn \in Sockets
  BY DEF Serve, Types, TaskTypes
<1>1. CASE GoesOn(turn)
  <2>1. PICK received \in 0..Timeout + 1, sent \in 0..KeepAlive + 1, text \in Texts,
             unread \in From(turn), ago \in Nat, old \in BOOLEAN, c \in Received :
               Turn(received, sent, text, unread, ago, old, c)
    BY <1>1, GoesOnTurn
  <2>2. Served(j)' => Served(j)
    BY <2>1, HandleTurn DEF Types, Turn
  <2>3. QED
    BY <2>1, <2>2 DEF Turn, Seen, Types, SocketTypes, ChipTypes, HistoryTypes
<1>2. CASE ~GoesOn(turn)
  <2>1. PICK state \in Opened, open \in BOOLEAN, text \in Texts :
          Leave(turn, state, open, text)
    BY <1>2, Leaves
  <2>2. Served(j)' => Served(j)
    <3>1. NextSocket
      BY <2>1 DEF Leave
    <3>2. QED
      BY <3>1, TurnEnds DEF Types
  <2>3. QED
    BY <2>1, <2>2 DEF Leave, Types, SocketTypes, ChipTypes, HistoryTypes, history
<1>3. QED
  BY <1>1, <1>2

LEMMA ServeTypes == Types /\ Serve => Types' /\ pc # "stopped"
<1> SUFFICES ASSUME Types, Serve PROVE Types' /\ pc # "stopped"
  OBVIOUS
<1>1. ServeSocket(turn) /\ pc = "serve"
  BY DEF Serve
<1>2. CASE GoesOn(turn)
  BY <1>1, <1>2, GoesOnTypes
<1>3. CASE ~GoesOn(turn)
  BY <1>1, <1>3, Leaves, LeaveTypes
<1>4. QED
  BY <1>2, <1>3

-----------------------------------------------------------------------------
(* Types *)

LEMMA InitTypes == Init => Types
<1> SUFFICES ASSUME Init PROVE Types
  OBVIOUS
<1>1. TaskTypes /\ MessageTypes
  BY Constants, Distinct DEF Init, TaskTypes, MessageTypes
<1>2. SocketTypes
  BY Constants DEF Init, SocketTypes, Texts
<1>3. QueueTypes
  BY Constants, EmptySeq DEF Init, QueueTypes
<1>4. ChipTypes
  BY Distinct DEF Init, ChipTypes, From, States, Opened
<1>5. HistoryTypes
  BY DEF Init, HistoryTypes
<1>6. QED
  BY <1>1, <1>2, <1>3, <1>4, <1>5 DEF Types

LEMMA TakeTypes == Types /\ Take => Types'
<1> SUFFICES ASSUME Types, Take PROVE Types'
  OBVIOUS
<1>1. TaskTypes'
  BY Constants DEF Types, TaskTypes, Take
<1>2. /\ send_message' \in Replies \cup {None}
      /\ send_queue' \in Seq(Replies) /\ Len(send_queue') <= QueueLength
  <2>1. send_queue \in Seq(Replies) /\ Len(send_queue) <= QueueLength
    BY DEF Types, QueueTypes
  <2>2. CASE send_queue = <<>>
    BY <2>1, <2>2 DEF Take
  <2>3. CASE send_queue # <<>>
    <3>1. send_message' = Head(send_queue) /\ send_queue' = Tail(send_queue)
      BY <2>3 DEF Take
    <3>2. /\ Head(send_queue) \in Replies /\ Tail(send_queue) \in Seq(Replies)
          /\ Len(Tail(send_queue)) = Len(send_queue) - 1
      BY <2>1, <2>3, HeadTailProperties
    <3>3. Len(send_queue) \in Nat
      BY <2>1, LenProperties
    <3>4. QED
      BY <2>1, <3>1, <3>2, <3>3, Constants
  <2>4. QED
    BY <2>2, <2>3
<1>3. MessageTypes' /\ QueueTypes'
  BY <1>2 DEF Types, MessageTypes, QueueTypes, Take
<1>4. SocketTypes' /\ ChipTypes' /\ HistoryTypes'
  BY DEF Types, SocketTypes, ChipTypes, HistoryTypes, Take, socketVars, chipVars, history
<1>5. QED
  BY <1>1, <1>3, <1>4 DEF Types

LEMMA PutTypes == Types /\ Put => Types'
<1> SUFFICES ASSUME Types, Put PROVE Types'
  OBVIOUS
<1>1. TaskTypes' /\ pc' # "put"
  <2>1. TaskTypes /\ pc = "put" /\ NextSocket
    BY DEF Types, Put
  <2>2. QED
    BY <2>1, TurnEnds
<1>2. MessageTypes'
  BY <1>1, Distinct DEF Types, MessageTypes, Put
<1>3. QueueTypes'
  <2>1. /\ receive_queue \in Seq(Received) /\ Len(receive_queue) <= QueueLength
        /\ received_message \in Received
    BY DEF Types, QueueTypes, MessageTypes
  <2>2. /\ Append(receive_queue, received_message) \in Seq(Received)
        /\ Len(Append(receive_queue, received_message)) = Len(receive_queue) + 1
        /\ Len(receive_queue) \in Nat
    BY <2>1, AppendProperties, LenProperties
  <2>3. receive_queue' \in Seq(Received) /\ Len(receive_queue') <= QueueLength
    BY <2>1, <2>2, Constants DEF Put, Queued
  <2>4. QED
    BY <2>3 DEF Types, QueueTypes, Put
<1>4. SocketTypes' /\ ChipTypes' /\ HistoryTypes'
  BY DEF Types, SocketTypes, ChipTypes, HistoryTypes, Put, socketVars, chipVars, history
<1>5. QED
  BY <1>1, <1>2, <1>3, <1>4 DEF Types

LEMMA StopStartTypes == Types /\ (Stop \/ Start) => Types'
<1>1. ASSUME Types, Stop PROVE Types'
  BY <1>1 DEF Stop, Types, TaskTypes, MessageTypes, SocketTypes, QueueTypes, ChipTypes,
              HistoryTypes, socketVars, queueVars, chipVars, history
<1>2. ASSUME Types, Start PROVE Types'
  <2>1. TaskTypes' /\ MessageTypes'
    BY <1>2 DEF Start, Types, TaskTypes, MessageTypes
  <2>2. SocketTypes'
    BY <1>2 DEF Start, Restarted, Types, SocketTypes, Texts
  <2>3. QueueTypes'
    BY <1>2 DEF Start, Types, QueueTypes, queueVars
  <2>4. ChipTypes'
    <3>1. sr' \in [Sockets -> States]
      BY <1>2 DEF Start, Opened, States
    <3>2. rx' = [i \in Sockets |-> None]
      BY <1>2 DEF Start
    <3>3. QED
      BY <3>1, <3>2, Distinct DEF ChipTypes, From
  <2>5. HistoryTypes'
    BY <1>2 DEF Start, Types, HistoryTypes
  <2>6. QED
    BY <2>1, <2>2, <2>3, <2>4, <2>5 DEF Types
<1>3. QED
  BY <1>1, <1>2

(* A clock counts up to its limit. *)
LEMMA CountsUp ==
  ASSUME NEW limit \in Nat, NEW n \in Nat
  PROVE  /\ UpTo(limit, n + 1) \in 0..limit
         /\ UpTo(limit, n + 1) <= n + 1
         /\ n < limit => UpTo(limit, n + 1) = n + 1
BY DEF UpTo

LEMMA TickTypes == Types /\ Tick => Types'
<1> SUFFICES ASSUME Types, Tick PROVE Types'
  OBVIOUS
<1>1. TaskTypes' /\ MessageTypes' /\ QueueTypes' /\ ChipTypes'
  BY DEF Tick, Types, TaskTypes, MessageTypes, QueueTypes, ChipTypes, queueVars, chipVars
<1>2. SocketTypes'
  <2>1. ASSUME NEW i \in Sockets
        PROVE  /\ UpTo(Timeout + 1, last_command_received[i] + 1) \in 0..Timeout + 1
               /\ UpTo(KeepAlive + 1, last_command_send[i] + 1) \in 0..KeepAlive + 1
    <3>1. last_command_received[i] \in Nat /\ last_command_send[i] \in Nat
      BY Constants DEF Types, SocketTypes
    <3>2. QED
      BY <3>1, CountsUp, Constants
  <2>2. QED
    BY <2>1 DEF Tick, Types, SocketTypes
<1>3. HistoryTypes'
  <2>1. ASSUME NEW i \in Sockets
        PROVE  /\ UpTo(Timeout + 3, silent[i] + 1) \in Nat
               /\ UpTo(KeepAlive + 3, unsent[i] + 1) \in Nat
    <3>1. silent[i] \in Nat /\ unsent[i] \in Nat
      BY DEF Types, HistoryTypes
    <3>2. QED
      BY <3>1, CountsUp, Constants
  <2>2. QED
    BY <2>1 DEF Tick, Types, HistoryTypes
<1>4. QED
  BY <1>1, <1>2, <1>3 DEF Types

(* The steps of the clients and of the chip, and those on the queues. *)
ClientStep ==
  \/ \E i \in Sockets : Connect(i) \/ ClientCloses(i) \/ ConnectionReset(i)
  \/ \E i \in Sockets, c \in Commands : ClientSends(i, c)

VentStep == VentTakes \/ \E m \in Replies : VentPuts(m)

LEMMA ClientTypes == Types /\ ClientStep => Types'
<1> SUFFICES ASSUME Types, ClientStep PROVE Types'
  OBVIOUS
<1>1. UNCHANGED <<taskVars, socketVars, queueVars>>
  BY DEF ClientStep, Connect, ClientCloses, ConnectionReset, ClientSends, history
<1>2. TaskTypes' /\ MessageTypes' /\ SocketTypes' /\ QueueTypes'
  BY <1>1 DEF Types, TaskTypes, MessageTypes, SocketTypes, QueueTypes,
              taskVars, socketVars, queueVars
<1>3. ChipTypes' /\ HistoryTypes'
  <2> /\ sr \in [Sockets -> States] /\ rx \in [Sockets -> Received] /\ ChipTypes
      /\ silent \in [Sockets -> Nat] /\ unsent \in [Sockets -> Nat] /\ stale \in [Sockets -> BOOLEAN]
    BY DEF Types, ChipTypes, HistoryTypes
  <2>1. ASSUME NEW i \in Sockets, Connect(i) PROVE ChipTypes' /\ HistoryTypes'
    BY <2>1 DEF Connect, ChipTypes, HistoryTypes, States
  <2>2. ASSUME NEW i \in Sockets, ClientCloses(i) PROVE ChipTypes' /\ HistoryTypes'
    BY <2>2 DEF ClientCloses, ChipTypes, HistoryTypes, States, history
  <2>3. ASSUME NEW i \in Sockets, ConnectionReset(i) PROVE ChipTypes' /\ HistoryTypes'
    BY <2>3, Distinct DEF ConnectionReset, ChipTypes, From, HistoryTypes, States, history
  <2>4. ASSUME NEW i \in Sockets, NEW c \in Commands, ClientSends(i, c)
        PROVE  ChipTypes' /\ HistoryTypes'
    <3>1. Message(i, c.message_type, c.value) \in Received
      BY DEF Received
    <3>2. ChipTypes'
      BY <2>4, <3>1 DEF ClientSends, ChipTypes, From
    <3>3. HistoryTypes'
      BY <2>4 DEF ClientSends, HistoryTypes
    <3>4. QED
      BY <3>2, <3>3
  <2>5. QED
    BY <2>1, <2>2, <2>3, <2>4 DEF ClientStep
<1>4. QED
  BY <1>2, <1>3 DEF Types

LEMMA VentTypes == Types /\ VentStep => Types'
<1> SUFFICES ASSUME Types, VentStep PROVE Types'
  OBVIOUS
<1>1. UNCHANGED <<taskVars, socketVars, chipVars, history>>
  BY DEF VentStep, VentPuts, VentTakes
<1>2. TaskTypes' /\ MessageTypes' /\ SocketTypes' /\ ChipTypes' /\ HistoryTypes'
  BY <1>1 DEF Types, TaskTypes, MessageTypes, SocketTypes, ChipTypes, HistoryTypes,
              taskVars, socketVars, chipVars, history
<1>3. QueueTypes'
  <2>1. /\ receive_queue \in Seq(Received) /\ Len(receive_queue) <= QueueLength
        /\ send_queue \in Seq(Replies) /\ Len(send_queue) <= QueueLength
    BY DEF Types, QueueTypes
  <2>2. ASSUME VentTakes PROVE QueueTypes'
    <3>1. /\ receive_queue # <<>> /\ receive_queue' = Tail(receive_queue)
          /\ send_queue' = send_queue
      BY <2>2 DEF VentTakes
    <3>2. /\ Tail(receive_queue) \in Seq(Received)
          /\ Len(Tail(receive_queue)) = Len(receive_queue) - 1
          /\ Len(receive_queue) \in Nat
      BY <2>1, <3>1, HeadTailProperties, LenProperties
    <3>3. QED
      BY <2>1, <3>1, <3>2, Constants DEF QueueTypes
  <2>3. ASSUME NEW m \in Replies, VentPuts(m) PROVE QueueTypes'
    <3>1. /\ Len(send_queue) < QueueLength /\ send_queue' = Append(send_queue, m)
          /\ receive_queue' = receive_queue
      BY <2>3 DEF VentPuts
    <3>2. /\ Append(send_queue, m) \in Seq(Replies)
          /\ Len(Append(send_queue, m)) = Len(send_queue) + 1
          /\ Len(send_queue) \in Nat
      BY <2>1, AppendProperties, LenProperties
    <3>3. QED
      BY <2>1, <3>1, <3>2, Constants DEF QueueTypes
  <2>4. QED
    BY <2>2, <2>3 DEF VentStep
<1>4. QED
  BY <1>2, <1>3 DEF Types

LEMMA Steps ==
  [Next]_vars <=>
    \/ Take \/ Serve \/ Put \/ Stop \/ Start \/ Tick \/ ClientStep \/ VentStep
    \/ UNCHANGED vars
BY DEF Next, Task, Environment, ClientStep, VentStep

LEMMA UnchangedTypes == Types /\ UNCHANGED vars => Types'
BY DEF Types, TaskTypes, MessageTypes, SocketTypes, QueueTypes, ChipTypes, HistoryTypes,
       vars, taskVars, socketVars, queueVars, chipVars, history

LEMMA StepTypes == Types /\ [Next]_vars => Types'
BY Steps, TakeTypes, ServeTypes, PutTypes, StopStartTypes, TickTypes, ClientTypes, VentTypes,
   UnchangedTypes

(* Types, a message to put exactly when one is being put, and queues that   *)
(* never hold more than they were created for (xQueueCreate in main.c).    *)
THEOREM TypesHold == Spec => []TypeOK
<1>1. Types => TypeOK
  BY DEF Types, TaskTypes, MessageTypes, SocketTypes, QueueTypes, ChipTypes, TypeOK, Texts, States, From
<1>2. QED
  BY <1>1, InitTypes, StepTypes, PTL DEF Spec

-----------------------------------------------------------------------------
(* Time *)

(* What Take, Put, Stop and the steps of the queues leave alone. *)
LEMMA QuietSteps ==
  ASSUME Types, Take \/ Put \/ Stop \/ VentStep \/ UNCHANGED vars
  PROVE  /\ UNCHANGED <<socketVars, chipVars, history>>
         /\ \A i \in Sockets : Served(i)' => Served(i)
         /\ pc' # "stopped" => pc # "stopped"
<1>1. CASE Take
  <2>1. pc = "take" /\ turn' = Min(Sockets) /\ passed' = passed /\ pc' = "serve"
    BY <1>1 DEF Take
  <2>2. ASSUME NEW i \in Sockets PROVE ~(i < Min(Sockets))
    <3>1. i \in Int /\ Min(Sockets) \in Int /\ Min(Sockets) <= i
      BY Constants
    <3>2. QED
      BY <3>1
  <2>3. QED
    BY <1>1, <2>1, <2>2 DEF Take, Served
<1>2. CASE Put
  <2>1. TaskTypes /\ pc = "put" /\ NextSocket /\ turn \in Int
    BY <1>2, Constants DEF Types, TaskTypes, Put
  <2>2. turn <= turn
    BY <2>1
  <2>3. Served(turn)
    BY <2>1, <2>2 DEF Served
  <2>4. \A j \in Sockets : Served(j)' => Served(j) \/ j = turn
    BY <2>1, TurnEnds
  <2>5. QED
    BY <1>2, <2>1, <2>3, <2>4 DEF Put
<1>3. CASE Stop
  BY <1>3 DEF Stop, Served
<1>4. CASE VentStep
  BY <1>4 DEF VentStep, VentPuts, VentTakes, Served, taskVars
<1>5. CASE UNCHANGED vars
  BY <1>5 DEF vars, taskVars, Served
<1>6. QED
  BY <1>1, <1>2, <1>3, <1>4, <1>5

(* After a start no socket has a connection. *)
LEMMA StartEmpty == ASSUME Start, NEW i \in Sockets PROVE sr'[i] # "ESTABLISHED"
<1>1. sr'[i] \in Opened
  BY DEF Start
<1>2. QED
  BY <1>1 DEF Opened

(* When the clock moves all sockets have had their turn, and none has had   *)
(* it since.                                                               *)
LEMMA TickServed ==
  ASSUME Types, Tick, pc' # "stopped", NEW i \in Sockets
  PROVE  pc # "stopped" /\ Served(i) /\ ~Served(i)'
BY DEF Tick, Served

LEMMA TickTimes ==
  ASSUME Types, Tick, NEW i \in Sockets, sr'[i] = "ESTABLISHED"
  PROVE  /\ sr[i] = "ESTABLISHED" /\ (socket_open'[i] <=> socket_open[i]) /\ rx'[i] = rx[i]
         /\ silent'[i] = UpTo(Timeout + 3, silent[i] + 1)
         /\ unsent'[i] = UpTo(KeepAlive + 3, unsent[i] + 1)
         /\ last_command_received'[i] = UpTo(Timeout + 1, last_command_received[i] + 1)
         /\ last_command_send'[i] = UpTo(KeepAlive + 1, last_command_send[i] + 1)
BY DEF Tick, chipVars

(* The types of the clocks of one socket. *)
LEMMA ClockTypes ==
  ASSUME Types, NEW i \in Sockets
  PROVE  /\ Timeout \in Nat /\ KeepAlive \in Nat
         /\ silent[i] \in Nat /\ unsent[i] \in Nat
         /\ last_command_received[i] \in Nat /\ last_command_received[i] <= Timeout + 1
         /\ last_command_send[i] \in Nat /\ last_command_send[i] <= KeepAlive + 1
<1>1. last_command_received[i] \in 0..Timeout + 1 /\ last_command_send[i] \in 0..KeepAlive + 1
  BY DEF Types, SocketTypes
<1>2. QED
  BY <1>1, Constants DEF Types, HistoryTypes

LEMMA InitTimeout == Init => TimeoutInv
<1> SUFFICES ASSUME Init, NEW i \in Sockets PROVE sr[i] # "ESTABLISHED"
  BY InitTypes DEF TimeoutInv, Watched
<1> QED
  BY DEF Init, Opened

LEMMA StepTimeout ==
  ASSUME "short" \notin Faults
  PROVE  TimeoutInv /\ [Next]_vars => TimeoutInv'
<1> SUFFICES ASSUME TimeoutInv, [Next]_vars, pc' # "stopped",
                    NEW i \in Sockets, sr'[i] = "ESTABLISHED"
             PROVE  Watched(i)'
  BY StepTypes DEF TimeoutInv, Watched
<1> Types
  BY DEF TimeoutInv
<1>1. CASE Take \/ Put \/ Stop \/ VentStep \/ UNCHANGED vars
  <2>1. UNCHANGED <<socketVars, chipVars, history>> /\ (Served(i)' => Served(i)) /\ Watched(i)
    BY <1>1, QuietSteps DEF TimeoutInv
  <2>2. QED
    BY <2>1 DEF Watched, socketVars, chipVars, history
<1>2. CASE Serve
  <2>1. Watched(i)
    BY <1>2, ServeTypes DEF TimeoutInv
  <2>2. CASE i # turn
    <3>1. /\ sr'[i] = sr[i] /\ rx'[i] = rx[i] /\ socket_open'[i] = socket_open[i]
          /\ last_command_received'[i] = last_command_received[i]
          /\ silent'[i] = silent[i] /\ (Served(i)' => Served(i))
      BY <1>2, <2>2, ServeOthers
    <3>2. QED
      BY <2>1, <3>1 DEF Watched
  <2>3. CASE i = turn /\ ~GoesOn(turn)
    <3>1. PICK state \in Opened, open \in BOOLEAN, text \in Texts :
            Leave(turn, state, open, text)
      BY <1>2, <2>3, Leaves DEF Serve
    <3>2. sr'[i] = state
      BY <2>3, <3>1 DEF Leave, Types, ChipTypes
    <3>3. QED
      BY <3>1, <3>2 DEF Opened
  <2>4. CASE i = turn /\ GoesOn(turn)
    <3>1. /\ socket_open'[i] /\ rx'[i] = None /\ silent'[i] = silent[i]
          /\ last_command_received'[i] = ReceivedNow(i) /\ ReceivedNow(i) <= Timeout
          /\ sr[i] = "ESTABLISHED"
      BY <2>4 DEF GoesOn, ReceiveBusy, ReceiveShort, Connected, Seen, Types, SocketTypes, ChipTypes
    <3>2. silent[i] <= ReceivedNow(i) + 1
      <4>1. CASE ~socket_open[i] \/ rx[i] # None
        BY <2>1, <3>1, <4>1, ClockTypes DEF Watched, ReceivedNow, ReceivedAgo
      <4>2. CASE socket_open[i] /\ rx[i] = None
        BY <2>1, <3>1, <4>2 DEF Watched, ReceivedNow, ReceivedAgo
      <4>3. QED
        BY <4>1, <4>2
    <3>3. QED
      BY <3>1, <3>2 DEF Watched
  <2>5. QED
    BY <2>2, <2>3, <2>4
<1>3. CASE Start
  BY <1>3, StartEmpty
<1>4. CASE Tick
  <2>1. Watched(i) /\ Served(i) /\ ~Served(i)'
    BY <1>4, TickServed DEF TimeoutInv
  <2>2. /\ sr[i] = "ESTABLISHED" /\ (socket_open'[i] <=> socket_open[i]) /\ rx'[i] = rx[i]
        /\ silent'[i] = UpTo(Timeout + 3, silent[i] + 1)
        /\ last_command_received'[i] = UpTo(Timeout + 1, last_command_received[i] + 1)
    BY <1>4, TickTimes
  <2>3. silent'[i] \in Nat /\ silent'[i] <= silent[i] + 1
    BY <2>2, ClockTypes DEF UpTo
  <2>4. ASSUME socket_open[i] PROVE silent'[i] <= last_command_received'[i] + 1
    <3>1. CASE last_command_received[i] <= Timeout
      <4>1. last_command_received'[i] = last_command_received[i] + 1
        BY <2>2, <3>1, ClockTypes DEF UpTo
      <4>2. silent[i] <= last_command_received[i] + 1
        BY <2>1, <2>2, <2>4 DEF Watched
      <4>3. QED
        BY <2>3, <4>1, <4>2, ClockTypes
    <3>2. CASE silent[i] = 0
      <4>1. last_command_received'[i] \in Nat
        BY <2>2, ClockTypes DEF UpTo
      <4>2. QED
        BY <2>3, <3>2, <4>1
    <3>3. QED
      BY <2>1, <2>2, <2>4, <3>1, <3>2 DEF Watched
  <2>5. ASSUME ~socket_open[i] \/ rx[i] # None PROVE silent'[i] <= 1
    <3>1. silent[i] = 0
      BY <2>1, <2>2, <2>5 DEF Watched
    <3>2. QED
      BY <2>3, <3>1
  <2>6. QED
    BY <2>1, <2>2, <2>4, <2>5 DEF Watched
<1>5. CASE ClientStep
  <2>1. /\ pc' = pc /\ UNCHANGED socketVars /\ (Served(i)' <=> Served(i))
        /\ last_command_received' = last_command_received /\ socket_open' = socket_open
    BY <1>5 DEF ClientStep, Connect, ClientCloses, ConnectionReset, ClientSends,
                Served, taskVars, socketVars
  <2>2. Watched(i)
    BY <2>1 DEF TimeoutInv
  <2>3. CASE silent'[i] = 0
    <3>1. 0 <= last_command_received[i] + 1
      BY ClockTypes
    <3>2. QED
      BY <2>1, <2>3, <3>1 DEF Watched
  <2>4. CASE sr[i] = "ESTABLISHED" /\ rx'[i] = rx[i] /\ silent'[i] = silent[i]
    BY <2>1, <2>2, <2>4 DEF Watched
  <2>5. silent'[i] = 0 \/ (sr[i] = "ESTABLISHED" /\ rx'[i] = rx[i] /\ silent'[i] = silent[i])
    <3>1. /\ sr \in [Sockets -> States] /\ rx \in [Sockets -> Received]
          /\ silent \in [Sockets -> Nat]
      BY DEF Types, ChipTypes, HistoryTypes
    <3>2. ASSUME NEW j \in Sockets, Connect(j) PROVE <2>5!1 \/ <2>5!2
      BY <3>1, <3>2 DEF Connect
    <3>3. ASSUME NEW j \in Sockets, ClientCloses(j) PROVE <2>5!1 \/ <2>5!2
      BY <3>1, <3>3 DEF ClientCloses, history
    <3>4. ASSUME NEW j \in Sockets, ConnectionReset(j) PROVE <2>5!1 \/ <2>5!2
      BY <3>1, <3>4 DEF ConnectionReset, history
    <3>5. ASSUME NEW j \in Sockets, NEW c \in Commands, ClientSends(j, c)
          PROVE  <2>5!1 \/ <2>5!2
      BY <3>1, <3>5 DEF ClientSends
    <3>6. QED
      BY <1>5, <3>2, <3>3, <3>4, <3>5 DEF ClientStep
  <2>6. QED
    BY <2>3, <2>4, <2>5
<1>6. QED
  BY <1>1, <1>2, <1>3, <1>4, <1>5, Steps

(* A connection that sends nothing is closed within two units of the       *)
(* timeout, however connections end and however often the server is        *)
(* stopped (server_loop, SOCK_ESTABLISHED), as long as recv returns what   *)
(* there is: while it does not the timeout is not looked at.               *)
THEOREM SilentClosedHolds ==
  ASSUME "short" \notin Faults
  PROVE  Spec => []SilentClosed
<1>1. TimeoutInv => SilentClosed
  <2> SUFFICES ASSUME TimeoutInv, pc # "stopped", NEW i \in Sockets, sr[i] = "ESTABLISHED"
               PROVE  silent[i] <= Timeout + 2
    BY DEF SilentClosed
  <2>1. Types /\ Watched(i)
    BY DEF TimeoutInv
  <2>2. CASE socket_open[i]
    BY <2>1, <2>2, ClockTypes DEF Watched
  <2>3. CASE ~socket_open[i]
    BY <2>1, <2>3, ClockTypes DEF Watched
  <2>4. QED
    BY <2>2, <2>3
<1>2. TimeoutInv /\ [Next]_vars => TimeoutInv'
  BY StepTimeout
<1>3. QED
  BY <1>1, <1>2, InitTimeout, PTL DEF Spec

-----------------------------------------------------------------------------
(* Heartbeats, unless send is busy, which is taken for a success, or recv  *)
(* is, which puts the send off                                             *)

LEMMA InitHeartbeat == Init => HeartbeatInv
<1> SUFFICES ASSUME Init, NEW i \in Sockets PROVE sr[i] # "ESTABLISHED"
  BY InitTypes DEF HeartbeatInv, Fed
<1> QED
  BY DEF Init, Opened

LEMMA StepHeartbeat ==
  ASSUME "busy" \notin Faults, "short" \notin Faults
  PROVE  HeartbeatInv /\ [Next]_vars => HeartbeatInv'
<1> SUFFICES ASSUME HeartbeatInv, [Next]_vars, pc' # "stopped",
                    NEW i \in Sockets, sr'[i] = "ESTABLISHED"
             PROVE  Fed(i)'
  BY StepTypes DEF HeartbeatInv, Fed
<1> Types
  BY DEF HeartbeatInv
<1>1. CASE Take \/ Put \/ Stop \/ VentStep \/ UNCHANGED vars
  <2>1. UNCHANGED <<socketVars, chipVars, history>> /\ (Served(i)' => Served(i)) /\ Fed(i)
    BY <1>1, QuietSteps DEF HeartbeatInv
  <2>2. QED
    BY <2>1 DEF Fed, socketVars, chipVars, history
<1>2. CASE Serve
  <2>1. Fed(i)
    BY <1>2, ServeTypes DEF HeartbeatInv
  <2>2. CASE i # turn
    <3>1. /\ sr'[i] = sr[i] /\ socket_open'[i] = socket_open[i]
          /\ last_command_send'[i] = last_command_send[i]
          /\ unsent'[i] = unsent[i] /\ (Served(i)' => Served(i))
      BY <1>2, <2>2, ServeOthers
    <3>2. QED
      BY <2>1, <3>1 DEF Fed
  <2>3. CASE i = turn /\ ~GoesOn(turn)
    <3>1. PICK state \in Opened, open \in BOOLEAN, text \in Texts :
            Leave(turn, state, open, text)
      BY <1>2, <2>3, Leaves DEF Serve
    <3>2. sr'[i] = state
      BY <2>3, <3>1 DEF Leave, Types, ChipTypes
    <3>3. QED
      BY <3>1, <3>2 DEF Opened
  <2>4. CASE i = turn /\ GoesOn(turn)
    <3>1. /\ socket_open'[i] /\ sr[i] = "ESTABLISHED"
          /\ last_command_send'[i] = IF Text(i) # None THEN 0 ELSE SentAgo(i)
          /\ unsent'[i] = IF Text(i) # None THEN 0 ELSE unsent[i]
      BY <2>4 DEF GoesOn, ReceiveBusy, ReceiveShort, Connected, Seen, SentNow, SendText,
                  Types, SocketTypes, HistoryTypes
    <3>2. CASE Text(i) # None
      BY <3>1, <3>2, Constants DEF Fed
    <3>3. CASE Text(i) = None
      <4>1. CASE socket_open[i]
        <5>1. last_command_send[i] <= KeepAlive
          BY <3>3, <4>1, TextType
        <5>2. QED
          BY <2>1, <3>1, <3>3, <4>1, <5>1 DEF Fed, SentAgo
      <4>2. CASE ~socket_open[i]
        BY <2>1, <3>1, <3>3, <4>2, ClockTypes DEF Fed, SentAgo
      <4>3. QED
        BY <4>1, <4>2
    <3>4. QED
      BY <3>2, <3>3
  <2>5. QED
    BY <2>2, <2>3, <2>4
<1>3. CASE Start
  BY <1>3, StartEmpty
<1>4. CASE Tick
  <2>1. Fed(i) /\ Served(i) /\ ~Served(i)'
    BY <1>4, TickServed DEF HeartbeatInv
  <2>2. /\ sr[i] = "ESTABLISHED" /\ (socket_open'[i] <=> socket_open[i])
        /\ unsent'[i] = UpTo(KeepAlive + 3, unsent[i] + 1)
        /\ last_command_send'[i] = UpTo(KeepAlive + 1, last_command_send[i] + 1)
    BY <1>4, TickTimes
  <2>3. unsent'[i] \in Nat /\ unsent'[i] <= unsent[i] + 1
    BY <2>2, ClockTypes DEF UpTo
  <2>4. ASSUME socket_open[i] PROVE unsent'[i] <= last_command_send'[i] + 1
    <3>1. CASE last_command_send[i] <= KeepAlive
      <4>1. last_command_send'[i] = last_command_send[i] + 1
        BY <2>2, <3>1, ClockTypes DEF UpTo
      <4>2. unsent[i] <= last_command_send[i] + 1
        BY <2>1, <2>2, <2>4 DEF Fed
      <4>3. QED
        BY <2>3, <4>1, <4>2, ClockTypes
    <3>2. CASE unsent[i] = 0
      <4>1. last_command_send'[i] \in Nat
        BY <2>2, ClockTypes DEF UpTo
      <4>2. QED
        BY <2>3, <3>2, <4>1
    <3>3. QED
      BY <2>1, <2>2, <2>4, <3>1, <3>2 DEF Fed
  <2>5. ASSUME ~socket_open[i] PROVE unsent'[i] <= 1
    <3>1. unsent[i] = 0
      BY <2>1, <2>2, <2>5 DEF Fed
    <3>2. QED
      BY <2>3, <3>1
  <2>6. QED
    BY <2>1, <2>2, <2>4, <2>5 DEF Fed
<1>5. CASE ClientStep
  <2>1. /\ pc' = pc /\ (Served(i)' <=> Served(i))
        /\ last_command_send' = last_command_send /\ socket_open' = socket_open
    BY <1>5 DEF ClientStep, Connect, ClientCloses, ConnectionReset, ClientSends,
                Served, taskVars, socketVars
  <2>2. Fed(i)
    BY <2>1 DEF HeartbeatInv
  <2>3. CASE unsent'[i] = 0
    <3>1. 0 <= last_command_send[i] + 1
      BY ClockTypes
    <3>2. QED
      BY <2>1, <2>3, <3>1 DEF Fed
  <2>4. CASE sr[i] = "ESTABLISHED" /\ unsent'[i] = unsent[i]
    BY <2>1, <2>2, <2>4 DEF Fed
  <2>5. unsent'[i] = 0 \/ (sr[i] = "ESTABLISHED" /\ unsent'[i] = unsent[i])
    <3>1. sr \in [Sockets -> States] /\ unsent \in [Sockets -> Nat]
      BY DEF Types, ChipTypes, HistoryTypes
    <3>2. ASSUME NEW j \in Sockets, Connect(j) PROVE <2>5!1 \/ <2>5!2
      BY <3>1, <3>2 DEF Connect
    <3>3. ASSUME NEW j \in Sockets, ClientCloses(j) PROVE <2>5!1 \/ <2>5!2
      BY <3>1, <3>3 DEF ClientCloses, history
    <3>4. ASSUME NEW j \in Sockets, ConnectionReset(j) PROVE <2>5!1 \/ <2>5!2
      BY <3>1, <3>4 DEF ConnectionReset, history
    <3>5. ASSUME NEW j \in Sockets, NEW c \in Commands, ClientSends(j, c)
          PROVE  <2>5!1 \/ <2>5!2
      BY <3>1, <3>5 DEF ClientSends
    <3>6. QED
      BY <1>5, <3>2, <3>3, <3>4, <3>5 DEF ClientStep
  <2>6. QED
    BY <2>3, <2>4, <2>5
<1>6. QED
  BY <1>1, <1>2, <1>3, <1>4, <1>5, Steps

(* A connection is sent a text, if only a heartbeat, within two units of    *)
(* KeepAlive, as long as neither send nor recv is busy: also with resets    *)
(* and restarts (server_loop, last_command_send).                          *)
THEOREM HeartbeatInTimeHolds ==
  ASSUME "busy" \notin Faults, "short" \notin Faults
  PROVE  Spec => []HeartbeatInTime
<1>1. HeartbeatInv => HeartbeatInTime
  <2> SUFFICES ASSUME HeartbeatInv, pc # "stopped", NEW i \in Sockets, sr[i] = "ESTABLISHED"
               PROVE  unsent[i] <= KeepAlive + 2
    BY DEF HeartbeatInTime
  <2>1. Types /\ Fed(i)
    BY DEF HeartbeatInv
  <2>2. CASE socket_open[i]
    BY <2>1, <2>2, ClockTypes DEF Fed
  <2>3. CASE ~socket_open[i]
    BY <2>1, <2>3, ClockTypes DEF Fed
  <2>4. QED
    BY <2>2, <2>3
<1>2. HeartbeatInv /\ [Next]_vars => HeartbeatInv'
  BY StepHeartbeat
<1>3. QED
  BY <1>1, <1>2, InitHeartbeat, PTL DEF Spec

-----------------------------------------------------------------------------
(* What a connection leaves behind, unless it is reset *)

LEMMA InitClean == Init => CleanInv
<1> SUFFICES ASSUME Init, NEW i \in Sockets PROVE Clean(i)
  BY InitTypes DEF CleanInv
<1> QED
  BY DEF Init, Opened, Clean

LEMMA StepClean ==
  ASSUME "reset" \notin Faults
  PROVE  CleanInv /\ [Next]_vars => CleanInv'
<1> SUFFICES ASSUME CleanInv, [Next]_vars, NEW i \in Sockets PROVE Clean(i)'
  BY StepTypes DEF CleanInv
<1> Types /\ Clean(i)
  BY DEF CleanInv
<1>1. CASE Take \/ Put \/ Stop \/ VentStep \/ UNCHANGED vars
  <2>1. UNCHANGED <<socketVars, chipVars, history>>
    BY <1>1, QuietSteps
  <2>2. QED
    BY <2>1 DEF Clean, socketVars, chipVars, history
<1>2. CASE Serve
  <2>1. CASE i # turn
    <3>1. /\ sr'[i] = sr[i] /\ rx'[i] = rx[i] /\ socket_open'[i] = socket_open[i]
          /\ send_buffer'[i] = send_buffer[i] /\ stale'[i] = stale[i]
          /\ last_command_received'[i] = last_command_received[i] /\ silent'[i] = silent[i]
      BY <1>2, <2>1, ServeOthers
    <3>2. QED
      BY <3>1 DEF Clean
  <2>2. CASE i = turn /\ ~GoesOn(turn)
    <3>1. PICK state \in Opened, open \in BOOLEAN, text \in Texts :
            /\ Leave(turn, state, open, text)
            /\ open => socket_open[turn] /\ sr[turn] \in Opened
            /\ state = "LISTEN" => text = None \/ (sr[turn] = "LISTEN" /\ text = Text(turn))
      BY <1>2, <2>2, Leaves DEF Serve
    <3>2. /\ sr'[i] = state /\ (socket_open'[i] <=> open) /\ send_buffer'[i] = text
          /\ (stale'[i] <=> stale[i])
      BY <2>2, <3>1 DEF Leave, Types, ChipTypes, SocketTypes, history
    <3>3. ~open
      BY <2>2, <3>1 DEF Clean
    <3>4. state = "LISTEN" => text = None
      <4>1. CASE sr[i] = "LISTEN"
        <5>1. ~socket_open[i] /\ send_buffer[i] = None
          BY <4>1 DEF Clean, Opened
        <5>2. Text(i) = None
          BY <5>1, TextType
        <5>3. QED
          BY <2>2, <3>1, <5>2
      <4>2. CASE sr[i] # "LISTEN"
        BY <2>2, <3>1, <4>2
      <4>3. QED
        BY <4>1, <4>2
    <3>5. QED
      BY <3>1, <3>2, <3>3, <3>4 DEF Clean, Opened
  <2>3. CASE i = turn /\ Connected(turn)
    <3>1. /\ sr'[i] = "ESTABLISHED" /\ sr[i] = "ESTABLISHED" /\ ~stale'[i]
          /\ last_command_received'[i] = ReceivedNow(i) /\ silent'[i] = silent[i]
      BY <2>3 DEF Connected, Seen, SendText, Types, SocketTypes, ChipTypes, HistoryTypes
    <3>2. ReceivedNow(i) <= silent[i]
      <4>1. CASE ~socket_open[i] \/ rx[i] # None
        BY <4>1, ClockTypes DEF ReceivedNow, ReceivedAgo
      <4>2. CASE socket_open[i] /\ rx[i] = None
        BY <3>1, <4>2 DEF Clean, ReceivedNow, ReceivedAgo
      <4>3. QED
        BY <4>1, <4>2
    <3>3. QED
      BY <3>1, <3>2 DEF Clean, Opened
  <2>4. CASE i = turn /\ (ReceiveBusy(turn) \/ ReceiveShort(turn))
    <3>1. /\ sr'[i] = "ESTABLISHED" /\ stale'[i] \in {stale[i], FALSE}
      BY <2>4 DEF ReceiveBusy, ReceiveShort, Seen, SendText, Types, ChipTypes, HistoryTypes
    <3>2. rx'[i] # None
      <4>1. CASE ReceiveBusy(turn)
        BY <2>4, <4>1 DEF ReceiveBusy
      <4>2. CASE ReceiveShort(turn)
        <5>1. PICK c \in Commands : rx' = [rx EXCEPT ![turn] = Message(turn, c.message_type, c.value)]
          BY <4>2 DEF ReceiveShort
        <5>2. rx'[i] = Message(turn, c.message_type, c.value)
          BY <2>4, <5>1 DEF Types, ChipTypes
        <5>3. QED
          BY <5>2, CommandIsSome
      <4>3. QED
        BY <2>4, <4>1, <4>2
    <3>3. QED
      BY <3>1, <3>2 DEF Clean, Opened
  <2>5. QED
    BY <2>1, <2>2, <2>3, <2>4 DEF GoesOn
<1>3. CASE Start
  <2>1. sr'[i] # "ESTABLISHED" /\ ~socket_open'[i] /\ send_buffer'[i] = None /\ ~stale'[i]
    BY <1>3, StartEmpty DEF Start, Restarted
  <2>2. QED
    BY <2>1 DEF Clean
<1>4. CASE Tick
  <2>1. /\ sr' = sr /\ rx' = rx /\ socket_open' = socket_open /\ send_buffer' = send_buffer
        /\ stale' = stale
    BY <1>4 DEF Tick, chipVars
  <2>2. CASE sr[i] = "ESTABLISHED" /\ socket_open[i] /\ rx[i] = None
    <3>1. /\ silent'[i] = UpTo(Timeout + 3, silent[i] + 1)
          /\ last_command_received'[i] = UpTo(Timeout + 1, last_command_received[i] + 1)
      BY <1>4, <2>1, <2>2, TickTimes
    <3>2. last_command_received[i] <= silent[i]
      BY <2>2 DEF Clean
    <3>3. last_command_received'[i] <= silent'[i]
      BY <3>1, <3>2, ClockTypes DEF UpTo
    <3>4. QED
      BY <2>1, <3>3 DEF Clean
  <2>3. CASE ~(sr[i] = "ESTABLISHED" /\ socket_open[i] /\ rx[i] = None)
    BY <2>1, <2>3 DEF Clean
  <2>4. QED
    BY <2>2, <2>3
<1>5. CASE ClientStep
  <2>1. /\ socket_open' = socket_open /\ send_buffer' = send_buffer
        /\ last_command_received' = last_command_received
    BY <1>5 DEF ClientStep, Connect, ClientCloses, ConnectionReset, ClientSends, socketVars
  <2>2. /\ sr \in [Sockets -> States] /\ rx \in [Sockets -> Received]
        /\ silent \in [Sockets -> Nat] /\ stale \in [Sockets -> BOOLEAN]
    BY DEF Types, ChipTypes, HistoryTypes
  <2>3. ASSUME NEW j \in Sockets, Connect(j) PROVE Clean(i)'
    <3>1. CASE i = j
      <4>1. sr[i] = "LISTEN" /\ sr'[i] = "ESTABLISHED"
        BY <2>2, <2>3, <3>1 DEF Connect
      <4>2. ~socket_open[i] /\ send_buffer[i] = None
        BY <4>1 DEF Clean, Opened
      <4>3. ~stale'[i]
        BY <2>2, <2>3, <3>1, <4>2 DEF Connect
      <4>4. QED
        BY <2>1, <4>1, <4>2, <4>3 DEF Clean, Opened
    <3>2. CASE i # j
      <4>1. sr'[i] = sr[i] /\ rx'[i] = rx[i] /\ silent'[i] = silent[i] /\ stale'[i] = stale[i]
        BY <2>2, <2>3, <3>2 DEF Connect
      <4>2. QED
        BY <2>1, <4>1 DEF Clean
    <3>3. QED
      BY <3>1, <3>2
  <2>4. ASSUME NEW j \in Sockets, ClientCloses(j) PROVE Clean(i)'
    <3>1. /\ rx' = rx /\ silent' = silent /\ stale' = stale
          /\ sr'[i] \in {sr[i], "CLOSE_WAIT"}
      BY <2>2, <2>4 DEF ClientCloses, history
    <3>2. QED
      BY <2>1, <3>1 DEF Clean, Opened
  <2>5. ASSUME NEW j \in Sockets PROVE ~ConnectionReset(j)
    BY DEF ConnectionReset
  <2>6. ASSUME NEW j \in Sockets, NEW c \in Commands, ClientSends(j, c) PROVE Clean(i)'
    <3>1. sr' = sr /\ stale' = stale
      BY <2>6 DEF ClientSends
    <3>2. CASE i = j
      <4>1. rx'[i] # None
        <5>1. rx'[i] = Message(i, c.message_type, c.value)
          BY <2>2, <2>6, <3>2 DEF ClientSends
        <5>2. QED
          BY <5>1, CommandIsSome
      <4>2. QED
        BY <2>1, <3>1, <4>1 DEF Clean
    <3>3. CASE i # j
      <4>1. rx'[i] = rx[i] /\ silent'[i] = silent[i]
        BY <2>2, <2>6, <3>3 DEF ClientSends
      <4>2. QED
        BY <2>1, <3>1, <4>1 DEF Clean
    <3>4. QED
      BY <3>2, <3>3
  <2>7. QED
    BY <1>5, <2>3, <2>4, <2>5, <2>6 DEF ClientStep
<1>6. QED
  BY <1>1, <1>2, <1>3, <1>4, <1>5, Steps

(* A connection is never sent a text made for the one before it on the      *)
(* same socket, as long as connections end with a FIN, by the timeout or   *)
(* because the server is stopped: SOCK_INIT clears send_size.              *)
THEOREM NoStaleTextHolds ==
  ASSUME "reset" \notin Faults
  PROVE  Spec => []NoStaleText
<1>1. CleanInv => NoStaleText
  BY DEF CleanInv, Clean, NoStaleText
<1>2. CleanInv /\ [Next]_vars => CleanInv'
  BY StepClean
<1>3. QED
  BY <1>1, <1>2, InitClean, PTL DEF Spec

(* Under the same condition only a connection that was silent for the whole *)
(* timeout is closed for it (TIMEOUT_SECONDS in server_loop).              *)
THEOREM ClosedOnlyIfSilentHolds ==
  ASSUME "reset" \notin Faults
  PROVE  Spec => ClosedOnlyIfSilent
<1> DEFINE A == \A i \in Sockets : Serve /\ turn = i /\ CloseSilent(i) => silent[i] > Timeout
<1>1. CleanInv => A
  <2> SUFFICES ASSUME CleanInv, NEW i \in Sockets, CloseSilent(i) PROVE silent[i] > Timeout
    OBVIOUS
  <2>1. Types /\ Clean(i)
    BY DEF CleanInv
  <2>2. sr[i] = "ESTABLISHED" /\ rx[i] = None /\ ReceivedAgo(i) > Timeout
    BY DEF CloseSilent
  <2>3. socket_open[i] /\ last_command_received[i] > Timeout
    BY <2>1, <2>2, Constants DEF ReceivedAgo
  <2>4. last_command_received[i] <= silent[i]
    BY <2>1, <2>2, <2>3 DEF Clean
  <2>5. QED
    BY <2>1, <2>3, <2>4, ClockTypes
<1>2. CleanInv /\ [Next]_vars => CleanInv'
  BY StepClean
<1>3. CleanInv /\ [Next]_vars => [A]_vars
  BY <1>1
<1>4. Spec => [][A]_vars
  <2> HIDE DEF A
  <2>1. QED
    BY <1>2, <1>3, InitClean, PTL DEF Spec
<1>5. QED
  BY <1>4 DEF ClosedOnlyIfSilent
=============================================================================
