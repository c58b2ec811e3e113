----------------------------- MODULE VentControl -----------------------------
(***************************************************************************)
(* ventcontrol_task (firmware/src/ventcontrol.c): the task that owns the   *)
(* three relays.  It takes requests from receive_queue, boost edges from   *)
(* input_queue, switches the speed relays with a pause between opening one *)
(* and closing the other, and puts status messages on send_queue.          *)
(*                                                                         *)
(* The task's local variables are private, so a step of the model is the   *)
(* code between two calls that can block (xQueueReceive, xQueueSend,       *)
(* vTaskDelay).  The other ends of the queues are the environment: the     *)
(* server task puts requests and takes status messages, the input task     *)
(* puts boost edges.                                                       *)
(*                                                                         *)
(* A definition named D_Xyz is D with a plausible bug, for the runs that   *)
(* check that a property would notice it; the specification uses none.     *)
(***************************************************************************)
EXTENDS Integers, Sequences

CONSTANTS
  Clients,      \* socket ids of the connected clients (message_t.client)
  Requests,     \* the requests the server may put on receive_queue
  QueueLength,  \* MAX_QUEUE_LENGTH
  SwitchDelay   \* RELAIS_SWITCH_DELAY_MS in ticks

Broadcast == -1
NORMAL_SPEED == 1
BOOST_SPEED == 2
Speeds == 0..3

(* What the parser of the server can produce: GET, SET0..SET3, VAK0, VAK1. *)
Request ==
  [client: Clients, message_type: {"GET_STATUS"}, value: {0}]
    \cup [client: Clients, message_type: {"SET_SPEED"}, value: Speeds]
    \cup [client: Clients, message_type: {"SET_VAKANTIE"}, value: {0, 1}]

Status ==
  [client: Clients \cup {Broadcast}, message_type: {"CURRENT_SPEED"}, value: Speeds]
    \cup [client: Clients, message_type: {"CURRENT_VAKANTIE"}, value: {0, 1}]

ASSUME ClientsAssumption == Clients \subseteq Nat
ASSUME RequestsAssumption == Requests \subseteq Request
ASSUME QueueLengthAssumption == QueueLength \in Nat \ {0}
ASSUME SwitchDelayAssumption == SwitchDelay \in Nat \ {0}

VARIABLES
  pc,               \* the blocking call or decision the task is at
  currentVakantie,  \* locals of ventcontrol_task
  actualSpeed,
  requestedSpeed,
  boostSpeed,
  pending,          \* messages the task still has to xQueueSend before it goes on
  delay,            \* ticks left of the vTaskDelay between open and close
  relays,           \* the speeds whose relay is closed (GPIO 15 is 2, GPIO 14 is 3)
  relVakantie,      \* GPIO 7
  receive_queue, send_queue, input_queue,
  inputBoost,       \* history: the last edge the input task has put
  openFor,          \* history: ticks both speed relays have been open, up to SwitchDelay
  told              \* history: the last speed accepted by send_queue, Lost if a newer one was dropped

taskVars == <<pc, currentVakantie, actualSpeed, requestedSpeed, boostSpeed, pending>>
relayVars == <<delay, relays, relVakantie, openFor>>
queueVars == <<receive_queue, send_queue, input_queue, inputBoost>>
vars == <<taskVars, relayVars, queueVars, told>>

Lost == -1

SpeedMessage(c) == [client |-> c, message_type |-> "CURRENT_SPEED", value |-> actualSpeed]

VakantieMessage(c, v) ==
  [client |-> c, message_type |-> "CURRENT_VAKANTIE", value |-> IF v THEN 1 ELSE 0]

(* The speed the fan should run at: a boost only ever raises the request. *)
wantedSpeed == IF boostSpeed > requestedSpeed THEN boostSpeed ELSE requestedSpeed

Init ==
  /\ pc = "receive"
  /\ currentVakantie = FALSE
  /\ actualSpeed = 0
  /\ requestedSpeed = 1
  /\ boostSpeed = 1
  /\ pending = <<>>
  /\ delay = 0
  /\ relays = {}
  /\ relVakantie = FALSE
  /\ receive_queue = <<>>
  /\ send_queue = <<>>
  /\ input_queue = <<>>
  /\ inputBoost = FALSE
  /\ openFor = 0
  /\ told = 0

-----------------------------------------------------------------------------
(* The task *)

(* MSG_SET_SPEED: a request that changes the speed also overrides a boost. *)
SetSpeed(m) ==
  /\ m.message_type = "SET_SPEED"
  /\ requestedSpeed' = m.value
  /\ boostSpeed' = IF requestedSpeed # m.value THEN m.value ELSE boostSpeed
  /\ pc' = "input"
  /\ UNCHANGED <<currentVakantie, relVakantie, pending>>

SetVakantie(m) ==
  /\ m.message_type = "SET_VAKANTIE"
  /\ currentVakantie' = (m.value > 0)
  /\ relVakantie' = (m.value > 0)
  /\ pending' = <<VakantieMessage(m.client, m.value > 0)>>
  /\ pc' = "reply"
  /\ UNCHANGED <<requestedSpeed, boostSpeed>>

GetStatus(m) ==
  /\ m.message_type = "GET_STATUS"
  /\ pending' = <<SpeedMessage(m.client), VakantieMessage(m.client, currentVakantie)>>
  /\ pc' = "reply"
  /\ UNCHANGED <<currentVakantie, relVakantie, requestedSpeed, boostSpeed>>

(* xQueueReceive(receive_queue, 500 ticks) returned a message. *)
HandleRequest ==
  /\ pc = "receive"
  /\ receive_queue # <<>>
  /\ LET m == Head(receive_queue) IN SetSpeed(m) \/ SetVakantie(m) \/ GetStatus(m)
  /\ receive_queue' = Tail(receive_queue)
  /\ UNCHANGED <<actualSpeed, delay, relays, openFor, send_queue, input_queue, inputBoost, told>>

(* It gave up: that only happens while the queue is empty. *)
NoRequest ==
  /\ pc = "receive"
  /\ receive_queue = <<>>
  /\ pc' = "input"
  /\ UNCHANGED <<currentVakantie, actualSpeed, requestedSpeed, boostSpeed, pending,
                 relayVars, queueVars, told>>

(* xQueueSend(send_queue, 10 ticks) of the next message the task has made;  *)
(* where the task goes on after the last one.                              *)
AfterSend == [reply |-> "input", broadcast |-> "receive"]

SendDone ==
  /\ pc \in {"reply", "broadcast"}
  /\ pending' = Tail(pending)
  /\ pc' = IF Tail(pending) = <<>> THEN AfterSend[pc] ELSE pc
  /\ UNCHANGED <<currentVakantie, actualSpeed, requestedSpeed, boostSpeed,
                 relayVars, receive_queue, input_queue, inputBoost>>

SendStatus_NoRoomCheck ==
  /\ SendDone
  /\ send_queue' = Append(send_queue, Head(pending))
  /\ told' = IF Head(pending).message_type = "CURRENT_SPEED" THEN Head(pending).value ELSE told

SendStatus ==
  /\ SendDone
  /\ Len(send_queue) < QueueLength
  /\ send_queue' = Append(send_queue, Head(pending))
  /\ told' = IF Head(pending).message_type = "CURRENT_SPEED" THEN Head(pending).value ELSE told

(* The queue stayed full for 10 ticks; the result is ignored, the message gone. *)
DropStatus_WaitsForRoom == FALSE

DropStatus ==
  /\ SendDone
  /\ Len(send_queue) = QueueLength
  /\ told' = IF pc = "broadcast" THEN Lost ELSE told
  /\ UNCHANGED send_queue

(* The end of a boost leaves NORMAL_SPEED, also when speed 0 was requested. *)
BoostOf_OnlyRaises(boost) == IF boost THEN BOOST_SPEED ELSE boostSpeed

BoostOf(boost) == IF boost THEN BOOST_SPEED ELSE NORMAL_SPEED

(* xQueueReceive(input_queue, 500 ticks) *)
HandleInput ==
  /\ pc = "input"
  /\ input_queue # <<>>
  /\ boostSpeed' = BoostOf(Head(input_queue))
  /\ input_queue' = Tail(input_queue)
  /\ pc' = "select"
  /\ UNCHANGED <<currentVakantie, actualSpeed, requestedSpeed, pending, relayVars,
                 receive_queue, send_queue, inputBoost, told>>

NoInput_WaitsForEdge == FALSE

NoInput ==
  /\ pc = "input"
  /\ input_queue = <<>>
  /\ pc' = "select"
  /\ UNCHANGED <<currentVakantie, actualSpeed, requestedSpeed, boostSpeed, pending,
                 relayVars, queueVars, told>>

(* The relays each speed opens; speed 0 has no branch and leaves both alone. *)
RelaysToOpen_OnlyOne(speed) ==
  CASE speed = 0 -> {} [] speed = 1 -> {2} [] speed = 2 -> {3} [] speed = 3 -> {2}

RelaysToOpen(speed) ==
  CASE speed = 0 -> {} [] speed = 1 -> {2, 3} [] speed = 2 -> {3} [] speed = 3 -> {2}

Open_UnlessIdle(opened) ==
  /\ relays' = IF actualSpeed = 0 THEN relays ELSE relays \ opened
  /\ openFor' = IF actualSpeed # 0 /\ relays \cap opened # {} THEN 0 ELSE openFor

Open(opened) ==
  /\ relays' = relays \ opened
  /\ openFor' = IF relays \cap opened # {} THEN 0 ELSE openFor

Close(speed) ==
  /\ relays' = relays \cup {speed}
  /\ openFor' = 0

KeepSpeed ==
  /\ pc = "select"
  /\ wantedSpeed = actualSpeed
  /\ pc' = "receive"
  /\ UNCHANGED <<currentVakantie, actualSpeed, requestedSpeed, boostSpeed, pending,
                 relayVars, queueVars, told>>

(* The end of a switch: the new speed is current and announced to everyone. *)
Announce_TooEarly ==
  /\ actualSpeed' = wantedSpeed
  /\ pending' = <<SpeedMessage(Broadcast)>>
  /\ pc' = "broadcast"

Announce ==
  /\ actualSpeed' = wantedSpeed
  /\ pending' = <<[SpeedMessage(Broadcast) EXCEPT !.value = wantedSpeed]>>
  /\ pc' = "broadcast"

(* Speeds 0 and 1 close no relay and are reached at once. *)
SelectLow ==
  /\ pc = "select"
  /\ wantedSpeed # actualSpeed
  /\ wantedSpeed \in {0, 1}
  /\ Open(RelaysToOpen(wantedSpeed))
  /\ Announce
  /\ UNCHANGED <<currentVakantie, requestedSpeed, boostSpeed, delay, relVakantie, queueVars, told>>

(* vTaskDelay(RELAIS_SWITCH_DELAY_MS / portTICK_PERIOD_MS) *)
SwitchTicks_Halved == SwitchDelay \div 2

SwitchTicks == SwitchDelay

(* Speeds 2 and 3 open the other relay and wait before they close their own. *)
SelectHigh ==
  /\ pc = "select"
  /\ wantedSpeed # actualSpeed
  /\ wantedSpeed \in {2, 3}
  /\ Open(RelaysToOpen(wantedSpeed))
  /\ delay' = SwitchTicks
  /\ pc' = "close"
  /\ UNCHANGED <<currentVakantie, actualSpeed, requestedSpeed, boostSpeed, pending,
                 relVakantie, queueVars, told>>

CloseRelay ==
  /\ pc = "close"
  /\ delay = 0
  /\ Close(wantedSpeed)
  /\ Announce
  /\ UNCHANGED <<currentVakantie, requestedSpeed, boostSpeed, delay, relVakantie, queueVars, told>>

Task ==
  \/ HandleRequest \/ NoRequest
  \/ SendStatus \/ DropStatus
  \/ HandleInput \/ NoInput
  \/ KeepSpeed \/ SelectLow \/ SelectHigh \/ CloseRelay

-----------------------------------------------------------------------------
(* The environment *)

(* A tick of the kernel's clock, at which the delay and the open time are   *)
(* counted; ticks nobody counts are left out.                              *)
Tick ==
  /\ delay > 0 \/ (relays = {} /\ openFor < SwitchDelay)
  /\ delay' = IF delay > 0 THEN delay - 1 ELSE 0
  /\ openFor' = IF relays = {} /\ openFor < SwitchDelay THEN openFor + 1 ELSE openFor
  /\ UNCHANGED <<taskVars, relays, relVakantie, queueVars, told>>

(* The server task: xQueueSend(receive_queue), xQueueReceive(send_queue). *)
ServerPut(m) ==
  /\ Len(receive_queue) < QueueLength
  /\ receive_queue' = Append(receive_queue, m)
  /\ UNCHANGED <<taskVars, relayVars, send_queue, input_queue, inputBoost, told>>

ServerTake ==
  /\ send_queue # <<>>
  /\ send_queue' = Tail(send_queue)
  /\ UNCHANGED <<taskVars, relayVars, receive_queue, input_queue, inputBoost, told>>

(* The input task: it puts the end of a boost only after its beginning. *)
InputPut(b) ==
  /\ b \/ inputBoost
  /\ Len(input_queue) < QueueLength
  /\ input_queue' = Append(input_queue, b)
  /\ inputBoost' = b
  /\ UNCHANGED <<taskVars, relayVars, receive_queue, send_queue, told>>

Environment ==
  \/ \E m \in Requests : ServerPut(m)
  \/ ServerTake
  \/ \E b \in BOOLEAN : InputPut(b)

Next == Task \/ Tick \/ Environment

(* The task is scheduled whenever it can run and the clock keeps ticking;   *)
(* nothing is assumed of the clients, the server or the inputs.            *)
Fairness == WF_vars(Task) /\ WF_vars(Tick)

Spec == Init /\ [][Next]_vars /\ Fairness
-----------------------------------------------------------------------------
(* Properties *)

(* Every variable holds a value of its C type, and a queue never more items *)
(* than it was created with (xQueueCreate in main.c).                      *)
TypeOK ==
  /\ pc \in {"receive", "reply", "input", "select", "close", "broadcast"}
  /\ currentVakantie \in BOOLEAN
  /\ actualSpeed \in Speeds
  /\ requestedSpeed \in Speeds
  /\ boostSpeed \in Speeds
  /\ pending \in Seq(Status)
  /\ delay \in 0..SwitchDelay
  /\ relays \in SUBSET {2, 3}
  /\ relVakantie \in BOOLEAN
  /\ receive_queue \in Seq(Request) /\ Len(receive_queue) <= QueueLength
  /\ send_queue \in Seq(Status) /\ Len(send_queue) <= QueueLength
  /\ input_queue \in Seq(BOOLEAN) /\ Len(input_queue) <= QueueLength
  /\ inputBoost \in BOOLEAN
  /\ openFor \in 0..SwitchDelay
  /\ told \in Speeds \cup {Lost}

(* The relays of speed 2 and speed 3 are never closed together, whatever    *)
(* mix of requests and boosts arrives during a switch, and also after a     *)
(* SET0, which leaves a relay closed under actualSpeed = 0.                *)
Interlock == relays # {2, 3}

(* Outside a switch the relays are those of the speed clients are told.     *)
(* Speed 0 is not covered: no branch of the code handles it.               *)
RelaysMatchSpeed ==
  pc # "close" /\ actualSpeed # 0 => relays = {actualSpeed} \ {1}

(* What the clients were last told is the actual speed, unless the message  *)
(* that said so is about to be sent or was dropped at a full queue: neither *)
(* the replies to GET nor the broadcasts ever leave an older speed last.   *)
StatusFresh ==
  \/ told \in {actualSpeed, Lost}
  \/ \E i \in DOMAIN pending :
        pending[i].message_type = "CURRENT_SPEED" /\ pending[i].value = actualSpeed

(* Once a boost is over and its end received, nothing is left of it: the    *)
(* boost speed is the normal one, or that of a later request.              *)
BoostOver ==
  input_queue = <<>> /\ ~inputBoost => boostSpeed \in {NORMAL_SPEED, requestedSpeed}

(* The motor seen from outside: it has one winding powered at a time, and a *)
(* pause of SwitchDelay before any winding is powered.                     *)
Motor == INSTANCE TwoSpeedMotor
           WITH Windings <- {2, 3}, DeadTime <- SwitchDelay, powered <- relays, quiet <- openFor
MotorSpec == Motor!Spec

(* Whatever the clients and inputs keep asking, the fan gets to the speed   *)
(* that is wanted.                                                         *)
SettlesOnWanted == (actualSpeed # wantedSpeed) ~> (actualSpeed = wantedSpeed)

(* The task gets back to its requests for ever, even if the server never    *)
(* takes a status message: a full send_queue costs messages, not control.  *)
NeverWedged == []<>(pc = "receive")
=============================================================================
