-------------------------- MODULE VentControlProofs --------------------------
(***************************************************************************)
(* Proofs about VentControl for every set of clients and requests, every   *)
(* queue length and every switch delay: its types, the interlock of the    *)
(* relays, that it implements TwoSpeedMotor, that what clients are told is *)
(* fresh, and that nothing is left of a boost.                             *)
(***************************************************************************)
EXTENDS VentControl, SequenceTheorems, TLAPS

(* In the states in which the task sends, it has something to send. *)
SendsSomething == pc \in {"reply", "broadcast"} => pending # <<>>

(* While the task waits between opening and closing, at most the relay it   *)
(* is about to close is closed (after a SET0), and what is left of the      *)
(* delay makes up for what is missing of the open time.                    *)
Switching ==
  pc = "close" =>
    /\ wantedSpeed \in {2, 3}
    /\ relays \subseteq {wantedSpeed}
    /\ relays = {} => openFor + delay >= SwitchDelay

(* The open time is only counted while no relay is closed. *)
CountsOpenTime == relays # {} => openFor = 0

(* The inductive invariant of the safety theorems. *)
Inv == TypeOK /\ SendsSomething /\ Switching /\ CountsOpenTime /\ Interlock /\ RelaysMatchSpeed

(* TypeOK in parts, each preserved for reasons of its own. *)
FlagTypes ==
  /\ currentVakantie \in BOOLEAN
  /\ relVakantie \in BOOLEAN
  /\ inputBoost \in BOOLEAN
  /\ input_queue \in Seq(BOOLEAN)

TaskTypes ==
  /\ pc \in {"receive", "reply", "input", "select", "close", "broadcast"}
  /\ actualSpeed \in Speeds
  /\ requestedSpeed \in Speeds
  /\ boostSpeed \in Speeds
  /\ pending \in Seq(Status)

RelayTypes ==
  /\ delay \in 0..SwitchDelay
  /\ relays \in SUBSET {2, 3}
  /\ openFor \in 0..SwitchDelay

QueueTypes ==
  /\ receive_queue \in Seq(Request) /\ Len(receive_queue) <= QueueLength
  /\ send_queue \in Seq(Status) /\ Len(send_queue) <= QueueLength
  /\ Len(input_queue) <= QueueLength
  /\ told \in Speeds \cup {Lost}

LEMMA TypeParts == TypeOK <=> FlagTypes /\ TaskTypes /\ RelayTypes /\ QueueTypes
BY DEF TypeOK, FlagTypes, TaskTypes, RelayTypes, QueueTypes

(* Messages made by the task are status messages. *)
LEMMA MessageTypes ==
  ASSUME TypeOK
  PROVE  /\ \A c \in Clients \cup {Broadcast} : SpeedMessage(c) \in Status
         /\ \A c \in Clients, v \in BOOLEAN : VakantieMessage(c, v) \in Status
         /\ wantedSpeed \in Speeds
         /\ [SpeedMessage(Broadcast) EXCEPT !.value = wantedSpeed] \in Status
BY DEF TypeOK, Status, SpeedMessage, VakantieMessage, wantedSpeed, Speeds

(* What is taken from receive_queue is a request. *)
LEMMA RequestTaken ==
  ASSUME TypeOK, receive_queue # <<>>, NEW m, m = Head(receive_queue)
  PROVE  /\ m.client \in Clients
         /\ m.value \in Speeds
         /\ Tail(receive_queue) \in Seq(Request)
         /\ Len(Tail(receive_queue)) <= QueueLength
<1>1. m \in Request /\ Tail(receive_queue) \in Seq(Request)
      /\ Len(Tail(receive_queue)) <= QueueLength
  BY HeadTailProperties, QueueLengthAssumption DEF TypeOK
<1>2. m.client \in Clients /\ m.value \in Speeds
  BY <1>1 DEF Request, Speeds
<1>3. QED
  BY <1>1, <1>2

(* What the task sends is a status message, and status messages remain. *)
LEMMA StatusSent ==
  ASSUME TypeOK, SendsSomething, SendDone
  PROVE  /\ Head(pending) \in Status
         /\ Head(pending).value \in Speeds
         /\ Tail(pending) \in Seq(Status)
<1>1. Head(pending) \in Status /\ Tail(pending) \in Seq(Status)
  BY HeadTailProperties DEF TypeOK, SendsSomething, SendDone
<1>2. Head(pending).value \in Speeds
  BY <1>1 DEF Status, Speeds
<1>3. QED
  BY <1>1, <1>2

LEMMA InitInv == Init => Inv
<1> SUFFICES ASSUME Init PROVE Inv
  OBVIOUS
<1>1. FlagTypes
  BY EmptySeq DEF Init, FlagTypes
<1>2. TaskTypes
  BY EmptySeq DEF Init, TaskTypes, Speeds
<1>3. RelayTypes
  BY SwitchDelayAssumption DEF Init, RelayTypes
<1>4. QueueTypes
  <2>1. receive_queue \in Seq(Request) /\ send_queue \in Seq(Status)
    BY EmptySeq DEF Init
  <2>2. Len(receive_queue) = 0 /\ Len(send_queue) = 0 /\ Len(input_queue) = 0 /\ told = 0
    BY EmptySeq DEF Init
  <2>3. QED
    BY <2>1, <2>2, QueueLengthAssumption DEF QueueTypes, Speeds
<1>5. SendsSomething /\ Switching /\ CountsOpenTime /\ Interlock /\ RelaysMatchSpeed
  BY DEF Init, SendsSomething, Switching, CountsOpenTime, Interlock, RelaysMatchSpeed
<1>6. QED
  BY <1>1, <1>2, <1>3, <1>4, <1>5, TypeParts DEF Inv

-----------------------------------------------------------------------------
(* Types *)

LEMMA FlagTypesStep ==
  ASSUME TypeOK, Next
  PROVE  FlagTypes'
<1> USE DEF relayVars, queueVars, taskVars
<1> FlagTypes
  BY TypeParts
<1>1. CASE HandleRequest
  <2> DEFINE m == Head(receive_queue)
  <2>1. UNCHANGED <<input_queue, inputBoost>> /\ (SetSpeed(m) \/ SetVakantie(m) \/ GetStatus(m))
    BY <1>1 DEF HandleRequest
  <2>2. currentVakantie' \in BOOLEAN /\ relVakantie' \in BOOLEAN
    <3> DEFINE on == m.value > 0
    <3>1. on \in BOOLEAN
      OBVIOUS
    <3> HIDE DEF on, m
    <3>2. CASE SetVakantie(m)
      <4>1. currentVakantie' = on /\ relVakantie' = on
        BY <3>2 DEF SetVakantie, on
      <4>2. QED
        BY <3>1, <4>1
    <3>3. CASE SetSpeed(m) \/ GetStatus(m)
      BY <3>3 DEF SetSpeed, GetStatus, FlagTypes
    <3>4. QED
      BY <2>1, <3>2, <3>3
  <2>3. QED
    BY <2>1, <2>2 DEF FlagTypes
<1>2. CASE NoRequest
  BY <1>2 DEF NoRequest, FlagTypes
<1>3. CASE SendStatus \/ DropStatus
  BY <1>3 DEF SendStatus, DropStatus, SendDone, FlagTypes
<1>4. CASE HandleInput
  <2>1. input_queue' \in Seq(BOOLEAN)
    BY <1>4, HeadTailProperties DEF HandleInput, FlagTypes
  <2>2. QED
    BY <1>4, <2>1 DEF HandleInput, FlagTypes
<1>5. CASE NoInput \/ KeepSpeed \/ SelectLow \/ SelectHigh \/ CloseRelay \/ Tick
  BY <1>5 DEF NoInput, KeepSpeed, SelectLow, SelectHigh, CloseRelay, Tick, FlagTypes
<1>6. ASSUME NEW b \in BOOLEAN, InputPut(b) PROVE FlagTypes'
  <2>1. input_queue' \in Seq(BOOLEAN)
    BY <1>6, AppendProperties DEF InputPut, FlagTypes
  <2>2. QED
    BY <1>6, <2>1 DEF InputPut, FlagTypes
<1>7. CASE ServerTake \/ \E m \in Requests : ServerPut(m)
  BY <1>7 DEF ServerTake, ServerPut, FlagTypes
<1>8. QED
  BY <1>1, <1>2, <1>3, <1>4, <1>5, <1>6, <1>7 DEF Next, Task, Environment

LEMMA TaskTypesStep ==
  ASSUME TypeOK, SendsSomething, Next
  PROVE  TaskTypes' /\ SendsSomething'
<1> USE DEF relayVars, queueVars, taskVars
<1> TaskTypes
  BY TypeParts
<1>1. CASE HandleRequest
  <2> DEFINE m == Head(receive_queue)
  <2>1. receive_queue # <<>> /\ actualSpeed' = actualSpeed /\ (SetSpeed(m) \/ SetVakantie(m) \/ GetStatus(m))
    BY <1>1 DEF HandleRequest
  <2>2. m.client \in Clients /\ m.value \in Speeds
    BY <2>1, RequestTaken
  <2> HIDE DEF m
  <2>3. CASE SetSpeed(m)
    BY <2>1, <2>2, <2>3 DEF SetSpeed, TaskTypes, SendsSomething
  <2>4. CASE SetVakantie(m)
    <3> DEFINE on == m.value > 0
    <3>1. on \in BOOLEAN
      OBVIOUS
    <3> HIDE DEF on
    <3>2. pending' = <<VakantieMessage(m.client, on)>>
      BY <2>4 DEF SetVakantie, on
    <3>3. pending' \in Seq(Status) /\ pending' # <<>>
      BY <2>2, <3>1, <3>2, MessageTypes
    <3>4. QED
      BY <2>1, <2>4, <3>3 DEF SetVakantie, TaskTypes, SendsSomething
  <2>5. CASE GetStatus(m)
    <3>1. /\ SpeedMessage(m.client) \in Status
          /\ VakantieMessage(m.client, currentVakantie) \in Status
      BY <2>2, MessageTypes DEF TypeOK
    <3>2. pending' \in Seq(Status) /\ pending' # <<>>
      BY <2>5, <3>1 DEF GetStatus
    <3>3. QED
      BY <2>1, <2>5, <3>2 DEF GetStatus, TaskTypes, SendsSomething
  <2>6. QED
    BY <2>1, <2>3, <2>4, <2>5
<1>2. CASE SendStatus \/ DropStatus
  <2>1. SendDone
    BY <1>2 DEF SendStatus, DropStatus
  <2>2. pending' \in Seq(Status)
    BY <2>1, StatusSent DEF SendDone
  <2>3. QED
    BY <2>1, <2>2 DEF SendDone, AfterSend, TaskTypes, SendsSomething
<1>3. CASE HandleInput
  <2>1. boostSpeed' = BOOST_SPEED \/ boostSpeed' = NORMAL_SPEED
    BY <1>3, Zenon DEF HandleInput, BoostOf
  <2>2. pc' = "select" /\ UNCHANGED <<actualSpeed, requestedSpeed, pending>>
    BY <1>3 DEF HandleInput
  <2>3. QED
    BY <2>1, <2>2 DEF TaskTypes, SendsSomething, Speeds, BOOST_SPEED, NORMAL_SPEED
<1>4. CASE SelectLow \/ CloseRelay
  <2>1. Announce /\ UNCHANGED <<requestedSpeed, boostSpeed>>
    BY <1>4 DEF SelectLow, CloseRelay
  <2>2. actualSpeed' \in Speeds /\ pending' \in Seq(Status) /\ pending' # <<>> /\ pc' = "broadcast"
    BY <2>1, MessageTypes DEF Announce
  <2>3. QED
    BY <2>1, <2>2 DEF TaskTypes, SendsSomething
<1>5. CASE NoRequest \/ NoInput \/ KeepSpeed \/ SelectHigh
  BY <1>5 DEF NoRequest, NoInput, KeepSpeed, SelectHigh, TaskTypes, SendsSomething
<1>6. CASE Tick \/ Environment
  BY <1>6 DEF Tick, Environment, ServerPut, ServerTake, InputPut, TaskTypes, SendsSomething
<1>7. QED
  BY <1>1, <1>2, <1>3, <1>4, <1>5, <1>6 DEF Next, Task

LEMMA RelayTypesStep ==
  ASSUME TypeOK, Switching, Next
  PROVE  RelayTypes'
<1> USE DEF relayVars, queueVars, taskVars
<1> RelayTypes /\ wantedSpeed \in Speeds
  BY TypeParts, MessageTypes
<1> USE SwitchDelayAssumption
<1>1. ASSUME NEW opened, Open(opened), delay' \in 0..SwitchDelay PROVE RelayTypes'
  <2>1. relays' \in SUBSET {2, 3}
    BY <1>1 DEF Open, RelayTypes
  <2>2. openFor' = 0 \/ openFor' = openFor
    BY <1>1 DEF Open
  <2>3. QED
    BY <1>1, <2>1, <2>2 DEF RelayTypes
<1>2. CASE SelectLow \/ SelectHigh
  BY <1>1, <1>2 DEF SelectLow, SelectHigh, SwitchTicks, RelayTypes
<1>3. CASE CloseRelay
  BY <1>3 DEF CloseRelay, Close, Switching, RelayTypes
<1>4. CASE Tick
  BY <1>4 DEF Tick, RelayTypes
<1>5. CASE HandleRequest \/ NoRequest \/ SendStatus \/ DropStatus
  BY <1>5 DEF HandleRequest, NoRequest, SendStatus, DropStatus, SendDone, RelayTypes
<1>6. CASE HandleInput \/ NoInput \/ KeepSpeed
  BY <1>6 DEF HandleInput, NoInput, KeepSpeed, RelayTypes
<1>7. CASE Environment
  BY <1>7 DEF Environment, ServerPut, ServerTake, InputPut, RelayTypes
<1>8. QED
  BY <1>2, <1>3, <1>4, <1>5, <1>6, <1>7 DEF Next, Task

LEMMA QueueTypesStep ==
  ASSUME TypeOK, SendsSomething, Next
  PROVE  QueueTypes'
<1> USE DEF relayVars, queueVars, taskVars
<1> QueueTypes /\ input_queue \in Seq(BOOLEAN)
  BY TypeParts DEF FlagTypes
<1> USE QueueLengthAssumption
<1>1. CASE HandleRequest
  <2>1. /\ receive_queue # <<>> /\ receive_queue' = Tail(receive_queue)
        /\ UNCHANGED <<send_queue, input_queue, told>>
    BY <1>1 DEF HandleRequest
  <2>2. receive_queue' \in Seq(Request) /\ Len(receive_queue') <= QueueLength
    BY <2>1, RequestTaken
  <2>3. QED
    BY <2>1, <2>2 DEF QueueTypes
<1>2. CASE SendStatus
  <2>1. SendDone /\ UNCHANGED <<receive_queue, input_queue>>
    BY <1>2 DEF SendStatus, SendDone
  <2>2. send_queue' \in Seq(Status) /\ Len(send_queue') <= QueueLength
    BY <1>2, <2>1, StatusSent, AppendProperties DEF SendStatus, QueueTypes
  <2>3. told' \in Speeds \cup {Lost}
    BY <1>2, <2>1, StatusSent DEF SendStatus, QueueTypes
  <2>4. QED
    BY <2>1, <2>2, <2>3 DEF QueueTypes
<1>3. CASE DropStatus
  BY <1>3 DEF DropStatus, SendDone, QueueTypes
<1>4. CASE HandleInput
  <2>1. /\ input_queue # <<>> /\ input_queue' = Tail(input_queue)
        /\ UNCHANGED <<receive_queue, send_queue, told>>
    BY <1>4 DEF HandleInput
  <2>2. Len(input_queue') <= QueueLength
    BY <2>1, HeadTailProperties DEF QueueTypes
  <2>3. QED
    BY <2>1, <2>2 DEF QueueTypes
<1>5. CASE NoRequest \/ NoInput \/ KeepSpeed \/ SelectLow \/ SelectHigh \/ CloseRelay \/ Tick
  BY <1>5 DEF NoRequest, NoInput, KeepSpeed, SelectLow, SelectHigh, CloseRelay, Tick, QueueTypes
<1>6. ASSUME NEW m \in Requests, ServerPut(m) PROVE QueueTypes'
  <2>1. m \in Request
    BY RequestsAssumption
  <2>2. QED
    BY <1>6, <2>1, AppendProperties DEF ServerPut, QueueTypes
<1>7. CASE ServerTake
  BY <1>7, HeadTailProperties DEF ServerTake, QueueTypes
<1>8. ASSUME NEW b \in BOOLEAN, InputPut(b) PROVE QueueTypes'
  BY <1>8, AppendProperties DEF InputPut, QueueTypes
<1>9. QED
  BY <1>1, <1>2, <1>3, <1>4, <1>5, <1>6, <1>7, <1>8 DEF Next, Task, Environment

-----------------------------------------------------------------------------
(* The relays *)

LEMMA RelaysStep ==
  ASSUME Inv, Next
  PROVE  Switching' /\ CountsOpenTime' /\ Interlock' /\ RelaysMatchSpeed'
<1> USE DEF relayVars, queueVars, taskVars
<1> DEFINE Goal == Switching' /\ CountsOpenTime' /\ Interlock' /\ RelaysMatchSpeed'
<1> RelayTypes /\ wantedSpeed \in Speeds /\ actualSpeed \in Speeds
    /\ Switching /\ CountsOpenTime /\ Interlock /\ RelaysMatchSpeed
  BY TypeParts, MessageTypes DEF Inv, TypeOK
<1> USE SwitchDelayAssumption
<1>1. ASSUME UNCHANGED <<relays, delay, openFor, actualSpeed>>, pc # "close", pc' # "close"
      PROVE  Goal
  BY <1>1 DEF Switching, CountsOpenTime, Interlock, RelaysMatchSpeed
<1>2. CASE HandleRequest
  BY <1>1, <1>2 DEF HandleRequest, SetSpeed, SetVakantie, GetStatus
<1>3. CASE SendStatus \/ DropStatus
  BY <1>1, <1>3 DEF SendStatus, DropStatus, SendDone, AfterSend
<1>4. CASE NoRequest \/ HandleInput \/ NoInput \/ KeepSpeed
  BY <1>1, <1>4 DEF NoRequest, HandleInput, NoInput, KeepSpeed
<1>5. CASE SelectLow
  <2>1. pc' = "broadcast" /\ actualSpeed' = wantedSpeed /\ wantedSpeed \in {0, 1}
    BY <1>5 DEF SelectLow, Announce
  <2>2. CASE wantedSpeed = 0
    <3>1. relays' = relays /\ openFor' = openFor
      BY <1>5, <2>2 DEF SelectLow, Open, RelaysToOpen
    <3>2. QED
      BY <2>1, <2>2, <3>1 DEF Switching, CountsOpenTime, Interlock, RelaysMatchSpeed
  <2>3. CASE wantedSpeed = 1
    <3>1. relays' = {}
      BY <1>5, <2>3 DEF SelectLow, Open, RelaysToOpen, RelayTypes
    <3>2. QED
      BY <2>1, <2>3, <3>1 DEF Switching, CountsOpenTime, Interlock, RelaysMatchSpeed
  <2>4. QED
    BY <2>1, <2>2, <2>3
<1>6. CASE SelectHigh
  <2>1. /\ pc' = "close" /\ delay' = SwitchDelay /\ wantedSpeed' = wantedSpeed
        /\ wantedSpeed \in {2, 3}
        /\ Open(RelaysToOpen(wantedSpeed))
    BY <1>6 DEF SelectHigh, SwitchTicks, wantedSpeed
  <2>2. RelaysToOpen(wantedSpeed) = {2, 3} \ {wantedSpeed}
    BY <2>1 DEF RelaysToOpen
  <2>3. relays' = relays \cap {wantedSpeed} /\ openFor' \in {0, openFor}
    BY <2>1, <2>2 DEF Open, RelayTypes
  <2>4. Switching'
    <3>1. openFor' + delay' >= SwitchDelay
      <4>1. openFor' \in Nat
        BY <2>3, SwitchDelayAssumption DEF RelayTypes
      <4>2. delay' = SwitchDelay /\ SwitchDelay \in Nat
        BY <2>1, SwitchDelayAssumption
      <4>3. \A n, d \in Nat : n + d >= d
        OBVIOUS
      <4>4. QED
        BY <4>1, <4>2, <4>3
    <3>2. relays' \subseteq {wantedSpeed}
      BY <2>3
    <3>3. QED
      BY <2>1, <3>1, <3>2 DEF Switching
  <2>5. CountsOpenTime'
    BY <2>3 DEF CountsOpenTime
  <2>6. QED
    BY <2>1, <2>3, <2>4, <2>5 DEF Interlock, RelaysMatchSpeed
<1>7. CASE CloseRelay
  <2>1. /\ pc' = "broadcast" /\ actualSpeed' = wantedSpeed /\ wantedSpeed \in {2, 3}
        /\ relays' = {wantedSpeed} /\ openFor' = 0
    BY <1>7 DEF CloseRelay, Close, Announce, Switching
  <2>2. QED
    BY <2>1 DEF Switching, CountsOpenTime, Interlock, RelaysMatchSpeed
<1>8. CASE Tick
  <2>1. UNCHANGED <<pc, relays, actualSpeed, wantedSpeed>>
    BY <1>8 DEF Tick, wantedSpeed
  <2>2. Switching'
    BY <1>8, <2>1 DEF Tick, Switching, RelayTypes
  <2>3. CountsOpenTime'
    BY <1>8, <2>1 DEF Tick, CountsOpenTime
  <2>4. QED
    BY <2>1, <2>2, <2>3 DEF Interlock, RelaysMatchSpeed
<1>9. CASE Environment
  <2>1. UNCHANGED <<pc, relays, delay, openFor, actualSpeed, wantedSpeed>>
    BY <1>9 DEF Environment, ServerPut, ServerTake, InputPut, wantedSpeed
  <2>2. QED
    BY <2>1 DEF Switching, CountsOpenTime, Interlock, RelaysMatchSpeed
<1>10. QED
  BY <1>2, <1>3, <1>4, <1>5, <1>6, <1>7, <1>8, <1>9 DEF Next, Task

-----------------------------------------------------------------------------
(* The theorems *)

LEMMA StutterInv == ASSUME Inv, UNCHANGED vars PROVE Inv'
BY DEF Inv, TypeOK, SendsSomething, Switching, wantedSpeed, CountsOpenTime, Interlock,
       RelaysMatchSpeed, vars, taskVars, relayVars, queueVars

LEMMA StepInv == ASSUME Inv, [Next]_vars PROVE Inv'
<1>1. CASE Next
  <2>1. TypeOK' <=> FlagTypes' /\ TaskTypes' /\ RelayTypes' /\ QueueTypes'
    BY DEF TypeOK, FlagTypes, TaskTypes, RelayTypes, QueueTypes
  <2>2. QED
    BY <1>1, <2>1, FlagTypesStep, TaskTypesStep, RelayTypesStep, QueueTypesStep, RelaysStep DEF Inv
<1>2. CASE UNCHANGED vars
  BY <1>2, StutterInv
<1>3. QED
  BY <1>1, <1>2

LEMMA SpecInv == Spec => []Inv
BY InitInv, StepInv, PTL DEF Spec

(* Every variable of ventcontrol_task keeps to its type and no queue ever   *)
(* holds more than xQueueCreate gave it room for.                          *)
THEOREM TypesHold == Spec => []TypeOK
<1>1. Inv => TypeOK
  BY DEF Inv
<1>2. QED
  BY <1>1, SpecInv, PTL

(* gpio_put never has both speed relays closed, for any interleaving of     *)
(* requests and boosts with a switch and any length of the switch.         *)
THEOREM InterlockHolds == Spec => []Interlock
<1>1. Inv => Interlock
  BY DEF Inv
<1>2. QED
  BY <1>1, SpecInv, PTL

(* Except at speed 0, the relays the task has closed are those of the speed *)
(* it reports, whenever it is not in the middle of a switch.               *)
THEOREM RelaysMatchSpeedHolds == Spec => []RelaysMatchSpeed
<1>1. Inv => RelaysMatchSpeed
  BY DEF Inv
<1>2. QED
  BY <1>1, SpecInv, PTL

(* What a step of the task or a tick of the clock is for the motor. *)
LEMMA MotorInit == Init => Motor!Init
BY DEF Init, Motor!Init

LEMMA MotorStep ==
  ASSUME Inv, [Next]_vars
  PROVE  [Motor!Next]_<<relays, openFor>>
<1> USE DEF relayVars, queueVars, taskVars
<1> DEFINE Goal == [Motor!Next]_<<relays, openFor>>
<1> RelayTypes /\ wantedSpeed \in Speeds /\ Switching /\ CountsOpenTime /\ Interlock
  BY TypeParts, MessageTypes DEF Inv
<1> USE SwitchDelayAssumption
<1>1. CASE UNCHANGED <<relays, openFor>>
  BY <1>1
<1>2. ASSUME relays # {}, relays' = {}, openFor' = 0 PROVE Goal
  BY <1>2 DEF Motor!Next, Motor!Release
<1>3. CASE SelectLow \/ SelectHigh
  <2> DEFINE opened == RelaysToOpen(wantedSpeed)
  <2>1. Open(opened) /\ wantedSpeed \in 0..3
    BY <1>3 DEF SelectLow, SelectHigh, Speeds
  <2>2. opened \in {{}, {2, 3}, {2}, {3}}
    BY <2>1 DEF RelaysToOpen
  <2> HIDE DEF opened
  <2>3. CASE relays \cap opened = {}
    <3>1. relays' = relays /\ openFor' = openFor
      BY <2>1, <2>3 DEF Open
    <3>2. QED
      BY <1>1, <3>1
  <2>4. CASE relays \cap opened # {}
    <3>1. relays \in {{2}, {3}}
      BY <2>4 DEF RelayTypes, Interlock
    <3>2. relays \ opened = {}
      BY <2>4, <3>1
    <3>3. relays # {} /\ relays' = {} /\ openFor' = 0
      BY <2>1, <2>4, <3>2 DEF Open
    <3>4. QED
      BY <1>2, <3>3
  <2>5. QED
    BY <2>3, <2>4
<1>4. CASE CloseRelay
  <2>1. /\ wantedSpeed \in {2, 3} /\ relays \subseteq {wantedSpeed} /\ delay = 0
        /\ relays = {} => openFor + delay >= SwitchDelay
        /\ relays' = {wantedSpeed} /\ openFor' = 0
    BY <1>4 DEF CloseRelay, Close, Switching
  <2>2. CASE relays = {}
    <3>1. openFor = SwitchDelay
      BY <2>1, <2>2 DEF RelayTypes
    <3>2. Motor!Power(wantedSpeed)
      BY <2>1, <2>2, <3>1 DEF Motor!Power
    <3>3. QED
      BY <2>1, <3>2 DEF Motor!Next
  <2>3. CASE relays # {}
    BY <1>1, <2>1, <2>3 DEF CountsOpenTime
  <2>4. QED
    BY <2>2, <2>3
<1>5. CASE Tick
  <2>1. CASE relays = {} /\ openFor < SwitchDelay
    BY <1>5, <2>1 DEF Tick, Motor!Next, Motor!Elapse
  <2>2. CASE ~(relays = {} /\ openFor < SwitchDelay)
    BY <1>1, <1>5, <2>2 DEF Tick
  <2>3. QED
    BY <2>1, <2>2
<1>6. CASE Environment \/ UNCHANGED vars
  BY <1>1, <1>6 DEF Environment, ServerPut, ServerTake, InputPut, vars
<1>7. CASE HandleRequest \/ NoRequest \/ SendStatus \/ DropStatus \/ HandleInput \/ NoInput \/ KeepSpeed
  BY <1>1, <1>7 DEF HandleRequest, NoRequest, SendStatus, DropStatus, SendDone, HandleInput,
                    NoInput, KeepSpeed
<1>8. QED
  BY <1>3, <1>4, <1>5, <1>6, <1>7 DEF Next, Task

(* ventcontrol_task drives a two speed motor as the motor must be driven:   *)
(* one winding at a time, and never a winding before all have been without  *)
(* power for the whole switch delay.                                       *)
THEOREM ImplementsMotor == Spec => MotorSpec
BY SpecInv, MotorInit, MotorStep, PTL DEF Spec, MotorSpec, Motor!Spec

-----------------------------------------------------------------------------
(* What clients are told is fresh, and nothing is left of a boost *)

(* Every speed the task still has to send is the actual one: actualSpeed    *)
(* only changes when the pending messages are made anew.                   *)
PendingFresh ==
  \A i \in 1..Len(pending) :
    pending[i].message_type = "CURRENT_SPEED" => pending[i].value = actualSpeed

(* The announcement of a switch is one message, and until it is sent the    *)
(* clients may have been told the speed of before.                         *)
ToldFresh ==
  IF pc = "broadcast"
  THEN Len(pending) = 1 /\ pending[1].message_type = "CURRENT_SPEED"
  ELSE told \in {actualSpeed, Lost}

(* The edge put last is the last in the queue. *)
LastEdge == input_queue # <<>> => input_queue[Len(input_queue)] = inputBoost

StatusInv == Inv /\ PendingFresh /\ ToldFresh
BoostInv == Inv /\ LastEdge /\ BoostOver

-----------------------------------------------------------------------------
(* What Head and Tail of a sequence are, element by element. *)
LEMMA TailElements ==
  ASSUME NEW S, NEW s \in Seq(S), s # <<>>
  PROVE  /\ Len(s) \in Nat /\ Len(s) >= 1
         /\ Head(s) = s[1]
         /\ Len(Tail(s)) = Len(s) - 1
         /\ \A i \in 1..Len(Tail(s)) : Tail(s)[i] = s[i + 1]
         /\ Tail(s) = <<>> <=> Len(Tail(s)) = 0
<1>1. Len(s) \in Nat /\ Len(s) >= 1
  BY EmptySeq, LenProperties
<1>2. /\ Tail(s) \in Seq(S) /\ Len(Tail(s)) = Len(s) - 1
      /\ \A i \in 1..Len(Tail(s)) : Tail(s)[i] = s[i + 1]
  BY HeadTailProperties
<1>3. Tail(s) = <<>> <=> Len(Tail(s)) = 0
  BY <1>2, EmptySeq
<1>4. QED
  BY <1>1, <1>2, <1>3

LEMMA InitStatus == Init => StatusInv
<1> SUFFICES ASSUME Init PROVE StatusInv
  OBVIOUS
<1>1. PendingFresh /\ ToldFresh
  BY DEF Init, PendingFresh, ToldFresh
<1>2. QED
  BY <1>1, InitInv DEF StatusInv

(* Sending takes one message off, and what it tells is the actual speed. *)
LEMMA SendFresh ==
  ASSUME StatusInv, SendStatus \/ DropStatus
  PROVE  PendingFresh' /\ ToldFresh'
<1> SendDone /\ TypeOK /\ SendsSomething /\ PendingFresh /\ ToldFresh
  BY DEF SendStatus, DropStatus, StatusInv, Inv
<1>1. /\ pending \in Seq(Status) /\ pending # <<>> /\ pending' = Tail(pending)
      /\ actualSpeed' = actualSpeed
      /\ pc \in {"reply", "broadcast"}
      /\ pc' = IF pending' = <<>> THEN AfterSend[pc] ELSE pc
  BY DEF SendDone, TypeOK, SendsSomething
<1>2. /\ Len(pending) \in Nat /\ Len(pending) >= 1
      /\ Head(pending) = pending[1]
      /\ Len(pending') = Len(pending) - 1
      /\ \A i \in 1..Len(pending') : pending'[i] = pending[i + 1]
  BY <1>1, TailElements
<1>3. PendingFresh'
  <2> SUFFICES ASSUME NEW i \in 1..Len(pending'), pending'[i].message_type = "CURRENT_SPEED"
               PROVE  pending'[i].value = actualSpeed'
    BY DEF PendingFresh
  <2>1. i + 1 \in 1..Len(pending) /\ pending'[i] = pending[i + 1]
    BY <1>2
  <2>2. QED
    BY <1>1, <2>1 DEF PendingFresh
<1>4. Head(pending).message_type = "CURRENT_SPEED" => Head(pending).value = actualSpeed
  BY <1>2 DEF PendingFresh
<1>5. CASE pc = "reply"
  <2>1. pc' # "broadcast"
    BY <1>1, <1>5 DEF AfterSend
  <2>2. told' \in {told, actualSpeed}
    BY <1>4, <1>5 DEF SendStatus, DropStatus
  <2>3. QED
    BY <1>1, <1>3, <1>5, <2>1, <2>2 DEF ToldFresh
<1>6. CASE pc = "broadcast"
  <2>1. Len(pending) = 1 /\ Head(pending).message_type = "CURRENT_SPEED"
    BY <1>2, <1>6 DEF ToldFresh
  <2>2. pending' = <<>>
    BY <1>1, <1>2, <2>1, HeadTailProperties, EmptySeq
  <2>3. pc' = "receive"
    BY <1>1, <1>6, <2>2 DEF AfterSend
  <2>4. told' \in {actualSpeed, Lost}
    BY <1>4, <1>6, <2>1 DEF SendStatus, DropStatus
  <2>5. QED
    BY <1>1, <1>3, <2>3, <2>4 DEF ToldFresh
<1>7. QED
  BY <1>1, <1>5, <1>6

LEMMA StatusStep ==
  ASSUME StatusInv, [Next]_vars
  PROVE  PendingFresh' /\ ToldFresh'
<1> USE DEF relayVars, queueVars, taskVars
<1> PendingFresh /\ ToldFresh
  BY DEF StatusInv
<1>1. ASSUME UNCHANGED <<pending, actualSpeed, told>>, pc # "broadcast", pc' # "broadcast"
      PROVE  PendingFresh' /\ ToldFresh'
  BY <1>1 DEF PendingFresh, ToldFresh
<1>2. CASE HandleRequest
  <2> DEFINE m == Head(receive_queue)
  <2>1. /\ pc = "receive" /\ UNCHANGED <<actualSpeed, told>>
        /\ SetSpeed(m) \/ SetVakantie(m) \/ GetStatus(m)
    BY <1>2 DEF HandleRequest
  <2> HIDE DEF m
  <2>2. CASE SetSpeed(m)
    BY <1>1, <2>1, <2>2 DEF SetSpeed
  <2>3. ASSUME NEW v, pending' = <<VakantieMessage(m.client, v)>>, pc' = "reply"
        PROVE  PendingFresh' /\ ToldFresh'
    BY <2>1, <2>3 DEF PendingFresh, ToldFresh, VakantieMessage
  <2>4. CASE SetVakantie(m)
    BY <2>3, <2>4 DEF SetVakantie
  <2>5. CASE GetStatus(m)
    <3>1. pending' = <<SpeedMessage(m.client), VakantieMessage(m.client, currentVakantie)>>
          /\ pc' = "reply"
      BY <2>5 DEF GetStatus
    <3>2. QED
      BY <2>1, <3>1 DEF PendingFresh, ToldFresh, SpeedMessage, VakantieMessage
  <2>6. QED
    BY <2>1, <2>2, <2>4, <2>5
<1>3. CASE SendStatus \/ DropStatus
  BY <1>3, SendFresh
<1>4. CASE SelectLow \/ CloseRelay
  <2>1. Announce
    BY <1>4 DEF SelectLow, CloseRelay
  <2>2. /\ pending' = <<[SpeedMessage(Broadcast) EXCEPT !.value = wantedSpeed]>>
        /\ actualSpeed' = wantedSpeed /\ pc' = "broadcast"
    BY <2>1 DEF Announce
  <2>3. QED
    BY <2>2 DEF PendingFresh, ToldFresh, SpeedMessage
<1>5. CASE NoRequest \/ HandleInput \/ NoInput \/ KeepSpeed \/ SelectHigh
  BY <1>1, <1>5 DEF NoRequest, HandleInput, NoInput, KeepSpeed, SelectHigh
<1>6. CASE Tick \/ Environment \/ UNCHANGED vars
  <2>1. UNCHANGED <<pc, pending, actualSpeed, told>>
    BY <1>6 DEF Tick, Environment, ServerPut, ServerTake, InputPut, vars
  <2>2. QED
    BY <2>1 DEF PendingFresh, ToldFresh
<1>7. QED
  BY <1>2, <1>3, <1>4, <1>5, <1>6 DEF Next, Task

(* A client that has been told a speed was told the actual one last, or is  *)
(* about to be, or the message that said so was dropped at a full queue:   *)
(* for every order of requests, boosts and switches.                       *)
THEOREM StatusFreshHolds == Spec => []StatusFresh
<1>1. StatusInv /\ [Next]_vars => StatusInv'
  BY StatusStep, StepInv DEF StatusInv
<1>2. StatusInv => StatusFresh
  <2> SUFFICES ASSUME StatusInv PROVE StatusFresh
    OBVIOUS
  <2>1. CASE pc = "broadcast"
    <3>1. Len(pending) = 1 /\ pending[1].message_type = "CURRENT_SPEED"
      BY <2>1 DEF StatusInv, ToldFresh
    <3>2. pending \in Seq(Status)
      BY DEF StatusInv, Inv, TypeOK
    <3>3. DOMAIN pending = 1..Len(pending)
      BY <3>2, LenProperties
    <3>4. 1 \in DOMAIN pending /\ pending[1].value = actualSpeed
      BY <3>1, <3>3 DEF StatusInv, PendingFresh
    <3>5. QED
      BY <3>1, <3>4 DEF StatusFresh
  <2>2. CASE pc # "broadcast"
    BY <2>2 DEF StatusInv, ToldFresh, StatusFresh
  <2>3. QED
    BY <2>1, <2>2
<1>3. QED
  BY <1>1, <1>2, InitStatus, PTL DEF Spec

-----------------------------------------------------------------------------
LEMMA BoostStep ==
  ASSUME BoostInv, [Next]_vars
  PROVE  LastEdge' /\ BoostOver'
<1> USE DEF relayVars, queueVars, taskVars
<1> /\ LastEdge /\ BoostOver /\ input_queue \in Seq(BOOLEAN) /\ inputBoost \in BOOLEAN
    /\ requestedSpeed \in Speeds /\ boostSpeed \in Speeds
  BY DEF BoostInv, Inv, TypeOK
<1>1. ASSUME UNCHANGED <<input_queue, inputBoost, boostSpeed, requestedSpeed>>
      PROVE  LastEdge' /\ BoostOver'
  BY <1>1 DEF LastEdge, BoostOver
<1>2. CASE HandleRequest
  <2> DEFINE m == Head(receive_queue)
  <2>1. /\ UNCHANGED <<input_queue, inputBoost>>
        /\ SetSpeed(m) \/ SetVakantie(m) \/ GetStatus(m)
    BY <1>2 DEF HandleRequest
  <2> HIDE DEF m
  <2>2. CASE SetSpeed(m)
    <3>1. \/ UNCHANGED <<boostSpeed, requestedSpeed>>
          \/ boostSpeed' = requestedSpeed'
      BY <2>2 DEF SetSpeed
    <3>2. QED
      BY <2>1, <3>1 DEF LastEdge, BoostOver
  <2>3. CASE SetVakantie(m) \/ GetStatus(m)
    BY <1>1, <2>1, <2>3 DEF SetVakantie, GetStatus
  <2>4. QED
    BY <2>1, <2>2, <2>3
<1>3. CASE HandleInput
  <2>1. /\ input_queue # <<>> /\ input_queue' = Tail(input_queue)
        /\ boostSpeed' = BoostOf(Head(input_queue))
        /\ UNCHANGED <<inputBoost, requestedSpeed>>
    BY <1>3 DEF HandleInput
  <2>2. /\ Len(input_queue) \in Nat /\ Len(input_queue) >= 1
        /\ Head(input_queue) = input_queue[1]
        /\ Len(input_queue') = Len(input_queue) - 1
        /\ \A i \in 1..Len(input_queue') : input_queue'[i] = input_queue[i + 1]
        /\ input_queue' = <<>> <=> Len(input_queue') = 0
    BY <2>1, TailElements
  <2>3. LastEdge'
    <3>1. CASE input_queue' = <<>>
      BY <3>1 DEF LastEdge
    <3>2. CASE input_queue' # <<>>
      <4>1. Len(input_queue') \in 1..Len(input_queue') /\ Len(input_queue') + 1 = Len(input_queue)
        BY <2>2, <3>2
      <4>2. input_queue'[Len(input_queue')] = input_queue[Len(input_queue)]
        BY <2>2, <4>1
      <4>3. QED
        BY <2>1, <4>2 DEF LastEdge
    <3>3. QED
      BY <3>1, <3>2
  <2>4. BoostOver'
    <3> SUFFICES ASSUME input_queue' = <<>>, ~inputBoost'
                 PROVE  boostSpeed' = NORMAL_SPEED
      BY DEF BoostOver
    <3>1. Head(input_queue) = inputBoost
      BY <2>1, <2>2 DEF LastEdge
    <3>2. ~Head(input_queue)
      BY <2>1, <3>1
    <3>3. QED
      BY <2>1, <3>2, Zenon DEF BoostOf
  <2>5. QED
    BY <2>3, <2>4
<1>4. ASSUME NEW b \in BOOLEAN, InputPut(b) PROVE LastEdge' /\ BoostOver'
  <2>1. input_queue' = Append(input_queue, b) /\ inputBoost' = b
    BY <1>4 DEF InputPut
  <2>2. input_queue' # <<>> /\ input_queue'[Len(input_queue')] = b
    BY <2>1, AppendProperties
  <2>3. QED
    BY <2>1, <2>2 DEF LastEdge, BoostOver
<1>5. CASE NoRequest \/ SendStatus \/ DropStatus
  BY <1>1, <1>5 DEF NoRequest, SendStatus, DropStatus, SendDone
<1>6. CASE NoInput \/ KeepSpeed \/ SelectLow \/ SelectHigh \/ CloseRelay
  BY <1>1, <1>6 DEF NoInput, KeepSpeed, SelectLow, SelectHigh, CloseRelay
<1>7. CASE Tick \/ ServerTake \/ (\E m \in Requests : ServerPut(m)) \/ UNCHANGED vars
  BY <1>1, <1>7 DEF Tick, ServerPut, ServerTake, vars
<1>8. QED
  BY <1>2, <1>3, <1>4, <1>5, <1>6, <1>7 DEF Next, Task, Environment

(* Once the end of a boost has been received the fan is not boosted any     *)
(* more, whatever requests came before, in or after the boost.             *)
THEOREM BoostOverHolds == Spec => []BoostOver
<1>1. Init => BoostInv
  BY InitInv DEF BoostInv, Init, LastEdge, BoostOver, NORMAL_SPEED
<1>2. BoostInv /\ [Next]_vars => BoostInv'
  BY BoostStep, StepInv DEF BoostInv
<1>3. BoostInv => BoostOver
  BY DEF BoostInv
<1>4. QED
  BY <1>1, <1>2, <1>3, PTL DEF Spec
=============================================================================
