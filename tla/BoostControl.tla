----------------------------- MODULE BoostControl -----------------------------
(***************************************************************************)
(* input_task and ventcontrol_task with the input_queue between them, on   *)
(* one clock: from an input pin to the relays.  Each of the two modules    *)
(* assumes something of the other task, InputTask that input_queue is      *)
(* polled in time, VentControl that the end of a boost follows its         *)
(* beginning.  Here nothing is assumed, and both are shown.                *)
(*                                                                         *)
(* The clock moves with the readings of input_task.  The tasks compute in  *)
(* far less than that, so it moves only while ventcontrol_task is in a     *)
(* call that blocks, and at most for as long as the call waits.  The 10    *)
(* ticks of an xQueueSend are a fraction of a reading, counted as anything *)
(* up to SendWait readings.                                                *)
(*                                                                         *)
(* A definition named D_Xyz is D with a plausible bug, for the runs that   *)
(* check that a property would notice it; the specification uses none.     *)
(***************************************************************************)
EXTENDS Integers, Sequences, FiniteSets

CONSTANTS
  Inputs, InputDelay, BoostDelay, IntMax,  \* of InputTask
  Clients, Requests, SwitchDelay,          \* of VentControl
  QueueLength,                             \* MAX_QUEUE_LENGTH
  ReceiveWait,  \* what the two xQueueReceive of ventcontrol_task wait, in readings
  SendWait,     \* what its xQueueSend waits, at most
  Backlog       \* a bound on the requests that wait in receive_queue

(* All the calls of one pass of ventcontrol_task that block: a request      *)
(* waited for, two replies that find no room, an edge waited for, the      *)
(* switch of a relay and its announcement.                                 *)
VentLoop == ReceiveWait + 2 * SendWait + ReceiveWait + SwitchDelay + SendWait

ASSUME WaitsAssumption ==
  ReceiveWait \in Nat \ {0} /\ SendWait \in Nat /\ SwitchDelay \in Nat
ASSUME InputsAssumption ==
  /\ IsFiniteSet(Inputs)
  /\ QueueLength \in Nat /\ QueueLength > Cardinality(Inputs)
ASSUME DelaysAssumption ==
  /\ InputDelay \in Nat \ {0} /\ BoostDelay \in Nat \ {0}
  /\ IntMax \in Nat /\ IntMax > InputDelay
  /\ Cardinality(Inputs) * VentLoop <= InputDelay
  /\ (Cardinality(Inputs) + 1) * VentLoop <= BoostDelay

VARIABLES
  inputPc, input_active, input_state, boost, boost_delay, highFor, idleFor,
  ventPc, currentVakantie, actualSpeed, requestedSpeed, boostSpeed, pending,
  delay, relays, relVakantie, openFor, told,
  receive_queue, send_queue, input_queue,
  ventBoost,  \* history: the last edge ventcontrol_task has received
  ventIdle,   \* history: readings since it last polled input_queue
  waited      \* readings since ventcontrol_task is in the call it is in

I == INSTANCE InputTask WITH pc <- inputPc
V == INSTANCE VentControl WITH pc <- ventPc, inputBoost <- I!lastPut

inputVars == <<inputPc, input_active, input_state, boost, boost_delay, highFor, idleFor>>
ventVars == <<ventPc, currentVakantie, actualSpeed, requestedSpeed, boostSpeed, pending,
              delay, relays, relVakantie, openFor, told>>
polled == <<ventBoost, ventIdle>>
vars == <<inputVars, ventVars, receive_queue, send_queue, input_queue, polled, waited>>

Init == I!Init /\ V!Init /\ waited = 0

-----------------------------------------------------------------------------
(* What the calls wait at most: the third argument of xQueueReceive and of  *)
(* xQueueSend, and vTaskDelay.                                             *)
Patience_Forever ==
  [receive |-> IntMax, reply |-> SendWait, input |-> ReceiveWait,
   select |-> 0, close |-> SwitchDelay, broadcast |-> SendWait]

Patience ==
  [receive |-> ReceiveWait, reply |-> SendWait, input |-> ReceiveWait,
   select |-> 0, close |-> SwitchDelay, broadcast |-> SendWait]

GivesUp == waited = Patience[ventPc]

(* The call ventcontrol_task is in cannot return yet. *)
Blocked ==
  \/ ventPc = "receive" /\ receive_queue = <<>>
  \/ ventPc = "input" /\ input_queue = <<>>
  \/ ventPc \in {"reply", "broadcast"} /\ Len(send_queue) = QueueLength
  \/ ventPc = "close" /\ delay > 0

(* The delays ventcontrol_task counts, if it counts any now. *)
VentTick ==
  \/ V!Tick
  \/ delay = 0 /\ (relays # {} \/ openFor = SwitchDelay)
     /\ UNCHANGED <<ventVars, receive_queue, send_queue>>

Reading ==
  /\ Blocked /\ waited < Patience[ventPc]
  /\ I!Pass
  /\ VentTick
  /\ waited' = waited + 1

InputSends == I!SendBoost /\ UNCHANGED <<ventVars, receive_queue, send_queue, waited>>

VentPolls ==
  /\ I!VentPoll
  /\ V!HandleInput \/ (GivesUp /\ V!NoInput)
  /\ waited' = 0

VentRuns ==
  /\ UNCHANGED <<inputVars, input_queue, polled>>
  /\ \/ V!HandleRequest \/ (GivesUp /\ V!NoRequest)
     \/ V!SendStatus \/ V!DropStatus \/ V!KeepSpeed \/ V!SelectLow \/ V!SelectHigh \/ V!CloseRelay
  /\ waited' = 0

ServerRuns ==
  /\ UNCHANGED <<inputVars, input_queue, polled, waited>>
  /\ \/ Len(receive_queue) < Backlog /\ \E m \in Requests : V!ServerPut(m)
     \/ V!ServerTake

Next == Reading \/ InputSends \/ VentPolls \/ VentRuns \/ ServerRuns

(* Both tasks are scheduled and the clock keeps ticking. *)
Fairness ==
  /\ WF_vars(Reading) /\ WF_vars(InputSends)
  /\ WF_vars(VentPolls) /\ WF_vars(VentRuns)

Spec == Init /\ [][Next]_vars /\ Fairness
-----------------------------------------------------------------------------
(* Properties *)

(* input_queue is polled once in VentLoop readings, whatever arrives on the *)
(* other queues and however long the calls of the pass block: what         *)
(* InputTask assumes for an edge to find room.                             *)
PollsInTime == ventIdle <= VentLoop

(* In the composition input_task does what InputTask says, and              *)
(* ventcontrol_task what VentControl says: each task makes the other's     *)
(* assumption true.                                                        *)
TasksImplemented ==
  /\ I!Init /\ [][I!Next]_(I!vars)
  /\ V!Init /\ [][V!Next]_(V!vars)

InputsLow == \A i \in Inputs : highFor[i] = 0

(* When the inputs stay low the fan gets back to what the clients ask for,  *)
(* and nothing of a boost is left, however the requests and the end of the *)
(* boost overtake each other on their two queues.  But a fan that was asked *)
(* to stop in a boost runs on at the normal speed: the end of the boost     *)
(* leaves NORMAL_SPEED in boostSpeed, which is then the higher of the two. *)
Followed ==
  \/ actualSpeed = requestedSpeed
  \/ requestedSpeed = 0 /\ actualSpeed = V!NORMAL_SPEED

FanFollowsRequests == <>[]InputsLow => []<>Followed

(* An input that stays high gets the fan to the boost speed for good,       *)
(* unless a client asks for something else.                                *)
BoostReachesFan ==
  <>[](~InputsLow) /\ [](requestedSpeed = V!NORMAL_SPEED) => <>[](actualSpeed = V!BOOST_SPEED)
=============================================================================
