------------------------------ MODULE InputTask ------------------------------
(***************************************************************************)
(* input_task (firmware/src/input.c): reads the inputs every 100 ms.  An   *)
(* input that stays high for more than INPUT_DELAY_MS starts a boost; when *)
(* no input is active any more the boost runs on for BOOST_DELAY_MS.  The  *)
(* beginning and the end are put on input_queue, for ventcontrol_task.     *)
(*                                                                         *)
(* A definition named D_Xyz is D with a plausible bug, for the runs that   *)
(* check that a property would notice it; the specification uses none.     *)
(*                                                                         *)
(* Times are counted in readings (INPUT_READ_DELAY_MS).  One pass of the   *)
(* loop touches only locals, so it is one step up to its xQueueSend.  The  *)
(* consumer is external: it polls the queue at least once in VentLoop      *)
(* readings (the blocking calls of one pass of ventcontrol_task add up to  *)
(* 500 + 2*10 + 500 + 500 + 10 ticks, 16 readings).                        *)
(***************************************************************************)
EXTENDS Integers, Sequences, FiniteSets

CONSTANTS
  Inputs,       \* the four input pins
  InputDelay,   \* INPUT_DELAY_MS in readings
  BoostDelay,   \* BOOST_DELAY_MS in readings
  IntMax,       \* the largest int, in readings
  QueueLength,  \* MAX_QUEUE_LENGTH
  VentLoop      \* readings in which ventcontrol_task polls input_queue at least once

ASSUME InputsAssumption == IsFiniteSet(Inputs)
ASSUME InputDelayAssumption == InputDelay \in Nat \ {0}
ASSUME BoostDelayAssumption == BoostDelay \in Nat \ {0}
ASSUME IntMaxAssumption == IntMax \in Nat /\ IntMax > InputDelay
ASSUME QueueLengthAssumption == QueueLength \in Nat /\ QueueLength > Cardinality(Inputs)

(* Every input can begin a boost once in InputDelay readings, during the    *)
(* rest of another boost too, and one can end in BoostDelay readings: no    *)
(* more edges than that may come before the first of them is received.     *)
ASSUME VentLoopAssumption ==
  /\ VentLoop \in Nat \ {0}
  /\ Cardinality(Inputs) * VentLoop <= InputDelay
  /\ (Cardinality(Inputs) + 1) * VentLoop <= BoostDelay

VARIABLES
  pc,            \* "read" in vTaskDelay, "send" in xQueueSend
  input_active,  \* per input: readings it has been high
  input_state,   \* per input: high for longer than InputDelay
  boost,
  boost_delay,   \* readings left until the boost ends
  input_queue,
  ventBoost,     \* external: the last edge ventcontrol_task has received
  ventIdle,      \* external: readings since it last polled
  highFor,       \* history: readings each input has been high, up to InputDelay + 1
  idleFor        \* history: readings no input has been active, up to BoostDelay + 1

taskVars == <<pc, input_active, input_state, boost, boost_delay>>
history == <<highFor, idleFor>>
vars == <<taskVars, input_queue, ventBoost, ventIdle, history>>

Init ==
  /\ pc = "read"
  /\ input_active = [i \in Inputs |-> 0]
  /\ input_state = [i \in Inputs |-> FALSE]
  /\ boost = FALSE
  /\ boost_delay = 0
  /\ input_queue = <<>>
  /\ ventBoost = FALSE
  /\ ventIdle = 0
  /\ highFor = [i \in Inputs |-> 0]
  /\ idleFor = BoostDelay + 1

UpTo(limit, n) == IF n < limit THEN n ELSE limit

(* Adding to an int that holds IntMax wraps around, as the build does it. *)
Plus1_NoWrap(n) == n + 1

Plus1(n) == IF n = IntMax THEN -IntMax - 1 ELSE n + 1

Active(state) == \E i \in Inputs : state[i]

(* handle_inputs, for all the inputs; high is what gpio_get returned. *)
HandleInputs_NoReset(high) ==
  /\ input_active' = [i \in Inputs |-> IF high[i] THEN Plus1(input_active[i]) ELSE input_active[i]]
  /\ input_state' = [i \in Inputs |->
       high[i] /\ (input_state[i] \/ input_active'[i] > InputDelay)]

HandleInputs_NoLatch(high) ==
  /\ input_active' = [i \in Inputs |-> IF high[i] THEN Plus1(input_active[i]) ELSE 0]
  /\ input_state' = [i \in Inputs |-> high[i] /\ input_active'[i] > InputDelay]

HandleInputs(high) ==
  /\ input_active' = [i \in Inputs |-> IF high[i] THEN Plus1(input_active[i]) ELSE 0]
  /\ input_state' = [i \in Inputs |->
       high[i] /\ (input_state[i] \/ input_active'[i] > InputDelay)]

(* An input has become active: a boost starts, or starts again.            *)
StartBoost_EveryPass ==
  /\ Active(input_state')
  /\ boost' = TRUE
  /\ boost_delay' = 0
  /\ pc' = "send"

StartBoost ==
  /\ Active(input_state') /\ ~boost
  /\ boost' = TRUE
  /\ boost_delay' = 0
  /\ pc' = "send"

(* One reading less is left of the rest of a boost; at its end it is sent. *)
CountDown_OffByOne(left) ==
  /\ boost' = FALSE
  /\ boost_delay' = IF left > 2 THEN left - 1 ELSE 0
  /\ pc' = IF left > 2 THEN "read" ELSE "send"

CountDown(left) ==
  /\ boost' = FALSE
  /\ boost_delay' = IF left > 1 THEN left - 1 ELSE 0
  /\ pc' = IF left > 1 THEN "read" ELSE "send"

(* No input is active any more; the countdown begins in the same pass. *)
ReleaseBoost_NoDelay ==
  /\ ~Active(input_state') /\ boost
  /\ boost' = FALSE
  /\ UNCHANGED <<boost_delay, pc>>

ReleaseBoost == ~Active(input_state') /\ boost /\ CountDown(BoostDelay)

RunOut_Unguarded == ~Active(input_state') /\ ~boost /\ CountDown(boost_delay)

RunOut == ~Active(input_state') /\ ~boost /\ boost_delay > 0 /\ CountDown(boost_delay)

KeepBoost ==
  /\ Active(input_state') = boost
  /\ boost \/ boost_delay = 0
  /\ UNCHANGED <<boost, boost_delay, pc>>

(* vTaskDelay returns and a pass of the loop runs up to its next blocking   *)
(* call.                                                                   *)
Pass ==
  /\ pc = "read"
  /\ \E high \in [Inputs -> BOOLEAN] :
       /\ HandleInputs(high)
       /\ highFor' = [i \in Inputs |->
            IF high[i] THEN UpTo(InputDelay + 1, highFor[i] + 1) ELSE 0]
  /\ StartBoost \/ ReleaseBoost \/ RunOut \/ KeepBoost
  /\ idleFor' = IF Active(input_state') THEN 0 ELSE UpTo(BoostDelay + 1, idleFor + 1)
  /\ ventIdle' = ventIdle + 1
  /\ UNCHANGED <<input_queue, ventBoost>>

(* BoostControl shows that ventcontrol_task does poll within VentLoop. *)
Read == ventIdle < VentLoop /\ Pass

(* xQueueSend(input_queue, &boost, 10 ticks); its result is ignored. *)
SendBoost_OnlyOn ==
  /\ pc = "send"
  /\ pc' = "read"
  /\ input_queue' = IF Len(input_queue) < QueueLength /\ boost
                    THEN Append(input_queue, boost) ELSE input_queue
  /\ UNCHANGED <<input_active, input_state, boost, boost_delay, ventBoost, ventIdle, history>>

SendBoost ==
  /\ pc = "send"
  /\ pc' = "read"
  /\ input_queue' = IF Len(input_queue) < QueueLength
                    THEN Append(input_queue, boost) ELSE input_queue
  /\ UNCHANGED <<input_active, input_state, boost, boost_delay, ventBoost, ventIdle, history>>

(* ventcontrol_task: xQueueReceive(input_queue) took an edge or timed out. *)
VentPoll ==
  /\ ventIdle' = 0
  /\ ventBoost' = IF input_queue = <<>> THEN ventBoost ELSE Head(input_queue)
  /\ input_queue' = IF input_queue = <<>> THEN <<>> ELSE Tail(input_queue)
  /\ UNCHANGED <<taskVars, history>>

Next == Read \/ SendBoost \/ VentPoll

Spec == Init /\ [][Next]_vars
-----------------------------------------------------------------------------
(* Properties *)

TypeOK ==
  /\ pc \in {"read", "send"}
  /\ input_active \in [Inputs -> (-IntMax - 1)..IntMax]
  /\ input_state \in [Inputs -> BOOLEAN]
  /\ boost \in BOOLEAN
  /\ boost_delay \in 0..BoostDelay
  /\ input_queue \in Seq(BOOLEAN)
  /\ Len(input_queue) <= QueueLength
  /\ ventBoost \in BOOLEAN
  /\ ventIdle \in 0..VentLoop
  /\ highFor \in [Inputs -> 0..InputDelay + 1]
  /\ idleFor \in 0..BoostDelay + 1

(* The edge put last. *)
lastPut == IF input_queue = <<>> THEN ventBoost ELSE input_queue[Len(input_queue)]

(* An edge that is sent finds room: nothing in the code deals with a lost   *)
(* end of a boost.  Edges can follow each other immediately: the end of a  *)
(* boost and, in the next readings, an activation by every input in turn.  *)
RoomForEdge == pc = "send" => Len(input_queue) < QueueLength

(* The edges in the queue and the task that receives them end up at what    *)
(* the inputs ask for: a boost, from its beginning to the end of the delay. *)
EdgesAgree == pc = "read" => (lastPut <=> boost \/ boost_delay > 0)

(* A boost starts only for an input that has been high without a break for  *)
(* longer than the delay, also after input_active has wrapped around, and  *)
(* goes on for as long as there is one.                                    *)
BoostFollowsInputs == boost <=> \E i \in Inputs : highFor[i] > InputDelay

(* The end of a boost is sent exactly BoostDelay readings after the last    *)
(* one with an active input: a new activation starts the delay over.       *)
BoostRunsItsTime == pc = "send" /\ ~boost => idleFor = BoostDelay

Edges == INSTANCE BoostEdges WITH inputBoost <- lastPut
(* The contract VentControl relies on. *)
EdgesSpec == Edges!Spec
=============================================================================
