-------------------------- MODULE BoostControlProofs --------------------------
(***************************************************************************)
(* Proofs about BoostControl for all delays, waits and queue lengths: that *)
(* ventcontrol_task polls input_queue in time, that input_task in the      *)
(* composition is therefore the one InputTask describes and finds room for *)
(* its edges, and that ventcontrol_task is the one of VentControl.         *)
(***************************************************************************)
EXTENDS BoostControl, SequenceTheorems, TLAPS

(* What the task has to send: one announcement, at most two replies. *)
SendsLittle ==
  /\ ventPc = "broadcast" => \E m : pending = <<m>>
  /\ ventPc = "reply" => \E m, n : pending \in {<<m>>, <<m, n>>}

(* The readings the calls since the last poll have taken at most, when      *)
(* ventcontrol_task comes to a call: the waits of its pass, in their order. *)
Switched == SwitchDelay + SendWait
Received == Switched + ReceiveWait

Earlier ==
  [select |-> 0, close |-> 0, broadcast |-> SwitchDelay, receive |-> Switched,
   reply |-> Received + (2 - Len(pending)) * SendWait, input |-> Received + 2 * SendWait]

PcType == ventPc \in {"receive", "reply", "input", "select", "close", "broadcast"}

PassInTime ==
  /\ ventIdle \in Nat /\ waited \in Nat
  /\ waited <= Patience[ventPc]
  /\ ventIdle <= Earlier[ventPc] + waited

Inv == PcType /\ SendsLittle /\ PassInTime

LEMMA Waits == ReceiveWait \in Nat /\ SendWait \in Nat /\ SwitchDelay \in Nat
BY WaitsAssumption

LEMMA InitInv == Init => Inv
BY Waits DEF Init, I!Init, V!Init, Inv, PcType, SendsLittle, PassInTime, Patience, Earlier,
             Switched, Received

(* Whatever the task is at, the rest of its pass fits. *)
LEMMA InvPolls == Inv => PollsInTime /\ (waited < Patience[ventPc] => ventIdle < VentLoop)
<1> SUFFICES ASSUME Inv
             PROVE  PollsInTime /\ (waited < Patience[ventPc] => ventIdle < VentLoop)
  OBVIOUS
<1> PcType /\ SendsLittle /\ PassInTime
  BY DEF Inv
<1>1. CASE ventPc = "reply"
  <2>1. PICK m, n : pending \in {<<m>>, <<m, n>>}
    BY <1>1 DEF SendsLittle
  <2>2. Len(pending) \in {1, 2}
    BY <2>1
  <2>3. (2 - Len(pending)) * SendWait <= SendWait
    BY <2>2, Waits
  <2>4. QED
    BY <1>1, <2>2, <2>3, Waits
    DEF PassInTime, Patience, Earlier, Switched, Received, PollsInTime, VentLoop
<1>2. CASE ventPc # "reply"
  BY <1>2, Waits
  DEF PcType, PassInTime, Patience, Earlier, Switched, Received, PollsInTime, VentLoop
<1>3. QED
  BY <1>1, <1>2

-----------------------------------------------------------------------------
(* The steps *)

(* A call that goes on waiting. *)
LEMMA ReadingInv == Inv /\ Reading => Inv'
<1> SUFFICES ASSUME Inv, Reading PROVE Inv'
  OBVIOUS
<1>1. ventPc' = ventPc /\ pending' = pending
  BY DEF Reading, VentTick, V!Tick, V!taskVars, ventVars
<1>2. ventIdle' = ventIdle + 1 /\ waited' = waited + 1 /\ waited < Patience[ventPc]
  BY DEF Reading, I!Pass
<1>3. PcType' /\ SendsLittle'
  BY <1>1 DEF Inv, PcType, SendsLittle
<1>4. Earlier'[ventPc'] = Earlier[ventPc] /\ Earlier[ventPc] \in Int
      /\ Patience'[ventPc'] = Patience[ventPc] /\ Patience[ventPc] \in Nat
  <2>1. Len(pending) \in Int \/ ventPc # "reply"
    BY DEF Inv, SendsLittle
  <2>2. CASE ventPc = "reply"
    BY <2>1, <2>2, <1>1, Waits DEF Earlier, Patience, Switched, Received
  <2>3. CASE ventPc # "reply"
    BY <2>3, <1>1, Waits DEF Inv, PcType, Earlier, Patience, Switched, Received
  <2>4. QED
    BY <2>2, <2>3
<1>5. PassInTime'
  BY <1>2, <1>4 DEF Inv, PassInTime
<1>6. QED
  BY <1>3, <1>5 DEF Inv

LEMMA PollInv == Inv /\ VentPolls => Inv'
<1> SUFFICES ASSUME Inv, VentPolls PROVE Inv'
  OBVIOUS
<1>1. ventIdle' = 0 /\ waited' = 0
  BY DEF VentPolls, I!VentPoll
<1>2. ventPc' = "select"
  BY DEF VentPolls, V!HandleInput, V!NoInput
<1>3. QED
  BY <1>1, <1>2, Waits DEF Inv, PcType, SendsLittle, PassInTime, Patience, Earlier

(* A call that returns: the next one begins to wait, and what the task has  *)
(* waited before it is what it waited up to this one and in it.            *)
LEMMA VentRunsInv == Inv /\ VentRuns => Inv'
<1> SUFFICES ASSUME Inv, VentRuns PROVE Inv'
  OBVIOUS
<1> PcType /\ SendsLittle /\ PassInTime
  BY DEF Inv
<1> ventIdle' = ventIdle /\ waited' = 0
  BY DEF VentRuns, polled
<1> USE Waits
<1>1. CASE V!HandleRequest
  <2>1. /\ ventPc = "receive"
        /\ \/ ventPc' = "input"
           \/ ventPc' = "reply" /\ \E m, n : pending' \in {<<m>>, <<m, n>>}
    BY <1>1 DEF V!HandleRequest, V!SetSpeed, V!SetVakantie, V!GetStatus
  <2>2. ventIdle <= Received
    BY <2>1 DEF PassInTime, Patience, Earlier, Switched, Received
  <2>3. CASE ventPc' = "input"
    BY <2>2, <2>3 DEF Inv, PcType, SendsLittle, PassInTime, Patience, Earlier, Switched, Received
  <2>4. CASE ventPc' = "reply"
    <3>1. PICK m, n : pending' \in {<<m>>, <<m, n>>}
      BY <2>1, <2>4
    <3>2. Len(pending') \in {1, 2}
      BY <3>1
    <3>3. (2 - Len(pending')) * SendWait >= 0 /\ (2 - Len(pending')) * SendWait \in Int
      <4>1. CASE Len(pending') = 1
        BY <4>1
      <4>2. CASE Len(pending') = 2
        BY <4>2
      <4>3. QED
        BY <3>2, <4>1, <4>2
    <3>4. PassInTime'
      BY <2>2, <2>4, <3>3 DEF PassInTime, Patience, Earlier, Switched, Received
    <3>5. SendsLittle'
      BY <3>1, <2>4 DEF SendsLittle
    <3>6. QED
      BY <2>4, <3>4, <3>5 DEF Inv, PcType
  <2>5. QED
    BY <2>1, <2>3, <2>4
<1>2. CASE V!NoRequest
  <2>1. ventPc = "receive" /\ ventPc' = "input"
    BY <1>2 DEF V!NoRequest
  <2>2. QED
    BY <2>1 DEF Inv, PcType, SendsLittle, PassInTime, Patience, Earlier, Switched, Received
<1>3. CASE V!SendStatus \/ V!DropStatus
  <2>1. /\ ventPc \in {"reply", "broadcast"}
        /\ pending' = Tail(pending)
        /\ ventPc' = IF Tail(pending) = <<>> THEN V!AfterSend[ventPc] ELSE ventPc
    BY <1>3 DEF V!SendStatus, V!DropStatus, V!SendDone
  <2>2. CASE ventPc = "broadcast"
    <3>1. Tail(pending) = <<>>
      <4>1. PICK m : pending = <<m>>
        BY <2>2 DEF SendsLittle
      <4>2. QED
        BY <4>1
    <3>2. ventPc' = "receive"
      BY <2>1, <2>2, <3>1 DEF V!AfterSend
    <3>3. QED
      BY <2>2, <3>2 DEF Inv, PcType, SendsLittle, PassInTime, Patience, Earlier, Switched
  <2>3. CASE ventPc = "reply"
    <3>1. PICK m, n : pending \in {<<m>>, <<m, n>>}
      BY <2>3 DEF SendsLittle
    <3>2. CASE pending = <<m>>
      <4>1. Tail(pending) = <<>> /\ Len(pending) = 1
        BY <3>2
      <4>2. ventPc' = "input"
        BY <2>1, <2>3, <4>1 DEF V!AfterSend
      <4>3. QED
        BY <2>3, <4>1, <4>2
        DEF Inv, PcType, SendsLittle, PassInTime, Patience, Earlier, Switched, Received
    <3>3. CASE pending = <<m, n>>
      <4>1. pending' = <<n>> /\ Len(pending) = 2 /\ Len(pending') = 1 /\ <<n>> # <<>>
        BY <3>3, <2>1
      <4>2. ventPc' = "reply"
        BY <2>1, <2>3, <4>1
      <4>3. SendsLittle'
        BY <4>1, <4>2 DEF SendsLittle
      <4>4. PassInTime'
        BY <2>3, <4>1, <4>2 DEF PassInTime, Patience, Earlier, Switched, Received
      <4>5. QED
        BY <4>2, <4>3, <4>4 DEF Inv, PcType
    <3>4. QED
      BY <3>1, <3>2, <3>3
  <2>4. QED
    BY <2>1, <2>2, <2>3
<1>4. CASE V!KeepSpeed
  <2>1. ventPc = "select" /\ ventPc' = "receive"
    BY <1>4 DEF V!KeepSpeed
  <2>2. QED
    BY <2>1 DEF Inv, PcType, SendsLittle, PassInTime, Patience, Earlier, Switched
<1>5. CASE V!SelectHigh
  <2>1. ventPc = "select" /\ ventPc' = "close"
    BY <1>5 DEF V!SelectHigh
  <2>2. QED
    BY <2>1 DEF Inv, PcType, SendsLittle, PassInTime, Patience, Earlier
<1>6. CASE V!SelectLow \/ V!CloseRelay
  <2>1. /\ ventPc \in {"select", "close"} /\ ventPc' = "broadcast"
        /\ \E m : pending' = <<m>>
    BY <1>6 DEF V!SelectLow, V!CloseRelay, V!Announce
  <2>2. QED
    BY <2>1 DEF Inv, PcType, SendsLittle, PassInTime, Patience, Earlier
<1>7. QED
  BY <1>1, <1>2, <1>3, <1>4, <1>5, <1>6 DEF VentRuns

(* The steps of the others leave the pass of ventcontrol_task alone. *)
LEMMA OthersInv ==
  Inv /\ UNCHANGED <<ventPc, pending, ventIdle, waited>> => Inv'
BY DEF Inv, PcType, SendsLittle, PassInTime, Patience, Earlier, Switched, Received

LEMMA OthersKeep ==
  InputSends \/ ServerRuns \/ UNCHANGED vars => UNCHANGED <<ventPc, pending, ventIdle, waited>>
BY DEF InputSends, I!SendBoost, ServerRuns, V!ServerPut, V!ServerTake, V!taskVars, vars, ventVars,
       polled

LEMMA StepInv == Inv /\ [Next]_vars => Inv'
BY ReadingInv, PollInv, VentRunsInv, OthersInv, OthersKeep DEF Next

LEMMA InvHolds == Spec => []Inv
BY InitInv, StepInv, PTL DEF Spec

(* input_queue is polled once in VentLoop readings, for all waits, delays   *)
(* and queue lengths: the calls of one pass of ventcontrol_task are all    *)
(* that can come between two polls.                                        *)
THEOREM PollsInTimeHolds == Spec => []PollsInTime
BY InvHolds, InvPolls, PTL

-----------------------------------------------------------------------------
(* input_task in the composition *)

LEMMA StepInput == Inv /\ [Next]_vars => [I!Next]_(I!vars)
<1> SUFFICES ASSUME Inv, [Next]_vars PROVE [I!Next]_(I!vars)
  OBVIOUS
<1>1. CASE Reading
  BY <1>1, InvPolls DEF Reading, I!Read, I!Next
<1>2. CASE InputSends
  BY <1>2 DEF InputSends, I!Next
<1>3. CASE VentPolls
  BY <1>3 DEF VentPolls, I!Next
<1>4. CASE VentRuns \/ ServerRuns \/ UNCHANGED vars
  BY <1>4 DEF VentRuns, ServerRuns, vars, inputVars, polled, I!vars, I!taskVars, I!history
<1>5. QED
  BY <1>1, <1>2, <1>3, <1>4 DEF Next

(* With ventcontrol_task at the other end of the queue, input_task does     *)
(* what InputTask says: the half of TasksImplemented that lets everything  *)
(* proved about InputTask hold for the two tasks together.                 *)
THEOREM InputTaskImplemented == Spec => I!Spec
<1>1. Init => I!Init
  BY DEF Init
<1>2. QED
  BY <1>1, InvHolds, StepInput, PTL DEF Spec, I!Spec

-----------------------------------------------------------------------------
(* What is proved about InputTask, for the input_task of the composition *)

P == INSTANCE InputTaskProofs WITH pc <- inputPc

(* The assumptions of InputTask hold, VentLoop being what it is here. *)
LEMMA RoomForInput == P!Spec => []P!RoomForEdge
<1>1. VentLoop \in Nat \ {0}
  BY WaitsAssumption DEF VentLoop
<1>2. P!IsFiniteSet(Inputs) /\ P!Cardinality(Inputs) = Cardinality(Inputs)
  BY InputsAssumption DEF P!IsFiniteSet, IsFiniteSet, P!Cardinality, Cardinality
<1>3. QED
  BY <1>1, <1>2, InputsAssumption, DelaysAssumption, P!RoomForEdgeHolds

(* Both names of a step of InputTask mean the same. *)
LEMMA SameSteps == [I!Next]_(I!vars) => [P!Next]_(P!vars)
<1>1. ASSUME NEW high, I!HandleInputs(high) PROVE P!HandleInputs(high)
  <2>1. \A n : I!Plus1(n) = P!Plus1(n)
    BY DEF I!Plus1, P!Plus1
  <2>2. QED
    BY <1>1, <2>1, Zenon DEF I!HandleInputs, P!HandleInputs
<1>2. I!StartBoost \/ I!ReleaseBoost \/ I!RunOut \/ I!KeepBoost
      => P!StartBoost \/ P!ReleaseBoost \/ P!RunOut \/ P!KeepBoost
  <2>1. I!Active(input_state') = P!Active(input_state')
    BY DEF I!Active, P!Active
  <2>2. I!StartBoost => P!StartBoost
    BY <2>1, Zenon DEF I!StartBoost, P!StartBoost
  <2>3. \A left : I!CountDown(left) => P!CountDown(left)
    BY Zenon DEF I!CountDown, P!CountDown
  <2>4. I!ReleaseBoost => P!ReleaseBoost
    BY <2>1, <2>3, Zenon DEF I!ReleaseBoost, P!ReleaseBoost
  <2>5. I!RunOut => P!RunOut
    BY <2>1, <2>3, Zenon DEF I!RunOut, P!RunOut
  <2>6. I!KeepBoost => P!KeepBoost
    BY <2>1, Zenon DEF I!KeepBoost, P!KeepBoost
  <2>7. QED
    BY <2>2, <2>4, <2>5, <2>6
<1>3. \A m, n : I!UpTo(m, n) = P!UpTo(m, n)
  BY DEF I!UpTo, P!UpTo
<1>4. I!Active(input_state') <=> P!Active(input_state')
  BY DEF I!Active, P!Active
<1>5. I!Read => P!Read
  BY <1>1, <1>2, <1>3, <1>4, Zenon DEF I!Read, I!Pass, P!Read, P!Pass
<1>6. I!SendBoost \/ I!VentPoll \/ UNCHANGED I!vars
      => P!SendBoost \/ P!VentPoll \/ UNCHANGED P!vars
  BY DEF I!SendBoost, I!VentPoll, I!vars, I!taskVars, I!history,
         P!SendBoost, P!VentPoll, P!vars, P!taskVars, P!history
<1>7. QED
  BY <1>5, <1>6 DEF I!Next, P!Next

(* In the composition every edge finds room in input_queue, which is as     *)
(* long as there are inputs and one more: ventcontrol_task polls in time,   *)
(* whatever keeps it busy (PollsInTime), and the delays are long enough.   *)
THEOREM EdgesFindRoom == Spec => []I!RoomForEdge
<1>1. I!Init => P!Init
  BY DEF I!Init, P!Init
<1>2. P!RoomForEdge => I!RoomForEdge
  BY DEF P!RoomForEdge, I!RoomForEdge
<1>3. QED
  BY <1>1, <1>2, SameSteps, RoomForInput, InputTaskImplemented, PTL DEF I!Spec, P!Spec

-----------------------------------------------------------------------------
(* ventcontrol_task in the composition *)

BoostTypes ==
  /\ inputPc \in {"read", "send"}
  /\ boost \in BOOLEAN
  /\ boost_delay \in Nat
  /\ input_queue \in Seq(BOOLEAN)

(* An edge is sent only when it has one to follow, or begins a boost. *)
EdgesInOrder ==
  /\ boost => boost_delay = 0
  /\ inputPc = "read" => (I!lastPut <=> boost \/ boost_delay > 0)
  /\ inputPc = "send" /\ ~boost => I!lastPut /\ boost_delay = 0

EdgesInv == BoostTypes /\ EdgesInOrder

LEMMA InitEdges == Init => EdgesInv
<1> SUFFICES ASSUME Init PROVE EdgesInv
  OBVIOUS
<1>1. /\ inputPc = "read" /\ boost = FALSE /\ boost_delay = 0
      /\ input_queue = <<>> /\ ventBoost = FALSE
  BY DEF Init, I!Init
<1>2. BoostTypes
  BY <1>1, EmptySeq DEF BoostTypes
<1>3. ~I!lastPut
  BY <1>1 DEF I!lastPut
<1>4. EdgesInOrder
  BY <1>1, <1>3 DEF EdgesInOrder
<1>5. QED
  BY <1>2, <1>4 DEF EdgesInv

(* One pass of input_task, for which nothing is put on the queue. *)
LEMMA ReadingEdges == EdgesInv /\ Reading => EdgesInv'
<1> SUFFICES ASSUME EdgesInv, Reading PROVE EdgesInv'
  OBVIOUS
<1> BoostTypes /\ EdgesInOrder
  BY DEF EdgesInv
<1>1. inputPc = "read" /\ UNCHANGED <<input_queue, ventBoost>> /\ I!Pass
  BY DEF Reading, I!Pass
<1>2. (I!lastPut)' = I!lastPut
  BY <1>1 DEF I!lastPut
<1>3. I!lastPut <=> boost \/ boost_delay > 0
  BY <1>1 DEF EdgesInOrder
<1>4. CASE I!StartBoost
  <2>1. boost' = TRUE /\ boost_delay' = 0 /\ inputPc' = "send"
    BY <1>4 DEF I!StartBoost
  <2>2. QED
    BY <1>1, <2>1 DEF EdgesInv, BoostTypes, EdgesInOrder
<1>5. CASE I!ReleaseBoost \/ I!RunOut
  <2>1. PICK left \in Nat :
          /\ boost' = FALSE
          /\ boost_delay' = IF left > 1 THEN left - 1 ELSE 0
          /\ inputPc' = IF left > 1 THEN "read" ELSE "send"
    <3>1. BoostDelay \in Nat
      BY DelaysAssumption
    <3>2. QED
      BY <1>5, <3>1 DEF I!ReleaseBoost, I!RunOut, I!CountDown, BoostTypes
  <2>2. I!lastPut
    BY <1>3, <1>5 DEF I!ReleaseBoost, I!RunOut
  <2>3. (I!lastPut)'
    BY <1>2, <2>2
  <2>4. CASE left > 1
    <3>1. boost_delay' \in Nat /\ boost_delay' > 0 /\ inputPc' = "read"
      BY <2>1, <2>4
    <3>2. BoostTypes'
      BY <1>1, <2>1, <3>1 DEF BoostTypes
    <3>3. EdgesInOrder'
      BY <2>1, <2>3, <3>1 DEF EdgesInOrder
    <3>4. QED
      BY <3>2, <3>3 DEF EdgesInv
  <2>5. CASE ~(left > 1)
    <3>1. boost_delay' = 0 /\ inputPc' = "send" /\ boost' = FALSE
      BY <2>1, <2>5
    <3>2. BoostTypes'
      BY <1>1, <3>1 DEF BoostTypes
    <3>3. EdgesInOrder'
      BY <2>1, <2>3, <3>1 DEF EdgesInOrder
    <3>4. QED
      BY <3>2, <3>3 DEF EdgesInv
  <2>6. QED
    BY <2>4, <2>5
<1>6. CASE I!KeepBoost
  <2>1. UNCHANGED <<boost, boost_delay, inputPc>>
    BY <1>6 DEF I!KeepBoost
  <2>2. QED
    BY <1>1, <1>2, <2>1 DEF EdgesInv, BoostTypes, EdgesInOrder
<1>7. QED
  BY <1>1, <1>4, <1>5, <1>6 DEF I!Pass

(* An edge that finds room becomes the last one. *)
LEMMA SendEdges ==
  ASSUME EdgesInv, InputSends, I!RoomForEdge
  PROVE  EdgesInv' /\ V!InputPut(boost)
<1> BoostTypes /\ EdgesInOrder
  BY DEF EdgesInv
<1>1. /\ inputPc = "send" /\ inputPc' = "read" /\ Len(input_queue) < QueueLength
      /\ boost' = boost /\ boost_delay' = boost_delay
  BY DEF InputSends, I!SendBoost, I!RoomForEdge
<1>2. input_queue' = Append(input_queue, boost)
  BY <1>1 DEF InputSends, I!SendBoost
<1>3. /\ input_queue' \in Seq(BOOLEAN)
      /\ Len(input_queue') = Len(input_queue) + 1
      /\ input_queue'[Len(input_queue) + 1] = boost
  BY <1>2, AppendProperties DEF BoostTypes
<1>4. input_queue' # <<>>
  BY <1>3, LenProperties DEF BoostTypes
<1>5. (I!lastPut)' = boost
  BY <1>3, <1>4 DEF I!lastPut
<1>6. (boost => boost_delay = 0) /\ (~boost => I!lastPut /\ boost_delay = 0)
  BY <1>1 DEF EdgesInOrder
<1>7. EdgesInv'
  BY <1>1, <1>3, <1>5, <1>6 DEF EdgesInv, BoostTypes, EdgesInOrder
<1>8. V!InputPut(boost)
  BY <1>1, <1>2, <1>5, <1>6 DEF V!InputPut, InputSends, ventVars, V!taskVars, V!relayVars
<1>9. QED
  BY <1>7, <1>8

LEMMA PollEdges == EdgesInv /\ VentPolls => EdgesInv'
<1> SUFFICES ASSUME EdgesInv, VentPolls PROVE EdgesInv'
  OBVIOUS
<1>1. (I!lastPut)' = I!lastPut
  BY DEF VentPolls, V!HandleInput, V!NoInput, V!queueVars
<1>2. input_queue' \in Seq(BOOLEAN)
  BY HeadTailProperties, EmptySeq DEF VentPolls, I!VentPoll, EdgesInv, BoostTypes
<1>3. UNCHANGED <<inputPc, boost, boost_delay>>
  BY DEF VentPolls, I!VentPoll, I!taskVars
<1>4. QED
  BY <1>1, <1>2, <1>3 DEF EdgesInv, BoostTypes, EdgesInOrder

LEMMA StepVent ==
  EdgesInv /\ I!RoomForEdge /\ [Next]_vars => EdgesInv' /\ [V!Next]_(V!vars)
<1> SUFFICES ASSUME EdgesInv, I!RoomForEdge, [Next]_vars
             PROVE  EdgesInv' /\ [V!Next]_(V!vars)
  OBVIOUS
<1>1. CASE Reading
  <2>1. UNCHANGED <<input_queue, ventBoost>>
    BY <1>1 DEF Reading, I!Pass
  <2>2. (I!lastPut)' = I!lastPut
    BY <2>1 DEF I!lastPut
  <2>3. [V!Next]_(V!vars)
    BY <1>1, <2>1, <2>2
    DEF Reading, VentTick, V!Next, V!vars, ventVars, V!taskVars, V!relayVars, V!queueVars
  <2>4. QED
    BY <1>1, <2>3, ReadingEdges
<1>2. CASE InputSends
  <2>1. boost \in BOOLEAN
    BY DEF EdgesInv, BoostTypes
  <2>2. QED
    BY <1>2, <2>1, SendEdges DEF V!Next, V!Environment
<1>3. CASE VentPolls
  BY <1>3, PollEdges DEF VentPolls, V!Next, V!Task
<1>4. CASE VentRuns \/ ServerRuns \/ UNCHANGED vars
  <2>1. UNCHANGED <<inputPc, boost, boost_delay, input_queue, ventBoost>>
    BY <1>4 DEF VentRuns, ServerRuns, vars, inputVars, polled
  <2>2. (I!lastPut)' = I!lastPut
    BY <2>1 DEF I!lastPut
  <2>3. EdgesInv'
    BY <2>1, <2>2 DEF EdgesInv, BoostTypes, EdgesInOrder
  <2>4. [V!Next]_(V!vars)
    BY <1>4, <2>2
    DEF VentRuns, ServerRuns, vars, ventVars, V!Next, V!Task, V!Environment, V!vars,
        V!taskVars, V!relayVars, V!queueVars
  <2>5. QED
    BY <2>3, <2>4
<1>5. QED
  BY <1>1, <1>2, <1>3, <1>4 DEF Next

(* Both tasks do in the composition what their modules say, for every      *)
(* number of inputs and all waits and delays: input_task finds its queue    *)
(* polled in time, and ventcontrol_task gets the end of a boost only after *)
(* its beginning.                                                          *)
THEOREM TasksImplementedHolds == Spec => TasksImplemented
<1>1. Init => I!Init /\ V!Init
  BY DEF Init
<1>2. QED
  BY <1>1, InvHolds, StepInput, EdgesFindRoom, InitEdges, StepVent, PTL DEF Spec, TasksImplemented
=============================================================================
