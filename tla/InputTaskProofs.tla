--------------------------- MODULE InputTaskProofs ---------------------------
(***************************************************************************)
(* Proofs about InputTask for every set of inputs, every pair of delays,   *)
(* every int that holds the first of them, and every queue: its types,     *)
(* when a boost begins and ends, that every edge finds room in the queue,  *)
(* and that the edges therefore keep to BoostEdges.                        *)
(***************************************************************************)
EXTENDS InputTask, SequenceTheorems, FiniteSetTheorems, TLAPS

(* The counter of an input is exact until it has passed the delay; from     *)
(* then on input_state remembers it, whatever the counter does.            *)
CountsHigh ==
  \A i \in Inputs :
    /\ input_state[i] <=> highFor[i] > InputDelay
    /\ highFor[i] <= InputDelay => input_active[i] = highFor[i]

BoostIsActive == boost <=> Active(input_state)

(* The rest of a boost and the time without an active input add up. *)
CountsIdle ==
  /\ boost => idleFor = 0 /\ boost_delay = 0
  /\ ~boost /\ boost_delay > 0 => idleFor = BoostDelay - boost_delay
  /\ pc = "send" /\ ~boost => idleFor = BoostDelay /\ boost_delay = 0

(* An edge is sent only when it has one to follow, or begins a boost. *)
EdgesInOrder ==
  /\ pc = "read" => (lastPut <=> boost \/ boost_delay > 0)
  /\ pc = "send" /\ ~boost => lastPut /\ boost_delay = 0

Inv == TypeOK /\ CountsHigh /\ BoostIsActive /\ CountsIdle

LEMMA Constants ==
  /\ InputDelay \in Nat /\ InputDelay > 0
  /\ BoostDelay \in Nat /\ BoostDelay > 0
  /\ IntMax \in Nat /\ IntMax > InputDelay
  /\ QueueLength \in Nat /\ QueueLength > 0
  /\ VentLoop \in Nat
<1>1. Cardinality(Inputs) \in Nat
  BY InputsAssumption, FS_CardinalityType
<1>2. QED
  BY <1>1, InputDelayAssumption, BoostDelayAssumption, IntMaxAssumption,
     QueueLengthAssumption, VentLoopAssumption
-----------------------------------------------------------------------------
(* The passes of the loop *)

LEMMA InitInv == Init => Inv
<1> SUFFICES ASSUME Init PROVE Inv
  OBVIOUS
<1>1. TypeOK
  <2>1. input_queue \in Seq(BOOLEAN) /\ Len(input_queue) <= QueueLength
    BY Constants, EmptySeq DEF Init
  <2>2. input_active \in [Inputs -> (-IntMax - 1)..IntMax]
    BY Constants DEF Init
  <2>3. highFor \in [Inputs -> 0..InputDelay + 1] /\ input_state \in [Inputs -> BOOLEAN]
    BY Constants DEF Init
  <2>4. boost_delay \in 0..BoostDelay /\ ventIdle \in 0..VentLoop /\ idleFor \in 0..BoostDelay + 1
    BY Constants DEF Init
  <2>5. pc \in {"read", "send"} /\ boost \in BOOLEAN /\ ventBoost \in BOOLEAN
    BY DEF Init
  <2>6. QED
    BY <2>1, <2>2, <2>3, <2>4, <2>5 DEF TypeOK
<1>2. CountsHigh
  BY Constants DEF Init, CountsHigh
<1>3. BoostIsActive /\ CountsIdle
  BY Constants DEF Init, BoostIsActive, CountsIdle, Active
<1>4. QED
  BY <1>1, <1>2, <1>3 DEF Inv

LEMMA Plus1Type ==
  ASSUME NEW n \in (-IntMax - 1)..IntMax
  PROVE  /\ Plus1(n) \in (-IntMax - 1)..IntMax
         /\ n <= InputDelay => Plus1(n) = n + 1
BY Constants DEF Plus1

(* What one pass makes of the counters. *)
LEMMA PassCounts ==
  ASSUME Inv, Pass
  PROVE  /\ input_active' \in [Inputs -> (-IntMax - 1)..IntMax]
         /\ input_state' \in [Inputs -> BOOLEAN]
         /\ highFor' \in [Inputs -> 0..InputDelay + 1]
         /\ CountsHigh'
<1> TypeOK /\ CountsHigh
  BY DEF Inv
<1>1. PICK high \in [Inputs -> BOOLEAN] :
        /\ HandleInputs(high)
        /\ highFor' = [i \in Inputs |->
             IF high[i] THEN UpTo(InputDelay + 1, highFor[i] + 1) ELSE 0]
  BY DEF Pass
<1>2. input_active' = [i \in Inputs |-> IF high[i] THEN Plus1(input_active[i]) ELSE 0]
  BY <1>1 DEF HandleInputs
<1>3. input_state' = [i \in Inputs |->
        high[i] /\ (input_state[i] \/ input_active'[i] > InputDelay)]
  BY <1>1 DEF HandleInputs
<1>4. ASSUME NEW i \in Inputs
      PROVE  /\ input_active[i] \in (-IntMax - 1)..IntMax
             /\ highFor[i] \in 0..InputDelay + 1
             /\ Plus1(input_active[i]) \in (-IntMax - 1)..IntMax
             /\ input_active[i] <= InputDelay => Plus1(input_active[i]) = input_active[i] + 1
             /\ input_state[i] <=> highFor[i] > InputDelay
             /\ highFor[i] <= InputDelay => input_active[i] = highFor[i]
  <2>1. input_active[i] \in (-IntMax - 1)..IntMax /\ highFor[i] \in 0..InputDelay + 1
    BY DEF TypeOK
  <2>2. QED
    BY <2>1, Plus1Type DEF CountsHigh
<1>5. input_active' \in [Inputs -> (-IntMax - 1)..IntMax]
  BY <1>2, <1>4, Constants
<1>6. highFor' \in [Inputs -> 0..InputDelay + 1]
  BY <1>1, <1>4, Constants DEF UpTo
<1>7. input_state' \in [Inputs -> BOOLEAN]
  BY <1>3, Zenon
<1>8. ASSUME NEW i \in Inputs
      PROVE  /\ input_state'[i] <=> highFor'[i] > InputDelay
             /\ highFor'[i] <= InputDelay => input_active'[i] = highFor'[i]
  <2>1. CASE high[i]
    <3>1. highFor'[i] = UpTo(InputDelay + 1, highFor[i] + 1)
      BY <1>1, <2>1
    <3>2. input_active'[i] = Plus1(input_active[i])
      BY <1>2, <2>1
    <3>3. input_state'[i] <=> input_state[i] \/ input_active'[i] > InputDelay
      BY <1>3, <2>1
    <3>4. QED
      BY <3>1, <3>2, <3>3, <1>4, Constants DEF UpTo
  <2>2. CASE ~high[i]
    <3>1. highFor'[i] = 0 /\ input_active'[i] = 0
      BY <1>1, <1>2, <2>2
    <3>2. ~input_state'[i]
      BY <1>3, <2>2
    <3>3. QED
      BY <3>1, <3>2, Constants
  <2>3. QED
    BY <2>1, <2>2
<1>9. QED
  BY <1>5, <1>6, <1>7, <1>8 DEF CountsHigh

(* What one pass makes of the boost. *)
LEMMA PassBoost ==
  ASSUME Inv, Pass
  PROVE  /\ boost' \in BOOLEAN
         /\ boost_delay' \in 0..BoostDelay
         /\ idleFor' \in 0..BoostDelay + 1
         /\ pc' \in {"read", "send"}
         /\ BoostIsActive' /\ CountsIdle'
<1> TypeOK /\ CountsIdle
  BY DEF Inv
<1> /\ boost \in BOOLEAN /\ boost_delay \in 0..BoostDelay /\ idleFor \in 0..BoostDelay + 1
    /\ pc = "read"
  BY DEF TypeOK, Pass
<1>1. idleFor' = IF Active(input_state') THEN 0 ELSE UpTo(BoostDelay + 1, idleFor + 1)
  BY DEF Pass
<1>2. idleFor' \in 0..BoostDelay + 1
  BY <1>1, Constants DEF UpTo
<1>3. (boost' <=> Active(input_state')) => BoostIsActive'
  BY DEF BoostIsActive, Active
<1>4. CASE StartBoost
  <2>1. Active(input_state') /\ boost' = TRUE /\ boost_delay' = 0 /\ pc' = "send"
    BY <1>4 DEF StartBoost
  <2>2. QED
    BY <2>1, <1>1, <1>2, <1>3, Constants DEF CountsIdle
<1>5. CASE ReleaseBoost
  <2>1. ~Active(input_state') /\ boost /\ CountDown(BoostDelay)
    BY <1>5 DEF ReleaseBoost
  <2>2. idleFor = 0 /\ idleFor' = 1
    BY <2>1, <1>1, Constants DEF CountsIdle, UpTo
  <2>3. boost' = FALSE
    BY <2>1 DEF CountDown
  <2>. BoostIsActive'
    BY <2>1, <2>3, <1>3
  <2>4. CASE BoostDelay > 1
    <3>1. boost_delay' = BoostDelay - 1 /\ pc' = "read"
      BY <2>1, <2>4 DEF CountDown
    <3>2. CountsIdle'
      BY <2>1, <2>2, <2>3, <2>4, <3>1, Constants DEF CountsIdle
    <3>3. boost_delay' \in 0..BoostDelay
      BY <2>4, <3>1, Constants
    <3>4. QED
      BY <1>2, <2>3, <3>1, <3>2, <3>3
  <2>5. CASE BoostDelay = 1
    <3>1. boost_delay' = 0 /\ pc' = "send"
      BY <2>1, <2>5, Constants DEF CountDown
    <3>2. CountsIdle'
      BY <2>1, <2>2, <2>3, <2>5, <3>1, Constants DEF CountsIdle
    <3>3. boost_delay' \in 0..BoostDelay
      BY <2>5, <3>1, Constants
    <3>4. QED
      BY <1>2, <2>3, <3>1, <3>2, <3>3
  <2>6. QED
    BY <2>4, <2>5, Constants
<1>6. CASE RunOut
  <2>1. ~Active(input_state') /\ ~boost /\ boost_delay > 0 /\ CountDown(boost_delay)
    BY <1>6 DEF RunOut
  <2>2. idleFor' = BoostDelay - boost_delay + 1
    BY <2>1, <1>1, Constants DEF CountsIdle, UpTo
  <2>3. boost' = FALSE
    BY <2>1 DEF CountDown
  <2>. BoostIsActive'
    BY <2>1, <2>3, <1>3
  <2>4. CASE boost_delay > 1
    <3>1. boost_delay' = boost_delay - 1 /\ pc' = "read"
      BY <2>1, <2>4 DEF CountDown
    <3>2. CountsIdle'
      BY <2>1, <2>2, <2>3, <2>4, <3>1, Constants DEF CountsIdle
    <3>3. boost_delay' \in 0..BoostDelay
      BY <2>4, <3>1, Constants
    <3>4. QED
      BY <1>2, <2>3, <3>1, <3>2, <3>3
  <2>5. CASE boost_delay = 1
    <3>1. boost_delay' = 0 /\ pc' = "send"
      BY <2>1, <2>5, Constants DEF CountDown
    <3>2. CountsIdle'
      BY <2>1, <2>2, <2>3, <2>5, <3>1, Constants DEF CountsIdle
    <3>3. boost_delay' \in 0..BoostDelay
      BY <2>5, <3>1, Constants
    <3>4. QED
      BY <1>2, <2>3, <3>1, <3>2, <3>3
  <2>6. QED
    BY <2>1, <2>4, <2>5, Constants
<1>7. CASE KeepBoost
  <2>1. (Active(input_state') <=> boost) /\ boost' = boost /\ boost_delay' = boost_delay
        /\ pc' = "read" /\ (boost \/ boost_delay = 0)
    <3>1. Active(input_state') \in BOOLEAN
      BY DEF Active
    <3>2. QED
      BY <3>1, <1>7 DEF KeepBoost
  <2>2. BoostIsActive'
    BY <2>1, <1>3
  <2>3. boost => idleFor' = 0
    BY <2>1, <1>1
  <2>4. QED
    BY <2>1, <2>2, <2>3, <1>2, Constants DEF CountsIdle
<1>8. QED
  BY <1>4, <1>5, <1>6, <1>7 DEF Pass

-----------------------------------------------------------------------------
(* The queue *)

(* What becomes of input_queue in the two steps that use it. *)
LEMMA SendQueue ==
  ASSUME Inv, SendBoost
  PROVE  input_queue' \in Seq(BOOLEAN) /\ Len(input_queue') <= QueueLength
<1>1. input_queue \in Seq(BOOLEAN) /\ Len(input_queue) <= QueueLength /\ boost \in BOOLEAN
  BY DEF Inv, TypeOK
<1>2. CASE Len(input_queue) < QueueLength
  <2>1. input_queue' = Append(input_queue, boost)
    BY <1>2 DEF SendBoost
  <2>2. input_queue' \in Seq(BOOLEAN) /\ Len(input_queue') = Len(input_queue) + 1
    BY <2>1, <1>1, AppendProperties
  <2>3. QED
    BY <2>2, <1>1, <1>2, LenProperties, Constants
<1>3. CASE ~(Len(input_queue) < QueueLength)
  BY <1>1, <1>3 DEF SendBoost
<1>4. QED
  BY <1>2, <1>3

LEMMA PollQueue ==
  ASSUME Inv, VentPoll
  PROVE  /\ input_queue' \in Seq(BOOLEAN) /\ Len(input_queue') <= QueueLength
         /\ ventBoost' \in BOOLEAN
         /\ lastPut' = lastPut
<1>1. /\ input_queue \in Seq(BOOLEAN) /\ Len(input_queue) <= QueueLength
      /\ Len(input_queue) \in Nat /\ ventBoost \in BOOLEAN
  BY LenProperties DEF Inv, TypeOK
<1>2. CASE input_queue = <<>>
  <2>1. input_queue' = input_queue /\ ventBoost' = ventBoost
    BY <1>2 DEF VentPoll
  <2>2. QED
    BY <2>1, <1>1 DEF lastPut
<1>3. CASE input_queue # <<>>
  <2>1. input_queue' = Tail(input_queue) /\ ventBoost' = Head(input_queue)
    BY <1>3 DEF VentPoll
  <2>2. /\ Head(input_queue) \in BOOLEAN /\ Tail(input_queue) \in Seq(BOOLEAN)
        /\ Len(Tail(input_queue)) = Len(input_queue) - 1
        /\ \A i \in 1..Len(Tail(input_queue)) : Tail(input_queue)[i] = input_queue[i + 1]
    BY <1>1, <1>3, HeadTailProperties
  <2>3. Head(input_queue) = input_queue[1] /\ Len(input_queue) >= 1
    BY <1>1, <1>3, EmptySeq
  <2>4. lastPut = input_queue[Len(input_queue)]
    BY <1>3 DEF lastPut
  <2>5. lastPut' = lastPut
    <3>1. CASE Len(input_queue) = 1
      <4>1. input_queue' = <<>>
        BY <3>1, <2>1, <2>2, EmptySeq
      <4>2. lastPut' = ventBoost'
        BY <4>1 DEF lastPut
      <4>3. QED
        BY <4>2, <3>1, <2>1, <2>3, <2>4
    <3>2. CASE Len(input_queue) > 1
      <4>1. /\ Len(input_queue') = Len(input_queue) - 1
            /\ Len(input_queue') \in 1..Len(Tail(input_queue))
        BY <3>2, <2>1, <2>2, <1>1
      <4>2. input_queue' # <<>>
        BY <4>1, <1>1
      <4>3. lastPut' = input_queue'[Len(input_queue')]
        BY <4>2 DEF lastPut
      <4>4. input_queue'[Len(input_queue')] = input_queue[Len(input_queue') + 1]
        BY <4>1, <2>1, <2>2
      <4>5. Len(input_queue') + 1 = Len(input_queue)
        BY <4>1, <1>1
      <4>6. QED
        BY <4>3, <4>4, <4>5, <2>4
    <3>3. \A n \in Nat : n >= 1 => n = 1 \/ n > 1
      OBVIOUS
    <3>4. QED
      BY <1>1, <2>3, <3>1, <3>2, <3>3, Zenon
  <2>6. Len(input_queue') <= QueueLength
    BY <2>1, <2>2, <1>1, Constants
  <2>7. QED
    BY <2>1, <2>2, <2>5, <2>6
<1>4. QED
  BY <1>2, <1>3

-----------------------------------------------------------------------------
(* The invariant *)

LEMMA StepInv == Inv /\ [Next]_vars => Inv'
<1> SUFFICES ASSUME Inv, [Next]_vars PROVE Inv'
  OBVIOUS
<1> TypeOK /\ CountsHigh /\ BoostIsActive /\ CountsIdle
  BY DEF Inv
<1>1. CASE Read
  <2>1. Pass /\ ventIdle < VentLoop
    BY <1>1 DEF Read
  <2>2. /\ ventIdle' \in 0..VentLoop /\ input_queue' = input_queue /\ ventBoost' = ventBoost
    BY <2>1, Constants DEF Pass, TypeOK
  <2>3. TypeOK'
    BY <2>1, <2>2, PassCounts, PassBoost DEF TypeOK
  <2>4. QED
    BY <2>1, <2>3, PassCounts, PassBoost DEF Inv
<1>2. CASE SendBoost
  <2>1. /\ pc' = "read"
        /\ UNCHANGED <<input_active, input_state, boost, boost_delay, ventBoost, ventIdle, history>>
    BY <1>2 DEF SendBoost
  <2>2. TypeOK'
    BY <1>2, <2>1, SendQueue DEF TypeOK, history
  <2>3. CountsHigh' /\ BoostIsActive' /\ CountsIdle'
    BY <2>1 DEF CountsHigh, BoostIsActive, CountsIdle, Active, history
  <2>4. QED
    BY <2>2, <2>3 DEF Inv
<1>3. CASE VentPoll
  <2>1. UNCHANGED <<taskVars, history>> /\ ventIdle' = 0
    BY <1>3 DEF VentPoll
  <2>2. TypeOK'
    BY <1>3, <2>1, PollQueue, Constants DEF TypeOK, taskVars, history
  <2>3. CountsHigh' /\ BoostIsActive' /\ CountsIdle'
    BY <2>1 DEF CountsHigh, BoostIsActive, CountsIdle, Active, history, taskVars
  <2>4. QED
    BY <2>2, <2>3 DEF Inv
<1>4. CASE UNCHANGED vars
  BY <1>4 DEF vars, taskVars, history, Inv, TypeOK, CountsHigh, BoostIsActive, CountsIdle, Active
<1>5. QED
  BY <1>1, <1>2, <1>3, <1>4 DEF Next

LEMMA InvHolds == Spec => []Inv
<1>1. QED
  BY InitInv, StepInv, PTL DEF Spec

(* The types, with ints that wrap around in the counters of the inputs     *)
(* (input_active) and a queue that is never longer than it was created.    *)
THEOREM TypesHold == Spec => []TypeOK
<1>1. Inv => TypeOK
  BY DEF Inv
<1>2. QED
  BY <1>1, InvHolds, PTL

(* A boost begins only for an input that was high for longer than the      *)
(* delay and goes on while there is one (handle_inputs), for every IntMax  *)
(* above the delay: the overflow of input_active changes nothing.          *)
THEOREM BoostFollowsInputsHolds == Spec => []BoostFollowsInputs
<1>1. Inv => BoostFollowsInputs
  BY DEF Inv, CountsHigh, BoostIsActive, BoostFollowsInputs, Active
<1>2. QED
  BY <1>1, InvHolds, PTL

(* The end of a boost is sent exactly BoostDelay readings after the last    *)
(* one with an active input (boost_delay in input_task).                   *)
THEOREM BoostRunsItsTimeHolds == Spec => []BoostRunsItsTime
<1>1. Inv => BoostRunsItsTime
  BY DEF Inv, CountsIdle, BoostRunsItsTime
<1>2. QED
  BY <1>1, InvHolds, PTL

-----------------------------------------------------------------------------
(* The room in the queue.  It is a bucket that ventcontrol_task drains: one *)
(* edge in VentLoop readings, so an edge is worth VentLoop readings.       *)

(* The readings until the queue is certain to have been emptied, and with   *)
(* an edge that is about to be put.                                        *)
Drain == IF input_queue = <<>> THEN 0 ELSE Len(input_queue) * VentLoop - ventIdle
Owed == Drain + IF pc = "send" THEN VentLoop ELSE 0

(* What the queue holds when every input has begun a boost and one has ended. *)
Budget == (Cardinality(Inputs) + 1) * VentLoop

(* The inputs that can begin a boost within t readings. *)
Ready(t) == {i \in Inputs : highFor[i] <= InputDelay /\ highFor[i] + t > InputDelay}

(* Whatever the inputs do in the next readings, their edges fit: an input   *)
(* that has begun a boost needs InputDelay readings for the next one, and  *)
(* by then the queue has given back what the edges of all inputs took.     *)
BoostsFit ==
  \A t \in 0..InputDelay : Owed + Cardinality(Ready(t)) * VentLoop < Budget + t

(* By the end of the delay the edges before it are gone. *)
EndFits ==
  /\ boost \/ boost_delay > 0 => Owed = 0 \/ Owed + idleFor < Budget
  /\ boost \/ boost_delay > 0 \/ pc = "send" => Inputs # {}

RoomInv == Inv /\ BoostsFit /\ EndFits

LEMMA Times ==
  ASSUME NEW a \in Nat, NEW b \in Nat, NEW v \in Nat
  PROVE  /\ a * v \in Nat
         /\ (a + 1) * v = a * v + v
         /\ a <= b => a * v <= b * v
<1>1. ASSUME a <= b PROVE a * v <= b * v
  <2>1. PICK d \in Nat : b = a + d
    <3>1. b - a \in Nat /\ b = a + (b - a)
      BY <1>1
    <3>2. QED
      BY <3>1
  <2>2. b * v = a * v + d * v /\ d * v >= 0 /\ a * v \in Nat /\ d * v \in Nat
    BY <2>1
  <2>3. QED
    BY <2>2
<1>2. QED
  BY <1>1

LEMMA Sizes ==
  /\ Cardinality(Inputs) \in Nat
  /\ Budget = Cardinality(Inputs) * VentLoop + VentLoop
  /\ Cardinality(Inputs) * VentLoop \in Nat
  /\ VentLoop \in Nat /\ VentLoop > 0
  /\ Cardinality(Inputs) * VentLoop <= InputDelay
  /\ Budget <= BoostDelay
  /\ QueueLength > Cardinality(Inputs)
<1>1. Cardinality(Inputs) \in Nat
  BY InputsAssumption, FS_CardinalityType
<1>2. VentLoop \in Nat /\ VentLoop > 0
  BY VentLoopAssumption
<1>3. QED
  BY <1>1, <1>2, Times, VentLoopAssumption, QueueLengthAssumption DEF Budget

LEMMA ReadyCount ==
  ASSUME NEW S \in SUBSET Inputs
  PROVE  /\ IsFiniteSet(S) /\ Cardinality(S) \in Nat
         /\ Cardinality(S) * VentLoop \in Nat
         /\ Cardinality(S) * VentLoop <= Cardinality(Inputs) * VentLoop
<1>1. IsFiniteSet(S) /\ Cardinality(S) <= Cardinality(Inputs)
  BY InputsAssumption, FS_Subset
<1>2. Cardinality(S) \in Nat
  BY <1>1, FS_CardinalityType
<1>3. QED
  BY <1>1, <1>2, Sizes, Times

LEMMA ReadySize ==
  ASSUME NEW t
  PROVE  /\ Cardinality(Ready(t)) * VentLoop \in Nat
         /\ Cardinality(Ready(t)) * VentLoop <= Cardinality(Inputs) * VentLoop
<1>1. Ready(t) \in SUBSET Inputs
  BY DEF Ready
<1>2. QED
  BY <1>1, ReadyCount

(* The queue drains, and at no time owes less than nothing. *)
LEMMA DrainType ==
  ASSUME TypeOK
  PROVE  /\ Drain \in Nat /\ Owed \in Nat
         /\ Len(input_queue) \in Nat
         /\ input_queue # <<>> =>
              /\ Len(input_queue) >= 1
              /\ Drain = Len(input_queue) * VentLoop - ventIdle
              /\ Len(input_queue) * VentLoop >= VentLoop
<1>1. Len(input_queue) \in Nat /\ ventIdle \in 0..VentLoop
  BY LenProperties DEF TypeOK
<1>2. CASE input_queue = <<>>
  BY <1>1, <1>2, Sizes DEF Drain, Owed
<1>3. CASE input_queue # <<>>
  <2>1. Len(input_queue) >= 1
    BY <1>1, <1>3, EmptySeq DEF TypeOK
  <2>2. Len(input_queue) * VentLoop >= VentLoop /\ Len(input_queue) * VentLoop \in Nat
    <3>1. 1 * VentLoop <= Len(input_queue) * VentLoop
      BY <2>1, <1>1, Sizes, Times
    <3>2. QED
      BY <3>1, <1>1, Sizes, Times
  <2>3. Drain = Len(input_queue) * VentLoop - ventIdle
    BY <1>3 DEF Drain
  <2>4. QED
    BY <1>1, <2>1, <2>2, <2>3, Sizes DEF Owed
<1>4. QED
  BY <1>2, <1>3

LEMMA OwedNat == TypeOK => Owed \in Nat
BY DrainType

(* Where all edges fit, the one that is about to be put does. *)
LEMMA FitsHasRoom == TypeOK /\ BoostsFit => RoomForEdge
<1> SUFFICES ASSUME TypeOK, BoostsFit, pc = "send"
             PROVE  Len(input_queue) < QueueLength
  BY DEF RoomForEdge
<1>1. Owed + Cardinality(Ready(0)) * VentLoop < Budget
  BY Constants, Sizes, DrainType, ReadySize DEF BoostsFit
<1>2. Owed = Drain + VentLoop
  BY DEF Owed
<1>3. Cardinality(Ready(0)) * VentLoop \in Nat
  BY ReadySize
<1>4. Drain < Cardinality(Inputs) * VentLoop
  BY <1>1, <1>2, <1>3, Sizes, DrainType
<1>5. ASSUME Len(input_queue) > Cardinality(Inputs) PROVE FALSE
  <2>1. Len(input_queue) \in Nat /\ input_queue # <<>>
    BY <1>5, DrainType, Sizes, EmptySeq
  <2>2. (Cardinality(Inputs) + 1) * VentLoop <= Len(input_queue) * VentLoop
    BY <1>5, <2>1, Sizes, Times
  <2>3. Drain >= Budget - VentLoop
    BY <2>1, <2>2, Sizes, DrainType, Times DEF Budget, TypeOK
  <2>4. QED
    BY <2>3, <1>4, DrainType, Sizes
<1>6. QED
  BY <1>5, Sizes, DrainType, Constants

LEMMA InitRoom == Init => BoostsFit /\ EndFits
<1> SUFFICES ASSUME Init PROVE BoostsFit /\ EndFits
  OBVIOUS
<1>1. Owed = 0
  BY DEF Init, Owed, Drain
<1>2. ASSUME NEW t \in 0..InputDelay
      PROVE  Owed + Cardinality(Ready(t)) * VentLoop < Budget + t
  <2>1. /\ Cardinality(Ready(t)) * VentLoop \in Nat
        /\ Cardinality(Ready(t)) * VentLoop <= Cardinality(Inputs) * VentLoop
    BY ReadySize
  <2>2. QED
    BY <1>1, <2>1, Sizes, Constants
<1>3. QED
  BY <1>2 DEF Init, BoostsFit, EndFits

(* A step of the queue that adds nothing to what is owed. *)
LEMMA QueueStepRoom ==
  ASSUME RoomInv, TypeOK', Owed' <= Owed, UNCHANGED <<boost, boost_delay, history>>,
         pc' = pc \/ (pc' = "read" /\ pc = "send")
  PROVE  BoostsFit' /\ EndFits'
<1> TypeOK /\ BoostsFit /\ EndFits
  BY DEF RoomInv, Inv
<1>1. Owed \in Nat /\ Owed' \in Nat
  <2>1. TypeOK' => (Owed \in Nat)'
    BY OwedNat, PTL
  <2>2. QED
    BY <2>1, DrainType
<1>2. ASSUME NEW t \in 0..InputDelay
      PROVE  Owed' + Cardinality(Ready(t)') * VentLoop < Budget + t
  <2>1. Ready(t)' = Ready(t)
    BY DEF Ready, history
  <2>2. Cardinality(Ready(t)) * VentLoop \in Nat
    BY ReadySize
  <2>3. Owed + Cardinality(Ready(t)) * VentLoop < Budget + t
    BY DEF BoostsFit
  <2>4. QED
    BY <1>1, <2>1, <2>2, <2>3, Sizes, Constants
<1>3. BoostsFit'
  BY <1>2 DEF BoostsFit, Budget
<1>4. idleFor' = idleFor /\ idleFor \in Nat
  BY Constants DEF history, TypeOK
<1>5. EndFits'
  BY <1>1, <1>4, Sizes DEF EndFits, Budget
<1>6. QED
  BY <1>3, <1>5

(* Putting an edge turns what it owes into what the queue owes, or, where   *)
(* it found no room, into nothing; a poll gives back an edge.              *)
LEMMA SendOwed ==
  ASSUME Inv, SendBoost
  PROVE  Owed' <= Owed
<1> TypeOK
  BY DEF Inv
<1>1. pc = "send" /\ pc' = "read" /\ ventIdle' = ventIdle
  BY DEF SendBoost
<1>2. ventIdle \in 0..VentLoop /\ boost \in BOOLEAN /\ input_queue \in Seq(BOOLEAN)
  BY DEF TypeOK
<1>3. Drain' \in Int /\ Drain' <= Drain + VentLoop
  <2>1. CASE Len(input_queue) < QueueLength
    <3>1. input_queue' = Append(input_queue, boost)
      BY <2>1 DEF SendBoost
    <3>2. Len(input_queue') = Len(input_queue) + 1 /\ input_queue' # <<>>
      BY <3>1, <1>2, AppendProperties
    <3>3. Drain' = (Len(input_queue) + 1) * VentLoop - ventIdle
      BY <1>1, <3>2 DEF Drain
    <3>4. Drain' = Len(input_queue) * VentLoop + VentLoop - ventIdle
      <4>1. (Len(input_queue) + 1) * VentLoop = Len(input_queue) * VentLoop + VentLoop
        <5>1. Len(input_queue) \in Nat /\ VentLoop \in Nat
          BY DrainType, Sizes
        <5>2. QED
          BY <5>1, Times
      <4>2. QED
        BY <3>3, <4>1, <1>2, DrainType, Times, Sizes
    <3>5. CASE input_queue = <<>>
      <4>1. Len(input_queue) = 0 /\ Drain = 0
        BY <3>5 DEF Drain
      <4>2. QED
        BY <1>2, <3>4, <4>1, Sizes
    <3>6. CASE input_queue # <<>>
      BY <1>2, <3>4, <3>6, DrainType, Times, Sizes
    <3>7. QED
      BY <3>5, <3>6
  <2>2. CASE ~(Len(input_queue) < QueueLength)
    <3>1. Drain' = Drain
      BY <1>1, <2>2 DEF SendBoost, Drain
    <3>2. QED
      BY <3>1, DrainType, Sizes
  <2>3. QED
    BY <2>1, <2>2
<1>4. QED
  BY <1>1, <1>3, DrainType, Sizes DEF Owed

LEMMA PollOwed ==
  ASSUME Inv, VentPoll
  PROVE  Owed' <= Owed
<1> TypeOK
  BY DEF Inv
<1>1. ventIdle' = 0 /\ pc' = pc
  BY DEF VentPoll, taskVars
<1>2. ventIdle \in 0..VentLoop
  BY DEF TypeOK
<1>3. Drain' <= Drain /\ Drain' \in Int
  <2>1. CASE input_queue = <<>>
    BY <2>1, DrainType DEF VentPoll, Drain
  <2>2. CASE input_queue # <<>>
    <3>1. input_queue' = Tail(input_queue)
      BY <2>2 DEF VentPoll
    <3>2. input_queue' \in Seq(BOOLEAN) /\ Len(input_queue') = Len(input_queue) - 1
      BY <3>1, <2>2, HeadTailProperties DEF TypeOK
    <3>3. Len(input_queue') \in Nat
      BY <3>2, <2>2, DrainType
    <3>4. Len(input_queue) * VentLoop = Len(input_queue') * VentLoop + VentLoop
      <4>1. Len(input_queue) = Len(input_queue') + 1
        BY <3>2, DrainType
      <4>2. QED
        BY <4>1, <3>3, Times, Sizes
    <3>5. Len(input_queue') * VentLoop <= Drain
      BY <1>2, <2>2, <3>3, <3>4, DrainType, Times, Sizes
    <3>6. Drain' = 0 \/ Drain' = Len(input_queue') * VentLoop
      BY <1>1, <3>3, Sizes, Times DEF Drain
    <3>7. QED
      BY <3>3, <3>5, <3>6, DrainType, Times, Sizes
  <2>3. QED
    BY <2>1, <2>2
<1>4. CASE pc = "send"
  BY <1>1, <1>3, <1>4, DrainType, Sizes DEF Owed
<1>5. CASE pc # "send"
  BY <1>1, <1>3, <1>5, DrainType DEF Owed
<1>6. QED
  BY <1>4, <1>5

(* In one reading the queue gives back one reading of what it owes, and an  *)
(* input gets at most one reading nearer to a boost; when a boost begins,   *)
(* an input that was ready for it is no longer.                            *)
LEMMA PassReady ==
  ASSUME Inv, Pass, NEW t \in 0..InputDelay
  PROVE  /\ Ready(t)' \subseteq Ready(t + 1)
         /\ ~Active(input_state) /\ Active(input_state') => Ready(t)' # Ready(t + 1)
<1> TypeOK /\ CountsHigh
  BY DEF Inv
<1>1. PICK high \in [Inputs -> BOOLEAN] :
        highFor' = [i \in Inputs |->
          IF high[i] THEN UpTo(InputDelay + 1, highFor[i] + 1) ELSE 0]
  BY DEF Pass
<1>2. ASSUME NEW i \in Inputs
      PROVE  /\ highFor[i] \in 0..InputDelay + 1
             /\ highFor'[i] = IF high[i] THEN UpTo(InputDelay + 1, highFor[i] + 1) ELSE 0
             /\ input_state[i] <=> highFor[i] > InputDelay
             /\ input_state'[i] <=> highFor'[i] > InputDelay
  <2>1. CountsHigh'
    BY PassCounts
  <2>2. QED
    BY <1>1, <2>1 DEF TypeOK, CountsHigh
<1>3. ASSUME NEW i \in Ready(t)'
      PROVE  i \in Ready(t + 1)
  <2>1. i \in Inputs /\ highFor'[i] <= InputDelay /\ highFor'[i] + t > InputDelay
    BY <1>3 DEF Ready
  <2>2. highFor[i] <= InputDelay /\ highFor[i] + (t + 1) > InputDelay
    BY <1>2, <2>1, Constants DEF UpTo
  <2>3. QED
    BY <2>1, <2>2 DEF Ready
<1>4. ASSUME ~Active(input_state), Active(input_state')
      PROVE  Ready(t)' # Ready(t + 1)
  <2>1. PICK i \in Inputs : input_state'[i]
    BY <1>4 DEF Active
  <2>2. ~input_state[i]
    BY <1>4 DEF Active
  <2>3. highFor'[i] > InputDelay /\ highFor[i] = InputDelay
    BY <1>2, <2>1, <2>2, Constants DEF UpTo
  <2>4. i \notin Ready(t)'
    BY <1>2, <2>3, Constants DEF Ready, UpTo
  <2>5. i \in Ready(t + 1)
    BY <2>3, Constants DEF Ready
  <2>6. QED
    BY <2>4, <2>5
<1>5. QED
  BY <1>3, <1>4

LEMMA ReadDrain ==
  ASSUME Inv, Read
  PROVE  /\ Drain \in Nat /\ Drain' \in Nat
         /\ Drain' = IF Drain = 0 THEN 0 ELSE Drain - 1
         /\ Owed = Drain
         /\ Owed' = Drain' + IF pc' = "send" THEN VentLoop ELSE 0
<1> TypeOK
  BY DEF Inv
<1>1. pc = "read" /\ input_queue' = input_queue /\ ventIdle' = ventIdle + 1 /\ ventIdle < VentLoop
  BY DEF Read, Pass
<1>2. ventIdle \in 0..VentLoop
  BY DEF TypeOK
<1>3. CASE input_queue = <<>>
  <2>1. Drain = 0 /\ Drain' = 0
    BY <1>1, <1>3 DEF Drain
  <2>2. QED
    BY <1>1, <2>1 DEF Owed
<1>4. CASE input_queue # <<>>
  <2>1. Drain = Len(input_queue) * VentLoop - ventIdle /\ Len(input_queue) * VentLoop >= VentLoop
        /\ Len(input_queue) * VentLoop \in Nat
    BY <1>4, DrainType, Times, Sizes
  <2>2. Drain' = Len(input_queue) * VentLoop - (ventIdle + 1)
    BY <1>1, <1>4 DEF Drain
  <2>3. Drain \in Nat /\ Drain # 0 /\ Drain' = Drain - 1 /\ Drain' \in Nat
    BY <2>1, <2>2, <1>1, <1>2, Sizes
  <2>4. Owed = Drain
    BY <1>1, <2>3 DEF Owed
  <2>5. QED
    BY <2>3, <2>4 DEF Owed
<1>5. QED
  BY <1>3, <1>4

(* What a reading that sends nothing, one that begins and one that ends a   *)
(* boost make of it.                                                       *)
LEMMA ReadFits ==
  ASSUME RoomInv, Read
  PROVE  BoostsFit' /\ EndFits'
<1> TypeOK /\ CountsIdle /\ BoostIsActive /\ BoostsFit /\ EndFits /\ Inv /\ Pass
  BY DEF RoomInv, Inv, Read
<1>1. pc = "read" /\ boost \in BOOLEAN /\ boost_delay \in 0..BoostDelay /\ idleFor \in 0..BoostDelay + 1
  BY DEF Pass, TypeOK
<1>2. ASSUME NEW t \in 0..InputDelay
      PROVE  /\ Cardinality(Ready(t)') * VentLoop \in Nat
             /\ Cardinality(Ready(t)') * VentLoop <= Cardinality(Inputs) * VentLoop
             /\ Drain = 0 \/ Drain + Cardinality(Ready(t + 1)) * VentLoop < Budget + (t + 1)
             /\ Cardinality(Ready(t)') * VentLoop <= Cardinality(Ready(t + 1)) * VentLoop
             /\ ~Active(input_state) /\ Active(input_state') =>
                  Cardinality(Ready(t)') * VentLoop + VentLoop <= Cardinality(Ready(t + 1)) * VentLoop
  <2> DEFINE now == Ready(t + 1)
             next == Ready(t)'
  <2>1. now \in SUBSET Inputs /\ next \in SUBSET Inputs /\ next \subseteq now
    BY PassReady DEF Ready
  <2>2. /\ IsFiniteSet(now) /\ Cardinality(now) \in Nat /\ Cardinality(next) \in Nat
        /\ Cardinality(next) * VentLoop \in Nat /\ Cardinality(now) * VentLoop \in Nat
        /\ Cardinality(next) * VentLoop <= Cardinality(Inputs) * VentLoop
        /\ Cardinality(now) * VentLoop <= Cardinality(Inputs) * VentLoop
    BY <2>1, ReadyCount
  <2>3. Cardinality(next) <= Cardinality(now) /\ (next # now => Cardinality(next) # Cardinality(now))
    BY <2>1, <2>2, FS_Subset
  <2> HIDE DEF now, next
  <2>4. Cardinality(next) * VentLoop <= Cardinality(now) * VentLoop
    BY <2>2, <2>3, Times, Sizes
  <2>5. ASSUME next # now PROVE Cardinality(next) * VentLoop + VentLoop <= Cardinality(now) * VentLoop
    <3>1. Cardinality(next) + 1 <= Cardinality(now)
      BY <2>2, <2>3, <2>5
    <3>2. (Cardinality(next) + 1) * VentLoop <= Cardinality(now) * VentLoop
      BY <2>2, <3>1, Times, Sizes
    <3>3. QED
      BY <2>2, <3>2, Times, Sizes
  <2>6. Drain + Cardinality(now) * VentLoop < Budget + (t + 1)
    <3>1. CASE t + 1 <= InputDelay
      BY <3>1, ReadDrain, Constants DEF BoostsFit, now
    <3>2. CASE t = InputDelay
      <4>1. Drain + Cardinality(Ready(0)) * VentLoop < Budget + 0
        BY ReadDrain, Constants DEF BoostsFit
      <4>2. Drain < Budget
        BY <4>1, ReadySize, ReadDrain, Sizes
      <4>3. QED
        BY <4>2, <3>2, <2>2, ReadDrain, Sizes, Constants
    <3>3. QED
      BY <3>1, <3>2, Constants
  <2>7. ~Active(input_state) /\ Active(input_state') => next # now
    BY PassReady DEF now, next
  <2>8. QED
    BY <2>2, <2>4, <2>5, <2>6, <2>7 DEF now, next
<1>3. idleFor' = IF Active(input_state') THEN 0 ELSE UpTo(BoostDelay + 1, idleFor + 1)
  BY DEF Pass
<1>4. Budget' = Budget /\ Budget \in Nat
  BY Sizes DEF Budget
<1>5. ASSUME Inputs = {} PROVE ~Active(input_state')
  BY <1>5 DEF Active
<1>6. CASE pc' = "read" /\ (boost' \/ boost_delay' > 0 => boost \/ boost_delay > 0)
  <2>1. Owed' = Drain' /\ Owed' <= Drain
    BY <1>6, ReadDrain
  <2>2. ASSUME NEW t \in 0..InputDelay
        PROVE  Owed' + Cardinality(Ready(t)') * VentLoop < Budget + t
    <3>1. /\ Cardinality(Ready(t + 1)) * VentLoop \in Nat
          /\ Cardinality(Ready(t)') * VentLoop \in Nat
          /\ Drain \in Nat /\ Drain' = IF Drain = 0 THEN 0 ELSE Drain - 1
      BY <1>2, ReadySize, ReadDrain
    <3>2. CASE Drain = 0
      BY <2>1, <3>1, <3>2, <1>2, Sizes
    <3>3. CASE Drain # 0
      <4>1. Drain' + Cardinality(Ready(t)') * VentLoop < Budget + t
        BY <3>1, <3>3, <1>2, <1>4
      <4>2. QED
        BY <2>1, <4>1
    <3>4. QED
      BY <3>2, <3>3
  <2>3. Owed' = 0 \/ Owed' + idleFor' < Budget \/ ~(boost \/ boost_delay > 0)
    <3>1. idleFor' \in Nat /\ idleFor' <= idleFor + 1
      BY <1>1, <1>3, Constants DEF UpTo
    <3>2. ~(boost \/ boost_delay > 0) \/ Drain = 0 \/ Drain + idleFor < Budget
      BY ReadDrain DEF EndFits
    <3>3. Drain \in Nat /\ Drain' \in Nat /\ Drain' = IF Drain = 0 THEN 0 ELSE Drain - 1
      BY ReadDrain
    <3>4. CASE Drain = 0
      BY <2>1, <3>3, <3>4
    <3>5. CASE Drain > 0 /\ Drain + idleFor < Budget
      <4>1. Drain' + idleFor' < Budget
        <5>1. idleFor \in Nat
          BY <1>1, Constants
        <5>2. Drain' = Drain - 1
          BY <3>3, <3>5
        <5>3. \A d, i, j, b \in Nat : d + i < b /\ j <= i + 1 => (d - 1) + j < b
          OBVIOUS
        <5>4. (Drain - 1) + idleFor' < Budget
          BY <3>1, <3>3, <3>5, <5>1, <5>3, <1>4
        <5>5. QED
          BY <5>2, <5>4
      <4>2. QED
        BY <2>1, <4>1, <1>4
    <3>6. QED
      BY <3>2, <3>3, <3>4, <3>5
  <2>4. QED
    BY <2>2, <2>3, <1>4, <1>6 DEF BoostsFit, EndFits
<1>7. CASE StartBoost
  <2>1. Active(input_state') /\ ~Active(input_state) /\ pc' = "send" /\ boost' = TRUE
    BY <1>7 DEF StartBoost, BoostIsActive
  <2>2. Owed' = Drain' + VentLoop
    BY <2>1, ReadDrain
  <2>3. ASSUME NEW t \in 0..InputDelay
        PROVE  Owed' + Cardinality(Ready(t)') * VentLoop < Budget + t
    <3>1. Cardinality(Ready(t + 1)) * VentLoop <= Cardinality(Inputs) * VentLoop
          /\ Cardinality(Ready(t + 1)) * VentLoop \in Nat
      BY ReadySize
    <3>2. QED
      BY <2>1, <2>2, <3>1, <1>2, ReadDrain, Sizes
  <2>4. Owed' < Budget
    <3>1. Owed' + Cardinality(Ready(0)') * VentLoop < Budget
      BY <2>3, Constants, Sizes, ReadDrain, <2>2, <1>2
    <3>2. Cardinality(Ready(0)') * VentLoop \in Nat
      BY <1>2, Constants
    <3>3. QED
      BY <3>1, <3>2, <2>2, ReadDrain, Sizes
  <2>5. idleFor' = 0 /\ Inputs # {}
    BY <2>1, <1>3, <1>5
  <2>6. QED
    BY <2>2, <2>3, <2>4, <2>5, <1>4, ReadDrain, Sizes DEF BoostsFit, EndFits
<1>8. CASE pc' = "send" /\ boost' = FALSE /\ (boost \/ boost_delay > 0)
  <2>1. idleFor' = BoostDelay /\ boost_delay' = 0 /\ idleFor >= BoostDelay - 1
    <3>1. CountsIdle'
      BY PassBoost
    <3>2. idleFor' = BoostDelay /\ boost_delay' = 0
      BY <3>1, <1>8 DEF CountsIdle
    <3>3. QED
      BY <3>2, <1>1, <1>3, Constants DEF UpTo
  <2>2. Drain' = 0
    BY <2>1, <1>8, <1>1, ReadDrain, Sizes, Constants DEF EndFits
  <2>3. Owed' = VentLoop /\ Inputs # {}
    BY <2>2, <1>8, ReadDrain, Sizes DEF EndFits
  <2>4. Cardinality(Inputs) >= 1
    BY <2>3, Sizes, InputsAssumption, FS_EmptySet
  <2>5. Cardinality(Inputs) * VentLoop >= VentLoop
    <3>1. 1 * VentLoop <= Cardinality(Inputs) * VentLoop
      BY <2>4, Sizes, Times
    <3>2. QED
      BY <3>1, Sizes
  <2>6. ASSUME NEW t \in 0..InputDelay
        PROVE  Owed' + Cardinality(Ready(t)') * VentLoop < Budget + t
    <3>1. CASE t = 0
      <4>1. Ready(t)' = {}
        BY <3>1, PassCounts, Constants DEF Ready
      <4>2. Cardinality(Ready(t)') = 0
        BY <4>1, FS_EmptySet
      <4>3. Cardinality(Ready(t)') * VentLoop = 0
        BY <4>2, Sizes
      <4>4. QED
        BY <4>3, <3>1, <2>3, <2>5, Sizes
    <3>2. CASE t > 0
      BY <3>2, <2>3, <1>2, Sizes
    <3>3. QED
      BY <3>1, <3>2
  <2>7. QED
    BY <2>1, <2>3, <2>6, <1>4, <1>8 DEF BoostsFit, EndFits
<1>9. StartBoost \/ ReleaseBoost \/ RunOut \/ KeepBoost
  BY DEF Pass
<1>10. CASE ReleaseBoost \/ RunOut
  <2>1. boost \/ boost_delay > 0
    BY <1>10 DEF ReleaseBoost, RunOut
  <2>2. boost' = FALSE /\ pc' \in {"read", "send"}
    BY <1>10 DEF ReleaseBoost, RunOut, CountDown
  <2>3. QED
    BY <2>1, <2>2, <1>6, <1>8
<1>11. CASE KeepBoost
  BY <1>1, <1>6, <1>11 DEF KeepBoost
<1>12. QED
  BY <1>7, <1>9, <1>10, <1>11

LEMMA StepRoom == RoomInv /\ [Next]_vars => RoomInv'
<1> SUFFICES ASSUME RoomInv, [Next]_vars PROVE RoomInv'
  OBVIOUS
<1> Inv
  BY DEF RoomInv
<1>1. Inv' /\ TypeOK'
  BY StepInv DEF Inv
<1>2. CASE Read
  BY <1>1, <1>2, ReadFits DEF RoomInv
<1>3. CASE SendBoost
  <2>1. pc = "send" /\ pc' = "read" /\ UNCHANGED <<boost, boost_delay, history>>
    BY <1>3 DEF SendBoost
  <2>2. QED
    BY <2>1, <1>1, <1>3, SendOwed, QueueStepRoom DEF RoomInv
<1>4. CASE VentPoll
  <2>1. UNCHANGED <<pc, boost, boost_delay, history>>
    BY <1>4 DEF VentPoll, taskVars
  <2>2. QED
    BY <2>1, <1>1, <1>4, PollOwed, QueueStepRoom DEF RoomInv
<1>5. CASE UNCHANGED vars
  <2>1. UNCHANGED <<pc, input_queue, ventIdle, boost, boost_delay, history>>
    BY <1>5 DEF vars, taskVars
  <2>2. Owed' = Owed /\ Owed \in Nat
    BY <2>1, DrainType DEF Owed, Drain, Inv
  <2>3. QED
    BY <2>1, <2>2, <1>1, QueueStepRoom DEF RoomInv
<1>6. QED
  BY <1>2, <1>3, <1>4, <1>5 DEF Next

(* Every edge finds room in input_queue (xQueueSend in input_task, whose    *)
(* result is ignored), for any number of inputs and every length of the    *)
(* queue above it, if each delay leaves ventcontrol_task the time to take  *)
(* what can be put meanwhile.                                              *)
THEOREM RoomForEdgeHolds == Spec => []RoomForEdge
<1>1. Init => RoomInv
  BY InitInv, InitRoom DEF RoomInv
<1>2. RoomInv => RoomForEdge
  BY FitsHasRoom DEF RoomInv, Inv
<1>3. QED
  BY <1>1, <1>2, StepRoom, PTL DEF Spec

-----------------------------------------------------------------------------
(* The edges *)

LEMMA InitEdges == Init => EdgesInOrder /\ Edges!Init
BY DEF Init, EdgesInOrder, lastPut, Edges!Init

(* Where an edge finds room, one step keeps the order of the edges and is   *)
(* a step of BoostEdges.                                                   *)
LEMMA StepEdges ==
  Inv /\ EdgesInOrder /\ RoomForEdge /\ [Next]_vars
    => EdgesInOrder' /\ [Edges!Next]_<<input_queue, lastPut>>
<1> SUFFICES ASSUME Inv, EdgesInOrder, RoomForEdge, [Next]_vars
             PROVE  EdgesInOrder' /\ [Edges!Next]_<<input_queue, lastPut>>
  OBVIOUS
<1> /\ boost \in BOOLEAN /\ boost_delay \in 0..BoostDelay /\ pc \in {"read", "send"}
    /\ input_queue \in Seq(BOOLEAN)
  BY DEF Inv, TypeOK
<1>1. CASE Read
  <2>1. UNCHANGED <<input_queue, ventBoost>> /\ pc = "read" /\ Pass
    BY <1>1 DEF Read, Pass
  <2>2. lastPut' = lastPut
    BY <2>1 DEF lastPut
  <2>3. lastPut <=> boost \/ boost_delay > 0
    BY <2>1 DEF EdgesInOrder
  <2>4. CASE StartBoost
    <3>1. boost' = TRUE /\ pc' = "send"
      BY <2>4 DEF StartBoost
    <3>2. QED
      BY <2>1, <2>2, <3>1 DEF EdgesInOrder
  <2>5. CASE ReleaseBoost
    <3>1. boost /\ CountDown(BoostDelay)
      BY <2>5 DEF ReleaseBoost
    <3>2. QED
      BY <2>1, <2>2, <2>3, <3>1, Constants DEF CountDown, EdgesInOrder
  <2>6. CASE RunOut
    <3>1. boost_delay > 0 /\ CountDown(boost_delay)
      BY <2>6 DEF RunOut
    <3>2. QED
      BY <2>1, <2>2, <2>3, <3>1, Constants DEF CountDown, EdgesInOrder
  <2>7. CASE KeepBoost
    <3>1. UNCHANGED <<boost, boost_delay, pc>>
      BY <2>7 DEF KeepBoost
    <3>2. QED
      BY <2>1, <2>2, <2>3, <3>1 DEF EdgesInOrder
  <2>8. QED
    BY <2>1, <2>2, <2>4, <2>5, <2>6, <2>7 DEF Pass
<1>2. CASE SendBoost
  <2>1. /\ Len(input_queue) < QueueLength /\ pc = "send" /\ pc' = "read"
        /\ boost' = boost /\ boost_delay' = boost_delay
    BY <1>2 DEF SendBoost, RoomForEdge
  <2>2. input_queue' = Append(input_queue, boost)
    BY <1>2, <2>1 DEF SendBoost
  <2>3. /\ Len(input_queue') = Len(input_queue) + 1
        /\ input_queue'[Len(input_queue) + 1] = boost
    BY <2>2, AppendProperties
  <2>4. input_queue' # <<>>
    BY <2>3, LenProperties
  <2>5. lastPut' = boost
    BY <2>3, <2>4 DEF lastPut
  <2>6. (boost => boost_delay = 0) /\ (~boost => lastPut /\ boost_delay = 0)
    BY <2>1 DEF EdgesInOrder, Inv, CountsIdle
  <2>7. EdgesInOrder'
    BY <2>1, <2>5, <2>6 DEF EdgesInOrder
  <2>8. Edges!Put(boost)
    BY <2>1, <2>2, <2>5, <2>6 DEF Edges!Put
  <2>9. QED
    BY <2>7, <2>8 DEF Edges!Next
<1>3. CASE VentPoll
  <2>1. lastPut' = lastPut /\ UNCHANGED <<pc, boost, boost_delay>>
    BY <1>3, PollQueue DEF VentPoll, taskVars
  <2>2. EdgesInOrder'
    BY <2>1 DEF EdgesInOrder
  <2>3. Edges!Take \/ UNCHANGED <<input_queue, lastPut>>
    BY <1>3, <2>1 DEF VentPoll, Edges!Take
  <2>4. QED
    BY <2>2, <2>3 DEF Edges!Next
<1>4. CASE UNCHANGED vars
  BY <1>4 DEF vars, taskVars, EdgesInOrder, lastPut
<1>5. QED
  BY <1>1, <1>2, <1>3, <1>4 DEF Next

LEMMA EdgesInvHolds ==
  Spec => []EdgesInOrder /\ [][Edges!Next]_<<input_queue, lastPut>>
<1>1. QED
  BY InvHolds, RoomForEdgeHolds, InitEdges, StepEdges, PTL DEF Spec

(* The edges ventcontrol_task has received and will receive from            *)
(* input_queue end with what the inputs ask for (boost and boost_delay in  *)
(* input_task): no beginning and no end of a boost is lost.                *)
THEOREM EdgesAgreeHolds == Spec => []EdgesAgree
<1>1. EdgesInOrder => EdgesAgree
  BY DEF EdgesInOrder, EdgesAgree
<1>2. QED
  BY <1>1, EdgesInvHolds, PTL

(* ventcontrol_task finds on its end of input_queue what BoostEdges says:   *)
(* the edges in their order, none lost, and an end only after a beginning. *)
THEOREM EdgesHold == Spec => EdgesSpec
<1>1. QED
  BY InitEdges, EdgesInvHolds, PTL DEF Spec, EdgesSpec, Edges!Spec
=============================================================================
