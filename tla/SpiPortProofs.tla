---------------------------- MODULE SpiPortProofs ----------------------------
(***************************************************************************)
(* Proofs about SpiPort, for any number of tasks and priorities.           *)
(***************************************************************************)
EXTENDS SpiPort, FiniteSetTheorems, TLAPS

Places == {"run", "enter", "entered", "locked", "selected", "deselected", "exited"}

(* Where a task holds the spin lock, and where it counts in uxCriticalNesting. *)
Holding == {"entered", "locked", "selected", "deselected"}
Nested == {"locked", "selected", "deselected", "exited"}

Inside == {t \in Tasks : at[t] \in Nested}

PlaceTypes ==
  /\ at \in [Tasks -> Places]
  /\ running \in Tasks \cup {Idle}
  /\ ready \subseteq Tasks

FlagTypes ==
  /\ switchPending \in BOOLEAN
  /\ primask \in BOOLEAN
  /\ spinLock \in BOOLEAN
  /\ save \in BOOLEAN
  /\ armed \in BOOLEAN

TimerType == g_msec_cnt \in 0..Second - 1

(* The spin lock is held by the task that has the core, with interrupts off. *)
HolderRuns ==
  /\ \A t \in Tasks : at[t] \in Holding => running = t /\ primask /\ spinLock
  /\ spinLock => \E t \in Tasks : at[t] \in Holding

(* uxCriticalNesting counts the tasks between the two FreeRTOS calls,        *)
(* whichever task it was that made them.                                   *)
NestingCounts == uxCriticalNesting = Cardinality(Inside)

(* Without the spin lock interrupts are off only while some task counts. *)
MaskCounted == primask /\ ~spinLock => uxCriticalNesting # 0

Inv == PlaceTypes /\ FlagTypes /\ TimerType /\ HolderRuns /\ NestingCounts /\ MaskCounted

-----------------------------------------------------------------------------

LEMMA InsideFinite ==
  /\ IsFiniteSet(Inside)
  /\ Cardinality(Inside) \in 0..Cardinality(Tasks)
  /\ Cardinality(Inside) = 0 <=> Inside = {}
<1>1. IsFiniteSet(Tasks) /\ Inside \in SUBSET Tasks
  BY TasksAssumption DEF Inside
<1>2. IsFiniteSet(Inside) /\ Cardinality(Inside) <= Cardinality(Tasks)
  BY <1>1, FS_Subset
<1>3. Cardinality(Tasks) \in Nat /\ Cardinality(Inside) \in Nat
  BY <1>1, <1>2, FS_CardinalityType
<1>4. Cardinality(Inside) = 0 <=> Inside = {}
  BY <1>2, FS_EmptySet
<1>5. QED
  BY <1>2, <1>3, <1>4

LEMMA InitInv == Init => Inv
<1> SUFFICES ASSUME Init PROVE Inv
  OBVIOUS
<1>1. PlaceTypes
  BY DEF Init, PlaceTypes, Places
<1>2. FlagTypes
  BY DEF Init, FlagTypes
<1>3. TimerType
  BY TimerAssumption DEF Init, TimerType
<1>4. HolderRuns
  BY DEF Init, HolderRuns, Holding
<1>5. Inside = {}
  BY DEF Init, Inside, Nested
<1>6. NestingCounts
  BY <1>5, FS_EmptySet DEF Init, NestingCounts
<1>7. MaskCounted
  BY DEF Init, MaskCounted
<1>8. QED
  BY <1>1, <1>2, <1>3, <1>4, <1>6, <1>7 DEF Inv

-----------------------------------------------------------------------------
(* What a step of a task does to the set of those that count. *)

LEMMA InsideSame ==
  ASSUME PlaceTypes, NEW t \in Tasks, NEW from, NEW to, Go(t, from, to),
         from \in Nested <=> to \in Nested
  PROVE  Inside' = Inside
BY DEF PlaceTypes, Go, Inside

LEMMA InsideMore ==
  ASSUME PlaceTypes, NEW t \in Tasks, Go(t, "entered", "locked")
  PROVE  t \notin Inside /\ Inside' = Inside \cup {t}
BY DEF PlaceTypes, Go, Inside, Nested

LEMMA InsideLess ==
  ASSUME PlaceTypes, NEW t \in Tasks, Go(t, "exited", "run")
  PROVE  t \in Inside /\ Inside' = Inside \ {t}
BY DEF PlaceTypes, Go, Inside, Nested

LEMMA GoTypes ==
  ASSUME PlaceTypes, TimerType, NEW t \in Tasks, NEW from, NEW to \in Places, Go(t, from, to)
  PROVE  PlaceTypes' /\ TimerType'
BY DEF PlaceTypes, TimerType, Go, scheduler, timer

-----------------------------------------------------------------------------
(* One lemma for each action. *)

LEMMA QuietStep ==
  ASSUME Inv, NEW t \in Tasks, Access(t) \/ Select(t) \/ Deselect(t)
  PROVE  Inv'
<1>1. PICK from \in Places, to \in Places :
        /\ Go(t, from, to)
        /\ from \in Nested <=> to \in Nested
        /\ from \in Holding <=> to \in Holding
  BY DEF Access, Select, Deselect, Places, Nested, Holding
<1>2. UNCHANGED critical
  BY DEF Access, Select, Deselect
<1>3. PlaceTypes' /\ TimerType'
  BY <1>1, GoTypes DEF Inv
<1>4. FlagTypes'
  BY <1>1, <1>2 DEF Inv, FlagTypes, Go, critical, scheduler, timer
<1>5. HolderRuns'
  BY <1>1, <1>2 DEF Inv, HolderRuns, PlaceTypes, Go, critical, scheduler
<1>6. NestingCounts' /\ MaskCounted'
  BY <1>1, <1>2, InsideSame DEF Inv, NestingCounts, MaskCounted, critical
<1>7. QED
  BY <1>3, <1>4, <1>5, <1>6 DEF Inv

LEMMA LockStep == ASSUME Inv, NEW t \in Tasks, Lock(t) PROVE Inv'
<1>1. CASE Go(t, "enter", IF spinLock THEN "enter" ELSE "entered") /\ critical_section_enter_blocking
  <2>1. running = t /\ at[t] = "enter"
    BY <1>1 DEF Go
  <2>2. ~spinLock
    BY <2>1 DEF Inv, HolderRuns, Holding
  <2>3. Go(t, "enter", "entered")
    BY <1>1, <2>2
  <2>4. PlaceTypes' /\ TimerType'
    BY <2>3, GoTypes DEF Inv, Places
  <2>5. FlagTypes'
    BY <1>1, <2>3 DEF Inv, FlagTypes, Go, critical_section_enter_blocking, scheduler, timer
  <2>6. HolderRuns'
    BY <1>1, <2>3, <2>2 DEF Inv, HolderRuns, PlaceTypes, Go, critical_section_enter_blocking, scheduler, Holding
  <2>7. NestingCounts'
    BY <1>1, <2>3, InsideSame DEF Inv, NestingCounts, critical_section_enter_blocking, Nested
  <2>8. MaskCounted'
    BY <1>1 DEF MaskCounted, critical_section_enter_blocking
  <2>9. QED
    BY <2>4, <2>5, <2>6, <2>7, <2>8 DEF Inv
<1>2. CASE Go(t, "entered", "locked") /\ vPortEnterCritical
  <2>1. PlaceTypes' /\ TimerType'
    BY <1>2, GoTypes DEF Inv, Places
  <2>2. FlagTypes'
    BY <1>2 DEF Inv, FlagTypes, Go, vPortEnterCritical, scheduler, timer
  <2>3. HolderRuns'
    BY <1>2 DEF Inv, HolderRuns, PlaceTypes, Go, vPortEnterCritical, scheduler, Holding
  <2>4. Cardinality(Inside') = Cardinality(Inside) + 1
    BY <1>2, InsideMore, InsideFinite, FS_AddElement DEF Inv
  <2>5. NestingCounts'
    BY <1>2, <2>4 DEF Inv, NestingCounts, vPortEnterCritical
  <2>6. uxCriticalNesting' # 0
    BY <1>2, InsideFinite DEF Inv, NestingCounts, vPortEnterCritical
  <2>7. QED
    BY <2>1, <2>2, <2>3, <2>5, <2>6 DEF Inv, MaskCounted
<1>3. QED
  BY <1>1, <1>2 DEF Lock

LEMMA UnlockStep == ASSUME Inv, NEW t \in Tasks, Unlock(t) PROVE Inv'
<1>1. CASE Go(t, "deselected", "exited") /\ critical_section_exit
  <2>1. PlaceTypes' /\ TimerType'
    BY <1>1, GoTypes DEF Inv, Places
  <2>2. FlagTypes'
    BY <1>1 DEF Inv, FlagTypes, Go, critical_section_exit, scheduler, timer
  <2>3. HolderRuns'
    BY <1>1 DEF Inv, HolderRuns, PlaceTypes, Go, critical_section_exit, scheduler, Holding
  <2>4. NestingCounts'
    BY <1>1, InsideSame DEF Inv, NestingCounts, critical_section_exit, Nested
  <2>5. t \in Inside
    BY <1>1 DEF Go, Inside, Nested
  <2>6. uxCriticalNesting # 0
    BY <2>5, InsideFinite DEF Inv, NestingCounts
  <2>7. MaskCounted'
    BY <1>1, <2>6 DEF MaskCounted, critical_section_exit
  <2>8. QED
    BY <2>1, <2>2, <2>3, <2>4, <2>7 DEF Inv
<1>2. CASE Go(t, "exited", "run") /\ vPortExitCritical
  <2>1. PlaceTypes' /\ TimerType'
    BY <1>2, GoTypes DEF Inv, Places
  <2>2. FlagTypes'
    BY <1>2 DEF Inv, FlagTypes, Go, vPortExitCritical, scheduler, timer
  <2>3. \A u \in Tasks : at[u] \notin Holding /\ at'[u] \notin Holding
    BY <1>2 DEF Inv, HolderRuns, PlaceTypes, Go, Holding
  <2>4. HolderRuns'
    BY <1>2, <2>3 DEF Inv, HolderRuns, vPortExitCritical
  <2>5. Cardinality(Inside') = Cardinality(Inside) - 1
    BY <1>2, InsideLess, InsideFinite, FS_RemoveElement DEF Inv
  <2>6. NestingCounts'
    BY <1>2, <2>5 DEF Inv, NestingCounts, vPortExitCritical
  <2>7. uxCriticalNesting = 1 \/ uxCriticalNesting' # 0
    BY <1>2, InsideFinite DEF Inv, NestingCounts, vPortExitCritical
  <2>8. MaskCounted'
    BY <1>2, <2>7 DEF MaskCounted, vPortExitCritical
  <2>9. QED
    BY <2>1, <2>2, <2>4, <2>6, <2>8 DEF Inv
<1>3. QED
  BY <1>1, <1>2 DEF Unlock

(* The kernel's calls and the interrupts move no task. *)
LEMMA KernelStep ==
  ASSUME Inv, (\E t \in Tasks : Block(t) \/ Wake(t)) \/ SwitchTask \/ Timer
  PROVE  Inv'
<1>1. at' = at /\ uxCriticalNesting' = uxCriticalNesting /\ spinLock' = spinLock
  BY DEF Block, Wake, SwitchTask, Timer, critical
<1>2. NestingCounts'
  BY <1>1 DEF Inv, NestingCounts, Inside
<1>3. PlaceTypes'
  BY DEF Inv, PlaceTypes, Block, Wake, SwitchTask, Timer, scheduler
<1>4. FlagTypes'
  <2> USE DEF FlagTypes, critical, scheduler, timer
  <2>1. ASSUME NEW t \in Tasks, Block(t) PROVE FlagTypes'
    BY <2>1 DEF Inv, Block
  <2>2. ASSUME NEW t \in Tasks, Wake(t) PROVE FlagTypes'
    BY <2>2 DEF Inv, Wake
  <2>3. CASE SwitchTask
    BY <2>3 DEF Inv, SwitchTask
  <2>4. CASE Timer
    BY <2>4 DEF Inv, Timer
  <2>5. QED
    BY <2>1, <2>2, <2>3, <2>4
<1>5. TimerType'
  <2>1. CASE Timer
    <3>1. g_msec_cnt' = IF g_msec_cnt + 1 >= Second THEN 0 ELSE g_msec_cnt + 1
      BY <2>1 DEF Timer, repeating_timer_callback
    <3>2. QED
      BY <3>1, TimerAssumption DEF Inv, TimerType
  <2>2. CASE ~Timer
    <3>1. g_msec_cnt' = g_msec_cnt
      BY <2>2 DEF Block, Wake, SwitchTask, timer
    <3>2. QED
      BY <3>1 DEF Inv, TimerType
  <2>3. QED
    BY <2>1, <2>2
<1>6. HolderRuns'
  BY <1>1 DEF Inv, HolderRuns, Holding, Block, Wake, SwitchTask, Timer, critical, scheduler
<1>7. MaskCounted'
  BY <1>1 DEF Inv, MaskCounted, Block, Wake, SwitchTask, Timer, critical
<1>8. QED
  BY <1>2, <1>3, <1>4, <1>5, <1>6, <1>7 DEF Inv

LEMMA SpecInv == Spec => []Inv
<1>1. ASSUME Inv, UNCHANGED vars PROVE Inv'
  BY <1>1 DEF Inv, PlaceTypes, FlagTypes, TimerType, HolderRuns, NestingCounts, MaskCounted,
     Inside, vars, scheduler, critical, timer
<1>2. Inv /\ [Next]_vars => Inv'
  BY <1>1, QuietStep, LockStep, UnlockStep, KernelStep DEF Next, ChipStep
<1>3. QED
  BY <1>2, InitInv, PTL DEF Spec

-----------------------------------------------------------------------------

(* Every variable keeps to its type, and the nesting of FreeRTOS's critical *)
(* sections never exceeds the number of tasks.                             *)
THEOREM TypesHold == Spec => []TypeOK
<1>1. Inv => TypeOK
  <2> SUFFICES ASSUME Inv PROVE TypeOK
    OBVIOUS
  <2>1. uxCriticalNesting \in 0..Cardinality(Tasks)
    BY InsideFinite DEF Inv, NestingCounts
  <2>2. QED
    BY <2>1 DEF Inv, PlaceTypes, Places, FlagTypes, TimerType, TypeOK
<1>2. QED
  BY <1>1, SpecInv, PTL

(* The two nested critical sections keep transfers apart, also with the     *)
(* order in which wizchip_critical_section_unlock leaves them.             *)
THEOREM TransferAloneHolds == Spec => []TransferAlone
<1>1. Inv => TransferAlone
  BY DEF Inv, HolderRuns, Holding, TransferAlone
<1>2. QED
  BY <1>1, SpecInv, PTL

(* wizchip_critical_section_lock always finds the spin lock free. *)
THEOREM NeverSpinsHolds == Spec => []NeverSpins
<1>1. Inv => NeverSpins
  BY DEF Inv, HolderRuns, Holding, NeverSpins
<1>2. QED
  BY <1>1, SpecInv, PTL

(* Interrupts stay off after an access only because another task was        *)
(* interrupted inside wizchip_critical_section_unlock.                     *)
THEOREM MaskedOnlyByUnlockHolds == Spec => []MaskedOnlyByUnlock
<1>1. Inv => MaskedOnlyByUnlock
  <2> SUFFICES ASSUME Inv, NEW t \in Tasks, running = t, at[t] = "run", primask
               PROVE  \E u \in Tasks \ {t} : at[u] = "exited"
    BY DEF MaskedOnlyByUnlock
  <2>1. \A u \in Tasks : at[u] \notin Holding
    BY DEF Inv, HolderRuns, Holding
  <2>2. uxCriticalNesting # 0
    BY <2>1 DEF Inv, HolderRuns, MaskCounted
  <2>3. Inside # {}
    BY <2>2, InsideFinite DEF Inv, NestingCounts
  <2>4. PICK u \in Tasks : at[u] \in Nested
    BY <2>3 DEF Inside
  <2>5. at[u] = "exited" /\ u # t
    BY <2>1, <2>4 DEF Nested, Holding
  <2>6. QED
    BY <2>5
<1>2. QED
  BY <1>1, SpecInv, PTL
=============================================================================
