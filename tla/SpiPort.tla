------------------------------- MODULE SpiPort -------------------------------
(***************************************************************************)
(* Access to the WIZnet chip (firmware/port/ioLibrary_Driver/src/          *)
(* w5x00_spi.c).  dhcp_task and server_task share the chip; the WIZnet     *)
(* library calls wizchip_critical_section_lock before every access and     *)
(* wizchip_critical_section_unlock after it.  Each of them uses two        *)
(* critical sections, that of the Pico SDK and that of FreeRTOS, and both  *)
(* of those work on the interrupt mask of the core.                        *)
(*                                                                         *)
(* External are the SDK's critical section (a spin lock that also keeps    *)
(* the mask from before), the ARM_CM0 port of FreeRTOS that                *)
(* libraries/CMakeLists.txt builds (one uxCriticalNesting for all tasks,   *)
(* interrupts on again when it gets to 0) and its scheduler.               *)
(*                                                                         *)
(* Interrupts are the only source of concurrency on the one core: a tick   *)
(* may wake a task at any moment at which they are on, and a switch that   *)
(* is pending then comes before the next instruction of a task.            *)
(*                                                                         *)
(* A definition named D_Xyz is D with a plausible bug, for the runs that   *)
(* check that a property would notice it; the specification uses none.     *)
(***************************************************************************)
EXTENDS Integers, FiniteSets

CONSTANTS
  Tasks,    \* the tasks that use the chip, each named by its priority
  Second,   \* 1000 - 1, at which the 1 ms timer calls DHCP_time_handler
  MayStop   \* the value the timer callback fails to return may be taken for FALSE

Idle == 0   \* whatever runs when none of the tasks is ready

ASSUME TasksAssumption == Tasks \subseteq Nat \ {Idle} /\ IsFiniteSet(Tasks)
ASSUME TimerAssumption == Second \in Nat \ {0} /\ MayStop \in BOOLEAN

VARIABLES
  at,                 \* per task: "run" away from the chip, "enter" .. "exited" in an access
  running,            \* the task that has the core
  ready,
  switchPending,      \* external: PendSV is pending
  primask,            \* external: interrupts are off
  uxCriticalNesting,  \* external, of the FreeRTOS port
  spinLock, save,     \* g_wizchip_cri_sec: its lock, and the mask from before
  g_msec_cnt,
  armed               \* external: the SDK calls the timer again

scheduler == <<running, ready, switchPending>>
critical == <<primask, uxCriticalNesting, spinLock, save>>
timer == <<g_msec_cnt, armed>>
vars == <<at, scheduler, critical, timer>>

(* The scheduler has just been started; the timer has been before. *)
Init ==
  /\ at = [t \in Tasks |-> "run"]
  /\ running = Idle
  /\ ready = Tasks
  /\ switchPending = TRUE
  /\ primask = FALSE
  /\ uxCriticalNesting = 0
  /\ spinLock = FALSE
  /\ save = FALSE
  /\ g_msec_cnt \in 0..Second - 1
  /\ armed = TRUE

-----------------------------------------------------------------------------
(* The two critical sections *)

(* With the lock taken it turns interrupts off and spins. *)
critical_section_enter_blocking ==
  /\ spinLock' = TRUE
  /\ save' = IF spinLock THEN save ELSE primask
  /\ primask' = TRUE
  /\ UNCHANGED uxCriticalNesting

critical_section_exit ==
  /\ spinLock' = FALSE
  /\ primask' = save
  /\ UNCHANGED <<uxCriticalNesting, save>>

vPortEnterCritical ==
  /\ primask' = TRUE
  /\ uxCriticalNesting' = uxCriticalNesting + 1
  /\ UNCHANGED <<spinLock, save>>

vPortExitCritical ==
  /\ uxCriticalNesting' = uxCriticalNesting - 1
  /\ primask' = IF uxCriticalNesting = 1 THEN FALSE ELSE primask
  /\ UNCHANGED <<spinLock, save>>

-----------------------------------------------------------------------------
(* A task *)

(* The instruction of a running task that takes it from one place to the next. *)
Go(t, from, to) ==
  /\ running = t
  /\ ~switchPending \/ primask
  /\ at[t] = from
  /\ at' = [at EXCEPT ![t] = to]
  /\ UNCHANGED <<scheduler, timer>>

(* A function of the WIZnet library that accesses the chip. *)
Access(t) == Go(t, "run", "enter") /\ UNCHANGED critical

(* wizchip_critical_section_lock *)
Lock_Unregistered(t) ==
  (Go(t, "enter", "entered") \/ Go(t, "entered", "locked")) /\ UNCHANGED critical

Lock(t) ==
  \/ Go(t, "enter", IF spinLock THEN "enter" ELSE "entered") /\ critical_section_enter_blocking
  \/ Go(t, "entered", "locked") /\ vPortEnterCritical

(* wizchip_select, and the transfer up to wizchip_deselect *)
Select(t) == Go(t, "locked", "selected") /\ UNCHANGED critical

Deselect(t) == Go(t, "selected", "deselected") /\ UNCHANGED critical

(* wizchip_critical_section_unlock *)
Unlock_PortFirst(t) ==
  \/ Go(t, "deselected", "exited") /\ vPortExitCritical
  \/ Go(t, "exited", "run") /\ critical_section_exit

Unlock_OnlyPort(t) ==
  \/ Go(t, "deselected", "exited") /\ UNCHANGED critical
  \/ Go(t, "exited", "run") /\ vPortExitCritical

Unlock_OnlySection(t) ==
  \/ Go(t, "deselected", "exited") /\ critical_section_exit
  \/ Go(t, "exited", "run") /\ UNCHANGED critical

Unlock(t) ==
  \/ Go(t, "deselected", "exited") /\ critical_section_exit
  \/ Go(t, "exited", "run") /\ vPortExitCritical

ChipStep(t) == Access(t) \/ Lock(t) \/ Select(t) \/ Deselect(t) \/ Unlock(t)

(* vTaskDelay, or xQueueReceive and xQueueSend that have to wait: the kernel *)
(* puts the task away in a critical section of its own and asks for a      *)
(* switch.  If interrupts are still off the call just returns.             *)
Block(t) ==
  /\ running = t
  /\ ~switchPending \/ primask
  /\ at[t] = "run"
  /\ ready' = ready \ {t}
  /\ switchPending' = TRUE
  /\ primask' = (uxCriticalNesting # 0)
  /\ UNCHANGED <<at, running, uxCriticalNesting, spinLock, save, timer>>

-----------------------------------------------------------------------------
(* The interrupts *)

(* PendSV: the highest of the ready tasks gets the core. *)
SwitchTask ==
  /\ switchPending
  /\ ~primask
  /\ switchPending' = FALSE
  /\ running' \in ready \cup {Idle}
  /\ \A t \in ready : t <= running'
  /\ UNCHANGED <<at, ready, critical, timer>>

(* A delay ends, a queue has an item: the task is woken and goes before     *)
(* those of lower priority.  While a switch is pending that adds nothing:   *)
(* waking right after the switch leads to the same task.                   *)
Wake(t) ==
  /\ ~primask
  /\ ~switchPending
  /\ t \notin ready
  /\ ready' = ready \cup {t}
  /\ switchPending' = (t > running)
  /\ UNCHANGED <<at, running, critical, timer>>

repeating_timer_callback ==
  g_msec_cnt' = IF g_msec_cnt + 1 >= Second THEN 0 ELSE g_msec_cnt + 1

(* wizchip_1ms_timer_callback has no return statement: the SDK stops a      *)
(* timer for FALSE.                                                        *)
Timer ==
  /\ ~primask
  /\ armed
  /\ armed' \in IF MayStop THEN BOOLEAN ELSE {TRUE}
  /\ repeating_timer_callback
  /\ UNCHANGED <<at, scheduler, critical>>

Next ==
  \/ \E t \in Tasks : ChipStep(t) \/ Block(t) \/ Wake(t)
  \/ SwitchTask
  \/ Timer

(* A task is not kept off the core for ever by those above it, which block  *)
(* in every pass of their loops; an interrupt is pending until it comes.   *)
Fairness ==
  /\ WF_vars(SwitchTask)
  /\ SF_vars(Timer)
  /\ \A t \in Tasks : SF_vars(Wake(t)) /\ SF_vars(ChipStep(t)) /\ SF_vars(Block(t))

Spec == Init /\ [][Next]_vars /\ Fairness
-----------------------------------------------------------------------------
(* Properties *)

TypeOK ==
  /\ at \in [Tasks -> {"run", "enter", "entered", "locked", "selected", "deselected", "exited"}]
  /\ running \in Tasks \cup {Idle}
  /\ ready \subseteq Tasks
  /\ switchPending \in BOOLEAN
  /\ primask \in BOOLEAN
  /\ uxCriticalNesting \in 0..Cardinality(Tasks)
  /\ spinLock \in BOOLEAN
  /\ save \in BOOLEAN
  /\ g_msec_cnt \in 0..Second - 1
  /\ armed \in BOOLEAN

(* The chip is selected for one task at a time, and none loses the core in  *)
(* the middle of a transfer.                                               *)
TransferAlone ==
  \A t \in Tasks : at[t] = "selected" =>
    running = t /\ \A u \in Tasks \ {t} : at[u] # "selected"

(* A task never finds the spin lock taken: on one core it would spin with   *)
(* interrupts off, and the task that holds it could never release it.      *)
NeverSpins == \A t \in Tasks : at[t] = "enter" /\ running = t => ~spinLock

(* Whoever wants to use the chip gets through with the access and back to   *)
(* its own work, as long as interrupts are not lost: then the core stays   *)
(* with the task it has, away from the chip, and an access of another one  *)
(* that was interrupted between the two calls of                           *)
(* wizchip_critical_section_unlock never ends.                             *)
InterruptsLost == primask /\ \E t \in Tasks : running = t /\ at[t] = "run"

AccessEnds == \A t \in Tasks : at[t] = "enter" ~> at[t] = "run" \/ InterruptsLost

(* Away from the chip a task runs with interrupts off only if another was   *)
(* interrupted between the two calls of wizchip_critical_section_unlock:    *)
(* that is the one way to lose them.                                       *)
MaskedOnlyByUnlock ==
  \A t \in Tasks : running = t /\ at[t] = "run" /\ primask =>
    \E u \in Tasks \ {t} : at[u] = "exited"

(* "Add a repeating timer that is called repeatedly at the specified        *)
(* interval in microseconds" (timer.h:27).                                 *)
TimerRepeats == []<><<Timer>>_vars
=============================================================================
