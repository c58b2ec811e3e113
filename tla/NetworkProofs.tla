---------------------------- MODULE NetworkProofs ----------------------------
(***************************************************************************)
(* Proofs about Network for every retry count and every semaphore limit.   *)
(***************************************************************************)
EXTENDS Network, TLAPS

(* The retry counter is the number of failures in a row, and below the      *)
(* limit for as long as the task runs; a lease that was acted on has        *)
(* cleared it.                                                             *)
Counting ==
  /\ dhcp_retry = failures
  /\ g_dhcp_get_ip_flag => dhcp_retry = 0
  /\ dhcpPc # "halted" => dhcp_retry <= DHCP_RETRY_COUNT

Inv == TypeOK /\ Counting /\ NoLostStart

(* TypeOK in two parts: the provers treat flags and numbers differently. *)
FlagTypes == link \in BOOLEAN /\ g_dhcp_get_ip_flag \in BOOLEAN /\ server_run \in BOOLEAN

OtherTypes ==
  /\ dhcpPc \in Booting \cup {"poll", "linkOff", "run", "give", "halted"}
  /\ retval \in Results
  /\ dhcp_retry \in 0..DHCP_RETRY_COUNT + 1
  /\ ip_assigned_sem \in 0..MaxTokens
  /\ serverPc \in {"wait", "check", "pass", "stopping"}
  /\ failures \in 0..DHCP_RETRY_COUNT + 1

LEMMA TypeParts == TypeOK <=> FlagTypes /\ OtherTypes
BY DEF TypeOK, FlagTypes, OtherTypes

LEMMA InitInv == Init => Inv
<1> SUFFICES ASSUME Init PROVE Inv
  OBVIOUS
<1>1. FlagTypes
  BY DEF Init, FlagTypes
<1>2. OtherTypes
  BY RetryAssumption, MaxTokensAssumption DEF Init, OtherTypes, Results, Booting
<1>3. Counting
  BY RetryAssumption DEF Init, Counting
<1>4. NoLostStart
  BY DEF Init, NoLostStart
<1>5. QED
  BY <1>1, <1>2, <1>3, <1>4, TypeParts DEF Inv

LEMMA FlagTypesStep == ASSUME FlagTypes, Next PROVE FlagTypes'
<1> USE DEF FlagTypes, dhcpVars, shared
<1>1. CASE RunDhcp
  BY <1>1 DEF RunDhcp, NewLease, OldLease, Failure, StillRunning, Conflict
<1>2. CASE PollLink \/ LinkBack \/ GiveToken
  BY <1>2 DEF PollLink, LinkBack, DhcpInit, GiveToken
<1>3. CASE Server \/ LinkChange
  BY <1>3 DEF Server, ServerStart, ServerServe, ServerLeave, ServerStop, ServerPass, LinkChange
<1>4. CASE ChipInit \/ WaitPhy \/ CheckVersion \/ PhyUnknown
  BY <1>4 DEF ChipInit, WaitPhy, CheckVersion, PhyUnknown, Boot
<1>5. QED
  BY <1>1, <1>2, <1>3, <1>4 DEF Next, Dhcp

(* DHCP_run and what dhcp_task makes of its result. *)
LEMMA RunDhcpStep ==
  ASSUME OtherTypes, Counting, NoLostStart, RunDhcp
  PROVE  OtherTypes' /\ Counting' /\ NoLostStart'
<1> USE RetryAssumption, MaxTokensAssumption
<1> USE DEF shared, RunDhcp, OtherTypes, Counting, NoLostStart, Results
<1>1. CASE NewLease
  BY <1>1 DEF NewLease, ClearRetries
<1>2. CASE OldLease
  BY <1>2 DEF OldLease
<1>3. CASE Failure
  <2>1. g_dhcp_get_ip_flag' = FALSE
    BY <1>3 DEF Failure, GiveUp
  <2>2. OtherTypes'
    BY <1>3 DEF Failure, GiveUp
  <2>3. dhcp_retry' = failures' /\ (dhcpPc' # "halted" => dhcp_retry' <= DHCP_RETRY_COUNT)
    BY <1>3 DEF Failure, GiveUp
  <2>4. NoLostStart'
    BY <1>3 DEF Failure, GiveUp
  <2> HIDE DEF OtherTypes, NoLostStart
  <2>5. QED
    BY <2>1, <2>2, <2>3, <2>4
<1>4. CASE StillRunning
  BY <1>4 DEF StillRunning
<1>5. CASE Conflict
  BY <1>5 DEF Conflict
<1>6. QED
  BY <1>1, <1>2, <1>3, <1>4, <1>5 DEF RunDhcp

LEMMA OtherStep ==
  ASSUME OtherTypes, Counting, NoLostStart, Next
  PROVE  OtherTypes' /\ Counting' /\ NoLostStart'
<1> USE RetryAssumption, MaxTokensAssumption
<1> USE DEF shared, dhcpVars, OtherTypes, Counting, NoLostStart
<1>1. CASE PollLink
  BY <1>1 DEF PollLink
<1>2. CASE LinkBack
  <2>1. g_dhcp_get_ip_flag' = FALSE
    BY <1>2 DEF LinkBack, DhcpInit
  <2>2. OtherTypes'
    BY <1>2 DEF LinkBack, DhcpInit
  <2>3. dhcp_retry' = failures' /\ dhcp_retry' <= DHCP_RETRY_COUNT
    BY <1>2 DEF LinkBack, DhcpInit
  <2>4. NoLostStart'
    BY <1>2 DEF LinkBack, DhcpInit
  <2> HIDE DEF OtherTypes, NoLostStart
  <2>5. QED
    BY <2>1, <2>2, <2>3, <2>4
<1>3. CASE RunDhcp
  BY <1>3, RunDhcpStep
<1>4. CASE GiveToken
  BY <1>4 DEF GiveToken
<1>5. CASE ServerStart
  BY <1>5 DEF ServerStart, TakeToken
<1>6. CASE ServerServe \/ ServerLeave \/ ServerStop \/ ServerPass
  BY <1>6 DEF ServerServe, ServerLeave, ServerStop, ServerPass
<1>7. CASE LinkChange
  BY <1>7 DEF LinkChange
<1>8. CASE ChipInit \/ WaitPhy \/ CheckVersion \/ PhyUnknown
  BY <1>8 DEF ChipInit, WaitPhy, CheckVersion, PhyUnknown, Boot, Booting
<1>9. QED
  BY <1>1, <1>2, <1>3, <1>4, <1>5, <1>6, <1>7, <1>8 DEF Next, Dhcp, Server

LEMMA NextInv == ASSUME Inv, Next PROVE Inv'
<1>1. TypeOK' <=> FlagTypes' /\ OtherTypes'
  BY DEF TypeOK, FlagTypes, OtherTypes
<1>2. QED
  BY <1>1, TypeParts, FlagTypesStep, OtherStep DEF Inv

LEMMA SpecInv == Spec => []Inv
<1>1. ASSUME Inv, UNCHANGED vars PROVE Inv'
  BY <1>1 DEF Inv, TypeOK, Counting, NoLostStart, vars, dhcpVars, shared
<1>2. Inv /\ [Next]_vars => Inv'
  BY <1>1, NextInv
<1>3. QED
  BY <1>2, InitInv, PTL DEF Spec

(* Every variable of the start-up keeps to its type; the retry counter and  *)
(* the semaphore keep to their limits.                                     *)
THEOREM TypesHold == Spec => []TypeOK
<1>1. Inv => TypeOK
  BY DEF Inv
<1>2. QED
  BY <1>1, SpecInv, PTL

(* The server never waits for a token that was lost while it is to run,     *)
(* however losses of the link, leases and its own way out interleave.      *)
THEOREM NoLostStartHolds == Spec => []NoLostStart
<1>1. Inv => NoLostStart
  BY DEF Inv
<1>2. QED
  BY <1>1, SpecInv, PTL

(* dhcp_task only gives up after more than DHCP_RETRY_COUNT failures in a   *)
(* row.                                                                    *)
THEOREM GivesUpLateHolds == Spec => []GivesUpLate
<1>1. Inv => GivesUpLate
  BY DEF Inv, Counting, GivesUpLate
<1>2. QED
  BY <1>1, SpecInv, PTL
=============================================================================
