------------------------------- MODULE Network -------------------------------
(***************************************************************************)
(* main and dhcp_task (firmware/src/main.c) and the outer loop of server_task *)
(* (firmware/src/server.c): how the TCP server is started when the network *)
(* has an address and stopped when the link is lost.  The tasks share the  *)
(* counting semaphore ip_assigned_sem and the plain flag server_run.       *)
(*                                                                         *)
(* The PHY and DHCP_run of the WIZnet library are external: the link may   *)
(* change at any time and DHCP_run may return anything it returns.  The    *)
(* server may run between any two steps of dhcp_task, which is more than   *)
(* the priorities of the tasks allow.                                      *)
(*                                                                         *)
(* A definition named D_Xyz is D with a plausible bug, for the runs that   *)
(* check that a property would notice it; the specification uses none.     *)
(***************************************************************************)
EXTENDS Naturals

CONSTANTS
  DHCP_RETRY_COUNT,
  MaxTokens           \* what ip_assigned_sem can count to, 0x7fffffff

ASSUME RetryAssumption == DHCP_RETRY_COUNT \in Nat
ASSUME MaxTokensAssumption == MaxTokens \in Nat \ {0}

VARIABLES
  link,                \* external: the PHY has a link
  dhcpPc,              \* main: chip, phy, version; dhcp_task: poll, linkOff, run, give; halted
  retval,              \* what DHCP_run returned last
  g_dhcp_get_ip_flag,  \* the lease has been acted on
  dhcp_retry,
  server_run,
  ip_assigned_sem,
  serverPc,            \* wait (for the semaphore), check (the flag), pass (serve once), stopping
  failures             \* history: failures since the last lease or loss of the link

dhcpVars == <<dhcpPc, retval, g_dhcp_get_ip_flag, dhcp_retry, failures>>
shared == <<server_run, ip_assigned_sem>>
vars == <<link, dhcpVars, shared, serverPc>>

Results == {"DHCP_IP_LEASED", "DHCP_FAILED", "other"}

Init ==
  /\ link \in BOOLEAN
  /\ dhcpPc = "chip"
  /\ retval = "other"
  /\ g_dhcp_get_ip_flag = FALSE
  /\ dhcp_retry = 0
  /\ server_run = FALSE
  /\ ip_assigned_sem = 0
  /\ serverPc = "wait"
  /\ failures = 0

-----------------------------------------------------------------------------
(* main, up to vTaskStartScheduler: no task runs before its end.  Nothing   *)
(* gives ip_assigned_sem until then, so the server waits as it will later.  *)

Booting == {"chip", "phy", "version"}

Boot(from, to) ==
  /\ dhcpPc = from
  /\ dhcpPc' = to
  /\ UNCHANGED <<link, retval, g_dhcp_get_ip_flag, dhcp_retry, failures, shared, serverPc>>

(* wizchip_initialize, which goes on to wait for the PHY unless it fails; a *)
(* failure is not told to main.                                            *)
ChipInit == \E next \in {"phy", "version"} : Boot("chip", next)

(* The loop on PHY_LINK_OFF; it is also left when the status is unknown. *)
PhyReady_Inverted == ~link

PhyReady == link

WaitPhy == PhyReady /\ Boot("phy", "version")

PhyUnknown == Boot("phy", "version")

(* wizchip_check, which does not return for a wrong version *)
CheckVersion == \E next \in {"poll", "halted"} : Boot("version", next)

-----------------------------------------------------------------------------
(* dhcp_task *)

PollLink ==
  /\ dhcpPc = "poll"
  /\ IF link
     THEN dhcpPc' = "run" /\ UNCHANGED server_run
     ELSE dhcpPc' = "linkOff" /\ server_run' = FALSE
  /\ UNCHANGED <<link, retval, g_dhcp_get_ip_flag, dhcp_retry, ip_assigned_sem, serverPc, failures>>

(* wizchip_dhcp_init *)
DhcpInit_KeepsFlag == UNCHANGED g_dhcp_get_ip_flag

DhcpInit == g_dhcp_get_ip_flag' = FALSE

(* The inner loop sees the link again. *)
LinkBack ==
  /\ dhcpPc = "linkOff"
  /\ link
  /\ DhcpInit
  /\ dhcp_retry' = 0
  /\ failures' = 0
  /\ dhcpPc' = "run"
  /\ UNCHANGED <<link, retval, shared, serverPc>>

(* DHCP_run returned DHCP_IP_LEASED for the first time since it had no lease. *)
ClearRetries_Never == UNCHANGED dhcp_retry

ClearRetries == dhcp_retry' = 0

NewLease ==
  /\ retval' = "DHCP_IP_LEASED"
  /\ ~g_dhcp_get_ip_flag
  /\ g_dhcp_get_ip_flag' = TRUE
  /\ ClearRetries
  /\ server_run' = TRUE
  /\ failures' = 0
  /\ dhcpPc' = "give"

OldLease ==
  /\ retval' = "DHCP_IP_LEASED"
  /\ g_dhcp_get_ip_flag
  /\ failures' = 0
  /\ dhcpPc' = "poll"
  /\ UNCHANGED <<g_dhcp_get_ip_flag, dhcp_retry, server_run>>

(* After too many failures the task calls DHCP_stop and sleeps for ever. *)
GiveUp_ChecksFirst == dhcp_retry > DHCP_RETRY_COUNT

GiveUp == dhcp_retry' > DHCP_RETRY_COUNT

Failure ==
  /\ retval' = "DHCP_FAILED"
  /\ g_dhcp_get_ip_flag' = FALSE
  /\ dhcp_retry' = dhcp_retry + 1
  /\ failures' = failures + 1
  /\ dhcpPc' = IF GiveUp THEN "halted" ELSE "poll"
  /\ UNCHANGED server_run

StillRunning ==
  /\ retval' = "other"
  /\ dhcpPc' = "poll"
  /\ UNCHANGED <<g_dhcp_get_ip_flag, dhcp_retry, server_run, failures>>

(* DHCP_run called wizchip_dhcp_conflict, which does not return. *)
Conflict ==
  /\ dhcpPc' = "halted"
  /\ UNCHANGED <<retval, g_dhcp_get_ip_flag, dhcp_retry, server_run, failures>>

RunDhcp ==
  /\ dhcpPc = "run"
  /\ NewLease \/ OldLease \/ Failure \/ StillRunning \/ Conflict
  /\ UNCHANGED <<link, ip_assigned_sem, serverPc>>

GiveToken ==
  /\ dhcpPc = "give"
  /\ ip_assigned_sem' = IF ip_assigned_sem < MaxTokens THEN ip_assigned_sem + 1 ELSE ip_assigned_sem
  /\ dhcpPc' = "poll"
  /\ UNCHANGED <<link, retval, g_dhcp_get_ip_flag, dhcp_retry, server_run, serverPc, failures>>

Dhcp == ChipInit \/ WaitPhy \/ CheckVersion \/ PollLink \/ LinkBack \/ RunDhcp \/ GiveToken

-----------------------------------------------------------------------------
(* server_task, around its serving loop *)

(* xSemaphoreTake(ip_assigned_sem), and the sockets are initialised. *)
TakeToken_Peeks == UNCHANGED ip_assigned_sem

TakeToken == ip_assigned_sem' = ip_assigned_sem - 1

ServerStart ==
  /\ serverPc = "wait"
  /\ ip_assigned_sem > 0
  /\ TakeToken
  /\ serverPc' = "check"
  /\ UNCHANGED <<link, dhcpVars, server_run>>

(* while (server_data->server_run) *)
ServerServe ==
  /\ serverPc = "check"
  /\ server_run
  /\ serverPc' = "pass"
  /\ UNCHANGED <<link, dhcpVars, shared>>

ServerLeave ==
  /\ serverPc = "check"
  /\ ~server_run
  /\ serverPc' = "stopping"
  /\ UNCHANGED <<link, dhcpVars, shared>>

ServerStop_DropsTokens ==
  /\ serverPc = "stopping"
  /\ ip_assigned_sem' = 0
  /\ serverPc' = "wait"
  /\ UNCHANGED <<link, dhcpVars, server_run>>

(* Back at the top of the loop; the sockets are left as they are. *)
ServerStop ==
  /\ serverPc = "stopping"
  /\ serverPc' = "wait"
  /\ UNCHANGED <<link, dhcpVars, shared>>

(* One pass over the sockets; its blocking calls all have a timeout. *)
ServerPass ==
  /\ serverPc = "pass"
  /\ serverPc' = "check"
  /\ UNCHANGED <<link, dhcpVars, shared>>

Server == ServerStart \/ ServerServe \/ ServerLeave \/ ServerStop \/ ServerPass

(* The cable is plugged in or pulled out. *)
LinkChange ==
  /\ link' = ~link
  /\ UNCHANGED <<dhcpVars, shared, serverPc>>

Next == Dhcp \/ PhyUnknown \/ Server \/ LinkChange

(* Both tasks wait in the kernel only with a timeout, or on the semaphore. *)
Fairness == WF_vars(Dhcp) /\ WF_vars(Server)

Spec == Init /\ [][Next]_vars /\ Fairness
-----------------------------------------------------------------------------
(* Properties *)

TypeOK ==
  /\ link \in BOOLEAN
  /\ dhcpPc \in Booting \cup {"poll", "linkOff", "run", "give", "halted"}
  /\ retval \in Results
  /\ g_dhcp_get_ip_flag \in BOOLEAN
  /\ dhcp_retry \in 0..DHCP_RETRY_COUNT + 1
  /\ server_run \in BOOLEAN
  /\ ip_assigned_sem \in 0..MaxTokens
  /\ serverPc \in {"wait", "check", "pass", "stopping"}
  /\ failures \in 0..DHCP_RETRY_COUNT + 1

(* No start is lost: a server that waits, or is on its way out, although    *)
(* it is to run has a token to take or is about to get one.  server_run is  *)
(* raised before the token is given, and the server may just be leaving     *)
(* its loop because of an earlier loss of the link.                        *)
NoLostStart ==
  serverPc \in {"wait", "stopping"} /\ server_run => ip_assigned_sem > 0 \/ dhcpPc = "give"

(* The task gives up for good only after more than DHCP_RETRY_COUNT         *)
(* failures in a row, with no lease and no loss of the link among them.    *)
GivesUpLate ==
  dhcpPc = "halted" /\ dhcp_retry > DHCP_RETRY_COUNT => failures > DHCP_RETRY_COUNT

(* A link that stays gets main past its wait for it, and dhcp_task to run   *)
(* DHCP again and again, unless one of them halts.                         *)
LinkGetsDhcp == <>[]link => <>(dhcpPc = "halted") \/ []<>(dhcpPc = "run")

(* The server ends up as server_run says, also if tokens of earlier leases  *)
(* are left and start it a few times in vain, and also when dhcp_task has   *)
(* given up and never looks at the link again: a server that ran by then    *)
(* goes on, one that did not stays off.                                    *)
ServerFollowsFlag ==
  /\ <>[]~server_run => <>[](serverPc = "wait")
  /\ <>[]server_run => <>[](serverPc \in {"check", "pass"})

(* A link that stays and a DHCP server that grants a lease get the TCP      *)
(* server running, unless main or dhcp_task have halted before.            *)
LeaseIsServed ==
  <>[]link /\ <>[](retval = "DHCP_IP_LEASED") =>
    <>(dhcpPc = "halted") \/ <>[](server_run /\ serverPc # "wait")
=============================================================================
