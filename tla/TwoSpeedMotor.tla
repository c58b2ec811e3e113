---------------------------- MODULE TwoSpeedMotor ----------------------------
(***************************************************************************)
(* What the relay sequence of ventcontrol_task promises the fan motor: at  *)
(* most one winding is powered, and a winding is only powered after every  *)
(* winding has been unpowered for DeadTime ticks.                          *)
(***************************************************************************)
EXTENDS Naturals

CONSTANTS Windings, DeadTime

VARIABLES
  powered,  \* the set of powered windings
  quiet     \* ticks since the last winding was unpowered, up to DeadTime

Init == powered = {} /\ quiet = 0

Power(w) ==
  /\ powered = {}
  /\ quiet = DeadTime
  /\ powered' = {w}
  /\ quiet' = 0

Release ==
  /\ powered # {}
  /\ powered' = {}
  /\ quiet' = 0

Elapse ==
  /\ powered = {}
  /\ quiet < DeadTime
  /\ quiet' = quiet + 1
  /\ UNCHANGED powered

Next == Release \/ Elapse \/ \E w \in Windings : Power(w)

Spec == Init /\ [][Next]_<<powered, quiet>>
=============================================================================
