----------------------------- MODULE MCVentSystem -----------------------------
(* An instance of VentSystem for TLC: one socket, used by one client after  *)
(* the other.                                                              *)
EXTENDS VentSystem

OneSocket == {2}
=============================================================================
