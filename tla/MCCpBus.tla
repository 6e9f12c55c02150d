------------------------------- MODULE MCCpBus -------------------------------
(* Instances of CpBus for TLC; the configurations give the constants. *)
EXTENDS CpBus
=============================================================================
