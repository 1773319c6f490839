---------------------------- MODULE MCSimulator -----------------------------
(* Simulator and Lifecycle for TLC. *)
EXTENDS Simulator

MCSends == 1..MaxSends
=============================================================================
