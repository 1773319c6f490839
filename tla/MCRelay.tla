------------------------------ MODULE MCRelay ------------------------------
(* Constants of the model-checking runs of Relay. *)
EXTENDS Relay
=============================================================================
