------------------------------ MODULE MCServer ------------------------------
(* Constants of the model-checking runs of Server. *)
EXTENDS Server
=============================================================================
