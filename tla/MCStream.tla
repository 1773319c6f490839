------------------------------ MODULE MCStream ------------------------------
(* Model-checking runs of Stream. *)
EXTENDS Stream, TLC
=============================================================================
