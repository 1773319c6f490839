------------------------------ MODULE MCReader ------------------------------
(* Constants of the model-checking run of Reader. *)
EXTENDS Reader

\* Doubling until capped, a jitter of 0, and a first delay above the maximum.
MCRecons == {[min |-> 6, max |-> 20], [min |-> 1, max |-> 3], [min |-> 9, max |-> 4]}
=============================================================================
