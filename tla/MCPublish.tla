----------------------------- MODULE MCPublish ------------------------------
(* Constants of the model-checking runs of Publish. *)
EXTENDS Publish, TLC

Symmetry == Permutations(Sends) \cup Permutations(Ids)
=============================================================================
