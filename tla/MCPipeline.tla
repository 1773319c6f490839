----------------------------- MODULE MCPipeline -----------------------------
(* Constants of the model-checking run of Pipeline. *)
EXTENDS Pipeline
=============================================================================
