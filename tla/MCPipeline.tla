----------------------------- MODULE MCPipeline -----------------------------
(***************************************************************************)
(* Pipeline for TLC: pipelines, stages and tasks are each interchangeable. *)
(***************************************************************************)
EXTENDS Pipeline, TLC

Symmetry == Permutations(Pipes) \cup Permutations(Stages) \cup Permutations(Tasks)

=============================================================================
