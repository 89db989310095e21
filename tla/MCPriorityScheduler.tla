------------------------ MODULE MCPriorityScheduler -------------------------
(***************************************************************************)
(* PriorityScheduler for TLC.  Threads and tasks are model values given by *)
(* the cfg; no symmetry, because the run checks liveness.                  *)
(***************************************************************************)
EXTENDS PriorityScheduler, TLC

=============================================================================
