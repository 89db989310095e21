----------------------------- MODULE MCCoroTask -----------------------------
(***************************************************************************)
(* CoroTask for TLC.  Objects, coroutines and tasks are model values given *)
(* by the cfg; no symmetry, because the run checks liveness.               *)
(***************************************************************************)
EXTENDS CoroTask, TLC

=============================================================================
