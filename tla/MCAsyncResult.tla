--------------------------- MODULE MCAsyncResult ----------------------------
(***************************************************************************)
(* AsyncResult for TLC.  The tasks are model values given by the cfg; no   *)
(* symmetry, because the run checks liveness.                              *)
(***************************************************************************)
EXTENDS AsyncResult, TLC

=============================================================================
