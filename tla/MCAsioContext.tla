--------------------------- MODULE MCAsioContext ----------------------------
(***************************************************************************)
(* AsioContext for TLC.  The sets of tasks and handlers are model values   *)
(* given by the cfg; no symmetry, because the runs check liveness.         *)
(***************************************************************************)
EXTENDS AsioContext, TLC

=============================================================================
