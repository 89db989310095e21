------------------------------ MODULE MCLogger ------------------------------
(***************************************************************************)
(* Logger for TLC.  Users and messages are model values given by the cfg;  *)
(* no symmetry, because the run checks liveness.                           *)
(***************************************************************************)
EXTENDS Logger, TLC

=============================================================================
