---------------------------- MODULE MCThreadPool ----------------------------
(***************************************************************************)
(* ThreadPool for TLC: two workers, so that one may sleep, run or exit     *)
(* while the other does something else; the Clients and Tasks are sets of  *)
(* model values given by the cfg.                                          *)
(***************************************************************************)
EXTENDS ThreadPool, TLC

MCWorkers == 1..NumThreads

=============================================================================
