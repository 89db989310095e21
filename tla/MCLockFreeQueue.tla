-------------------------- MODULE MCLockFreeQueue ---------------------------
(***************************************************************************)
(* LockFreeQueue and its arithmetic for TLC: threads and values are        *)
(* interchangeable, and no property tells them apart, so both are          *)
(* symmetric.                                                              *)
(***************************************************************************)
EXTENDS RingArithmetic, TLC

Symmetry == Permutations(Threads) \cup Permutations(Values)

=============================================================================
