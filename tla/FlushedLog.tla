------------------------------ MODULE FlushedLog ------------------------------
(***************************************************************************)
(* What ate::Logger promises: the sink receives the accepted messages in   *)
(* the order in which they were accepted; flush() returns once everything  *)
(* accepted before it was called has been written; and the logger closes   *)
(* only when nothing is left to write.                                     *)
(***************************************************************************)
EXTENDS Naturals, Sequences

CONSTANTS Callers, Messages

VARIABLES
  accepted,  \* the messages that passed log(), oldest first
  written,   \* the messages the sink has received
  barrier,   \* [Callers -> Nat]: what the caller's flush() waits for
  flushing,  \* the callers inside flush()
  closed     \* the destructor has returned

logVars == <<accepted, written, barrier, flushing, closed>>

Init ==
  /\ accepted = <<>> /\ written = <<>>
  /\ barrier = [p \in Callers |-> 0]
  /\ flushing = {}
  /\ closed = FALSE

Accept(m) ==
  /\ ~closed
  /\ accepted' = Append(accepted, m)
  /\ UNCHANGED <<written, barrier, flushing, closed>>

Write ==
  /\ Len(written) < Len(accepted)
  /\ written' = Append(written, accepted[Len(written) + 1])
  /\ UNCHANGED <<accepted, barrier, flushing, closed>>

FlushCall(p) ==
  /\ p \notin flushing /\ ~closed
  /\ flushing' = flushing \cup {p}
  /\ barrier' = [barrier EXCEPT ![p] = Len(accepted)]
  /\ UNCHANGED <<accepted, written, closed>>

FlushReturn(p) ==
  /\ p \in flushing /\ barrier[p] <= Len(written)
  /\ flushing' = flushing \ {p}
  /\ UNCHANGED <<accepted, written, barrier, closed>>

Close ==
  /\ ~closed /\ flushing = {} /\ written = accepted
  /\ closed' = TRUE
  /\ UNCHANGED <<accepted, written, barrier, flushing>>

Next ==
  \/ \E m \in Messages : Accept(m)
  \/ \E p \in Callers : FlushCall(p) \/ FlushReturn(p)
  \/ Write \/ Close

SafeSpec == Init /\ [][Next]_logVars

(* The sink returns, and a flush() whose barrier is reached returns.       *)
Spec ==
  /\ SafeSpec
  /\ WF_logVars(Write)
  /\ \A p \in Callers : WF_logVars(FlushReturn(p))

=============================================================================
