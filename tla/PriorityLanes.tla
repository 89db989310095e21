--------------------------- MODULE PriorityLanes ----------------------------
(***************************************************************************)
(* What ate::PriorityScheduler promises: one first-in first-out lane for   *)
(* each priority, of which the highest that is not empty is served.        *)
(***************************************************************************)
EXTENDS Integers, Sequences

CONSTANTS Tasks, Priorities

VARIABLES
  lanes,  \* [Priorities -> Seq(Tasks)], oldest first
  open    \* tasks are still admitted

lanesVars == <<lanes, open>>

Init == lanes = [q \in Priorities |-> <<>>] /\ open = TRUE

Admit(t, q) ==
  /\ open
  /\ lanes' = [lanes EXCEPT ![q] = Append(@, t)]
  /\ UNCHANGED open

Serve(q) ==
  /\ lanes[q] # <<>>
  /\ \A r \in Priorities : r > q => lanes[r] = <<>>
  /\ lanes' = [lanes EXCEPT ![q] = Tail(@)]
  /\ UNCHANGED open

Close == open /\ open' = FALSE /\ UNCHANGED lanes

Next ==
  \/ \E q \in Priorities : Serve(q) \/ \E t \in Tasks : Admit(t, q)
  \/ Close

SafeSpec == Init /\ [][Next]_lanesVars

=============================================================================
