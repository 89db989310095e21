--------------------------- MODULE DeferredCalls ----------------------------
(***************************************************************************)
(* What the futures of ate::AsioContext promise (include/ate/              *)
(* asio_context.hpp), without io_context, timers or pool: a requested call *)
(* runs at most once and its future gets what it returned or threw; the    *)
(* context goes away while no call runs, and then the calls that have not  *)
(* begun never do and their futures are broken.                            *)
(***************************************************************************)

CONSTANTS Calls

VARIABLES
  alive,
  call  \* [Calls -> {"none", "pending", "running", "value", "exception", "broken"}]

callVars == <<alive, call>>

Init == alive = TRUE /\ call = [c \in Calls |-> "none"]

Become(c, from, to) ==
  alive /\ call[c] = from /\ call' = [call EXCEPT ![c] = to] /\ UNCHANGED alive

Request(c) == Become(c, "none", "pending")

Begin(c) == Become(c, "pending", "running")

End(c) == Become(c, "running", "value") \/ Become(c, "running", "exception")

Die ==
  /\ alive /\ \A c \in Calls : call[c] # "running"
  /\ alive' = FALSE
  /\ call' = [c \in Calls |-> IF call[c] = "pending" THEN "broken" ELSE call[c]]

Next == Die \/ \E c \in Calls : Request(c) \/ Begin(c) \/ End(c)

SafeSpec == Init /\ [][Next]_callVars

=============================================================================
