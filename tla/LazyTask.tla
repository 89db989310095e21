------------------------------ MODULE LazyTask ------------------------------
(***************************************************************************)
(* What ate::CoroTask promises (the header of include/ate/coro_task.hpp),  *)
(* without threads or handles: a coroutine does not start before somebody  *)
(* resumes it; it runs to one result; get() returns that result, and not   *)
(* before; the frame goes away while nobody runs or awaits it.             *)
(***************************************************************************)

CONSTANTS Coros

VARIABLES
  life,     \* [Coros -> {"none", "lazy", "active", "done", "destroyed"}]
  outcome,  \* [Coros -> {"none", "value", "exception"}]
  waiting,  \* coroutines that a get() waits for
  got       \* [Coros -> {"none", "value", "exception"}]

lazyVars == <<life, outcome, waiting, got>>

Init ==
  /\ life = [c \in Coros |-> "none"]
  /\ outcome = [c \in Coros |-> "none"]
  /\ waiting = {}
  /\ got = [c \in Coros |-> "none"]

Become(c, from, to) == life[c] = from /\ life' = [life EXCEPT ![c] = to]

Create(c) == Become(c, "none", "lazy") /\ UNCHANGED <<outcome, waiting, got>>

Await(c) ==
  /\ life[c] = "lazy" /\ c \notin waiting
  /\ waiting' = waiting \cup {c}
  /\ UNCHANGED <<life, outcome, got>>

Begin(c) == Become(c, "lazy", "active") /\ UNCHANGED <<outcome, waiting, got>>

Finish(c) ==
  /\ life[c] = "active" /\ outcome[c] = "none"
  /\ \E o \in {"value", "exception"} : outcome' = [outcome EXCEPT ![c] = o]
  /\ UNCHANGED <<life, waiting, got>>

(* The thread that finished the coroutine has left it.                     *)
Leave(c) ==
  /\ outcome[c] # "none" /\ Become(c, "active", "done")
  /\ UNCHANGED <<outcome, waiting, got>>

Deliver(c) ==
  /\ life[c] = "done" /\ got[c] = "none"
  /\ got' = [got EXCEPT ![c] = outcome[c]]
  /\ waiting' = waiting \ {c}
  /\ UNCHANGED <<life, outcome>>

Destroy(c) ==
  /\ life[c] \in {"lazy", "done"} /\ c \notin waiting
  /\ life' = [life EXCEPT ![c] = "destroyed"]
  /\ UNCHANGED <<outcome, waiting, got>>

Next ==
  \E c \in Coros :
    \/ Create(c) \/ Await(c) \/ Begin(c) \/ Finish(c) \/ Leave(c)
    \/ Deliver(c) \/ Destroy(c)

SafeSpec == Init /\ [][Next]_lazyVars

=============================================================================
