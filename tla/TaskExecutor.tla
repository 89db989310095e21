---------------------------- MODULE TaskExecutor ----------------------------
(***************************************************************************)
(* What ate::ThreadPool promises to its callers (the class comment of      *)
(* include/ate/thread_pool.hpp), without threads, locks or notifications:  *)
(* every submitted task is either accepted or refused; accepted tasks      *)
(* start in the order they were accepted, at most NumThreads at a time;    *)
(* each runs once and settles its future; after the pool stops accepting,  *)
(* it drains before it retires.                                            *)
(***************************************************************************)
EXTENDS Naturals, Sequences, FiniteSets

CONSTANTS Tasks, NumThreads

VARIABLES
  accepting,  \* submit() does not throw yet
  queue,      \* accepted tasks that have not started, oldest first
  status,     \* [Tasks -> Status]
  retired     \* the destructor has joined every worker

execVars == <<accepting, queue, status, retired>>

Status == {"new", "refused", "queued", "running", "settled"}

(* Every variable keeps its type.  For the clients that use this module.   *)
TypeOK ==
  /\ accepting \in BOOLEAN /\ retired \in BOOLEAN
  /\ queue \in Seq(Tasks)
  /\ status \in [Tasks -> Status]

Running == {t \in Tasks : status[t] = "running"}

Init ==
  /\ accepting = TRUE
  /\ queue = <<>>
  /\ status = [t \in Tasks |-> "new"]
  /\ retired = FALSE

Accept(t) ==
  /\ accepting /\ status[t] = "new"
  /\ queue' = Append(queue, t)
  /\ status' = [status EXCEPT ![t] = "queued"]
  /\ UNCHANGED <<accepting, retired>>

Refuse(t) ==
  /\ ~accepting /\ status[t] = "new"
  /\ status' = [status EXCEPT ![t] = "refused"]
  /\ UNCHANGED <<accepting, queue, retired>>

Start ==
  /\ queue # <<>>
  /\ Cardinality(Running) < NumThreads
  /\ queue' = Tail(queue)
  /\ status' = [status EXCEPT ![Head(queue)] = "running"]
  /\ UNCHANGED <<accepting, retired>>

Settle(t) ==
  /\ status[t] = "running"
  /\ status' = [status EXCEPT ![t] = "settled"]
  /\ UNCHANGED <<accepting, queue, retired>>

Close ==
  /\ accepting
  /\ accepting' = FALSE
  /\ UNCHANGED <<queue, status, retired>>

Retire ==
  /\ ~accepting /\ ~retired
  /\ queue = <<>> /\ Running = {}
  /\ retired' = TRUE
  /\ UNCHANGED <<accepting, queue, status>>

Next ==
  \/ \E t \in Tasks : Accept(t) \/ Refuse(t) \/ Settle(t)
  \/ Start \/ Close \/ Retire

SafeSpec == Init /\ [][Next]_execVars

(* An accepted task is not left in the queue while a thread is free, and   *)
(* the callables that run are assumed to return.                           *)
Spec ==
  /\ SafeSpec
  /\ WF_execVars(Start)
  /\ \A t \in Tasks : WF_execVars(Settle(t))

=============================================================================
