---------------------------- MODULE AsioContext -----------------------------
(***************************************************************************)
(* ate::AsioContext (include/ate/asio_context.hpp): an io_context that is  *)
(* run by tasks which occupy workers of a ThreadPool (TaskExecutor) from   *)
(* the constructor to the destructor.                                      *)
(*                                                                         *)
(* The io_context is Boost's, and modelled from its use here: a set of     *)
(* handlers, a count of work that the work guard and the unfinished        *)
(* handlers keep above zero, and a stopped flag.  run() executes handlers  *)
(* until it finds the flag or no work.  A handler does one async_after(),  *)
(* post() or custom operation and is modelled with its future.  delay()    *)
(* is a custom timer; CoroTask has its coroutine.  An operator named       *)
(* ...Mutant is a wrong variant of a later one and not part of the model.  *)
(***************************************************************************)
EXTENDS Naturals, Sequences, FiniteSets

CONSTANTS
  Tasks,       \* tasks of the pool
  RunTasks,    \* those that the constructor submits, one for each io_threads
  NumThreads,  \* the pool's workers
  Handlers,    \* operations requested of the io_context
  NoTask       \* "on no thread"

ASSUME ThreadsAssumption == NumThreads \in Nat \ {0}

ASSUME TasksAssumption == RunTasks \subseteq Tasks /\ NoTask \notin Tasks

(* io_threads is a number.                                                 *)
ASSUME RunTasksAssumption == IsFiniteSet(RunTasks)

VARIABLES
  accepting, queue, status, retired,  \* the pool, see TaskExecutor
  phase,       \* Phase: where constructor and destructor are
  work_guard_, \* owns work
  stopped,     \* the flag of io_ctx_
  handler,     \* [Handlers -> HandlerState]
  prom,        \* [Handlers -> PromiseState]; "none": a custom handler
  on           \* [Handlers -> RunTasks \cup {NoTask}]: the thread that runs it

poolVars == <<accepting, queue, status, retired>>
ioVars == <<work_guard_, stopped>>
handlerVars == <<handler, prom, on>>
vars == <<poolVars, phase, ioVars, handlerVars>>

Pool == INSTANCE TaskExecutor

(* "failed": the constructor has thrown; "destroyed": the destructor has   *)
(* returned.  In both the members are gone.                                *)
Phase == {"constructing", "unwinding", "failed",
          "open", "guardReset", "waiting", "destroyed"}

HandlerState == {"new", "timer", "ready", "running", "finished", "threw", "dropped"}

PromiseState == {"none", "pending", "value", "exception", "broken"}

Init ==
  /\ Pool!Init
  /\ phase = "constructing"
  /\ work_guard_ = TRUE /\ stopped = FALSE
  /\ handler = [h \in Handlers |-> "new"]
  /\ prom = [h \in Handlers |-> "none"]
  /\ on = [h \in Handlers |-> NoTask]

Submitted(t) == status[t] \notin {"new", "refused"}

(* The thread of t waits in run() for something to do.                     *)
InRun(t) ==
  /\ t \in RunTasks /\ status[t] = "running"
  /\ \A h \in Handlers : on[h] # t

OutstandingWork ==
  \/ work_guard_
  \/ \E h \in Handlers : handler[h] \in {"timer", "ready", "running"}

-----------------------------------------------------------------------------
(* Construction.                                                           *)

SubmitRun(t) ==
  /\ phase = "constructing" /\ t \in RunTasks
  /\ Pool!Accept(t)
  /\ UNCHANGED <<phase, ioVars, handlerVars>>

(* submit() throws: the members built so far are destroyed, work_guard_    *)
(* before io_ctx_, and the destructor does not run.                        *)
SubmitRunThrows(t) ==
  /\ phase = "constructing" /\ t \in RunTasks
  /\ Pool!Refuse(t)
  /\ phase' = "unwinding" /\ work_guard_' = FALSE
  /\ UNCHANGED <<stopped, handlerVars>>

UnwindIoContext ==
  /\ phase = "unwinding" /\ phase' = "failed"
  /\ UNCHANGED <<poolVars, ioVars, handlerVars>>

Constructed ==
  /\ phase = "constructing" /\ \A t \in RunTasks : Submitted(t)
  /\ phase' = "open"
  /\ UNCHANGED <<poolVars, ioVars, handlerVars>>

-----------------------------------------------------------------------------
(* The operations.  Anybody may call an open context; a handler also one   *)
(* whose destructor waits for it.                                          *)

MayCall ==
  \/ phase = "open"
  \/ \E h \in Handlers : handler[h] = "running"

Request(h, state, promise) ==
  /\ MayCall /\ handler[h] = "new"
  /\ handler' = [handler EXCEPT ![h] = state]
  /\ prom' = [prom EXCEPT ![h] = promise]
  /\ UNCHANGED <<poolVars, phase, ioVars, on>>

Post(h) == Request(h, "ready", "pending")

AsyncAfter(h) == Request(h, "timer", "pending")

(* delay(), or anything done with get_io_context(): no promise, and no     *)
(* try around the callable.                                                *)
Custom(h) == Request(h, "ready", "none") \/ Request(h, "timer", "none")

-----------------------------------------------------------------------------
(* The threads in run().                                                   *)

TimerExpires(h) ==
  /\ handler[h] = "timer" /\ ~stopped /\ \E t \in Tasks : InRun(t)
  /\ handler' = [handler EXCEPT ![h] = "ready"]
  /\ UNCHANGED <<poolVars, phase, ioVars, prom, on>>

RunHandler(h) ==
  /\ handler[h] = "ready" /\ ~stopped
  /\ handler' = [handler EXCEPT ![h] = "running"]
  /\ \E t \in Tasks : InRun(t) /\ on' = [on EXCEPT ![h] = t]
  /\ UNCHANGED <<poolVars, phase, ioVars, prom>>

(* Wrong: an exception of the callable leaves the promise as it is.        *)
HandlerReturnsMutant(h) ==
  /\ handler[h] = "running"
  /\ handler' = [handler EXCEPT ![h] = "finished"]
  /\ on' = [on EXCEPT ![h] = NoTask]
  /\ IF prom[h] = "none" THEN UNCHANGED prom
     ELSE \E r \in {"value", "pending"} : prom' = [prom EXCEPT ![h] = r]
  /\ UNCHANGED <<poolVars, phase, ioVars>>

(* Wrong: the thread keeps the handler.                                    *)
HandlerStaysMutant(h) ==
  /\ handler[h] = "running"
  /\ handler' = [handler EXCEPT ![h] = "finished"]
  /\ IF prom[h] = "none" THEN UNCHANGED prom
     ELSE \E r \in {"value", "exception"} : prom' = [prom EXCEPT ![h] = r]
  /\ UNCHANGED <<poolVars, phase, ioVars, on>>

HandlerReturns(h) ==
  /\ handler[h] = "running"
  /\ handler' = [handler EXCEPT ![h] = "finished"]
  /\ on' = [on EXCEPT ![h] = NoTask]
  /\ IF prom[h] = "none" THEN UNCHANGED prom
     ELSE \E r \in {"value", "exception"} : prom' = [prom EXCEPT ![h] = r]
  /\ UNCHANGED <<poolVars, phase, ioVars>>

(* An exception of a custom handler leaves run(); the packaged_task of the *)
(* pool stores it and the thread is lost to the io_context.                *)
HandlerThrows(h) ==
  /\ handler[h] = "running" /\ prom[h] = "none"
  /\ Pool!Settle(on[h])
  /\ handler' = [handler EXCEPT ![h] = "threw"]
  /\ on' = [on EXCEPT ![h] = NoTask]
  /\ UNCHANGED <<phase, ioVars, prom>>

(* Wrong: without the work guard.                                          *)
RunReturnsMutant(t) ==
  /\ InRun(t)
  /\ \A h \in Handlers : handler[h] \in {"timer", "ready", "running"} => stopped
  /\ stopped' = TRUE
  /\ Pool!Settle(t)
  /\ UNCHANGED <<phase, work_guard_, handlerVars>>

(* Wrong: does not look at the stopped flag.                               *)
RunGoesOnMutant(t) ==
  /\ InRun(t) /\ ~OutstandingWork
  /\ stopped' = TRUE
  /\ Pool!Settle(t)
  /\ UNCHANGED <<phase, work_guard_, handlerVars>>

(* run() that finds no work stops the io_context.                          *)
RunReturns(t) ==
  /\ InRun(t) /\ (stopped \/ ~OutstandingWork)
  /\ stopped' = TRUE
  /\ Pool!Settle(t)
  /\ UNCHANGED <<phase, work_guard_, handlerVars>>

-----------------------------------------------------------------------------
(* Destruction.                                                            *)

ResetGuard ==
  /\ phase = "open" /\ phase' = "guardReset"
  /\ work_guard_' = FALSE
  /\ UNCHANGED <<poolVars, stopped, handlerVars>>

Stop ==
  /\ phase = "guardReset" /\ phase' = "waiting"
  /\ stopped' = TRUE
  /\ UNCHANGED <<poolVars, work_guard_, handlerVars>>

DropHandlers ==
  /\ handler' = [h \in Handlers |->
       IF handler[h] \in {"timer", "ready"} THEN "dropped" ELSE handler[h]]
  /\ prom' = [h \in Handlers |->
       IF handler[h] \in {"timer", "ready"} /\ prom[h] = "pending" THEN "broken"
       ELSE prom[h]]

(* Wrong: does not wait for the futures.                                   *)
DestroyMembersMutant ==
  /\ phase = "waiting" /\ phase' = "destroyed"
  /\ DropHandlers
  /\ UNCHANGED <<poolVars, ioVars, on>>

(* Every run() has returned: io_ctx_ goes away with the handlers it holds. *)
DestroyMembers ==
  /\ phase = "waiting" /\ phase' = "destroyed"
  /\ \A t \in RunTasks : status[t] = "settled"
  /\ DropHandlers
  /\ UNCHANGED <<poolVars, ioVars, on>>

-----------------------------------------------------------------------------
(* The pool and its other tasks.                                           *)

(* Wrong: one worker less than the pool has.                               *)
TakeNextMutant ==
  /\ Cardinality(Pool!Running) + 1 < NumThreads
  /\ Pool!Start
  /\ UNCHANGED <<phase, ioVars, handlerVars>>

TakeNext == Pool!Start /\ UNCHANGED <<phase, ioVars, handlerVars>>

Submit(t) ==
  /\ t \notin RunTasks /\ ~retired
  /\ Pool!Accept(t) \/ Pool!Refuse(t)
  /\ UNCHANGED <<phase, ioVars, handlerVars>>

Return(t) ==
  /\ t \notin RunTasks /\ Pool!Settle(t)
  /\ UNCHANGED <<phase, ioVars, handlerVars>>

(* The pool outlives at least the constructor.                             *)
PoolCloses ==
  /\ Pool!Close \/ (phase # "constructing" /\ Pool!Retire)
  /\ UNCHANGED <<phase, ioVars, handlerVars>>

-----------------------------------------------------------------------------

Terminated == phase \in {"failed", "destroyed"} /\ retired /\ UNCHANGED vars

Construct ==
  \/ \E t \in Tasks : SubmitRun(t) \/ SubmitRunThrows(t)
  \/ UnwindIoContext \/ Constructed

Execute(h) == TimerExpires(h) \/ RunHandler(h)

Finish(h) == HandlerReturns(h) \/ HandlerThrows(h)

Next ==
  \/ Construct
  \/ \E h \in Handlers :
       Post(h) \/ AsyncAfter(h) \/ Custom(h) \/ Execute(h) \/ Finish(h)
  \/ \E t \in Tasks : RunReturns(t) \/ Submit(t) \/ Return(t)
  \/ ResetGuard \/ Stop \/ DestroyMembers
  \/ TakeNext \/ PoolCloses \/ Terminated

SafeSpec == Init /\ [][Next]_vars

(* Threads go on, timers expire, callables return.  Nobody has to request  *)
(* anything or to destroy the context.                                     *)
Fairness ==
  /\ WF_vars(Construct) /\ WF_vars(TakeNext)
  /\ WF_vars(Stop) /\ WF_vars(DestroyMembers)
  /\ \A t \in Tasks : WF_vars(RunReturns(t)) /\ WF_vars(Return(t))
  /\ \A h \in Handlers : WF_vars(Execute(h)) /\ WF_vars(Finish(h))

Spec == SafeSpec /\ Fairness

-----------------------------------------------------------------------------
(* Properties                                                              *)

(* Every variable keeps its type; a handler runs on one thread of run(),   *)
(* and such a thread runs one handler.                                     *)
TypeOK ==
  /\ Pool!TypeOK
  /\ phase \in Phase
  /\ work_guard_ \in BOOLEAN /\ stopped \in BOOLEAN
  /\ handler \in [Handlers -> HandlerState]
  /\ prom \in [Handlers -> PromiseState]
  /\ on \in [Handlers -> RunTasks \cup {NoTask}]
  /\ \A h \in Handlers : handler[h] = "running" <=> on[h] # NoTask
  /\ \A h, g \in Handlers : on[h] = on[g] /\ h # g => on[h] = NoTask

(* run() spans the life of the context.  While it is open, every run() is  *)
(* queued or on a worker, one less for each custom handler that threw.     *)
(* ~AsioContext() returns when no worker can touch io_ctx_ any more, also  *)
(* none whose run() was still queued when it began.                        *)
RunsSpanLifetime ==
  LET pending == {t \in RunTasks : status[t] \in {"queued", "running"}}
      threw   == {h \in Handlers : handler[h] = "threw"}
  IN  /\ phase = "open" =>
           Cardinality(pending) + Cardinality(threw) = Cardinality(RunTasks)
      /\ phase = "destroyed" => pending = {}

(* Each future settles once, with the result of a call that ran while the  *)
(* context was alive or broken by its end.                                 *)
Calls == INSTANCE DeferredCalls WITH
  Calls <- Handlers,
  alive <- phase \notin {"failed", "destroyed"},
  call <- [h \in Handlers |->
             IF prom[h] = "pending" /\ handler[h] = "running" THEN "running"
             ELSE prom[h]]

CallsSpec == Calls!SafeSpec

(* A future settles: while the context is open because a thread of run()   *)
(* executes the handler, and later because the destructor breaks it.  Only *)
(* custom handlers that throw can use up the threads.                      *)
FuturesSettle ==
  \A h \in Handlers :
    prom[h] = "pending" ~>
      \/ prom[h] # "pending"
      \/ Cardinality({g \in Handlers : handler[g] = "threw"}) >=
           Cardinality(RunTasks)

(* ~AsioContext() returns, on a closed pool too, and although the tasks it *)
(* waits for may be behind others in the queue.                            *)
DestructorReturns == phase = "guardReset" ~> phase = "destroyed"

(* With a worker more than io threads, the tasks of other users run.       *)
OthersRun ==
  Cardinality(RunTasks) < NumThreads =>
    \A t \in Tasks \ RunTasks : status[t] = "queued" ~> status[t] = "settled"

(* include/ate/asio_context.hpp:44-45, "On destruction: reset the work     *)
(* guard -> io_context stops when all pending handlers finish".            *)
PendingHandlersFinish ==
  phase = "destroyed" => \A h \in Handlers : handler[h] # "dropped"

(* include/ate/asio_context.hpp:138-142: the run() threads return "before  *)
(* destroying io_ctx_"; otherwise "use-after-free".  The constructor that  *)
(* throws destroys it as well.                                             *)
RunsEndBeforeIoContext ==
  phase = "failed" => \A t \in RunTasks : status[t] \notin {"queued", "running"}

=============================================================================
