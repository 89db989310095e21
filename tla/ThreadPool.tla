----------------------------- MODULE ThreadPool -----------------------------
(***************************************************************************)
(* ate::ThreadPool (include/ate/thread_pool.hpp, src/thread_pool.cpp) on   *)
(* top of its TaskQueue: the constructor that spawns the workers one by    *)
(* one, submit() and shutdown() called by any thread, the two loops of a   *)
(* worker, and the destructor.                                             *)
(*                                                                         *)
(* Threads: the workers 1..NumThreads (the index is the position in        *)
(* workers_), the Clients, and the Owner, which constructs and destroys    *)
(* the pool.  A callable is arbitrary: while a worker runs one it may call *)
(* submit() and shutdown() any number of times, and it ends in a value or  *)
(* an exception.                                                           *)
(* An operator named ...Mutant is a wrong variant of a later definition    *)
(* and not part of the model.                                              *)
(***************************************************************************)
EXTENDS TaskQueue, Naturals, FiniteSets

CONSTANTS
  NumThreads,  \* workers_.size()
  Clients,     \* threads outside the pool that call submit() and shutdown()
  Owner,       \* the thread that constructs and destroys the pool
  NoTask       \* a worker that holds no callable

Workers == 1..NumThreads
Threads == Workers \cup Clients \cup {Owner}

(* The constructor clamps the thread count to at least one.                *)
ASSUME NumThreadsAssumption == NumThreads \in Nat \ {0}

ASSUME ThreadsAssumption ==
  /\ IsFiniteSet(Clients)
  /\ Clients \cap Workers = {}
  /\ Owner \notin Clients \cup Workers

ASSUME TasksAssumption == NoTask \notin Tasks

(* Workers, and only workers, sleep on the queue's condition variable.     *)
ASSUME WaitersAssumption == Waiters = Workers

VARIABLES
  pc,       \* [Workers -> WorkerPC]: where each worker is in worker_loop
  cur,      \* [Workers -> Tasks \cup {NoTask}]: the callable it runs
  stop,     \* [Workers -> BOOLEAN]: stop_requested() of its jthread
  call,     \* [Threads -> CallPC]: the pool call each thread is inside
  index,    \* [Threads -> Nat]: that call's position in workers_
  phase,    \* the owner's progress through the pool's lifetime
  spawned,  \* workers_.size() so far
  future,   \* [Tasks -> FutureState]: the shared state submit() returned
  accepted, \* history: tasks in the order push() accepted them
  popped    \* history: tasks in the order workers took them

poolVars == <<pc, cur, stop, call, index, phase, spawned, future, accepted,
              popped>>
vars == <<queueVars, poolVars>>

WorkerPC == {"unborn", "loop", "wait", "run", "drain", "drainRun", "exited"}
CallPC == {"none", "notifyOne", "notifyAll", "requestStop", "stopCallback"}
FutureState == {"none", "refused", "pending", "value", "exception"}
Phase == {"constructing", "unwinding", "failed", "up", "destroying",
          "joining", "gone"}

Busy(w) == pc[w] \in {"run", "drainRun"}

Init ==
  /\ QueueInit
  /\ pc = [w \in Workers |-> "unborn"]
  /\ cur = [w \in Workers |-> NoTask]
  /\ stop = [w \in Workers |-> FALSE]
  /\ call = [p \in Threads |-> "none"]
  /\ index = [p \in Threads |-> 1]
  /\ phase = "constructing"
  /\ spawned = 0
  /\ future = [t \in Tasks |-> "none"]
  /\ accepted = <<>>
  /\ popped = <<>>

-----------------------------------------------------------------------------
(* Constructor.  The workers start as soon as they are spawned.            *)

Spawn ==
  /\ phase = "constructing" /\ spawned < NumThreads
  /\ spawned' = spawned + 1
  /\ pc' = [pc EXCEPT ![spawned + 1] = "loop"]
  /\ phase' = IF spawned + 1 = NumThreads THEN "up" ELSE phase
  /\ UNCHANGED <<queueVars, cur, stop, call, index, future, accepted, popped>>

(* emplace_back throws std::system_error: no destructor body runs, but the *)
(* members are destroyed, so the jthreads spawned so far are stopped and   *)
(* joined without queue_.shutdown().                                       *)
SpawnThrows ==
  /\ phase = "constructing" /\ spawned < NumThreads
  /\ phase' = IF spawned = 0 THEN "failed" ELSE "unwinding"
  /\ UNCHANGED <<queueVars, pc, cur, stop, call, index, spawned, future,
                 accepted, popped>>

-----------------------------------------------------------------------------
(* Calls on the pool.  A client may be inside at most one, a worker only   *)
(* while it runs a callable.                                               *)

MayCall(p) ==
  /\ call[p] = "none"
  /\ \/ p \in Clients /\ phase = "up"
     \/ p \in Workers /\ Busy(p)

(* Wrong: does not notify.                                                 *)
SubmitAcceptedMutant(p, t) ==
  /\ MayCall(p) /\ future[t] = "none"
  /\ PushAccepted(t)
  /\ future' = [future EXCEPT ![t] = "pending"]
  /\ accepted' = Append(accepted, t)
  /\ UNCHANGED <<pc, cur, stop, call, index, phase, spawned, popped>>

SubmitAccepted(p, t) ==
  /\ MayCall(p) /\ future[t] = "none"
  /\ PushAccepted(t)
  /\ call' = [call EXCEPT ![p] = "notifyOne"]
  /\ future' = [future EXCEPT ![t] = "pending"]
  /\ accepted' = Append(accepted, t)
  /\ UNCHANGED <<pc, cur, stop, index, phase, spawned, popped>>

(* push() returned false: submit() throws, the future dies with it.        *)
SubmitThrows(p, t) ==
  /\ MayCall(p) /\ future[t] = "none"
  /\ PushRefused
  /\ future' = [future EXCEPT ![t] = "refused"]
  /\ UNCHANGED <<pc, cur, stop, call, index, phase, spawned, accepted, popped>>

NotifyOne(p) ==
  /\ call[p] = "notifyOne"
  /\ CvNotifyOne
  /\ call' = [call EXCEPT ![p] = "none"]
  /\ UNCHANGED <<pc, cur, stop, index, phase, spawned, future, accepted, popped>>

(* shutdown(): queue_.shutdown() first, then request_stop on each worker.  *)
EnterShutdown(p) ==
  /\ SetShutdown
  /\ call' = [call EXCEPT ![p] = "notifyAll"]
  /\ index' = [index EXCEPT ![p] = 1]

Shutdown(p) ==
  /\ MayCall(p)
  /\ EnterShutdown(p)
  /\ UNCHANGED <<pc, cur, stop, phase, spawned, future, accepted, popped>>

NotifyAll(p) ==
  /\ call[p] = "notifyAll"
  /\ CvNotifyAll
  /\ call' = [call EXCEPT ![p] = "requestStop"]
  /\ UNCHANGED <<pc, cur, stop, index, phase, spawned, future, accepted, popped>>

(* Wrong: i <= size().                                                     *)
NextWorkerMutant(p) ==
  IF index[p] > spawned
    THEN call' = [call EXCEPT ![p] = "none"] /\ UNCHANGED index
    ELSE /\ call' = [call EXCEPT ![p] = "requestStop"]
         /\ index' = [index EXCEPT ![p] = @ + 1]

(* for (auto& w : workers_): after worker index[p], the next one or return. *)
NextWorker(p) ==
  IF index[p] = spawned
    THEN call' = [call EXCEPT ![p] = "none"] /\ UNCHANGED index
    ELSE /\ call' = [call EXCEPT ![p] = "requestStop"]
         /\ index' = [index EXCEPT ![p] = @ + 1]

(* The first request_stop() on a jthread sets the flag and then runs the   *)
(* stop callback that wait() registered if that worker sleeps; any later   *)
(* one returns at once.                                                    *)
RequestStop(p) ==
  /\ call[p] = "requestStop"
  /\ \/ ~stop[index[p]] /\ stop' = [stop EXCEPT ![index[p]] = TRUE]
        /\ call' = [call EXCEPT ![p] = "stopCallback"] /\ UNCHANGED index
     \/ stop[index[p]] /\ NextWorker(p) /\ UNCHANGED stop
  /\ UNCHANGED <<queueVars, pc, cur, phase, spawned, future, accepted, popped>>

(* Wrong: a wait() without the stop token has no callback.                 *)
StopCallbackMutant(p) ==
  /\ call[p] = "stopCallback"
  /\ IF p = Owner /\ phase \in {"joining", "unwinding"}
       THEN call' = [call EXCEPT ![p] = "none"] /\ UNCHANGED index
       ELSE NextWorker(p)
  /\ UNCHANGED <<queueVars, pc, cur, stop, phase, spawned, future, accepted,
                 popped>>

(* The callback notifies every sleeper.  shutdown() then goes on to the    *)
(* next worker; ~jthread goes on to join this one.                         *)
StopCallback(p) ==
  /\ call[p] = "stopCallback"
  /\ IF index[p] \in waiters THEN CvNotifyAll ELSE UNCHANGED queueVars
  /\ IF p = Owner /\ phase \in {"joining", "unwinding"}
       THEN call' = [call EXCEPT ![p] = "none"] /\ UNCHANGED index
       ELSE NextWorker(p)
  /\ UNCHANGED <<pc, cur, stop, phase, spawned, future, accepted, popped>>

-----------------------------------------------------------------------------
(* worker_loop                                                             *)

CheckStop(w) ==
  /\ pc[w] = "loop"
  /\ pc' = [pc EXCEPT ![w] = IF stop[w] THEN "drain" ELSE "wait"]
  /\ UNCHANGED <<queueVars, cur, stop, call, index, phase, spawned, future,
                 accepted, popped>>

Awake(w) == pc[w] = "wait" /\ w \notin waiters

(* A pop, with what the worker does next: run the callable.                *)
Took(w, t, next) ==
  /\ pc' = [pc EXCEPT ![w] = next]
  /\ cur' = [cur EXCEPT ![w] = t]
  /\ popped' = Append(popped, t)
  /\ UNCHANGED <<stop, call, index, phase, spawned, future, accepted>>

WaitAndPop(w) ==
  /\ Awake(w)
  /\ \/ \E t \in Tasks : WaitTakes(t) /\ Took(w, t, "run")
     \/ /\ WaitReturnsNullopt(stop[w])
        /\ pc' = [pc EXCEPT ![w] = "loop"]
        /\ UNCHANGED <<cur, stop, call, index, phase, spawned, future,
                       accepted, popped>>
     \/ WaitSleeps(w, stop[w]) /\ UNCHANGED poolVars

Spurious(w) == SpuriousWakeup(w) /\ UNCHANGED poolVars

(* The packaged_task stores the result or the exception; the worker goes   *)
(* back to the loop it took the task in.                                   *)
Finish(w) ==
  /\ Busy(w) /\ call[w] = "none"
  /\ \E r \in {"value", "exception"} :
       future' = [future EXCEPT ![cur[w]] = r]
  /\ cur' = [cur EXCEPT ![w] = NoTask]
  /\ pc' = [pc EXCEPT ![w] = IF @ = "run" THEN "loop" ELSE "drain"]
  /\ UNCHANGED <<queueVars, stop, call, index, phase, spawned, accepted, popped>>

(* Wrong: leaves without the drain loop.                                   *)
DrainMutant(w) ==
  /\ pc[w] = "drain"
  /\ pc' = [pc EXCEPT ![w] = "exited"]
  /\ UNCHANGED <<queueVars, cur, stop, call, index, phase, spawned, future,
                 accepted, popped>>

Drain(w) ==
  /\ pc[w] = "drain"
  /\ \/ \E t \in Tasks : TakeFront(t) /\ Took(w, t, "drainRun")
     \/ /\ tasks_ = <<>>
        /\ pc' = [pc EXCEPT ![w] = "exited"]
        /\ UNCHANGED <<queueVars, cur, stop, call, index, phase, spawned,
                       future, accepted, popped>>

-----------------------------------------------------------------------------
(* Destructor: shutdown(), then ~vector destroys the jthreads in order,    *)
(* each requesting stop and joining.  No client is still inside a call:    *)
(* destroying an object in use is the caller's error.                      *)

Destroy ==
  /\ phase = "up"
  /\ \A c \in Clients : call[c] = "none"
  /\ EnterShutdown(Owner)
  /\ phase' = "destroying"
  /\ UNCHANGED <<pc, cur, stop, spawned, future, accepted, popped>>

StartJoining ==
  /\ phase = "destroying" /\ call[Owner] = "none"
  /\ phase' = "joining"
  /\ index' = [index EXCEPT ![Owner] = 1]
  /\ UNCHANGED <<queueVars, pc, cur, stop, call, spawned, future, accepted,
                 popped>>

Joining == phase \in {"joining", "unwinding"} /\ call[Owner] = "none"

JthreadRequestStop ==
  /\ Joining /\ ~stop[index[Owner]]
  /\ stop' = [stop EXCEPT ![index[Owner]] = TRUE]
  /\ call' = [call EXCEPT ![Owner] = "stopCallback"]
  /\ UNCHANGED <<queueVars, pc, cur, index, phase, spawned, future, accepted,
                 popped>>

Join ==
  /\ Joining /\ stop[index[Owner]] /\ pc[index[Owner]] = "exited"
  /\ IF index[Owner] < spawned
       THEN index' = [index EXCEPT ![Owner] = @ + 1] /\ UNCHANGED phase
       ELSE /\ phase' = IF phase = "joining" THEN "gone" ELSE "failed"
            /\ UNCHANGED index
  /\ UNCHANGED <<queueVars, pc, cur, stop, call, spawned, future, accepted,
                 popped>>

(* The pool does not exist any more and nothing is left to do.             *)
Terminated == phase \in {"gone", "failed"} /\ UNCHANGED vars

-----------------------------------------------------------------------------

CallStep(p) ==
  NotifyOne(p) \/ NotifyAll(p) \/ RequestStop(p) \/ StopCallback(p)

OwnerStep == StartJoining \/ JthreadRequestStop \/ Join

Next ==
  \/ Spawn \/ SpawnThrows \/ Destroy \/ OwnerStep \/ Terminated
  \/ \E p \in Threads :
       \/ CallStep(p) \/ Shutdown(p)
       \/ \E t \in Tasks : SubmitAccepted(p, t) \/ SubmitThrows(p, t)
  \/ \E w \in Workers :
       CheckStop(w) \/ WaitAndPop(w) \/ Spurious(w) \/ Finish(w) \/ Drain(w)

SafeSpec == Init /\ [][Next]_vars

(* Every thread that can run keeps running, and callables return: strong   *)
(* fairness, because a callable may make calls before it does.  Nobody is  *)
(* obliged to submit, to shut down or to destroy, and no wakeup may be     *)
(* expected that nobody sent.                                              *)
Fairness ==
  /\ WF_vars(Spawn) /\ WF_vars(OwnerStep)
  /\ \A p \in Threads : WF_vars(CallStep(p))
  /\ \A w \in Workers :
       /\ WF_vars(CheckStop(w)) /\ WF_vars(WaitAndPop(w)) /\ WF_vars(Drain(w))
       /\ SF_vars(Finish(w))

Spec == SafeSpec /\ Fairness

-----------------------------------------------------------------------------
(* Properties                                                              *)

(* Every variable holds a value of its kind; in particular an index into   *)
(* workers_ never runs past its end.                                       *)
TypeOK ==
  /\ QueueTypeOK
  /\ pc \in [Workers -> WorkerPC]
  /\ cur \in [Workers -> Tasks \cup {NoTask}]
  /\ stop \in [Workers -> BOOLEAN]
  /\ call \in [Threads -> CallPC]
  /\ index \in [Threads -> Workers]
  /\ phase \in Phase
  /\ spawned \in 0..NumThreads
  /\ future \in [Tasks -> FutureState]
  /\ accepted \in Seq(Tasks)
  /\ popped \in Seq(Tasks)

(* The workers take the callables in exactly the order in which push()     *)
(* accepted them, none lost, none twice, however the two loops of several  *)
(* workers interleave.                                                     *)
FifoNoLoss == accepted = popped \o tasks_

(* A callable whose future is pending is in one place: once in the queue,  *)
(* or with one worker.  Any other callable is nowhere in the pool.         *)
Custody ==
  \A t \in Tasks :
    LET queued == {i \in DOMAIN tasks_ : tasks_[i] = t}
        holders == {w \in Workers : cur[w] = t}
    IN  Cardinality(queued) + Cardinality(holders) =
          IF future[t] = "pending" THEN 1 ELSE 0

(* No wakeup is lost although nobody notifies under the mutex.  For tasks: *)
(* while some worker sleeps, every queued task has a worker that is about  *)
(* to look at the queue or a submitter that is about to notify.            *)
Notifying == {p \in Threads : call[p] = "notifyOne"}
Looking == {w \in Workers : Awake(w)}
TaskWakeups ==
  waiters # {} =>
    Len(tasks_) <= Cardinality(Looking) + Cardinality(Notifying)

(* For the end: a sleeper that was told to stop has the stop callback      *)
(* coming to it and to nobody else, and one that sleeps in a closed queue  *)
(* the notification of shutdown().                                         *)
StopWakeups ==
  /\ \A w \in waiters : stop[w] =>
       \E p \in Threads : call[p] = "stopCallback" /\ index[p] = w
  /\ shutdown_ /\ waiters # {} => \E p \in Threads : call[p] = "notifyAll"

(* A worker that sleeps while there is a task, a stop or a shutdown to be  *)
(* seen is therefore about to be woken.                                    *)
NoLostWakeup == TaskWakeups /\ StopWakeups

(* A worker leaves its drain loop only when the queue is empty and will    *)
(* stay so, because shutdown() closes the queue before it stops any        *)
(* worker; once every worker has left, and so when the destructor has      *)
(* returned, every accepted future is ready.                               *)
NothingAbandoned ==
  /\ \A w \in Workers : pc[w] = "exited" =>
       tasks_ = <<>> /\ (shutdown_ \/ phase \in {"unwinding", "failed"})
  /\ phase = "gone" \/ (\A w \in Workers : pc[w] = "exited") =>
       \A t \in Tasks : future[t] # "pending"

(* ~ThreadPool() returns: every sleeping worker is woken, sees the stop,   *)
(* drains and is joined.  So does the unwinding of a failed constructor.   *)
DestructorReturns ==
  /\ phase = "destroying" ~> phase = "gone"
  /\ phase = "unwinding" ~> phase = "failed"

(* The pool does what TaskExecutor promises: its safety (ExecutorSafeSpec), *)
(* and under Fairness its liveness (ExecutorSpec).                         *)
taskStatus ==
  [t \in Tasks |->
     CASE future[t] = "none" -> "new"
       [] future[t] = "refused" -> "refused"
       [] future[t] \in {"value", "exception"} -> "settled"
       [] future[t] = "pending" ->
            IF \E w \in Workers : cur[w] = t THEN "running" ELSE "queued"]

Executor == INSTANCE TaskExecutor WITH
  accepting <- ~shutdown_,
  queue <- tasks_,
  status <- taskStatus,
  retired <- phase = "gone"

ExecutorSafeSpec == Executor!SafeSpec

ExecutorSpec == Executor!Spec

(* src/thread_pool.cpp:69 says of the end of shutdown() that "the workers  *)
(* must have exited their loop by the time we get here".                   *)
ShutdownReturnsAfterExit ==
  [][\A c \in Clients :
       call[c] \in {"requestStop", "stopCallback"} /\ call'[c] = "none"
         => \A w \in Workers : pc[w] = "exited"]_vars

=============================================================================
