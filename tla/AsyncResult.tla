---------------------------- MODULE AsyncResult -----------------------------
(***************************************************************************)
(* ate::AsyncResult (include/ate/async_result.hpp) over a pool: then()     *)
(* submits a task that first blocks its worker in get() on the previous    *)
(* result.  The pool is TaskExecutor, which ThreadPool implements.         *)
(*                                                                         *)
(* A task stands for one call of submit_async() or then(), and for the     *)
(* AsyncResult which that call returns.  Any thread may make the calls, a  *)
(* callable on its worker as well.  AsyncResult<void> differs in having no *)
(* value to pass; wait() and valid() only read.  An operator named         *)
(* ...Mutant is a wrong variant of a later one and not part of the model.  *)
(***************************************************************************)
EXTENDS Naturals, Sequences, FiniteSets

CONSTANTS
  Tasks,
  NumThreads,  \* the pool's workers
  NoTask       \* "no exception"

ASSUME ThreadsAssumption == NumThreads \in Nat \ {0}

ASSUME TasksAssumption == NoTask \notin Tasks

VARIABLES
  accepting, queue, status, retired,  \* the pool, see TaskExecutor
  chain,    \* [Tasks -> Seq(Tasks)]: the calls that led to t, t the last
  future_,  \* [Tasks -> FutureState]: future_ of the AsyncResult
  called,   \* tasks whose func or continuation has been called
  error     \* [Tasks -> Tasks \cup {NoTask}]: the stored exception, which is
            \* named after the task whose callable threw it

poolVars == <<accepting, queue, status, retired>>
vars == <<poolVars, chain, future_, called, error>>

Pool == INSTANCE TaskExecutor

(* "moved": to the continuation; "lost": with a then() that threw.         *)
FutureState == {"none", "valid", "moved", "lost", "consumed"}

Init ==
  /\ Pool!Init
  /\ chain = [t \in Tasks |-> <<>>]
  /\ future_ = [t \in Tasks |-> "none"]
  /\ called = {}
  /\ error = [t \in Tasks |-> NoTask]

HasPredecessor(t) == Len(chain[t]) > 1

Predecessor(t) == chain[t][Len(chain[t]) - 1]

Settled(t) == status[t] = "settled"

(* shared->get() would return or throw at once.                            *)
Ready(t) == HasPredecessor(t) => Settled(Predecessor(t))

-----------------------------------------------------------------------------
(* The calls; they do not block, except get().                             *)

SubmitAsync(t) ==
  /\ Pool!Accept(t)
  /\ chain' = [chain EXCEPT ![t] = <<t>>]
  /\ future_' = [future_ EXCEPT ![t] = "valid"]
  /\ UNCHANGED <<called, error>>

SubmitAsyncThrows(t) ==
  /\ ~retired /\ Pool!Refuse(t)
  /\ UNCHANGED <<chain, future_, called, error>>

(* Wrong: shares the future instead of moving it.                          *)
ThenMutant(r, t) ==
  /\ future_[r] = "valid"
  /\ Pool!Accept(t)
  /\ chain' = [chain EXCEPT ![t] = Append(chain[r], t)]
  /\ future_' = [future_ EXCEPT ![t] = "valid"]
  /\ UNCHANGED <<called, error>>

Then(r, t) ==
  /\ future_[r] = "valid"
  /\ Pool!Accept(t)
  /\ chain' = [chain EXCEPT ![t] = Append(chain[r], t)]
  /\ future_' = [future_ EXCEPT ![r] = "moved", ![t] = "valid"]
  /\ UNCHANGED <<called, error>>

(* submit() throws after the future was moved: the callable that owns it   *)
(* is destroyed with the exception.                                        *)
ThenThrows(r, t) ==
  /\ ~retired /\ future_[r] = "valid"
  /\ Pool!Refuse(t)
  /\ future_' = [future_ EXCEPT ![r] = "lost"]
  /\ UNCHANGED <<chain, called, error>>

Get(r) ==
  /\ future_[r] = "valid" /\ Settled(r)
  /\ future_' = [future_ EXCEPT ![r] = "consumed"]
  /\ UNCHANGED <<poolVars, chain, called, error>>

-----------------------------------------------------------------------------
(* The workers.                                                            *)

(* Wrong: takes the newest task.                                           *)
TakeNextMutant ==
  /\ queue # <<>> /\ Cardinality(Pool!Running) < NumThreads
  /\ queue' = SubSeq(queue, 1, Len(queue) - 1)
  /\ status' = [status EXCEPT ![queue[Len(queue)]] = "running"]
  /\ UNCHANGED <<accepting, retired, chain, future_, called, error>>

TakeNext == Pool!Start /\ UNCHANGED <<chain, future_, called, error>>

(* Wrong: does not look at the predecessor's exception.                    *)
CallMutant(t) ==
  /\ status[t] = "running" /\ t \notin called /\ Ready(t)
  /\ called' = called \cup {t}
  /\ UNCHANGED <<poolVars, chain, future_, error>>

(* Wrong: does not wait.                                                   *)
CallEarlyMutant(t) ==
  /\ status[t] = "running" /\ t \notin called
  /\ HasPredecessor(t) => error[Predecessor(t)] = NoTask
  /\ called' = called \cup {t}
  /\ UNCHANGED <<poolVars, chain, future_, error>>

(* get() has returned the predecessor's value: the callable runs.          *)
Call(t) ==
  /\ status[t] = "running" /\ t \notin called /\ Ready(t)
  /\ HasPredecessor(t) => error[Predecessor(t)] = NoTask
  /\ called' = called \cup {t}
  /\ UNCHANGED <<poolVars, chain, future_, error>>

(* The callable returns or throws; the packaged_task stores either.        *)
Return(t) ==
  /\ t \in called /\ Pool!Settle(t)
  /\ \E e \in {NoTask, t} : error' = [error EXCEPT ![t] = e]
  /\ UNCHANGED <<chain, future_, called>>

(* get() has thrown: the packaged_task stores the same exception.          *)
Rethrow(t) ==
  /\ Pool!Settle(t) /\ t \notin called
  /\ HasPredecessor(t) /\ Ready(t) /\ error[Predecessor(t)] # NoTask
  /\ error' = [error EXCEPT ![t] = error[Predecessor(t)]]
  /\ UNCHANGED <<chain, future_, called>>

-----------------------------------------------------------------------------

PoolCloses ==
  (Pool!Close \/ Pool!Retire) /\ UNCHANGED <<chain, future_, called, error>>

Terminated == retired /\ UNCHANGED vars

Next ==
  \/ \E t \in Tasks :
       \/ SubmitAsync(t) \/ SubmitAsyncThrows(t)
       \/ \E r \in Tasks : Then(r, t) \/ ThenThrows(r, t)
       \/ Get(t) \/ Call(t) \/ Return(t) \/ Rethrow(t)
  \/ TakeNext \/ PoolCloses \/ Terminated

SafeSpec == Init /\ [][Next]_vars

(* What the pool guarantees, and callables that return.  Nobody has to     *)
(* call get(), then() or shutdown().                                       *)
Fairness ==
  /\ WF_vars(TakeNext)
  /\ \A t \in Tasks : WF_vars(Call(t) \/ Return(t) \/ Rethrow(t))

Spec == SafeSpec /\ Fairness

-----------------------------------------------------------------------------
(* Properties                                                              *)

(* Every variable keeps its type, and a future that was moved is in        *)
(* exactly one continuation.                                               *)
TypeOK ==
  /\ Pool!TypeOK
  /\ chain \in [Tasks -> Seq(Tasks)]
  /\ future_ \in [Tasks -> FutureState]
  /\ called \subseteq Tasks
  /\ error \in [Tasks -> Tasks \cup {NoTask}]
  /\ \A r \in Tasks :
       Cardinality({t \in Tasks : HasPredecessor(t) /\ Predecessor(t) = r})
         = IF future_[r] = "moved" THEN 1 ELSE 0

(* Continuations block their workers, but never all of them: the worker    *)
(* whose task has the shortest way back waits for a task that is done.     *)
(* This needs the FIFO order of the pool, with as few as one worker.       *)
SomeWorkerAdvances ==
  Pool!Running # {} => \E t \in Pool!Running : Ready(t)

(* A chain stops at the first callable that throws, and every later result *)
(* is that exception; if none threw, every callable has run.               *)
FirstExceptionWins ==
  \A t \in Tasks : Settled(t) =>
    LET threw == {i \in DOMAIN chain[t] : error[chain[t][i]] = chain[t][i]}
        ran   == {i \in DOMAIN chain[t] : chain[t][i] \in called}
    IN  IF threw = {} THEN error[t] = NoTask /\ ran = DOMAIN chain[t]
        ELSE \E i \in threw : error[t] = chain[t][i] /\ ran = 1..i

(* The tasks on the pool settle like the calls of a chain.                 *)
Chains == INSTANCE ResultChain WITH
  line <- chain, settled <- {t \in Tasks : Settled(t)}

ChainsSpec == Chains!Spec

=============================================================================
