# Async Task Engine in TLA+

A specification of the C++ Async Task Engine (`namespace ate`): TLA+ modules
for its concurrent components, TLC configurations that check them on small
instances, and proofs that TLAPS checks for every instance. Source paths are
relative to the root of the repository (`include/ate/…`, `src/thread_pool.cpp`);
in `PROJECT.json` they carry the checkout's prefix `src/`.

## 1. Inventory

| Component | Source | State | Operations | Here |
|---|---|---|---|---|
| TaskQueue | `task_queue.hpp` | `tasks_`, `shutdown_`, `mutex_`, `cv_` | push, try_pop, wait_and_pop, shutdown | `TaskQueue` |
| ThreadPool | `thread_pool.hpp`, `thread_pool.cpp` | `queue_`, `workers_` with their stop states, the futures it gave out | constructor, submit, submit_async, shutdown, worker_loop, destructor | `ThreadPool`, `TaskExecutor` |
| LockFreeQueue | `lockfree_queue.hpp` | `enqueue_pos_`, `dequeue_pos_`, the slots' `sequence` and `data` | try_push, try_pop, size_approx | `LockFreeQueue`, `BoundedFifo`, `WordArithmetic`, `RingArithmetic` |
| Logger | `logger.hpp` | `queue_`, `running_`, `min_level_`, flush generations, two condition variables, the drain thread | log, set_level, flush, drain_loop, destructor | `Logger`, `FlushedLog` |
| PriorityScheduler | `scheduler.hpp` | the heap `queue_`, `next_seq_`, `stopped_`, `cv_` | push, try_pop, wait_and_pop, shutdown | `PriorityScheduler`, `PriorityLanes` |
| AsyncResult | `async_result.hpp` | a future and a pool pointer | get, wait, valid, then | `AsyncResult`, `ResultChain` |
| Pipeline | `pipeline.hpp` | `chain_`, `initial_`, a pool reference | create, then, run | `Pipeline` |
| CoroTask, PoolScheduler | `coro_task.hpp` | the coroutine frame, its promise, the external promise | get, resume, done, destruction, `co_await pool.schedule()` | `CoroTask`, `LazyTask` |
| AsioContext, DelayAwaiter | `asio_context.hpp` | `io_ctx_`, `work_guard_`, `io_futures_` | constructor, async_after, post, delay, destructor | `AsioContext`, `DeferredCalls` |
| Task | `task.hpp` | a callable, a priority, a name | execute | not modelled |

How they interact:

- `ThreadPool` owns a `TaskQueue`. A submitter pushes under the queue's mutex
  and notifies after the unlock; the workers sleep in `wait_and_pop` with their
  jthread's stop token. `shutdown()` closes the queue, notifies everybody, and
  requests stop worker by worker; each `request_stop` runs the callback that a
  sleeping `wait` registered.
- `AsyncResult::then`, `Pipeline::run`, `PoolScheduler` and `AsioContext` are
  clients of `ThreadPool::submit`; all but `Pipeline` submit callables that
  block a worker or resume other code.
- `LockFreeQueue`, `PriorityScheduler` and `Logger` stand alone: nothing in the
  repository connects them to the pool.

What is hard, and what makes each part correct:

- **ThreadPool.** Lost wakeups (the notify is outside the lock), two pop loops
  on one queue while the pool shuts down, calls on the pool from its own
  callables, a constructor that fails half way. Correct when accepted tasks
  start in order, each runs once and settles its future, no wakeup is lost, no
  task is left behind, and the destructor returns.
- **LockFreeQueue.** Everything is an interleaving of atomic accesses: stale
  positions, a producer suspended between claiming and publishing a slot,
  relaxed orderings. Correct when it is a FIFO of at most `capacity_` elements,
  free of data races, that refuses only for a reason.
- **Logger.** `running_` is written outside the mutex, the wait predicate does
  not know about flushes, `pending` is read before the sink runs and used
  after it, and the sink may log. Correct when no entry is lost, doubled or
  overtaken, `flush()` returns behind everything queued before it, and the
  destructor returns with nothing left.
- **PriorityScheduler.** The order of the heap, stop tokens and notifications
  of several kinds. Correct when it is one FIFO per priority, no wakeup is lost
  and a waiting thread can always be released.
- **AsyncResult.** Continuations block workers on tasks that may still be
  queued, exceptions go through a chain, a future is moved away before a
  `submit()` that may throw. Correct when some worker can always go on, every
  accepted call settles, and the first exception is the result of the rest.
- **Pipeline.** A chain is nested inside out and moved from builder to builder;
  nothing forbids to use a builder that was moved from. Correct when a run
  applies the stages in the order of the calls and no stage runs twice.
- **CoroTask.** The frame is shared by the owner, a worker and an io thread
  without a lock: it may be resumed before the `await_suspend` that handed it
  over has returned, and destroyed as soon as the result is signalled. Correct
  when one thread at a time is in it, none behind its destruction, and `get()`
  returns the result.
- **AsioContext.** Its threads are tasks in somebody else's queue; the
  destructor stops them wherever they are, and a constructor may fail half way.
  Correct when no thread outlives `io_ctx_`, every future settles, and the
  destructor returns.

`PROJECT.json` lists every such hazard at the line where it bites.

## 2. Plan

| Step | Modules | State |
|---|---|---|
| 1 | `TaskQueue`, `ThreadPool` refining `TaskExecutor` | checked and proved |
| 2 | `LockFreeQueue` refining `BoundedFifo`; `WordArithmetic`; `RingArithmetic` | checked and proved |
| 3 | `Logger` refining `FlushedLog` | checked and proved |
| 4 | `PriorityScheduler` refining `PriorityLanes` | checked and proved |
| 5 | `AsyncResult` over `TaskExecutor`, refining `ResultChain` | checked and proved |
| 6 | `Pipeline` over `TaskExecutor` | checked and proved |
| 7 | `CoroTask` over `TaskExecutor`, refining `LazyTask` | checked and proved |
| 8 | `AsioContext` over `TaskExecutor`, refining `DeferredCalls` | checked and proved |

"Proved" means the safety properties and the safety half of the refinement;
liveness stays with TLC. What could be added: calls of `get()` and of
`~AsioContext()` on the pool's own workers, which can wait for one another for
ever, and coroutines that await other coroutines. The code has no answer to the
former and no support for the latter (section 6).

Steps 5 to 8 use `TaskExecutor` instead of `ThreadPool`, which step 1 proves to
implement it: what a client may rely on is exactly that specification.

## 3. The modules

### TaskQueue and ThreadPool

`TaskQueue` has the three variables of the class, `waiters` standing for the
threads asleep on `cv_`. A critical section is one operator; `ThreadPool`
EXTENDS it and says which thread performs it.

| Code | Definition |
|---|---|
| `push()` to the unlock, both results | `PushAccepted`, `PushRefused`, in `SubmitAccepted`, `SubmitThrows` |
| `cv_.notify_one()` after the unlock | `NotifyOne` |
| `wait_and_pop()` | `WaitAndPop`: `WaitTakes`, `WaitReturnsNullopt`, `WaitSleeps` |
| `try_pop()` in the drain loop | `Drain` |
| `queue_.shutdown()`, then `notify_all` | `EnterShutdown`, `NotifyAll` |
| `for (auto& w : workers_) w.request_stop()` | `RequestStop`, `StopCallback`, `NextWorker` |
| constructor, constructor that throws | `Spawn`, `SpawnThrows` |
| `~ThreadPool()`, then `~vector<jthread>` | `Destroy`, `StartJoining`, `JthreadRequestStop`, `Join` |
| running the callable | `Finish`; before it, the worker may make any call (`MayCall`) |

A callable is a model value that is submitted at most once. While it runs it
may submit and shut down like any client, and it ends in a value or an
exception. Waking up without a notification is `Spurious`. The mutex is not a
variable: no thread does anything visible between its lock and unlock.
`submit_async()` is `submit()` with a pointer added, and `size_approx()`,
`thread_count()` and `is_shutdown()` only read.

`TaskExecutor` is the pool seen from outside: a FIFO queue, a status for each
task, at most `NumThreads` running. Under the mapping in `ThreadPool`, a task
is "running" from the pop to the setting of its future.

### LockFreeQueue

One action for each access to a shared location: the load of a position
(`TryPush`, `PushReload`), the load of the slot's `sequence` with the branch
that it decides (`PushCheck`, `PushFull`), the weak compare-exchange, which may
fail for no reason (`PushCas`), the access to the data (`PushWrite`) and the
store of the sequence (`PushPublish`); the same five for `try_pop`. The two
overloads of `try_push` are the same algorithm and differ in copy or move.

The interleaving of the atomics is sequentially consistent. What
`memory_order` adds is kept in three history variables: `ver` counts the
accesses to a slot's data, `rel` how many of them the last release store of the
sequence publishes, `seen` how many a thread has acquired. The
compare-exchanges are relaxed in the code and move nothing here. `NoDataRace`
then says that whoever touches a slot has seen every earlier access to it.

Everywhere but in `size_approx()` a thread loads one position, then the slot
that it names, so that an interleaving explains what it finds. `size_approx()`
loads both positions, relaxed, and nothing orders the loads: `SizeApprox` performs
either first (`"sizeDeq"` and `"sizeEnq"` name the load that is to come). If
`enqueue_pos_` comes first, the result lacks what was pushed between the loads;
if `dequeue_pos_` does, it has what was popped in between too much, and may
exceed the capacity. `SizeWithinOverlap` says that it is never off by more, in
either order, and never wraps; so it is exact where nothing overlaps the call.

In `LockFreeQueue` a position is a natural number that does not wrap and
`Capacity` is given. `WordArithmetic` EXTENDS it with the words of the code, of
which `HalfWord` are not negative: `WordDifferences` is the signed difference of
two words, with both values that a compiler may produce where the subtraction
overflows. `WordsAgree` says that a thread which looks at its slot after any
number of rounds through the ring, past the wrap of the words, looks at the slot
and computes the difference that `LockFreeQueue` says, unless others have left it
behind by half of all words. The subtraction overflows only between a word below
`HalfWord` and one at or beyond it; both builds are right everywhere else, and
the one that wraps is right there too. `RingArithmetic` EXTENDS this with bits,
`WordBits` of them: `RoundUpPow2` is the constructor's computation with its six
shifts and ors (`Smear`), `WordSlot` is `pos & mask_`, and `CapacityAndMask` says
what the constructor makes of every request, and that the mask selects the slot
that the remainder does. A word is the number with given `Bits`, and the
only recursion is in functions, so that the same definitions are checked with
words of 5 bits and proved about for words of 2 to 64.
The difference in `size_approx()` is modelled on the numbers only.

### Logger

| Code | Definition |
|---|---|
| `log()`: level test; push; notify | `Log`, `Enqueue`, `LogNotify` |
| `flush()`: draw a generation; notify; wait | `Flush`, `FlushNotify`, `FlushSleep`, `FlushWakeup`, `FlushReturn` |
| `~Logger()` | `Destroy` (its flush), `StoreRunning`, `StopNotify`, `Join` |
| `while (running_ \|\| !queue_empty())` | `CheckRunning`, `CheckEmpty` |
| `cv_.wait_for(lock, 10ms, pred)` | `TakeBatch`, `Doze`, `FallAsleep`, `SpuriousWakeup`, `Timeout` |
| the batch | `SwapBatch`, `SinkCall`, `SinkReturn`, `BatchDone`, `NotifyFlushers` |

The mutex is visible in one place. `~Logger()` stores `running_` and notifies
without it, so the drain thread's evaluation of the predicate and its falling
asleep are two steps (`dpc = "dozing"`), during which no caller can take the
mutex and the destructor can still store and notify in vain. A sink may log,
on the drain thread (`SinkMayLog`). It returns and does not call `flush()`.

`FlushedLog` is what the class promises: the sink receives the accepted entries
in order; `flush()` ends behind those that were accepted before it began;
destruction ends behind all of them.

### PriorityScheduler

`queue_` is a set of records; `Top` is the element that the heap puts in front
according to `operator<`. `wait_and_pop` ignores the result of `cv_.wait` and
looks at the queue, as the code does. Each thread waits with its own stop
token, which somebody else may stop (`RequestStop`, `StopCallback`).
`PriorityLanes` is a FIFO for each priority.

### AsyncResult

A task is one call of `submit_async()` or `then()` together with the
`AsyncResult` it returns.

| Code | Definition |
|---|---|
| `submit_async()` | `SubmitAsync`, `SubmitAsyncThrows` |
| `then()`: the future moved into a shared pointer, the submit | `Then`, `ThenThrows` (the future is lost with the callable) |
| `get()` by a user | `Get` |
| a worker takes the task | `TakeNext` |
| the task: `shared->get()` returns, the continuation is called | `Call` |
| the task: `shared->get()` throws | `Rethrow` |
| the callable returns or throws into the `packaged_task` | `Return` |

A task that is running and has not been called blocks its worker until its
predecessor has settled (`Ready`). Any thread may make the calls, a callable
among them. `ResultChain` is the promise without a pool: chains of calls that
settle in order, each with a value, its own exception or the one before it. That a
`then()` on a closed pool loses the result it was called on ("lost") is what the
code does, and no property calls it an error.

### Pipeline

`Then` and `RunPipeline` move `chain_` and `initial_` out of the object, as the
code does. A moved-from `move_only_function` is empty; a moved-from `T` is left
as it was or not (`MovedFrom`), because the code does not say which. The source
of the innermost stage is the value that its lambda captured. `built` is a history
variable that records what the user asked for, and a value is the sequence of
what made it, so that the order of the stages shows in the result. `RunThrows`
is a `run()` on a closed pool, which has consumed the chain.

### CoroTask

A thread is named after what it does: a `CoroTask` variable for the thread that
uses it, a task for the worker that runs it, a coroutine for the io thread that
handles its timer.

| Code | Definition |
|---|---|
| a coroutine function is called; `initial_suspend` | `Create` |
| move construction and assignment, `~CoroTask()` | `Move`, `Destroy` |
| `resume()` | `Resume` |
| `get()` | `GetDone`, or `GetAttach`, `GetResumes`, `GetReturns` |
| `co_await pool.schedule()` | `AwaitSchedule`, `AwaitScheduleThrows`; on the worker `TakeNext`, `TaskResumes`, `TaskReturns` |
| `co_await asio.delay()` | `AwaitDelay`; on the io thread `TimerFires` |
| `return_value`, `unhandled_exception` | `BodyEnds` |
| `final_suspend`, `FinalAwaiter::await_suspend` | `FinalSuspend`, `TestPromise`, `SetPromise` |
| `~ThreadPool()` begins, `~AsioContext()` | `PoolCloses`, `IoStops` |

`final_suspend` is three steps because the coroutine is `done()` after the first
and its owner may be told after the last only. A task that was handed a frame
resumes it whatever has become of it (`Enter`), so a wrong handover shows as a
second thread in a frame. `away` is a history variable: the coroutines that were
handed to another thread and whose `get()` has not returned since. Their owner
leaves them alone, which is the use the header describes (section 6 says what
the code does otherwise).

`LazyTask` is the promise without threads: nothing runs before it is asked for,
it runs to one result, `get()` returns that result when no thread needs the
frame, and the frame goes away while nobody runs or awaits it.

### AsioContext

| Code | Definition |
|---|---|
| the constructor's loop of `pool_.submit(run)` | `SubmitRun`, `Constructed` |
| ... that throws: the members are destroyed | `SubmitRunThrows`, `UnwindIoContext` |
| `post()`, `async_after()`, `get_io_context()` | `Post`, `AsyncAfter`, `Custom` |
| `io_ctx_.run()` on a worker | `TimerExpires`, `RunHandler`, `RunReturns` |
| a handler returns; a custom one throws out of `run()` | `HandlerReturns`, `HandlerThrows` |
| `~AsioContext()` | `ResetGuard`, `Stop`, `DestroyMembers` |

The io_context belongs to Boost and is modelled from the use the code makes of
it: `run()` executes handlers while there is work and nobody has called
`stop()`; the work guard counts as work. The pool has other tasks as well and
may be shut down at any time. `DeferredCalls` is what the futures promise: each settles
once, by a call that ran while the context was alive, or broken by its end.

### Wrong variants

An operator named `…Mutant` is a plausible error in the definition it stands
next to: a forgotten notification, a dropped test, a swapped order. It is not
part of the model. For every property of every passing run, `PROJECT.json`
names a variant which, put in the place of the definition, makes TLC refute the
property.

## 4. The runs

| Run | Instance | States | Shows |
|---|---|---|---|
| `pool` | 2 workers, 1 client, 2 tasks | 68 406 | `TypeOK`, `FifoNoLoss`, `Custody`, `NoLostWakeup`, `NothingAbandoned`; `ExecutorSpec`, the refinement of `TaskExecutor` with its fairness; `DestructorReturns` |
| `pool_shutdown` | as `pool` | | refutes `ShutdownReturnsAfterExit` |
| `lockfree` | 3 threads, 3 elements, 2 slots, words of 5 bits | 384 195 | `TypeOK`, `NoDataRace`, `CapacityAndMask`, `WordsAgree`, `OutcomesHaveReasons`, `SizeWithinOverlap`; `FifoSpec`, the refinement of `BoundedFifo` |
| `lockfree_empty` | as `lockfree` | | refutes `NulloptMeansEmpty` |
| `logger` | 2 users, 2 messages, 2 levels, 1 flush | 24 438 | `TypeOK`, `NothingLost`, `FlushBarrier`; `FlushedLogSpec`, the refinement with its fairness; `DestructorReturns` |
| `scheduler` | 3 threads, 2 tasks, priorities 0, 1, 3 | 102 254 | `TypeOK`, `NoLostWakeup`; `LanesSpec`, the refinement of `PriorityLanes`; `WaitReturns` |
| `async` | 4 tasks, 2 workers | 77 873 | `TypeOK`, `SomeWorkerAdvances`, `FirstExceptionWins`; `ChainsSpec`, the refinement of `ResultChain` with its fairness |
| `pipeline` | 4 pipelines, 3 stages, 2 runs, 2 workers | 18 312 | `TypeOK`, `RunsApplyStages` |
| `coro` | 2 objects, 2 coroutines, 2 calls of `schedule()`, 2 workers | 356 248 | `TypeOK`, `OneThreadInFrame`, `OneResumption`; `LazySpec`, the refinement of `LazyTask`; `GetEnds` |
| `asio` | 2 io threads, 3 workers, 2 other tasks, 2 handlers | 108 510 | `TypeOK`, `RunsSpanLifetime`; `CallsSpec`, the refinement of `DeferredCalls`; `FuturesSettle`, `DestructorReturns`, `OthersRun` |
| `asio_abandons` | 1 io thread, 1 worker, 1 handler | | refutes `PendingHandlersFinish` |
| `asio_unwinds` | 2 io threads, 2 workers, 1 handler | | refutes `RunsEndBeforeIoContext` |

Safety and liveness of a component are checked in the same run. Symmetry is
used where there is no liveness: in the lock-free queue, whose threads and
values are interchangeable, and in the pipeline.

**Bounds.**

- *Pool.* Two workers are the fewest with one asleep, draining or gone while the
  other runs; two tasks leave one queued, or on its way to a sleeper, behind one
  that runs. The client, the callables and the owner call concurrently, and the
  number of calls of `shutdown()` is not bounded.
- *Lock-free queue.* Two slots are the smallest ring the constructor allows;
  three elements wrap around it, and three threads allow a third to overtake
  two that are suspended between two accesses. Five bits are enough for every
  request of a capacity, sixteen rounds and the wrap; the proof of
  `WordsAgree` is for any width.
- *Logger.* Two messages put one in the sink or in the batch and one in the
  queue. `MaxFlushes` bounds the generations drawn by users; the destructor
  draws one more, so that two overlap.
- *Scheduler.* Two threads may sleep while the third pushes, stops or shuts
  down; two tasks of one priority show the order by number, of two the order
  by priority.
- *AsyncResult.* Four tasks on two workers are a chain of four, of which two
  continuations hold both workers while the rest is queued, or two chains that
  compete.
- *Pipeline.* A chain of three stages needs four pipelines; with fewer stages
  the others are used again after they were moved from, by two runs.
- *CoroTask.* Two coroutines that compete for two workers; two calls of
  `schedule()`, by one coroutine or by both, and any number of delays.
- *AsioContext.* Two io threads, so that one is in a handler while the other
  waits, throws or is still queued; three workers leave one to the other tasks.

No other counter is bounded except by the finite sets of tasks, values and
messages, each of which is used once. The proofs of section 5 do without these
bounds.

**Deadlock** is checked in every run. A pool, a logger or a context that is
gone stutters by `Terminated`, and so do coroutines all of whose owners are at
rest.

### Fairness

- *ThreadPool.* Every thread that has a next step takes it: weak fairness of
  the constructor, of the destructor, of the steps inside a call, and of each
  worker. `Finish` has strong fairness, because a callable may make calls (in
  which it cannot finish) and returns in the end; a callable that never returns
  is not the pool's error. Nobody has to submit, shut down or destroy, and
  there is no fairness of spurious wakeups, so a lost notification would show.
- *Logger.* Weak fairness of the drain thread and of the callers' steps without
  the mutex. `Timeout` has strong fairness: the deadline of `wait_for` is
  absolute, so wakeups cannot put it off for ever. `Enqueue` and `FlushReturn`
  need the mutex, which the drain thread leaves during its wait of up to 10 ms
  in every round: strong fairness. `FlushWakeup` (a spurious one) has none.
  A message is logged once, so the sink logs finitely many: a sink that logs in
  every call would keep the queue from ever being empty, and `~Logger()` from
  returning.
- *PriorityScheduler.* Weak fairness of the steps inside a call and of the stop
  callback.
- *AsyncResult.* What `TaskExecutor` guarantees, and callables that return. Nobody
  has to call `get()`, `then()` or `shutdown()`.
- *CoroTask.* Weak fairness of the threads' steps and of the timers while the
  `AsioContext` is alive. Strong fairness of the end of a body, which may
  suspend again and again: a coroutine that never ends is not the library's
  error.
- *AsioContext.* Weak fairness of the constructor, of the workers, of the threads
  in `run()`, and of the destructor once it has begun; timers expire and
  callables return.
- *Pipeline.* None: a run is one task, and that tasks settle is shown of the
  pool.
- *LockFreeQueue.* None. A single thread may lose the compare-exchange for
  ever, so no operation has to end, and only safety is stated.

### What the code does differently from its comments

- `src/thread_pool.cpp:68-70` says at the end of `shutdown()` that the workers
  must have exited their loops. They need not have: `shutdown()` waits for
  nobody, only `~jthread` does (`pool_shutdown`).
- `lockfree_queue.hpp:197` says of the `nullopt` branch of `try_pop` that the
  queue is empty. The branch is also taken while the oldest push is claimed and
  not published, with finished pushes behind it (`lockfree_empty`). What holds
  is `OutcomesHaveReasons`.
- `asio_context.hpp:44-45` says that the context stops when all pending handlers
  have finished. The destructor calls `stop()` (line 145), which leaves them:
  they are destroyed and their futures broken (`asio_abandons`). What holds is
  `CallsSpec` with `FuturesSettle`.
- `asio_context.hpp:138-142` says why every `run()` must return before `io_ctx_`
  is destroyed, and the destructor waits for that. The constructor does not: if a
  later `submit()` throws (line 133), `io_ctx_` goes away under the tasks that
  were submitted before (`asio_unwinds`).

Noted while reading, with no run of their own:

- `lockfree_queue.hpp:49-50` speaks of acq_rel compare-exchanges; they are
  relaxed. `NoDataRace` shows that the acquire and release of `sequence` suffice.
- `lockfree_queue.hpp:210` calls `size_approx()` racy and promises no bound; it
  may be more than `capacity()`, because its loads are relaxed (lines 212-213).
- `task_queue.hpp:77-80` says that `wait_and_pop` returns nullopt when stop is
  requested. With a task in the queue it returns the task, stopped or not, so
  that the queue drains.
- The header of `logger.hpp` promises a lock-free MPSC queue and one CAS for
  each message; the code has a mutex and a deque.
- `flush()` of an idle logger is not noticed by the wait predicate and returns
  only after the 10 ms timeout.
- `pipeline.hpp:10-12` says that each stage runs as a task and that stages run
  concurrently; `run()` submits one task that runs them one after the other.
- `pipeline.hpp:22-23` says that `run()` returns a future for the final result. A
  second `run()` of the same object returns one for a default or moved-from
  value; `ResultAsBuilt` speaks of the runs that still had their initial value,
  and of the others only `NoStageRunsTwice` says anything.
- `docs/project_guide.md:27` says of `then()` that it chains instead of blocking
  the executing thread. The continuation's task blocks its worker in `get()`.
  What holds is `SomeWorkerAdvances`.
- `coro_task.hpp:284-287` says that `get()` works for coroutines scheduled on the
  pool. After a `resume()` that has handed the coroutine to the pool, it does
  not: `get()` resumes the frame a second time.
- `docs/project_guide.md:49` gives `AsioContext` a fleet of jthreads of its own;
  it uses workers of the pool, which are then missing there. `OthersRun` is about
  a pool with a worker to spare; as many io threads as workers leave none to
  anybody else.
- The "Timer error" branch (`asio_context.hpp:189-196`) is not reached: nobody
  cancels the timer, and `stop()` does not run its handler.

## 5. The proofs

Each component with a state machine has a module of proofs. The assumptions are
those that the modules state about their constants: at least one worker; finite
sets of clients, of scheduler threads and of io threads; priorities from 0 to 3;
a ring of at least two slots, of which a whole
number fits the words, less than half of them; threads of different kinds, and pipelines and
stages, being different; `NoTask` and its like being none of the tasks. Nothing
is assumed of the sizes.

| Theorem | Says |
|---|---|
| `ThreadPoolProofs!TypeCorrect` | `SafeSpec => []TypeOK` |
| `ThreadPoolProofs!Fifo` | `SafeSpec => []FifoNoLoss` |
| `ThreadPoolProofs!WakeupsSuffice` | `SafeSpec => []NoLostWakeup` |
| `ThreadPoolProofs!CustodyHolds` | `SafeSpec => []Custody` |
| `ThreadPoolProofs!NothingAbandonedHolds` | `SafeSpec => []NothingAbandoned` |
| `ThreadPoolProofs!ImplementsExecutor` | `SafeSpec => ExecutorSafeSpec` |
| `ThreadPoolProofs!DestructorNeverStuck` | `SafeSpec => []SomebodyMoves` |
| `LockFreeQueueProofs!TypeCorrect` | `Spec => []TypeOK` |
| `LockFreeQueueProofs!NoRace` | `Spec => []NoDataRace` |
| `LockFreeQueueProofs!SizeOffByOverlap` | `Spec => SizeWithinOverlap` |
| `LockFreeQueueProofs!OutcomesJustified` | `Spec => OutcomesHaveReasons` |
| `LockFreeQueueProofs!ImplementsFifo` | `Spec => FifoSpec` |
| `LockFreeQueueProofs!WordsSuffice` | `Spec => []WordsAgree` |
| `LockFreeQueueProofs!CapacityFits` | `Spec => []CapacityAndMask` |
| `LockFreeQueueProofs!ConstructedCapacity` | what the constructor computes is a `Capacity` as the other theorems assume it |
| `LoggerProofs!TypeCorrect` | `SafeSpec => []TypeOK` |
| `LoggerProofs!NothingLostHolds` | `SafeSpec => []NothingLost` |
| `LoggerProofs!FlushBarrierHolds` | `SafeSpec => []FlushBarrier` |
| `LoggerProofs!JoinOnlyDrains` | `SafeSpec => []DestructorServed` |
| `LoggerProofs!ImplementsFlushedLog` | `SafeSpec => FlushedLogSafeSpec` |
| `PrioritySchedulerProofs!TypeCorrect` | `SafeSpec => []TypeOK` |
| `PrioritySchedulerProofs!WakeupsSuffice` | `SafeSpec => []NoLostWakeup` |
| `PrioritySchedulerProofs!ImplementsLanes` | `SafeSpec => LanesSpec` |
| `AsyncResultProofs!TypeCorrect` | `SafeSpec => []TypeOK` |
| `AsyncResultProofs!WorkersAdvance` | `SafeSpec => []SomeWorkerAdvances` |
| `AsyncResultProofs!ResultsNeverStuck` | `SafeSpec => []ResultsServed` |
| `AsyncResultProofs!FirstExceptionIsTheResult` | `SafeSpec => []FirstExceptionWins` |
| `AsyncResultProofs!ImplementsChains` | `SafeSpec => Chains!SafeSpec` |
| `PipelineProofs!TypeCorrect` | `SafeSpec => []TypeOK` |
| `PipelineProofs!StagesInOrder` | `SafeSpec => []RunsApplyStages` |
| `CoroTaskProofs!TypeCorrect` | `SafeSpec => []TypeOK` |
| `CoroTaskProofs!OneThread` | `SafeSpec => []OneThreadInFrame` |
| `CoroTaskProofs!OneToResume` | `SafeSpec => []OneResumption` |
| `CoroTaskProofs!ImplementsLazy` | `SafeSpec => LazySpec` |
| `CoroTaskProofs!GetNeverForgotten` | `SafeSpec => []GetServed` |
| `CoroTaskProofs!HandlesLegal` | `SafeSpec => HandlesUsedRightly` |
| `CoroTaskProofs!PromiseSetOnce` | `SafeSpec => []SignalledOnce` |
| `AsioContextProofs!TypeCorrect` | `SafeSpec => []TypeOK` |
| `AsioContextProofs!RunsSpan` | `SafeSpec => []RunsSpanLifetime` |
| `AsioContextProofs!ImplementsCalls` | `SafeSpec => CallsSpec` |
| `AsioContextProofs!DestructorNeverStuck` | `SafeSpec => []DestructorServed` |
| `AsioContextProofs!FuturesNeverStuck` | `SafeSpec => []FuturesServed` |
| `AsioContextProofs!OthersNeverStarve` | `SafeSpec => []OthersServed` |

In each module `Inv` is the inductive invariant and `Invariance` the theorem that
it holds; the properties follow from it.

**The pool.** None of its properties is inductive alone. `Inv` is
`Inv1 /\ FifoNoLoss /\ NoLostWakeup /\ CustodyInv /\ JoinInv`.

- `Inv1` is about control: nobody has called a pool that is not constructed
  (`UnusableInv`), what each phase says of `workers_` and of the owner
  (`PhaseInv`), who may be inside a call (`CallInv`), the queue is closed before
  any worker is stopped (`StopInv`), and a worker that has exited saw the queue
  empty (`WorkerInv`). `TypeOK` needs it: an index stays inside `workers_` only
  because every call begins after the constructor is done.
- `NoLostWakeup` has two parts. `TaskWakeups` is a counting argument: a step
  that adds a task adds a notifier; one that removes a notifier wakes a sleeper
  or finds none; one that puts a worker to sleep finds the queue empty.
  `StopWakeups` is about the end: a worker sleeps with its stop requested, or in
  a closed queue, only while a stop callback, or a `notify_all`, is still to come.
- From it follows that `~ThreadPool()`, or a constructor that unwinds, never
  waits for everybody while everybody waits (`DestructorNeverStuck`): a worker
  that is to be joined and does not sleep has a step, and one that sleeps has
  somebody about to wake it. With the fairness this is what
  `DestructorReturns` rests on.
- `CustodyInv` says of a task what can be proved by cases (pending exactly when
  queued or held, at one position, by one worker, never both); `Custody` counts
  the same places by cardinalities and follows from it.
- `JoinInv` says that the workers the destructor has joined have exited; with
  `StopInv` and `WorkerInv` it gives the empty queue behind `Retire`.

**The logger.** `Inv` is
`TypeOK /\ ThreadInv /\ StopInv /\ BatchInv /\ NothingLost /\ FlushBarrier`.
`BatchInv` is the strengthening of `FlushBarrier`: while a batch is being
written, whatever the generation `pending` covers is in the sink or in the
rest of the batch; that makes `flush_gen_done_ = pending` correct at the end.
`StopInv` says that the loop ends only behind the destructor's store and with an
empty queue, which gives the last promise of `FlushedLog`. The second part of
`FlushBarrier`, `FlushWakes`, says that no `flush()` is left behind: one that
sleeps with its generation done is about to be notified, and the drain thread
does not leave while one waits. `StoppedInv`, kept besides, follows the destructor
behind its flush: when it joins, what was logged before it began is written, and
the drain thread has been told to end (`JoinOnlyDrains`).

**The lock-free queue.** `Inv` says what the sequence of a slot means. With
position n of slot i, the sequence n means "free for the push of n", n + 1
"full, for the pop of n" (`SlotInv`); the positions are at most a round apart, and
a loaded one is never ahead of the shared one (`BoundsInv`), from which
`SizeWithinOverlap` follows by arithmetic. Between its
compare-exchange and its store a thread owns the slot, alone (`OwnerInv`). A
thread at its compare-exchange that still has the current position finds the slot in the state
it saw (`CasInv`); that is why the relaxed compare-exchange is enough. `DataInv`
ties the data and the values in flight to the sequence of all pushes. `RaceInv` follows the release and acquire
of the sequence, and `NoDataRace` is its part for owners. For `WordsAgree`,
`SlotInv` and `BoundsInv` give that the sequence which a thread finds is at most a
round behind what it expects; the rest is arithmetic of remainders, with a
symbolic word size. For `OutcomesHaveReasons`, `RetryInv` is kept besides `Inv`: a
thread that is about to load a position again has been overtaken, since the slot
it found beyond its position was used by others in a later round. A failed
compare-exchange finds another position than its own as well, unless the weak one
fails for nothing. So a turn of the loop that is lost is somebody's progress,
which is the safety of being lock-free.

**The words of the ring.** `CapacityFits` and `ConstructedCapacity` are about the
constructor's bits. The induction theorems of the library cannot be instantiated
here, so induction is done on sets: `NatInductive` says that a set of naturals
with 0 and with the successor of each member is all of them, from the fact that
every set of naturals has a least member, which is the library's `WFMin`. With it follow the
powers of two, that shifting twice is shifting once, that a word is determined by
its bits (`BitsUnique`) and that every set of bits is a word's (`BitsExist`). The
six steps of the constructor double, one after the other, the number of bits set
below the highest (`SmearDoubles`), up to 64 of them (`SmearFills`); adding one
gives the least power of two that holds the request (`RoundedUp`, `LeastPower`).
The bits of a remainder by a power of two are the lower ones, which makes the
mask right (`Masked`). `ConstructedCapacity` closes the circle: what the
constructor computes is what `CapacityAssumption` and `WordAssumption` ask of
`Capacity`, but for being less than half of all words, which memory sees to.

**The scheduler.** `NoLostWakeup` is inductive with the types, in the same two
parts as for the pool. For `ImplementsLanes`, the lane of a priority is the
sequence of its tasks by number: pushing draws the largest number and so appends
to one lane; popping takes the head of the highest lane that is not empty.

**AsyncResult.** The heart is `OrderInv`: a continuation never starts before its
predecessor, because `then()` submits it later and the pool is FIFO. So whoever
follows the predecessors of a task on a worker meets only tasks that have started,
and ends at one on a worker whose predecessor, if any, has settled
(`SomeWorkerAdvances`), whatever the number of workers. With nobody on a worker
the head of the queue has one (`ResultsNeverStuck`). `OutcomeInv` says
how the exceptions spread along a chain.

**Pipeline.** The invariant says where each stage is: in one chain at one place,
or in one run at one place, never in both (`ChainPlaces`, `WorkPlaces`,
`Apart`), where the work of a run is what it has applied followed by what is
left. `OrderInv` says that a value which still begins with its pipeline is what
was built, and that otherwise there is no initial value in it.

**CoroTask.** A coroutine that has been started is in the hands of one thread, or
of one resumption to come, or done. `at` says which frame each thread is in and
`due` which coroutine each task or timer will resume; `AtInv` and `DueInv` say
that there is never more than one of both together for a coroutine, and that
there is exactly one as long as it is neither lazy nor done. `GetInv`,
`SignalInv` and `ResultInv` follow the promise from `get()` to the final awaiter
and back. `WaitInv`, inductive with `Inv`, says that the coroutine of a `get()`
that is blocked is never left alone: some thread is in its frame, or its
resumption is to come. That is the safety of `GetEnds` (`GetNeverForgotten`). A
timer whose io_context has stopped is the exception that both name (`Stranded`):
the code has nothing that ends such a wait. To `OneResumption` that timer is
still a resumption to come, although nobody will handle it.
`HandlesLegal` draws from the same invariant what the language asks of whoever
holds a `coroutine_handle`: it is resumed only where it is suspended and not
done, with no other thread in it, and destroyed only suspended or done, with no
thread in it and no task or timer left that would resume it. That is of the
header's use of the object; section 6 has the others.

**AsioContext.** `ThreadInv` and `PhaseInv` say which `run()` tasks may exist in
which phase; `SpanInv` counts them: while the context is open, one is missing
for each custom handler that threw. `PromiseInv` says that a future is pending
only as long as its handler waits or runs. `QueuedInv` and `WaitInv` are kept
besides: an accepted task is in the queue until it is taken, and a destructor
that waits has all its `run()` tasks submitted and the context stopped. So
whenever a `run()` task has not settled there is one that runs, a handler that
runs, a task of somebody else that runs, or a free worker with a task to take,
which is the safety under `DestructorReturns` and `FuturesSettle`. The threads in
`run()` occupy no more workers than there are `run()` tasks, so with one more
worker the others' tasks never wait for them alone (`OthersNeverStarve`, under
`OthersRun`).

**Only model-checked:** liveness (the fairness of `ExecutorSpec`,
`FlushedLogSpec` and `ChainsSpec`; `DestructorReturns` of the pool, the logger
and the context; `WaitReturns`, `GetEnds`, `FuturesSettle`, `OthersRun`), which
is out of the prover's reach as ENABLED is. What is proved of them is their
safety: that no wakeup is lost, and that whoever waits, waits for somebody who
can move. Every invariant and every other action property that a passing run
checks is proved.

## 6. What is not modelled

- Undefined behaviour that a user of the library can cause: destroying a pool,
  a logger, a scheduler or a context while a thread is inside a call, or a pool
  from one of its workers; a callable that calls `shutdown()` while
  `~vector<jthread>` is joining reads jthreads that are being destroyed (the
  model lets it read their stop state).
- Coroutines used otherwise than the header describes: `resume()` followed by
  `get()`, `done()` or a destructor while another thread has the coroutine.
  These are data races, and the second resumption of one frame. Neither
  awaitables other than `schedule()` and `delay()`, nor coroutines that call
  `get()` of others.
- Waiting on the pool's own workers outside `then()`: `get()` of a future or a
  coroutine in a callable, and `~AsioContext()` on a worker. With every worker in
  such a wait nothing moves; the library has no means against it.
- A sink that throws (`std::terminate`) or calls `flush()` (waits for itself).
- The effect of a `set_level()` between the test of the level and the push has
  no property: either order is what a user may expect.
- Starvation of low priorities: strict priority excludes a property against it.
- `Task`: a callable with a priority and a name that nothing constructs.
- The formatting and the default sink of the logger; the values that callables
  compute; memory exhaustion.
- Tests, benchmarks, documentation and build files.
