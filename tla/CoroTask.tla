------------------------------ MODULE CoroTask ------------------------------
(***************************************************************************)
(* ate::CoroTask and PoolScheduler (include/ate/coro_task.hpp) with        *)
(* DelayAwaiter (include/ate/asio_context.hpp): a lazy coroutine that its  *)
(* owner starts with get() or resume(), and that moves to a pool worker    *)
(* with co_await pool.schedule() and to an io thread with asio.delay().    *)
(* The pool is TaskExecutor; the io_context is reduced to the timers that  *)
(* coroutines wait for and to being alive or not (see AsioContext).        *)
(*                                                                         *)
(* A thread is named after what it does: an object stands for the thread   *)
(* that uses this CoroTask variable, a task for the worker that runs it, a *)
(* coroutine for the io thread that handles its timer.  The body of a      *)
(* coroutine awaits and ends as it likes.                                  *)
(*                                                                         *)
(* Spec is the use that the header describes: whoever lets a coroutine go  *)
(* to another thread leaves the object alone until a get() has returned.   *)
(* An operator named ...Mutant is a wrong variant of a later definition    *)
(* and not part of the model.                                              *)
(***************************************************************************)
EXTENDS Naturals, Sequences, FiniteSets

CONSTANTS
  Objects,     \* variables of type CoroTask
  Coros,       \* coroutine frames
  Tasks,       \* tasks of the pool, each one co_await pool.schedule()
  NumThreads,
  NoCoro       \* a null handle

ASSUME ThreadsAssumption == NumThreads \in Nat \ {0}

ASSUME ThreadKindsAssumption ==
  /\ Objects \cap Coros = {} /\ Objects \cap Tasks = {} /\ Tasks \cap Coros = {}
  /\ NoCoro \notin Coros

VARIABLES
  accepting, queue, status, retired,  \* the pool, see TaskExecutor
  handle_,   \* [Objects -> Coros \cup {NoCoro}]
  frame,     \* [Coros -> FrameState]
  result_,   \* [Coros -> Result]: result_ and exception_ of the promise
  external_promise_,  \* coroutines where it is not null
  signal,    \* [Coros -> Result \cup {"pending"}]: the std::promise of get()
  pc,        \* [Threads -> PC]
  getting,   \* objects inside get()
  resumes,   \* [Tasks -> Coros \cup {NoCoro}]: the handle the task captured
  armed,     \* coroutines whose timer has been started and not handled
  io_ctx,    \* "running" or "stopped" for good
  away,      \* history: coroutines handed to another thread, with no get()
             \* returned since
  got        \* history: [Coros -> Result], what get() returned

poolVars == <<accepting, queue, status, retired>>
promiseVars == <<result_, external_promise_, signal>>
ioVars == <<armed, io_ctx>>
vars == <<poolVars, handle_, frame, promiseVars, pc, getting, resumes, ioVars,
          away, got>>

Pool == INSTANCE TaskExecutor

Threads == Objects \cup Tasks \cup Coros

(* "suspended" at initial_suspend or a co_await; "final" is done().        *)
FrameState == {"none", "suspended", "running", "final", "destroyed"}

Result == {"none", "value", "exception", "moved"}

PC == {"idle", "attached", "body", "finalSuspend", "awaitSuspend", "signal",
       "blocked", "returning"}

Init ==
  /\ Pool!Init
  /\ handle_ = [o \in Objects |-> NoCoro]
  /\ frame = [c \in Coros |-> "none"]
  /\ result_ = [c \in Coros |-> "none"]
  /\ external_promise_ = {}
  /\ signal = [c \in Coros |-> "none"]
  /\ pc = [x \in Threads |-> "idle"]
  /\ getting = {}
  /\ resumes = [t \in Tasks |-> NoCoro]
  /\ armed = {} /\ io_ctx = "running"
  /\ away = {}
  /\ got = [c \in Coros |-> "none"]

Goto(x, l) == pc' = [pc EXCEPT ![x] = l]

(* The coroutine that thread x is concerned with.                          *)
On(x) ==
  IF x \in Objects THEN handle_[x] ELSE IF x \in Tasks THEN resumes[x] ELSE x

InFrame(x) == pc[x] \in {"body", "finalSuspend", "awaitSuspend", "signal"}

(* h.resume() enters the frame, whatever state that is in.                 *)
Enter(x, c) ==
  /\ Goto(x, "body")
  /\ frame' = [frame EXCEPT ![c] = IF @ = "destroyed" THEN @ ELSE "running"]

(* h.resume() returns to its caller.                                       *)
Leave(x) ==
  Goto(x, IF x \in Tasks THEN "returning"
          ELSE IF x \in getting THEN "blocked" ELSE "idle")

-----------------------------------------------------------------------------
(* The object.                                                             *)

Create(o, c) ==
  /\ pc[o] = "idle" /\ handle_[o] = NoCoro /\ frame[c] = "none"
  /\ handle_' = [handle_ EXCEPT ![o] = c]
  /\ frame' = [frame EXCEPT ![c] = "suspended"]
  /\ UNCHANGED <<poolVars, promiseVars, pc, getting, resumes, ioVars, away, got>>

DestroyFrame(c) ==
  frame' = IF c = NoCoro THEN frame ELSE [frame EXCEPT ![c] = "destroyed"]

(* Wrong: leaves the handle where it was.                                  *)
MoveMutant(o, other) ==
  /\ pc[o] = "idle" /\ pc[other] = "idle" /\ o # other
  /\ DestroyFrame(handle_[o])
  /\ handle_' = [handle_ EXCEPT ![o] = handle_[other]]
  /\ UNCHANGED <<poolVars, promiseVars, pc, getting, resumes, ioVars, away, got>>

(* o = std::move(other), or the construction of o from other.              *)
Move(o, other) ==
  /\ pc[o] = "idle" /\ pc[other] = "idle" /\ o # other
  /\ DestroyFrame(handle_[o])
  /\ handle_' = [handle_ EXCEPT ![o] = handle_[other], ![other] = NoCoro]
  /\ UNCHANGED <<poolVars, promiseVars, pc, getting, resumes, ioVars, away, got>>

Destroy(o) ==
  /\ pc[o] = "idle" /\ handle_[o] # NoCoro
  /\ DestroyFrame(handle_[o])
  /\ handle_' = [handle_ EXCEPT ![o] = NoCoro]
  /\ UNCHANGED <<poolVars, promiseVars, pc, getting, resumes, ioVars, away, got>>

Resume(o) ==
  /\ pc[o] = "idle" /\ handle_[o] # NoCoro /\ frame[handle_[o]] # "final"
  /\ Enter(o, handle_[o])
  /\ UNCHANGED <<poolVars, handle_, promiseVars, getting, resumes, ioVars, away,
                 got>>

(* get() of a coroutine that is done(): get_result() moves the value out.  *)
GetDone(o) ==
  LET c == handle_[o] IN
  /\ pc[o] = "idle" /\ c # NoCoro /\ frame[c] = "final"
  /\ got' = [got EXCEPT ![c] = result_[c]]
  /\ result_' = [result_ EXCEPT ![c] = IF @ = "value" THEN "moved" ELSE @]
  /\ UNCHANGED <<poolVars, handle_, frame, external_promise_, signal, pc, getting,
                 resumes, ioVars, away>>

(* Otherwise get() attaches a promise, resumes, and blocks on its future.  *)
GetAttach(o) ==
  LET c == handle_[o] IN
  /\ pc[o] = "idle" /\ c # NoCoro /\ frame[c] # "final"
  /\ external_promise_' = external_promise_ \cup {c}
  /\ signal' = [signal EXCEPT ![c] = "pending"]
  /\ getting' = getting \cup {o}
  /\ Goto(o, "attached")
  /\ UNCHANGED <<poolVars, handle_, frame, result_, resumes, ioVars, away, got>>

GetResumes(o) ==
  /\ pc[o] = "attached"
  /\ IF frame[handle_[o]] = "final" THEN Goto(o, "blocked") /\ UNCHANGED frame
     ELSE Enter(o, handle_[o])
  /\ UNCHANGED <<poolVars, handle_, promiseVars, getting, resumes, ioVars, away,
                 got>>

GetReturns(o) ==
  LET c == handle_[o] IN
  /\ pc[o] = "blocked" /\ signal[c] # "pending"
  /\ got' = [got EXCEPT ![c] = signal[c]]
  /\ getting' = getting \ {o}
  /\ away' = away \ {c}
  /\ Goto(o, "idle")
  /\ UNCHANGED <<poolVars, handle_, frame, promiseVars, resumes, ioVars>>

-----------------------------------------------------------------------------
(* The body, on thread x.                                                  *)

InBody(x) == pc[x] = "body" /\ frame[On(x)] = "running"

Suspend(x) == frame' = [frame EXCEPT ![On(x)] = "suspended"] /\ Leave(x)

(* Wrong: submits and does not suspend.                                    *)
AwaitScheduleMutant(x, t) ==
  /\ InBody(x) /\ Pool!Accept(t)
  /\ resumes' = [resumes EXCEPT ![t] = On(x)]
  /\ away' = away \cup {On(x)}
  /\ UNCHANGED <<handle_, frame, promiseVars, pc, getting, ioVars, got>>

(* co_await pool.schedule(): suspended first, then submitted.              *)
AwaitSchedule(x, t) ==
  /\ InBody(x) /\ Pool!Accept(t)
  /\ resumes' = [resumes EXCEPT ![t] = On(x)]
  /\ away' = away \cup {On(x)}
  /\ Suspend(x)
  /\ UNCHANGED <<handle_, promiseVars, getting, ioVars, got>>

(* Wrong: the exception of submit() does not reach the body.               *)
AwaitScheduleThrowsMutant(x, t) ==
  /\ InBody(x) /\ Pool!Refuse(t) /\ Suspend(x)
  /\ away' = away \cup {On(x)}
  /\ UNCHANGED <<handle_, promiseVars, getting, resumes, ioVars, got>>

(* On a closed pool submit() throws: the co_await throws, the body goes on *)
(* where it is.                                                            *)
AwaitScheduleThrows(x, t) ==
  /\ InBody(x) /\ Pool!Refuse(t)
  /\ UNCHANGED <<handle_, frame, promiseVars, pc, getting, resumes, ioVars, away,
                 got>>

(* co_await asio.delay(...)                                                *)
AwaitDelay(x) ==
  /\ InBody(x) /\ io_ctx = "running"
  /\ armed' = armed \cup {On(x)}
  /\ away' = away \cup {On(x)}
  /\ Suspend(x)
  /\ UNCHANGED <<poolVars, handle_, promiseVars, getting, resumes, io_ctx, got>>

(* return_value() or unhandled_exception().                                *)
BodyEnds(x) ==
  /\ InBody(x)
  /\ \E r \in {"value", "exception"} : result_' = [result_ EXCEPT ![On(x)] = r]
  /\ Goto(x, "finalSuspend")
  /\ UNCHANGED <<poolVars, handle_, frame, external_promise_, signal, getting,
                 resumes, ioVars, away, got>>

(* Wrong: signals while the coroutine is still active.                     *)
FinalSuspendMutant(x) ==
  /\ pc[x] = "finalSuspend"
  /\ frame' = [frame EXCEPT ![On(x)] = "final"]
  /\ signal' = [signal EXCEPT ![On(x)] =
                  IF On(x) \in external_promise_ THEN result_[On(x)] ELSE @]
  /\ Goto(x, "awaitSuspend")
  /\ UNCHANGED <<poolVars, handle_, result_, external_promise_, getting, resumes,
                 ioVars, away, got>>

FinalSuspend(x) ==
  /\ pc[x] = "finalSuspend"
  /\ frame' = [frame EXCEPT ![On(x)] = "final"]
  /\ Goto(x, "awaitSuspend")
  /\ UNCHANGED <<poolVars, handle_, promiseVars, getting, resumes, ioVars, away,
                 got>>

(* FinalAwaiter::await_suspend: the test, then the rest of it.             *)
TestPromise(x) ==
  /\ pc[x] = "awaitSuspend"
  /\ IF On(x) \in external_promise_ THEN Goto(x, "signal") ELSE Leave(x)
  /\ UNCHANGED <<poolVars, handle_, frame, promiseVars, getting, resumes, ioVars,
                 away, got>>

(* Wrong: forgets the exception.                                           *)
SetPromiseMutant(x) ==
  /\ pc[x] = "signal"
  /\ signal' = [signal EXCEPT ![On(x)] = "value"]
  /\ result_' = [result_ EXCEPT ![On(x)] = IF @ = "value" THEN "moved" ELSE @]
  /\ Leave(x)
  /\ UNCHANGED <<poolVars, handle_, frame, external_promise_, getting, resumes,
                 ioVars, away, got>>

SetPromise(x) ==
  /\ pc[x] = "signal"
  /\ signal' = [signal EXCEPT ![On(x)] = result_[On(x)]]
  /\ result_' = [result_ EXCEPT ![On(x)] = IF @ = "value" THEN "moved" ELSE @]
  /\ Leave(x)
  /\ UNCHANGED <<poolVars, handle_, frame, external_promise_, getting, resumes,
                 ioVars, away, got>>

-----------------------------------------------------------------------------
(* The workers and the io threads.                                         *)

TakeNext ==
  /\ Pool!Start
  /\ UNCHANGED <<handle_, frame, promiseVars, pc, getting, resumes, ioVars, away,
                 got>>

TaskResumes(t) ==
  /\ status[t] = "running" /\ pc[t] = "idle"
  /\ Enter(t, resumes[t])
  /\ UNCHANGED <<poolVars, handle_, promiseVars, getting, resumes, ioVars, away,
                 got>>

TaskReturns(t) ==
  /\ pc[t] = "returning" /\ Pool!Settle(t)
  /\ Goto(t, "idle")
  /\ UNCHANGED <<handle_, frame, promiseVars, getting, resumes, ioVars, away, got>>

(* The handler of the timer does not look at its error_code.               *)
TimerFires(c) ==
  /\ c \in armed /\ io_ctx = "running"
  /\ armed' = armed \ {c}
  /\ Enter(c, c)
  /\ UNCHANGED <<poolVars, handle_, promiseVars, getting, resumes, io_ctx, away,
                 got>>

PoolCloses ==
  /\ Pool!Close
  /\ UNCHANGED <<handle_, frame, promiseVars, pc, getting, resumes, ioVars, away,
                 got>>

(* ~AsioContext(): handlers that have not run never will.                  *)
IoStops ==
  /\ io_ctx = "running" /\ io_ctx' = "stopped"
  /\ UNCHANGED <<poolVars, handle_, frame, promiseVars, pc, getting, resumes,
                 armed, away, got>>

-----------------------------------------------------------------------------

(* Calls that need the coroutine to be nobody else's.                      *)
Use(o) ==
  \/ Destroy(o) \/ Resume(o) \/ GetAttach(o)
  \/ GetDone(o) /\ got[handle_[o]] = "none"
  \/ \E other \in Objects : Move(o, other)

InGet(o) == GetResumes(o) \/ GetReturns(o)

Body(x) ==
  \/ \E t \in Tasks : AwaitSchedule(x, t) \/ AwaitScheduleThrows(x, t)
  \/ AwaitDelay(x) \/ BodyEnds(x)

Final(x) == FinalSuspend(x) \/ TestPromise(x) \/ SetPromise(x)

Stranded(c) == c \in armed /\ io_ctx = "stopped"

(* All objects are at rest, or wait for a timer that is gone.              *)
Terminated ==
  /\ \A o \in Objects : pc[o] = "idle" \/ Stranded(handle_[o])
  /\ UNCHANGED vars

System ==
  \/ \E o \in Objects : InGet(o) \/ \E c \in Coros : Create(o, c)
  \/ \E x \in Threads : Body(x) \/ Final(x)
  \/ \E t \in Tasks : TaskResumes(t) \/ TaskReturns(t)
  \/ \E c \in Coros : TimerFires(c)
  \/ TakeNext \/ PoolCloses \/ IoStops \/ Terminated

Next == System \/ \E o \in Objects : handle_[o] \notin away /\ Use(o)

SafeSpec == Init /\ [][Next]_vars

(* The threads go on, timers expire, and a body that has got a thread      *)
(* again and again ends.                                                   *)
Fairness ==
  /\ WF_vars(TakeNext)
  /\ \A o \in Objects : WF_vars(InGet(o))
  /\ \A x \in Threads : WF_vars(Final(x))
  /\ \A t \in Tasks : WF_vars(TaskResumes(t) \/ TaskReturns(t))
  /\ \A c \in Coros : /\ WF_vars(TimerFires(c))
                      /\ SF_vars(\E x \in Threads : On(x) = c /\ BodyEnds(x))

Spec == SafeSpec /\ Fairness

-----------------------------------------------------------------------------
(* Properties                                                              *)

(* Every variable keeps its type, and a live frame has one owner, so it is *)
(* destroyed once.                                                         *)
TypeOK ==
  /\ Pool!TypeOK
  /\ handle_ \in [Objects -> Coros \cup {NoCoro}]
  /\ frame \in [Coros -> FrameState]
  /\ result_ \in [Coros -> Result] /\ got \in [Coros -> Result]
  /\ signal \in [Coros -> Result \cup {"pending"}]
  /\ external_promise_ \subseteq Coros /\ armed \subseteq Coros
  /\ away \subseteq Coros /\ getting \subseteq Objects
  /\ pc \in [Threads -> PC]
  /\ resumes \in [Tasks -> Coros \cup {NoCoro}]
  /\ io_ctx \in {"running", "stopped"}
  /\ \A c \in Coros : Cardinality({o \in Objects : handle_[o] = c}) =
       IF frame[c] \in {"none", "destroyed"} THEN 0 ELSE 1

(* One thread at a time is in a frame or in its await_suspend(), and none  *)
(* when it is destroyed: get() may return, and its caller destroy the      *)
(* frame, only behind the last access of the thread that signalled.        *)
OneThreadInFrame ==
  \A c \in Coros :
    Cardinality({x \in Threads : InFrame(x) /\ On(x) = c}) <=
      IF frame[c] = "destroyed" THEN 0 ELSE 1

(* A coroutine that has been handed over and is suspended has exactly one  *)
(* resumption to come, from the pool or from a timer; any other has none.  *)
(* The timer of a stopped io_context counts as well, although nobody will  *)
(* handle it: see Stranded.                                                *)
OneResumption ==
  \A c \in Coros :
    Cardinality({t \in Tasks : resumes[t] = c /\ pc[t] = "idle" /\
                               status[t] \in {"queued", "running"}})
    + Cardinality({c} \cap armed)
      = IF frame[c] = "suspended" /\ c \in away THEN 1 ELSE 0

(* The coroutine runs to one result, which get() returns when no thread    *)
(* needs the frame any more.                                               *)
Lazy == INSTANCE LazyTask WITH
  life <- [c \in Coros |->
    CASE frame[c] \in {"none", "destroyed"} -> frame[c]
      [] frame[c] = "suspended" /\ c \notin away -> "lazy"
      [] frame[c] = "final" /\ ~\E x \in Threads : InFrame(x) /\ On(x) = c -> "done"
      [] OTHER -> "active"],
  outcome <- [c \in Coros |-> IF result_[c] = "moved" THEN "value" ELSE result_[c]],
  waiting <- {handle_[o] : o \in getting}

LazySpec == Lazy!SafeSpec

(* get() returns, also when the pool is closed while the coroutine is on   *)
(* its way, unless the coroutine sleeps in a delay whose AsioContext has   *)
(* been destroyed.                                                         *)
GetEnds ==
  \A o \in Objects : o \in getting ~> o \notin getting \/ Stranded(handle_[o])

=============================================================================
