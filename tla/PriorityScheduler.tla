------------------------- MODULE PriorityScheduler --------------------------
(***************************************************************************)
(* ate::PriorityScheduler (include/ate/scheduler.hpp): a priority queue of *)
(* numbered tasks and a stop flag under one mutex, with a condition        *)
(* variable.  Any thread may push, pop, wait and shut down; each waits     *)
(* with a stop token of its own.                                           *)
(*                                                                         *)
(* A critical section is one action; a notify follows the unlock and is an *)
(* action of its own.  A push() that is refused and a try_pop() that finds *)
(* nothing change nothing, as do size() and empty(), and have no action;   *)
(* ~PriorityScheduler() is a shutdown().                                   *)
(* An operator named ...Mutant is a wrong variant of the next definition   *)
(* and not part of the model.                                              *)
(***************************************************************************)
EXTENDS Integers, Sequences, FiniteSets

CONSTANTS
  Threads,
  Tasks,      \* each is pushed at most once
  Priorities  \* the values of TaskPriority

ASSUME ThreadsAssumption == IsFiniteSet(Threads)

ASSUME PrioritiesAssumption == Priorities \subseteq 0..3

VARIABLES
  queue_,     \* a set of PriorityTask
  next_seq_, stopped_,
  waiters,    \* threads asleep on cv_
  pc,         \* [Threads -> SchedulerPC]: the call each is inside
  stop,       \* threads whose stop token is stop_requested()
  callbacks,  \* those whose request_stop() has yet to run its callbacks
  pushed      \* history: the tasks that were pushed

vars == <<queue_, next_seq_, stopped_, waiters, pc, stop, callbacks, pushed>>

PriorityTask == [func : Tasks, priority : Priorities, sequence : Nat]

SchedulerPC == {"idle", "notifyOne", "notifyAll", "waiting"}

Init ==
  /\ queue_ = {} /\ next_seq_ = 0 /\ stopped_ = FALSE
  /\ waiters = {}
  /\ pc = [p \in Threads |-> "idle"]
  /\ stop = {} /\ callbacks = {}
  /\ pushed = {}

Goto(p, l) == pc' = [pc EXCEPT ![p] = l]

(* Wrong: last in, first out.                                              *)
BeforeMutant(a, b) ==
  \/ a.priority > b.priority
  \/ a.priority = b.priority /\ a.sequence > b.sequence

(* operator<, from the side of the task that comes out first.              *)
Before(a, b) ==
  \/ a.priority > b.priority
  \/ a.priority = b.priority /\ a.sequence < b.sequence

Top == CHOOSE e \in queue_ : \A f \in queue_ \ {e} : Before(e, f)

-----------------------------------------------------------------------------

(* Wrong: does not notify.                                                 *)
PushSilentMutant(p, t, priority) ==
  /\ pc[p] = "idle" /\ ~stopped_ /\ t \notin pushed
  /\ queue_' = queue_ \cup
       {[func |-> t, priority |-> priority, sequence |-> next_seq_]}
  /\ next_seq_' = next_seq_ + 1
  /\ pushed' = pushed \cup {t}
  /\ UNCHANGED <<stopped_, waiters, pc, stop, callbacks>>

(* Wrong: does not count.                                                  *)
PushUnnumberedMutant(p, t, priority) ==
  /\ pc[p] = "idle" /\ ~stopped_ /\ t \notin pushed
  /\ queue_' = queue_ \cup
       {[func |-> t, priority |-> priority, sequence |-> next_seq_]}
  /\ pushed' = pushed \cup {t}
  /\ Goto(p, "notifyOne")
  /\ UNCHANGED <<next_seq_, stopped_, waiters, stop, callbacks>>

Push(p, t, priority) ==
  /\ pc[p] = "idle" /\ ~stopped_ /\ t \notin pushed
  /\ queue_' = queue_ \cup
       {[func |-> t, priority |-> priority, sequence |-> next_seq_]}
  /\ next_seq_' = next_seq_ + 1
  /\ pushed' = pushed \cup {t}
  /\ Goto(p, "notifyOne")
  /\ UNCHANGED <<stopped_, waiters, stop, callbacks>>

NotifyOne(p) ==
  /\ pc[p] = "notifyOne"
  /\ \/ waiters = {} /\ UNCHANGED waiters
     \/ \E w \in waiters : waiters' = waiters \ {w}
  /\ Goto(p, "idle")
  /\ UNCHANGED <<queue_, next_seq_, stopped_, stop, callbacks, pushed>>

(* Wrong: does not notify.                                                 *)
ShutdownMutant(p) ==
  /\ pc[p] = "idle"
  /\ stopped_' = TRUE
  /\ UNCHANGED <<queue_, next_seq_, waiters, pc, stop, callbacks, pushed>>

Shutdown(p) ==
  /\ pc[p] = "idle"
  /\ stopped_' = TRUE
  /\ Goto(p, "notifyAll")
  /\ UNCHANGED <<queue_, next_seq_, waiters, stop, callbacks, pushed>>

NotifyAll(p) ==
  /\ pc[p] = "notifyAll"
  /\ waiters' = {}
  /\ Goto(p, "idle")
  /\ UNCHANGED <<queue_, next_seq_, stopped_, stop, callbacks, pushed>>

-----------------------------------------------------------------------------
(* try_pop() and wait_and_pop(); the caller takes the task with it.        *)

PopTop(p) ==
  /\ queue_ # {}
  /\ queue_' = queue_ \ {Top}
  /\ Goto(p, "idle")
  /\ UNCHANGED <<next_seq_, stopped_, waiters, stop, callbacks, pushed>>

TryPop(p) == pc[p] = "idle" /\ PopTop(p)

CallWaitAndPop(p) ==
  /\ pc[p] = "idle"
  /\ Goto(p, "waiting")
  /\ UNCHANGED <<queue_, next_seq_, stopped_, waiters, stop, callbacks, pushed>>

Awake(p) == pc[p] = "waiting" /\ p \notin waiters

(* The result of cv_.wait is ignored: what counts is whether the queue is  *)
(* empty after it, so a task is taken even from a stopped scheduler.       *)
WaitTakes(p) == Awake(p) /\ PopTop(p)

WaitReturnsNullopt(p) ==
  /\ Awake(p) /\ queue_ = {} /\ (stopped_ \/ p \in stop)
  /\ Goto(p, "idle")
  /\ UNCHANGED <<queue_, next_seq_, stopped_, waiters, stop, callbacks, pushed>>

WaitSleeps(p) ==
  /\ Awake(p) /\ queue_ = {} /\ ~stopped_ /\ p \notin stop
  /\ waiters' = waiters \cup {p}
  /\ UNCHANGED <<queue_, next_seq_, stopped_, pc, stop, callbacks, pushed>>

SpuriousWakeup(p) ==
  /\ p \in waiters
  /\ waiters' = waiters \ {p}
  /\ UNCHANGED <<queue_, next_seq_, stopped_, pc, stop, callbacks, pushed>>

(* request_stop() on the source of p's token, by somebody else.            *)
RequestStop(p) ==
  /\ p \notin stop
  /\ stop' = stop \cup {p}
  /\ callbacks' = callbacks \cup {p}
  /\ UNCHANGED <<queue_, next_seq_, stopped_, waiters, pc, pushed>>

(* The callback that cv_.wait registered while p sleeps notifies everyone. *)
StopCallback(p) ==
  /\ p \in callbacks
  /\ callbacks' = callbacks \ {p}
  /\ waiters' = IF p \in waiters THEN {} ELSE waiters
  /\ UNCHANGED <<queue_, next_seq_, stopped_, pc, stop, pushed>>

-----------------------------------------------------------------------------

Notify(p) == NotifyOne(p) \/ NotifyAll(p)

WaitAndPop(p) == WaitTakes(p) \/ WaitReturnsNullopt(p) \/ WaitSleeps(p)

Next ==
  \E p \in Threads :
    \/ \E t \in Tasks, q \in Priorities : Push(p, t, q)
    \/ Notify(p) \/ Shutdown(p)
    \/ TryPop(p) \/ CallWaitAndPop(p) \/ WaitAndPop(p) \/ SpuriousWakeup(p)
    \/ RequestStop(p) \/ StopCallback(p)

SafeSpec == Init /\ [][Next]_vars

(* A thread inside a call goes on with it, and so does a request_stop().   *)
Fairness ==
  \A p \in Threads :
    WF_vars(Notify(p)) /\ WF_vars(WaitAndPop(p)) /\ WF_vars(StopCallback(p))

Spec == SafeSpec /\ Fairness

-----------------------------------------------------------------------------
(* Properties                                                              *)

(* Every variable keeps its type, no two queued tasks carry one number,    *)
(* and no number is used again.                                            *)
TypeOK ==
  /\ queue_ \subseteq PriorityTask
  /\ next_seq_ \in Nat /\ stopped_ \in BOOLEAN
  /\ waiters \subseteq {p \in Threads : pc[p] = "waiting"}
  /\ pc \in [Threads -> SchedulerPC]
  /\ callbacks \subseteq stop /\ stop \subseteq Threads
  /\ pushed \subseteq Tasks
  /\ \A e \in queue_ : e.sequence < next_seq_
  /\ \A e, f \in queue_ : e.sequence = f.sequence => e = f

(* No wakeup is lost, although a notify_one may reach a thread that is     *)
(* being stopped, and other threads pop without waiting.  For tasks: while *)
(* a thread sleeps, each queued task has a thread that is about to look or *)
(* a pusher that is about to notify.                                       *)
TaskWakeups ==
  waiters # {} =>
    Cardinality(queue_) <=
      Cardinality({p \in Threads : Awake(p) \/ pc[p] = "notifyOne"})

(* For the end: a sleeper whose token was stopped has its callback to      *)
(* come, and one that sleeps in a stopped scheduler a notify_all().        *)
StopWakeups ==
  /\ waiters \cap stop \subseteq callbacks
  /\ stopped_ /\ waiters # {} => \E p \in Threads : pc[p] = "notifyAll"

(* A thread that sleeps while there is a task, a stop or a shutdown to be  *)
(* seen is therefore about to be woken.                                    *)
NoLostWakeup == TaskWakeups /\ StopWakeups

(* wait_and_pop() returns once the scheduler is shut down or the caller's  *)
(* token is stopped, whichever step of the wait the request falls into.    *)
WaitReturns ==
  \A p \in Threads :
    pc[p] = "waiting" /\ (stopped_ \/ p \in stop) ~> pc[p] # "waiting"

(* The heap ordered by (priority, sequence) is a lane per priority, where  *)
(* the place of a task is the number of the tasks ahead of it.             *)
OfPriority(q) == {e \in queue_ : e.priority = q}

Place(e, S) == 1 + Cardinality({f \in S : f.sequence < e.sequence})

Lane(q) ==
  [i \in 1..Cardinality(OfPriority(q)) |->
     (CHOOSE e \in OfPriority(q) : Place(e, OfPriority(q)) = i).func]

Lanes == INSTANCE PriorityLanes WITH
  lanes <- [q \in Priorities |-> Lane(q)],
  open <- ~stopped_

LanesSpec == Lanes!SafeSpec

=============================================================================
