----------------------------- MODULE TaskQueue -----------------------------
(***************************************************************************)
(* ate::TaskQueue (include/ate/task_queue.hpp): a deque of tasks and a     *)
(* shutdown flag under one mutex, and a condition variable on which        *)
(* consumers sleep.                                                        *)
(*                                                                         *)
(* A critical section of the mutex is one action.  The notify calls come   *)
(* after the mutex is released (lines 62 and 103), so they are actions of  *)
(* their own that the caller performs later.  condition_variable_any::wait *)
(* releases the mutex and starts to sleep atomically with respect to every *)
(* notify, which is what makes the membership test of `waiters' exact.     *)
(*                                                                         *)
(* The operators below are the queue's half of an action; a module that    *)
(* EXTENDS this one (ThreadPool) says which thread performs it and when.   *)
(* An operator named ...Mutant is a wrong variant of a later definition    *)
(* and not part of the model.                                              *)
(***************************************************************************)
EXTENDS Naturals, Sequences

CONSTANTS
  Tasks,     \* the callables that are ever pushed, each at most once
  Waiters    \* the threads that may sleep on the condition variable

VARIABLES
  tasks_,    \* std::deque<TaskType>, front first
  shutdown_, \* set once by shutdown(), never cleared
  waiters    \* threads asleep on cv_

queueVars == <<tasks_, shutdown_, waiters>>

QueueInit ==
  /\ tasks_ = <<>>
  /\ shutdown_ = FALSE
  /\ waiters = {}

QueueTypeOK ==
  /\ tasks_ \in Seq(Tasks)
  /\ shutdown_ \in BOOLEAN
  /\ waiters \subseteq Waiters

-----------------------------------------------------------------------------
(* push(): the critical section with its early return, then notify_one().  *)

(* Wrong: does not look at shutdown_.                                      *)
PushAcceptedMutant(t) ==
  /\ tasks_' = Append(tasks_, t)
  /\ UNCHANGED <<shutdown_, waiters>>

PushAccepted(t) ==
  /\ ~shutdown_
  /\ tasks_' = Append(tasks_, t)
  /\ UNCHANGED <<shutdown_, waiters>>

PushRefused ==
  /\ shutdown_
  /\ UNCHANGED queueVars

CvNotifyOne ==
  /\ \/ waiters = {} /\ UNCHANGED waiters
     \/ \E w \in waiters : waiters' = waiters \ {w}
  /\ UNCHANGED <<tasks_, shutdown_>>

CvNotifyAll ==
  /\ waiters' = {}
  /\ UNCHANGED <<tasks_, shutdown_>>

(* shutdown(): the critical section; the caller does CvNotifyAll next.     *)
SetShutdown ==
  /\ shutdown_' = TRUE
  /\ UNCHANGED <<tasks_, waiters>>

-----------------------------------------------------------------------------
(* Popping.  TakeFront is the move of the front element that try_pop() and *)
(* wait_and_pop() share.                                                   *)

(* Wrong: takes the task from the back.                                    *)
TakeFrontMutant(t) ==
  /\ tasks_ # <<>>
  /\ t = tasks_[Len(tasks_)]
  /\ tasks_' = SubSeq(tasks_, 1, Len(tasks_) - 1)
  /\ UNCHANGED <<shutdown_, waiters>>

TakeFront(t) ==
  /\ tasks_ # <<>>
  /\ t = Head(tasks_)
  /\ tasks_' = Tail(tasks_)
  /\ UNCHANGED <<shutdown_, waiters>>

(* Wrong: returns the front and forgets the pop_front().                   *)
WaitTakesMutant(t) == tasks_ # <<>> /\ t = Head(tasks_) /\ UNCHANGED queueVars

(* cv_.wait(lock, stoken, pred) returns pred() once pred() holds or stop   *)
(* is requested, and sleeps otherwise; it evaluates both under the mutex.  *)
(* A task that is there is therefore taken even when stop is requested.    *)
WaitTakes(t) == TakeFront(t)

WaitReturnsNullopt(stopRequested) ==
  /\ tasks_ = <<>>
  /\ shutdown_ \/ stopRequested
  /\ UNCHANGED queueVars

WaitSleeps(w, stopRequested) ==
  /\ tasks_ = <<>>
  /\ ~shutdown_ /\ ~stopRequested
  /\ waiters' = waiters \cup {w}
  /\ UNCHANGED <<tasks_, shutdown_>>

(* A condition variable may wake a sleeper without any notification.       *)
SpuriousWakeup(w) ==
  /\ w \in waiters
  /\ waiters' = waiters \ {w}
  /\ UNCHANGED <<tasks_, shutdown_>>

=============================================================================
