------------------------------- MODULE Logger -------------------------------
(***************************************************************************)
(* ate::Logger (include/ate/logger.hpp): callers put entries in a deque    *)
(* under mutex_; a drain thread swaps the deque out and writes the batch   *)
(* to the sink without the lock; flush() waits for a generation number.    *)
(*                                                                         *)
(* A critical section of mutex_ is one action, with one exception: the     *)
(* predicate of cv_.wait_for reads running_, which ~Logger() stores        *)
(* without the mutex, so the evaluation of the predicate and the falling   *)
(* asleep are two steps between which the mutex stays held ("dozing").     *)
(* Notifies come after the unlock and are actions of their own.            *)
(*                                                                         *)
(* The callers are any threads, the Owner that destroys the logger, and    *)
(* the drain thread itself, because a sink may log.  A sink returns and    *)
(* does not call flush(), which would wait for itself.                     *)
(* An operator named ...Mutant is a wrong variant of a later definition    *)
(* and not part of the model.                                              *)
(***************************************************************************)
EXTENDS Naturals, Sequences, FiniteSets

CONSTANTS
  Users,      \* threads that log, flush and set the level
  Owner,      \* the thread that destroys the logger
  Drainer,    \* drain_thread_
  Messages,   \* each is logged at most once
  Levels,     \* a set of consecutive naturals from 0
  NoMessage,
  MaxFlushes  \* bound on the flushes of the Users

Callers == Users \cup {Owner}
Loggers == Callers \cup {Drainer}

ASSUME LoggerThreadsAssumption ==
  /\ Owner \notin Users /\ Drainer \notin Users /\ Owner # Drainer

ASSUME LoggerDataAssumption ==
  NoMessage \notin Messages /\ Levels \subseteq Nat /\ 0 \in Levels
  /\ MaxFlushes \in Nat

VARIABLES
  min_level_, running_, queue_, flush_gen_pending_, flush_gen_done_,
  sleeping,  \* the drain thread sleeps on cv_
  flushers,  \* callers asleep on flush_cv_
  pc,        \* [Loggers -> LogPC]: where each is in log(), flush(), ~Logger()
  entry,     \* [Loggers -> Messages \cup {NoMessage}]: log()'s entry
  target,    \* [Callers -> Nat]: flush()'s target
  dpc,       \* DrainPC: the drain thread in drain_loop()
  batch,     \* drain_loop()'s batch, what is left of it
  pending,   \* drain_loop()'s pending
  accepted,  \* history: the entries in the order of push_back
  sink,      \* history: the entries in the order the sink received them
  mark       \* history: [Callers -> Nat]: Len(accepted) when flush() began

callVars == <<pc, entry, target>>
drainVars == <<dpc, batch, pending, sink>>
vars == <<min_level_, running_, queue_, flush_gen_pending_, flush_gen_done_,
          sleeping, flushers, callVars, drainVars, accepted, mark>>

LogPC == {"idle", "enqueue", "logNotify", "flushNotify", "flushWait",
          "stop", "stopNotify", "join", "gone"}
DrainPC == {"loop", "isEmpty", "wait", "dozing", "batch", "inSink", "done",
            "notify", "exited"}

Init ==
  /\ min_level_ \in Levels /\ running_ = TRUE
  /\ queue_ = <<>>
  /\ flush_gen_pending_ = 0 /\ flush_gen_done_ = 0
  /\ sleeping = FALSE /\ flushers = {}
  /\ pc = [p \in Loggers |-> "idle"]
  /\ entry = [p \in Loggers |-> NoMessage]
  /\ target = [p \in Callers |-> 0]
  /\ dpc = "loop" /\ batch = <<>> /\ pending = 0
  /\ accepted = <<>> /\ sink = <<>>
  /\ mark = [p \in Callers |-> 0]

Goto(p, l) == pc' = [pc EXCEPT ![p] = l]

(* The drain thread keeps mutex_ while it dozes off.                       *)
MutexFree == dpc # "dozing"

(* The logger may be called until its destruction begins.                  *)
MayCall(p) == p \in Callers /\ pc[p] = "idle" /\ pc[Owner] = "idle"

(* A sink may log, and does so on the drain thread.                        *)
SinkMayLog(p) == p = Drainer /\ pc[p] = "idle" /\ dpc = "inSink"

CvNotifyOne == sleeping' = FALSE

-----------------------------------------------------------------------------
(* log() and set_level()                                                   *)

Fresh == Messages \ ({accepted[i] : i \in DOMAIN accepted}
                       \cup {entry[p] : p \in Loggers})

(* The level is tested first, without the lock; the entry is queued later. *)
Log(p, m, level) ==
  /\ MayCall(p) \/ SinkMayLog(p)
  /\ m \in Fresh
  /\ level >= min_level_
  /\ entry' = [entry EXCEPT ![p] = m]
  /\ Goto(p, "enqueue")
  /\ UNCHANGED <<min_level_, running_, queue_, flush_gen_pending_,
                 flush_gen_done_, sleeping, flushers, target, drainVars,
                 accepted, mark>>

Enqueue(p) ==
  /\ pc[p] = "enqueue" /\ MutexFree
  /\ queue_' = Append(queue_, entry[p])
  /\ accepted' = Append(accepted, entry[p])
  /\ entry' = [entry EXCEPT ![p] = NoMessage]
  /\ Goto(p, "logNotify")
  /\ UNCHANGED <<min_level_, running_, flush_gen_pending_, flush_gen_done_,
                 sleeping, flushers, target, drainVars, mark>>

LogNotify(p) ==
  /\ pc[p] = "logNotify"
  /\ CvNotifyOne
  /\ Goto(p, "idle")
  /\ UNCHANGED <<min_level_, running_, queue_, flush_gen_pending_,
                 flush_gen_done_, flushers, entry, target, drainVars, accepted,
                 mark>>

SetLevel(p, level) ==
  /\ MayCall(p)
  /\ min_level_' = level
  /\ UNCHANGED <<running_, queue_, flush_gen_pending_, flush_gen_done_,
                 sleeping, flushers, callVars, drainVars, accepted, mark>>

-----------------------------------------------------------------------------
(* flush()                                                                 *)

BeginFlush(p) ==
  /\ MutexFree
  /\ flush_gen_pending_' = flush_gen_pending_ + 1
  /\ target' = [target EXCEPT ![p] = flush_gen_pending_ + 1]
  /\ mark' = [mark EXCEPT ![p] = Len(accepted)]
  /\ Goto(p, "flushNotify")
  /\ UNCHANGED <<min_level_, running_, queue_, flush_gen_done_, sleeping,
                 flushers, entry, drainVars, accepted>>

Flush(p) ==
  /\ p \in Users /\ MayCall(p) /\ flush_gen_pending_ < MaxFlushes
  /\ BeginFlush(p)

FlushNotify(p) ==
  /\ pc[p] = "flushNotify"
  /\ CvNotifyOne
  /\ Goto(p, "flushWait")
  /\ UNCHANGED <<min_level_, running_, queue_, flush_gen_pending_,
                 flush_gen_done_, flushers, entry, target, drainVars, accepted,
                 mark>>

FlushSleep(p) ==
  /\ pc[p] = "flushWait" /\ p \notin flushers /\ MutexFree
  /\ flush_gen_done_ < target[p]
  /\ flushers' = flushers \cup {p}
  /\ UNCHANGED <<min_level_, running_, queue_, flush_gen_pending_,
                 flush_gen_done_, sleeping, callVars, drainVars, accepted, mark>>

FlushWakeup(p) ==
  /\ p \in flushers
  /\ flushers' = flushers \ {p}
  /\ UNCHANGED <<min_level_, running_, queue_, flush_gen_pending_,
                 flush_gen_done_, sleeping, callVars, drainVars, accepted, mark>>

(* The predicate holds: flush() returns, into ~Logger() for the Owner.     *)
FlushReturn(p) ==
  /\ pc[p] = "flushWait" /\ p \notin flushers /\ MutexFree
  /\ flush_gen_done_ >= target[p]
  /\ Goto(p, IF p = Owner THEN "stop" ELSE "idle")
  /\ UNCHANGED <<min_level_, running_, queue_, flush_gen_pending_,
                 flush_gen_done_, sleeping, flushers, entry, target, drainVars,
                 accepted, mark>>

-----------------------------------------------------------------------------
(* ~Logger(): flush(), then stop and join.  No user is inside a call.      *)

Destroy ==
  /\ pc[Owner] = "idle" /\ \A p \in Users : pc[p] = "idle"
  /\ BeginFlush(Owner)

StoreRunning ==
  /\ pc[Owner] = "stop"
  /\ running_' = FALSE
  /\ Goto(Owner, "stopNotify")
  /\ UNCHANGED <<min_level_, queue_, flush_gen_pending_, flush_gen_done_,
                 sleeping, flushers, entry, target, drainVars, accepted, mark>>

StopNotify ==
  /\ pc[Owner] = "stopNotify"
  /\ CvNotifyOne
  /\ Goto(Owner, "join")
  /\ UNCHANGED <<min_level_, running_, queue_, flush_gen_pending_,
                 flush_gen_done_, flushers, entry, target, drainVars, accepted,
                 mark>>

Join ==
  /\ pc[Owner] = "join" /\ dpc = "exited"
  /\ Goto(Owner, "gone")
  /\ UNCHANGED <<min_level_, running_, queue_, flush_gen_pending_,
                 flush_gen_done_, sleeping, flushers, entry, target, drainVars,
                 accepted, mark>>

-----------------------------------------------------------------------------
(* drain_loop()                                                            *)

callerVars == <<min_level_, running_, flush_gen_pending_, callVars, accepted,
                mark>>

DrainGoto(l) == dpc' = l

(* Wrong: leaves the loop without `|| !queue_empty()`.                     *)
CheckRunningMutant ==
  /\ dpc = "loop"
  /\ DrainGoto(IF running_ THEN "wait" ELSE "exited")
  /\ UNCHANGED <<callerVars, queue_, flush_gen_done_, sleeping, flushers, batch,
                 pending, sink>>

CheckRunning ==
  /\ dpc = "loop"
  /\ DrainGoto(IF running_ THEN "wait" ELSE "isEmpty")
  /\ UNCHANGED <<callerVars, queue_, flush_gen_done_, sleeping, flushers, batch,
                 pending, sink>>

CheckEmpty ==
  /\ dpc = "isEmpty"
  /\ DrainGoto(IF queue_ = <<>> THEN "exited" ELSE "wait")
  /\ UNCHANGED <<callerVars, queue_, flush_gen_done_, sleeping, flushers, batch,
                 pending, sink>>

(* Wrong: copies the queue and leaves it.                                  *)
SwapBatchMutant ==
  /\ batch' = queue_
  /\ pending' = flush_gen_pending_
  /\ DrainGoto("batch")
  /\ UNCHANGED <<callerVars, queue_, flush_gen_done_, flushers, sink>>

(* batch.swap(queue_); pending = flush_gen_pending_.                       *)
SwapBatch ==
  /\ batch' = queue_ /\ queue_' = <<>>
  /\ pending' = flush_gen_pending_
  /\ DrainGoto("batch")
  /\ UNCHANGED <<callerVars, flush_gen_done_, flushers, sink>>

WaitPredicate == queue_ # <<>> \/ ~running_

TakeBatch ==
  /\ dpc = "wait" /\ ~sleeping /\ WaitPredicate
  /\ SwapBatch /\ UNCHANGED sleeping

(* The predicate is false; the mutex is released by falling asleep.        *)
Doze ==
  /\ dpc = "wait" /\ ~sleeping /\ ~WaitPredicate
  /\ DrainGoto("dozing")
  /\ UNCHANGED <<callerVars, queue_, flush_gen_done_, sleeping, flushers, batch,
                 pending, sink>>

FallAsleep ==
  /\ dpc = "dozing"
  /\ DrainGoto("wait")
  /\ sleeping' = TRUE
  /\ UNCHANGED <<callerVars, queue_, flush_gen_done_, flushers, batch, pending,
                 sink>>

SpuriousWakeup ==
  /\ sleeping /\ sleeping' = FALSE
  /\ UNCHANGED <<callerVars, queue_, flush_gen_done_, flushers, drainVars>>

(* Wrong: cv_.wait() instead of cv_.wait_for().                            *)
TimeoutMutant == FALSE /\ UNCHANGED vars

(* After 10 ms the loop goes on whatever the predicate says.               *)
Timeout ==
  /\ sleeping /\ sleeping' = FALSE
  /\ SwapBatch

SinkCall ==
  /\ dpc = "batch" /\ batch # <<>>
  /\ sink' = Append(sink, Head(batch))
  /\ batch' = Tail(batch)
  /\ DrainGoto("inSink")
  /\ UNCHANGED <<callerVars, queue_, flush_gen_done_, sleeping, flushers,
                 pending>>

SinkReturn ==
  /\ dpc = "inSink" /\ pc[Drainer] = "idle"
  /\ DrainGoto("batch")
  /\ UNCHANGED <<callerVars, queue_, flush_gen_done_, sleeping, flushers, batch,
                 pending, sink>>

(* Wrong: reads flush_gen_pending_ again when the batch is written.        *)
BatchDoneMutant ==
  /\ dpc = "batch" /\ batch = <<>>
  /\ flush_gen_done_' = flush_gen_pending_
  /\ DrainGoto("notify")
  /\ UNCHANGED <<callerVars, queue_, sleeping, flushers, batch, pending, sink>>

(* Wrong: counts batches instead of generations.                           *)
CountBatchesMutant ==
  /\ dpc = "batch" /\ batch = <<>>
  /\ flush_gen_done_' = flush_gen_done_ + 1
  /\ DrainGoto("notify")
  /\ UNCHANGED <<callerVars, queue_, sleeping, flushers, batch, pending, sink>>

BatchDone ==
  /\ dpc = "batch" /\ batch = <<>>
  /\ flush_gen_done_' = pending
  /\ DrainGoto("notify")
  /\ UNCHANGED <<callerVars, queue_, sleeping, flushers, batch, pending, sink>>

NotifyFlushers ==
  /\ dpc = "notify"
  /\ flushers' = {}
  /\ DrainGoto("loop")
  /\ UNCHANGED <<callerVars, queue_, flush_gen_done_, sleeping, batch, pending,
                 sink>>

-----------------------------------------------------------------------------

Drain ==
  \/ CheckRunning \/ CheckEmpty \/ TakeBatch \/ Doze \/ FallAsleep
  \/ SinkCall \/ SinkReturn \/ BatchDone \/ NotifyFlushers

(* Everything is over: the logger is gone.                                 *)
Terminated == pc[Owner] = "gone" /\ UNCHANGED vars

Next ==
  \/ \E p \in Loggers :
       \/ \E m \in Messages, level \in Levels : Log(p, m, level)
       \/ Enqueue(p) \/ LogNotify(p)
  \/ \E p \in Callers :
       \/ \E level \in Levels : SetLevel(p, level)
       \/ Flush(p) \/ FlushNotify(p) \/ FlushSleep(p) \/ FlushWakeup(p)
       \/ FlushReturn(p)
  \/ Destroy \/ StoreRunning \/ StopNotify \/ Join
  \/ Drain \/ SpuriousWakeup \/ Timeout
  \/ Terminated

SafeSpec == Init /\ [][Next]_vars

(* Threads that have something to do go on.  The deadline of wait_for is   *)
(* absolute, so no sequence of wakeups outruns it; and a caller gets the   *)
(* mutex in the end, since the drain thread leaves it for 10 ms a round.   *)
(* No call of log(), flush() or ~Logger() has to be made.                  *)
Fairness ==
  /\ WF_vars(Drain) /\ SF_vars(Timeout)
  /\ \A p \in Loggers : WF_vars(LogNotify(p)) /\ SF_vars(Enqueue(p))
  /\ \A p \in Callers : WF_vars(FlushNotify(p)) /\ SF_vars(FlushReturn(p))
  /\ WF_vars(StoreRunning) /\ WF_vars(StopNotify) /\ WF_vars(Join)

Spec == SafeSpec /\ Fairness

-----------------------------------------------------------------------------
(* Properties                                                              *)

Entries(s) == \A i \in DOMAIN s : s[i] \in Messages

(* Every variable keeps its type; the generations stay in order, done up   *)
(* to pending up to drawn; and a thread sleeps only where it waits.        *)
TypeOK ==
  /\ min_level_ \in Levels /\ running_ \in BOOLEAN
  /\ flush_gen_pending_ \in Nat /\ pending \in 0..flush_gen_pending_
  /\ flush_gen_done_ \in 0..pending
  /\ sleeping \in BOOLEAN
  /\ sleeping => dpc = "wait"
  /\ flushers \subseteq {p \in Callers : pc[p] = "flushWait"}
  /\ pc \in [Loggers -> LogPC] /\ dpc \in DrainPC
  /\ entry \in [Loggers -> Messages \cup {NoMessage}]
  /\ \A p \in Loggers : entry[p] # NoMessage <=> pc[p] = "enqueue"
  /\ target \in [Callers -> 0..flush_gen_pending_]
  /\ mark \in [Callers -> 0..Len(accepted)]
  /\ queue_ \in Seq(Messages) /\ batch \in Seq(Messages)
  /\ accepted \in Seq(Messages) /\ sink \in Seq(Messages)

(* No entry is lost, written twice or overtaken: what was pushed is in the *)
(* sink, in the batch or in the queue, in this order.                      *)
NothingLost == accepted = sink \o batch \o queue_

(* flush_gen_done_ never runs ahead of the sink: a generation counts as    *)
(* done only when all that was queued when it was drawn has been written.  *)
FlushCovers ==
  \A p \in Callers : target[p] <= flush_gen_done_ => mark[p] <= Len(sink)

(* No flush() is left behind: one that sleeps although its generation is   *)
(* done is about to be notified, and the drain thread, on which every      *)
(* flush() depends, does not leave while one waits.                        *)
FlushWakes ==
  /\ \A p \in flushers : target[p] <= flush_gen_done_ => dpc = "notify"
  /\ dpc = "exited" =>
       \A p \in Callers : pc[p] \notin {"flushNotify", "flushWait"}

(* So flush() returns neither early nor, with a live drain thread, never.  *)
FlushBarrier == FlushCovers /\ FlushWakes

(* ~Logger() returns, although the notify after running_.store(false),     *)
(* which is outside the mutex, may come before the drain thread sleeps.    *)
DestructorReturns == pc[Owner] = "flushNotify" ~> pc[Owner] = "gone"

(* The logger is a FlushedLog: in order, complete behind every flush() and *)
(* complete, entries logged by the sink included, when ~Logger() returns.  *)
Abstract == INSTANCE FlushedLog WITH
  written <- sink,
  barrier <- mark,
  flushing <- {p \in Callers : pc[p] \in {"flushNotify", "flushWait"}},
  closed <- pc[Owner] = "gone"

FlushedLogSafeSpec == Abstract!SafeSpec

FlushedLogSpec == Abstract!Spec

=============================================================================
