---------------------------- MODULE LoggerProofs ----------------------------
(***************************************************************************)
(* Proofs about Logger, for every set of users, messages and levels.  Inv  *)
(* is the inductive invariant.                                             *)
(***************************************************************************)
EXTENDS Logger, TLAPS, SequenceTheorems

(* Moving the head of one sequence to the end of another keeps their       *)
(* concatenation.                                                          *)
LEMMA MoveHead ==
  ASSUME NEW S, NEW s \in Seq(S), NEW b \in Seq(S), b # <<>>
  PROVE  Append(s, Head(b)) \o Tail(b) = s \o b
  OBVIOUS

(* A concatenation grows at its end.                                       *)
LEMMA AppendLast ==
  ASSUME NEW s \in Seq(Messages), NEW q \in Seq(Messages), NEW x \in Messages
  PROVE  Append(s \o q, x) = s \o Append(q, x)
<1>1. Append(s \o q, x) = (s \o q) \o <<x>>
  OBVIOUS
<1>2. Append(q, x) = q \o <<x>>
  OBVIOUS
<1>3. <<x>> \in Seq(Messages)
  OBVIOUS
<1>4. (s \o q) \o <<x>> = s \o (q \o <<x>>)
  BY <1>3, ConcatAssociative
<1> QED
  BY <1>1, <1>2, <1>4, Zenon

USE LoggerThreadsAssumption, LoggerDataAssumption

(* Where each kind of thread can be: only the owner runs ~Logger(), only   *)
(* callers flush, and the drain thread logs from inside the sink.          *)
Dying == {"flushNotify", "flushWait", "stop", "stopNotify", "join", "gone"}

ThreadInv ==
  /\ \A u \in Users :
       pc[u] \in {"idle", "enqueue", "logNotify", "flushNotify", "flushWait"}
  /\ pc[Drainer] \in {"idle", "enqueue", "logNotify"}
  /\ pc[Drainer] # "idle" => dpc = "inSink"
  /\ pc[Owner] \in Dying => \A u \in Users : pc[u] = "idle"

(* running_ is cleared by the destructor, after its flush; the drain loop  *)
(* ends only then, and with an empty queue that nobody can fill any more.  *)
StopInv ==
  /\ ~running_ => pc[Owner] \in {"stopNotify", "join", "gone"}
  /\ dpc \in {"isEmpty", "exited"} => ~running_
  /\ dpc = "exited" => queue_ = <<>>
  /\ pc[Owner] = "gone" => dpc = "exited"

(* The batch is empty between two rounds; within one, its generation       *)
(* covers no more than the sink has received or is about to receive.       *)
BatchInv ==
  /\ batch # <<>> => dpc \in {"batch", "inSink"}
  /\ dpc \in {"batch", "inSink"} =>
       \A p \in Callers :
         target[p] <= pending => mark[p] <= Len(sink) + Len(batch)

Inv == /\ TypeOK /\ ThreadInv /\ StopInv /\ BatchInv
       /\ NothingLost /\ FlushBarrier

(* The constructor establishes the invariant.                              *)
LEMMA InitInv == Init => Inv
<1> SUFFICES ASSUME Init PROVE Inv
  OBVIOUS
<1> USE DEF Init
<1>1. TypeOK
  <2>1. running_ \in BOOLEAN /\ sleeping \in BOOLEAN /\ (sleeping => dpc = "wait")
    BY Zenon
  <2> QED
    BY <2>1 DEF TypeOK, LogPC, DrainPC, Callers, Loggers
<1>2. ThreadInv /\ StopInv
  BY DEF ThreadInv, StopInv, Dying, Callers, Loggers
<1>3. BatchInv /\ NothingLost /\ FlushBarrier
  BY DEF BatchInv, NothingLost, FlushBarrier, FlushCovers, FlushWakes
<1> QED
  BY <1>1, <1>2, <1>3 DEF Inv

(* The types are preserved by what callers do.                             *)
LEMMA CallerTypeOK ==
  ASSUME TypeOK,
         \/ \E p \in Loggers :
              \/ \E m \in Messages, level \in Levels : Log(p, m, level)
              \/ Enqueue(p) \/ LogNotify(p)
         \/ \E p \in Callers :
              \/ \E level \in Levels : SetLevel(p, level)
              \/ Flush(p) \/ FlushNotify(p) \/ FlushSleep(p) \/ FlushWakeup(p)
              \/ FlushReturn(p)
         \/ Destroy \/ StoreRunning \/ StopNotify \/ Join
  PROVE  TypeOK'
<1> USE DEF TypeOK, Goto, CvNotifyOne, callVars, drainVars
<1>0. Callers \subseteq Loggers /\ Owner \in Callers
  BY DEF Callers, Loggers
<1>1. ASSUME NEW p \in Loggers, NEW m \in Messages, NEW level \in Levels,
             Log(p, m, level)
      PROVE  TypeOK'
  BY <1>0, <1>1 DEF Log, LogPC, MayCall, SinkMayLog
<1>2. ASSUME NEW p \in Loggers, Enqueue(p) PROVE TypeOK'
  <2>1. entry[p] \in Messages
    BY <1>2 DEF Enqueue
  <2>2. accepted' \in Seq(Messages) /\ Len(accepted') = Len(accepted) + 1
    BY <1>2, <2>1 DEF Enqueue
  <2>3. mark' \in [Callers -> 0..Len(accepted')]
    BY <1>2, <2>2 DEF Enqueue
  <2>4. queue_' \in Seq(Messages)
    BY <1>2, <2>1 DEF Enqueue
  <2> QED
    BY <1>0, <1>2, <2>2, <2>3, <2>4 DEF Enqueue, LogPC
<1>3. ASSUME NEW p \in Loggers, LogNotify(p) PROVE TypeOK'
  BY <1>0, <1>3 DEF LogNotify, LogPC
<1>4. ASSUME NEW p \in Callers, NEW level \in Levels, SetLevel(p, level)
      PROVE  TypeOK'
  BY <1>4 DEF SetLevel
<1>5. ASSUME NEW p \in Callers, BeginFlush(p), pc[p] = "idle" PROVE TypeOK'
  <2>1. /\ flush_gen_pending_' \in Nat /\ pending' \in 0..flush_gen_pending_'
        /\ target' \in [Callers -> 0..flush_gen_pending_']
        /\ mark' \in [Callers -> 0..Len(accepted')]
    BY <1>5 DEF BeginFlush
  <2> QED
    BY <1>0, <1>5, <2>1 DEF BeginFlush, LogPC
<1>6. ASSUME NEW p \in Callers, FlushNotify(p) PROVE TypeOK'
  BY <1>0, <1>6 DEF FlushNotify, LogPC
<1>7. ASSUME NEW p \in Callers, FlushSleep(p) \/ FlushWakeup(p) PROVE TypeOK'
  BY <1>7 DEF FlushSleep, FlushWakeup
<1>8. ASSUME NEW p \in Callers, FlushReturn(p) PROVE TypeOK'
  BY <1>0, <1>8 DEF FlushReturn, LogPC
<1>9. ASSUME StoreRunning \/ StopNotify \/ Join PROVE TypeOK'
  <2>1. running_' \in BOOLEAN
    BY <1>9, Zenon DEF StoreRunning, StopNotify, Join
  <2>3. CASE StoreRunning
    BY <1>0, <2>1, <2>3 DEF StoreRunning, LogPC
  <2>4. CASE StopNotify
    BY <1>0, <2>1, <2>4 DEF StopNotify, LogPC
  <2>5. CASE Join
    BY <1>0, <2>1, <2>5 DEF Join, LogPC
  <2> QED
    BY <1>9, <2>3, <2>4, <2>5
<1> QED
  BY <1>0, <1>1, <1>2, <1>3, <1>4, <1>5, <1>6, <1>7, <1>8, <1>9
     DEF Flush, MayCall, Destroy

(* The types are preserved by the drain thread.                            *)
LEMMA DrainTypeOK ==
  ASSUME TypeOK, Drain \/ SpuriousWakeup \/ Timeout
  PROVE  TypeOK'
<1> USE DEF TypeOK, callerVars, callVars, drainVars, DrainGoto, DrainPC
<1>1. CASE CheckRunning \/ CheckEmpty \/ Doze
  BY <1>1 DEF CheckRunning, CheckEmpty, Doze
<1>2. CASE TakeBatch \/ Timeout
  <2>1. sleeping' = FALSE
    BY <1>2, Zenon DEF TakeBatch, Timeout
  <2>2. sleeping' \in BOOLEAN /\ ~sleeping'
    BY <2>1
  <2>3. SwapBatch
    BY <1>2 DEF TakeBatch, Timeout
  <2> QED
    BY <2>2, <2>3 DEF SwapBatch
<1>3. CASE FallAsleep \/ SpuriousWakeup
  BY <1>3 DEF FallAsleep, SpuriousWakeup
<1>4. CASE SinkCall
  BY <1>4 DEF SinkCall
<1>5. CASE SinkReturn
  BY <1>5 DEF SinkReturn
<1>6. CASE BatchDone \/ NotifyFlushers
  BY <1>6 DEF BatchDone, NotifyFlushers
<1> QED
  BY <1>1, <1>2, <1>3, <1>4, <1>5, <1>6 DEF Drain

(* Every step preserves the types.                                         *)
LEMMA NextTypeOK == TypeOK /\ [Next]_vars => TypeOK'
<1> SUFFICES ASSUME TypeOK, [Next]_vars PROVE TypeOK'
  OBVIOUS
<1>1. CASE UNCHANGED vars
  BY <1>1 DEF TypeOK, vars, callVars, drainVars
<1>2. CASE Terminated
  BY <1>1, <1>2 DEF Terminated
<1> QED
  BY <1>1, <1>2, CallerTypeOK, DrainTypeOK DEF Next

(* Every step keeps each thread in the calls it may make: nobody calls the *)
(* logger once its destruction has begun.                                  *)
LEMMA NextThreadInv == TypeOK /\ ThreadInv /\ [Next]_vars => ThreadInv'
<1> SUFFICES ASSUME TypeOK, ThreadInv, [Next]_vars PROVE ThreadInv'
  OBVIOUS
<1> USE DEF ThreadInv, Dying, Goto, callVars, drainVars, callerVars
<1>0. /\ pc \in [Loggers -> LogPC]
      /\ Users \subseteq Callers /\ Owner \in Callers /\ Drainer \notin Callers
      /\ Callers \subseteq Loggers /\ Drainer \in Loggers
  BY DEF TypeOK, Callers, Loggers
<1>1. ASSUME NEW p \in Loggers, NEW m \in Messages, NEW level \in Levels,
             Log(p, m, level)
      PROVE  ThreadInv'
  BY <1>0, <1>1 DEF Log, MayCall, SinkMayLog
<1>2. ASSUME NEW p \in Loggers, Enqueue(p) \/ LogNotify(p) PROVE ThreadInv'
  BY <1>0, <1>2 DEF Enqueue, LogNotify
<1>3. ASSUME NEW p \in Callers, NEW level \in Levels, SetLevel(p, level)
      PROVE  ThreadInv'
  BY <1>0, <1>3 DEF SetLevel
<1>4. ASSUME NEW p \in Users, Flush(p) PROVE ThreadInv'
  BY <1>0, <1>4 DEF Flush, MayCall, BeginFlush
<1>5. ASSUME NEW p \in Callers, FlushNotify(p) PROVE ThreadInv'
  BY <1>0, <1>5 DEF FlushNotify
<1>6. ASSUME NEW p \in Callers, FlushReturn(p) PROVE ThreadInv'
  BY <1>0, <1>6 DEF FlushReturn
<1>7. ASSUME NEW p \in Callers, FlushSleep(p) \/ FlushWakeup(p) PROVE ThreadInv'
  BY <1>0, <1>7 DEF FlushSleep, FlushWakeup
<1>8. CASE Destroy
  BY <1>0, <1>8 DEF Destroy, BeginFlush
<1>9. CASE StoreRunning
  BY <1>0, <1>9 DEF StoreRunning
<1>10. CASE StopNotify
  BY <1>0, <1>10 DEF StopNotify
<1>11. CASE Join
  BY <1>0, <1>11 DEF Join
<1>12. CASE CheckRunning \/ CheckEmpty \/ Doze \/ FallAsleep
  BY <1>12 DEF CheckRunning, CheckEmpty, Doze, FallAsleep
<1>13. CASE TakeBatch \/ Timeout
  <2>1. dpc = "wait" /\ SwapBatch
    BY <1>13 DEF TakeBatch, Timeout, TypeOK
  <2> QED
    BY <2>1 DEF SwapBatch
<1>14. CASE SpuriousWakeup
  BY <1>14 DEF SpuriousWakeup
<1>15. CASE SinkCall \/ SinkReturn
  BY <1>15 DEF SinkCall, SinkReturn, DrainGoto
<1>16. CASE BatchDone \/ NotifyFlushers
  BY <1>16 DEF BatchDone, NotifyFlushers
<1>17. CASE UNCHANGED vars
  BY <1>17 DEF vars
<1> QED
  BY <1>0, <1>1, <1>2, <1>3, <1>4, <1>5, <1>6, <1>7, <1>8, <1>9, <1>10, <1>11,
     <1>12, <1>13, <1>14, <1>15, <1>16, <1>17
     DEF Next, Drain, Terminated, Flush

(* Every step preserves StopInv: once the drain thread has found the queue *)
(* empty after running_ was cleared, no thread is left that could log.     *)
LEMMA NextStopInv == TypeOK /\ ThreadInv /\ StopInv /\ [Next]_vars => StopInv'
<1> SUFFICES ASSUME TypeOK, ThreadInv, StopInv, [Next]_vars PROVE StopInv'
  OBVIOUS
<1> USE DEF StopInv, Goto, callVars, drainVars, callerVars
<1>0. /\ pc \in [Loggers -> LogPC]
      /\ Users \subseteq Callers /\ Owner \in Callers /\ Drainer \notin Callers
      /\ Callers \subseteq Loggers /\ Drainer \in Loggers
  BY DEF TypeOK, Callers, Loggers
<1>1. ASSUME NEW p \in Loggers, NEW m \in Messages, NEW level \in Levels,
             Log(p, m, level)
      PROVE  StopInv'
  BY <1>0, <1>1 DEF Log, MayCall, SinkMayLog
<1>2. ASSUME NEW p \in Loggers, Enqueue(p) PROVE StopInv'
  <2>1. dpc # "exited"
    <3>1. p \in Users \/ p = Owner \/ p = Drainer
      BY DEF Loggers, Callers
    <3> QED
      BY <1>2, <3>1 DEF Enqueue, ThreadInv, Dying
  <2> QED
    BY <1>0, <1>2, <2>1 DEF Enqueue
<1>3. ASSUME NEW p \in Loggers, LogNotify(p) PROVE StopInv'
  BY <1>0, <1>3 DEF LogNotify
<1>4. ASSUME NEW p \in Callers, NEW level \in Levels, SetLevel(p, level)
      PROVE  StopInv'
  BY <1>0, <1>4 DEF SetLevel
<1>5. ASSUME NEW p \in Users, Flush(p) PROVE StopInv'
  BY <1>0, <1>5 DEF Flush, MayCall, BeginFlush
<1>6. ASSUME NEW p \in Callers, FlushNotify(p) PROVE StopInv'
  BY <1>0, <1>6 DEF FlushNotify
<1>7. ASSUME NEW p \in Callers, FlushReturn(p) PROVE StopInv'
  BY <1>0, <1>7 DEF FlushReturn
<1>8. ASSUME NEW p \in Callers, FlushSleep(p) \/ FlushWakeup(p) PROVE StopInv'
  BY <1>0, <1>8 DEF FlushSleep, FlushWakeup
<1>9. CASE Destroy
  BY <1>0, <1>9 DEF Destroy, BeginFlush
<1>10. CASE StoreRunning
  BY <1>0, <1>10 DEF StoreRunning
<1>11. CASE StopNotify
  BY <1>0, <1>11 DEF StopNotify
<1>12. CASE Join
  BY <1>0, <1>12 DEF Join
<1>13. CASE CheckRunning
  BY <1>13 DEF CheckRunning, DrainGoto
<1>14. CASE CheckEmpty
  BY <1>14 DEF CheckEmpty, DrainGoto
<1>15. CASE Doze \/ FallAsleep
  BY <1>15 DEF Doze, FallAsleep, DrainGoto
<1>16. CASE TakeBatch \/ Timeout
  <2>1. dpc = "wait" /\ SwapBatch
    BY <1>16 DEF TakeBatch, Timeout, TypeOK
  <2> QED
    BY <2>1 DEF SwapBatch, DrainGoto
<1>17. CASE SpuriousWakeup
  BY <1>17 DEF SpuriousWakeup
<1>18. CASE SinkCall \/ SinkReturn
  BY <1>18 DEF SinkCall, SinkReturn, DrainGoto
<1>19. CASE BatchDone \/ NotifyFlushers
  BY <1>19 DEF BatchDone, NotifyFlushers, DrainGoto
<1>20. CASE UNCHANGED vars
  BY <1>20 DEF vars
<1> QED
  BY <1>0, <1>1, <1>2, <1>3, <1>4, <1>5, <1>6, <1>7, <1>8, <1>9, <1>10, <1>11,
     <1>12, <1>13, <1>14, <1>15, <1>16, <1>17, <1>18, <1>19, <1>20
     DEF Next, Drain, Terminated, Flush

(* An entry pushed to the queue goes to the end of the order.              *)
LEMMA EnqueueOrder ==
  ASSUME TypeOK, NothingLost, NEW m \in Messages
  PROVE  Append(accepted, m) = sink \o batch \o Append(queue_, m)
<1>1. sink \in Seq(Messages) /\ batch \in Seq(Messages) /\ queue_ \in Seq(Messages)
  BY DEF TypeOK
<1>2. sink \o batch \in Seq(Messages)
  BY <1>1
<1>3. Append(sink \o batch \o queue_, m) = sink \o batch \o Append(queue_, m)
  BY <1>1, <1>2, AppendLast, Zenon
<1> QED
  BY <1>3 DEF NothingLost

(* Every step preserves the order of the entries.                          *)
LEMMA NextNothingLost ==
  TypeOK /\ BatchInv /\ NothingLost /\ [Next]_vars => NothingLost'
<1> SUFFICES ASSUME TypeOK, BatchInv, NothingLost, [Next]_vars
             PROVE  NothingLost'
  OBVIOUS
<1> USE DEF NothingLost, callVars, drainVars, callerVars
<1>0. /\ accepted \in Seq(Messages) /\ sink \in Seq(Messages)
      /\ batch \in Seq(Messages) /\ queue_ \in Seq(Messages)
  BY DEF TypeOK
<1>1. ASSUME NEW p \in Loggers, Enqueue(p) PROVE NothingLost'
  <2>1. PICK m \in Messages : m = entry[p]
    BY <1>1 DEF TypeOK, Enqueue
  <2>2. /\ accepted' = Append(accepted, m) /\ queue_' = Append(queue_, m)
        /\ sink' = sink /\ batch' = batch
    BY <1>1, <2>1 DEF Enqueue
  <2> QED
    BY <2>2, EnqueueOrder
<1>2. CASE TakeBatch \/ Timeout
  <2>1. dpc = "wait" /\ SwapBatch
    BY <1>2 DEF TakeBatch, Timeout, TypeOK
  <2>2. batch = <<>>
    BY <2>1 DEF BatchInv
  <2>3. accepted = sink \o queue_
    BY <1>0, <2>2
  <2>4. sink \o queue_ \o <<>> = sink \o queue_
    BY <1>0
  <2> QED
    BY <2>1, <2>3, <2>4 DEF SwapBatch
<1>3. CASE SinkCall
  BY <1>0, <1>3, MoveHead DEF SinkCall
<1>4. ASSUME UNCHANGED <<accepted, sink, batch, queue_>> PROVE NothingLost'
  BY <1>4
<1>5. ASSUME NEW p \in Loggers,
             \/ LogNotify(p)
             \/ \E m \in Messages, level \in Levels : Log(p, m, level)
      PROVE  NothingLost'
  BY <1>4, <1>5 DEF Log, LogNotify
<1>6. ASSUME NEW p \in Callers,
             \/ BeginFlush(p) \/ FlushNotify(p) \/ FlushSleep(p)
             \/ FlushWakeup(p) \/ FlushReturn(p)
             \/ \E level \in Levels : SetLevel(p, level)
      PROVE  NothingLost'
  BY <1>4, <1>6 DEF SetLevel, BeginFlush, FlushNotify, FlushSleep, FlushWakeup,
                    FlushReturn
<1>7. CASE StoreRunning \/ StopNotify \/ Join
  BY <1>4, <1>7 DEF StoreRunning, StopNotify, Join
<1>8. CASE CheckRunning \/ CheckEmpty \/ Doze \/ FallAsleep \/ SpuriousWakeup
  BY <1>4, <1>8 DEF CheckRunning, CheckEmpty, Doze, FallAsleep, SpuriousWakeup
<1>9. CASE SinkReturn \/ BatchDone \/ NotifyFlushers
  BY <1>4, <1>9 DEF SinkReturn, BatchDone, NotifyFlushers
<1>10. CASE UNCHANGED vars
  BY <1>4, <1>10 DEF vars
<1> QED
  BY <1>1, <1>2, <1>3, <1>5, <1>6, <1>7, <1>8, <1>9, <1>10
     DEF Next, Drain, Terminated, Flush, Destroy, Callers

(* Every step preserves the bound on what the generations cover: the bound *)
(* is drawn together with the batch, and grows with what the sink receives.*)
LEMMA NextFlushInv ==
  TypeOK /\ BatchInv /\ NothingLost /\ FlushCovers /\ [Next]_vars
    => BatchInv' /\ FlushCovers'
<1> SUFFICES ASSUME TypeOK, BatchInv, NothingLost, FlushCovers, [Next]_vars
             PROVE  BatchInv' /\ FlushCovers'
  OBVIOUS
<1> USE DEF BatchInv, FlushCovers, callVars, drainVars, callerVars
<1>0. /\ accepted \in Seq(Messages) /\ sink \in Seq(Messages)
      /\ batch \in Seq(Messages) /\ queue_ \in Seq(Messages)
      /\ flush_gen_pending_ \in Nat /\ pending \in 0..flush_gen_pending_
      /\ flush_gen_done_ \in 0..pending
      /\ target \in [Callers -> 0..flush_gen_pending_]
      /\ mark \in [Callers -> 0..Len(accepted)]
  BY DEF TypeOK
<1>1. ASSUME NEW p \in Callers, BeginFlush(p) PROVE BatchInv' /\ FlushCovers'
  <2>1. target'[p] = flush_gen_pending_ + 1
    BY <1>0, <1>1 DEF BeginFlush
  <2>2. \A r \in Callers \ {p} : target'[r] = target[r] /\ mark'[r] = mark[r]
    BY <1>0, <1>1 DEF BeginFlush
  <2>3. ~(target'[p] <= pending) /\ ~(target'[p] <= flush_gen_done_)
    BY <1>0, <2>1
  <2>4. UNCHANGED <<batch, dpc, pending, sink, flush_gen_done_>>
    BY <1>1 DEF BeginFlush
  <2> QED
    BY <2>2, <2>3, <2>4
<1>2. CASE TakeBatch \/ Timeout
  <2>1. dpc = "wait" /\ SwapBatch
    BY <1>2 DEF TakeBatch, Timeout, TypeOK
  <2>2. batch = <<>>
    BY <2>1
  <2>3. Len(accepted) = Len(sink) + Len(queue_)
    BY <1>0, <2>2 DEF NothingLost
  <2> QED
    BY <1>0, <2>1, <2>3 DEF SwapBatch, DrainGoto
<1>3. CASE SinkCall
  <2>1. /\ dpc = "batch" /\ dpc' = "inSink" /\ Len(sink') = Len(sink) + 1
        /\ Len(batch') = Len(batch) - 1
        /\ UNCHANGED <<target, mark, pending, flush_gen_done_>>
    BY <1>0, <1>3 DEF SinkCall, DrainGoto
  <2> QED
    BY <1>0, <2>1
<1>4. CASE SinkReturn
  BY <1>4 DEF SinkReturn, DrainGoto
<1>5. CASE BatchDone
  <2>1. \A p \in Callers : target[p] <= pending => mark[p] <= Len(sink)
    BY <1>0, <1>5 DEF BatchDone
  <2> QED
    BY <1>5, <2>1 DEF BatchDone, DrainGoto
<1>6. CASE NotifyFlushers
  BY <1>6 DEF NotifyFlushers, DrainGoto
<1>7. CASE CheckRunning \/ CheckEmpty \/ Doze \/ FallAsleep
  BY <1>7 DEF CheckRunning, CheckEmpty, Doze, FallAsleep, DrainGoto
<1>8. ASSUME UNCHANGED <<batch, dpc, pending, sink, target, mark, flush_gen_done_>>
      PROVE  BatchInv' /\ FlushCovers'
  BY <1>8
<1>9. CASE SpuriousWakeup \/ StoreRunning \/ StopNotify \/ Join
  BY <1>8, <1>9 DEF SpuriousWakeup, StoreRunning, StopNotify, Join
<1>10. ASSUME NEW p \in Loggers, NEW m \in Messages, NEW level \in Levels,
              Log(p, m, level)
       PROVE  BatchInv' /\ FlushCovers'
  BY <1>8, <1>10 DEF Log
<1>11. ASSUME NEW p \in Loggers, Enqueue(p) \/ LogNotify(p)
       PROVE  BatchInv' /\ FlushCovers'
  BY <1>8, <1>11 DEF Enqueue, LogNotify
<1>12. ASSUME NEW p \in Callers, NEW level \in Levels, SetLevel(p, level)
       PROVE  BatchInv' /\ FlushCovers'
  BY <1>8, <1>12 DEF SetLevel
<1>13. ASSUME NEW p \in Callers, FlushNotify(p) \/ FlushSleep(p) \/ FlushWakeup(p)
                                   \/ FlushReturn(p)
       PROVE  BatchInv' /\ FlushCovers'
  BY <1>8, <1>13 DEF FlushNotify, FlushSleep, FlushWakeup, FlushReturn
<1>14. CASE UNCHANGED vars
  BY <1>8, <1>14 DEF vars
<1> QED
  BY <1>1, <1>2, <1>3, <1>4, <1>5, <1>6, <1>7, <1>9, <1>10, <1>11, <1>12,
     <1>13, <1>14
     DEF Next, Drain, Terminated, Flush, Destroy, Callers

(* Every step preserves FlushWakes: a flush() falls asleep only while its  *)
(* generation is not done, and who makes it done notifies next.            *)
LEMMA NextFlushWakes ==
  TypeOK /\ ThreadInv' /\ StopInv' /\ FlushWakes /\ [Next]_vars => FlushWakes'
<1> SUFFICES ASSUME TypeOK, ThreadInv', StopInv', FlushWakes, [Next]_vars
             PROVE  FlushWakes'
  OBVIOUS
<1> USE DEF callVars, drainVars, callerVars
<1> DEFINE Woken == \A p \in flushers : target[p] <= flush_gen_done_ => dpc = "notify"
<1>0. /\ Woken /\ flushers \subseteq Callers
      /\ target \in [Callers -> 0..flush_gen_pending_]
      /\ \A p \in flushers : pc[p] = "flushWait"
  BY DEF FlushWakes, TypeOK
<1>1. dpc' = "exited" =>
        \A p \in Callers : pc'[p] \notin {"flushNotify", "flushWait"}
  BY DEF ThreadInv, StopInv, Dying, Callers
<1>2. Woken'
  <2>1. ASSUME flushers' \subseteq flushers,
               UNCHANGED <<target, flush_gen_done_>>, dpc' = dpc
        PROVE  Woken'
    BY <1>0, <2>1
  <2>2. ASSUME NEW p \in Callers, BeginFlush(p), pc[p] = "idle"
        PROVE  Woken'
    <3>1. p \notin flushers /\ \A q \in flushers : target'[q] = target[q]
      BY <1>0, <2>2 DEF BeginFlush
    <3> QED
      BY <1>0, <2>2, <3>1 DEF BeginFlush
  <2>3. ASSUME NEW p \in Callers, Flush(p)
        PROVE  Woken'
    BY <2>2, <2>3 DEF Flush, MayCall
  <2>4. CASE Destroy
    BY <2>2, <2>4 DEF Destroy, Callers
  <2>5. ASSUME NEW p \in Callers, FlushSleep(p)
        PROVE  Woken'
    <3>1. /\ flushers' = flushers \cup {p} /\ ~(target[p] <= flush_gen_done_)
          /\ UNCHANGED <<target, flush_gen_done_, dpc>>
      BY <1>0, <2>5 DEF FlushSleep, TypeOK
    <3> QED
      BY <1>0, <3>1
  <2>6. CASE BatchDone
    BY <2>6 DEF BatchDone, DrainGoto
  <2>7. CASE NotifyFlushers
    BY <2>7 DEF NotifyFlushers
  <2>8. CASE \/ CheckRunning \/ CheckEmpty \/ TakeBatch \/ Doze \/ FallAsleep
             \/ SinkCall \/ SinkReturn \/ Timeout
    <3>1. UNCHANGED <<flushers, target, flush_gen_done_>> /\ dpc # "notify"
      BY <2>8 DEF CheckRunning, CheckEmpty, TakeBatch, Doze, FallAsleep,
                  SwapBatch, SinkCall, SinkReturn, Timeout, TypeOK
    <3> QED
      BY <1>0, <3>1
  <2>9. CASE SpuriousWakeup \/ StoreRunning \/ StopNotify \/ Join \/ UNCHANGED vars
    BY <2>1, <2>9 DEF SpuriousWakeup, StoreRunning, StopNotify, Join, vars
  <2>10. ASSUME NEW p \in Loggers,
                \/ \E m \in Messages, level \in Levels : Log(p, m, level)
                \/ Enqueue(p) \/ LogNotify(p)
         PROVE  Woken'
    BY <2>1, <2>10 DEF Log, Enqueue, LogNotify
  <2>11. ASSUME NEW p \in Callers,
                \/ \E level \in Levels : SetLevel(p, level)
                \/ FlushNotify(p) \/ FlushWakeup(p) \/ FlushReturn(p)
         PROVE  Woken'
    BY <2>1, <2>11 DEF SetLevel, FlushNotify, FlushWakeup, FlushReturn
  <2> HIDE DEF Woken
  <2> QED
    BY <2>3, <2>4, <2>5, <2>6, <2>7, <2>8, <2>9, <2>10, <2>11
       DEF Next, Drain, Terminated
<1> QED
  BY <1>1, <1>2 DEF FlushWakes

(* The invariant holds in every reachable state.                           *)
THEOREM Invariance == SafeSpec => []Inv
<1>1. Inv /\ [Next]_vars => Inv'
  BY NextTypeOK, NextThreadInv, NextStopInv, NextNothingLost, NextFlushInv,
     NextFlushWakes
     DEF Inv, FlushBarrier
<1> QED
  BY <1>1, InitInv, PTL DEF SafeSpec

(* Types, the order of the generations, and who may sleep where.           *)
THEOREM TypeCorrect == SafeSpec => []TypeOK
<1>1. Inv => TypeOK
  BY DEF Inv
<1> QED
  BY <1>1, Invariance, PTL

(* No entry is lost, doubled or reordered between log() and the sink.      *)
THEOREM NothingLostHolds == SafeSpec => []NothingLost
<1>1. Inv => NothingLost
  BY DEF Inv
<1> QED
  BY <1>1, Invariance, PTL

(* A generation of flush() is done only when what it covers is written,    *)
(* and whoever waits for it is then notified.                              *)
THEOREM FlushBarrierHolds == SafeSpec => []FlushBarrier
<1>1. Inv => FlushBarrier
  BY DEF Inv
<1> QED
  BY <1>1, Invariance, PTL

(* Behind its flush the destructor's generation is done, and stays so; and *)
(* it does not join before running_ is cleared.                            *)
StoppedInv ==
  /\ pc[Owner] \in {"stop", "stopNotify", "join", "gone"} =>
       target[Owner] <= flush_gen_done_
  /\ pc[Owner] \in {"stopNotify", "join", "gone"} => ~running_

(* Every step keeps that.                                                  *)
LEMMA NextStoppedInv == Inv /\ StoppedInv /\ [Next]_vars => StoppedInv'
<1> SUFFICES ASSUME Inv, StoppedInv, [Next]_vars PROVE StoppedInv'
  OBVIOUS
<1>0. /\ pc \in [Loggers -> LogPC] /\ Owner \in Callers /\ Owner \in Loggers
      /\ target \in [Callers -> 0..flush_gen_pending_] /\ Owner # Drainer
      /\ flush_gen_pending_ \in Nat /\ pending \in 0..flush_gen_pending_
      /\ flush_gen_done_ \in 0..pending /\ target[Owner] \in Nat
  BY DEF Inv, TypeOK, Callers, Loggers
<1>1. ASSUME pc'[Owner] = pc[Owner] \/ pc'[Owner] \in {"idle", "enqueue", "logNotify",
                                                       "flushNotify", "flushWait"},
             target'[Owner] = target[Owner], running_' = running_,
             flush_gen_done_' \in Nat, flush_gen_done_ <= flush_gen_done_'
      PROVE  StoppedInv'
  BY <1>0, <1>1 DEF StoppedInv
<1>2. ASSUME NEW p \in Callers, BeginFlush(p), pc[p] = "idle" PROVE StoppedInv'
  BY <1>0, <1>1, <1>2 DEF BeginFlush, Goto, StoppedInv, Loggers
<1>3. ASSUME NEW p \in Callers, Flush(p) PROVE StoppedInv'
  BY <1>2, <1>3 DEF Flush, MayCall
<1>4. CASE Destroy
  BY <1>0, <1>2, <1>4 DEF Destroy
<1>5. ASSUME NEW p \in Callers, FlushReturn(p) PROVE StoppedInv'
  <2>1. CASE p = Owner
    BY <1>0, <1>5, <2>1 DEF FlushReturn, Goto, StoppedInv
  <2>2. CASE p # Owner
    BY <1>0, <1>1, <1>5, <2>2 DEF FlushReturn, Goto
  <2> QED
    BY <2>1, <2>2
<1>6. CASE StoreRunning \/ StopNotify \/ Join
  BY <1>0, <1>6 DEF StoreRunning, StopNotify, Join, Goto, StoppedInv
<1>7. ASSUME NEW p \in Callers,
             \/ \E level \in Levels : SetLevel(p, level)
             \/ FlushNotify(p) \/ FlushSleep(p) \/ FlushWakeup(p)
      PROVE  StoppedInv'
  BY <1>0, <1>1, <1>7 DEF SetLevel, FlushNotify, FlushSleep, FlushWakeup, Goto, callVars
<1>8. ASSUME NEW p \in Loggers,
             \/ \E m \in Messages, level \in Levels : Log(p, m, level)
             \/ Enqueue(p) \/ LogNotify(p)
      PROVE  StoppedInv'
  BY <1>0, <1>1, <1>8 DEF Log, Enqueue, LogNotify, Goto
<1>9. CASE BatchDone
  BY <1>0, <1>1, <1>9 DEF BatchDone, callerVars, callVars
<1>10. CASE \/ CheckRunning \/ CheckEmpty \/ TakeBatch \/ Doze \/ FallAsleep \/ SinkCall
            \/ SinkReturn \/ NotifyFlushers \/ SpuriousWakeup \/ Timeout \/ UNCHANGED vars
  <2>1. UNCHANGED <<pc, target, running_, flush_gen_done_>>
    BY <1>10 DEF CheckRunning, CheckEmpty, TakeBatch, Doze, FallAsleep, SwapBatch, SinkCall,
                 SinkReturn, NotifyFlushers, SpuriousWakeup, Timeout, callerVars, callVars, vars
  <2> QED
    BY <1>0, <1>1, <2>1
<1> QED
  BY <1>3, <1>4, <1>5, <1>6, <1>7, <1>8, <1>9, <1>10 DEF Next, Drain, Terminated

(* While ~Logger() joins, whatever was logged before it began is in the    *)
(* sink, nobody else is inside a call, and the drain loop is told to end,  *)
(* which it does with all that the sink itself has logged written as well. *)
DestructorServed ==
  pc[Owner] = "join" =>
    /\ mark[Owner] <= Len(sink)
    /\ ~running_ /\ \A u \in Users : pc[u] = "idle"
    /\ dpc = "exited" => sink = accepted

(* The join waits only for the drain thread to write its last batches.     *)
THEOREM JoinOnlyDrains == SafeSpec => []DestructorServed
<1>1. Init => StoppedInv
  BY DEF Init, StoppedInv, Callers, Loggers
<1>2. ASSUME Inv, StoppedInv PROVE DestructorServed
  <2>1. SUFFICES ASSUME pc[Owner] = "join"
                 PROVE  /\ mark[Owner] <= Len(sink)
                        /\ ~running_ /\ \A u \in Users : pc[u] = "idle"
                        /\ dpc = "exited" => sink = accepted
    BY DEF DestructorServed
  <2>2. mark[Owner] <= Len(sink)
    BY <1>2, <2>1 DEF StoppedInv, Inv, FlushBarrier, FlushCovers, Callers
  <2>3. ~running_ /\ \A u \in Users : pc[u] = "idle"
    BY <1>2, <2>1 DEF StoppedInv, Inv, ThreadInv, Dying
  <2>4. ASSUME dpc = "exited" PROVE sink = accepted
    <3>1. queue_ = <<>> /\ batch = <<>>
      BY <1>2, <2>4 DEF Inv, StopInv, BatchInv
    <3>2. sink \in Seq(Messages)
      BY <1>2 DEF Inv, TypeOK
    <3>3. accepted = (sink \o <<>>) \o <<>>
      BY <1>2, <3>1 DEF Inv, NothingLost
    <3> QED
      BY <3>2, <3>3
  <2> QED
    BY <2>2, <2>3, <2>4
<1> QED
  BY <1>1, <1>2, NextStoppedInv, Invariance, PTL DEF SafeSpec

-----------------------------------------------------------------------------
(* Logger implements FlushedLog.                                           *)

Flushing == {p \in Callers : pc[p] \in {"flushNotify", "flushWait"}}

(* A step that moves no entry to or from the queue or the sink, and nobody *)
(* into or out of flush() and ~Logger(), is a stutter of FlushedLog.       *)
LEMMA MappedStutter ==
  ASSUME UNCHANGED <<accepted, sink, mark, Flushing, pc[Owner] = "gone">>
  PROVE  [Abstract!Next]_(Abstract!logVars)
  BY DEF Abstract!logVars, Flushing

(* A step of one thread between two places outside flush() and ~Logger()   *)
(* does not change who is flushing.                                        *)
LEMMA MoveStutter ==
  ASSUME TypeOK, NEW p \in Loggers, NEW l \in LogPC, Goto(p, l),
         l # "gone", pc[p] # "gone",
         p \in Callers => (l \in {"flushNotify", "flushWait"}
                            <=> pc[p] \in {"flushNotify", "flushWait"})
  PROVE  Flushing' = Flushing /\ (pc[Owner] = "gone")' = (pc[Owner] = "gone")
<1>1. \A q \in Loggers \ {p} : pc'[q] = pc[q]
  BY DEF TypeOK, Goto
<1>2. pc'[p] = l
  BY DEF TypeOK, Goto
<1>3. Callers \subseteq Loggers /\ Owner \in Loggers
  BY DEF Callers, Loggers
<1>4. (pc[Owner] = "gone")' = (pc[Owner] = "gone")
  BY <1>1, <1>2, <1>3
<1> QED
  BY <1>1, <1>2, <1>3, <1>4 DEF Flushing

(* Every step of the logger is a step of FlushedLog or changes nothing in  *)
(* it: push_back accepts, the call of the sink writes, flush() calls and   *)
(* returns, the join in ~Logger() closes.                                  *)
LEMMA LogStep == Inv /\ Inv' /\ [Next]_vars => [Abstract!Next]_(Abstract!logVars)
<1> SUFFICES ASSUME Inv, Inv', [Next]_vars
             PROVE  [Abstract!Next]_(Abstract!logVars)
  OBVIOUS
<1> USE DEF callVars, drainVars, callerVars
<1>0. /\ TypeOK /\ pc \in [Loggers -> LogPC]
      /\ Callers \subseteq Loggers /\ Owner \in Callers /\ Users \subseteq Callers
      /\ Drainer \notin Callers
  BY DEF Inv, TypeOK, Callers, Loggers
<1>1. ASSUME UNCHANGED <<pc, accepted, sink, mark>>
      PROVE  [Abstract!Next]_(Abstract!logVars)
  BY <1>1, MappedStutter DEF Flushing
<1>2. ASSUME NEW p \in Loggers, NEW m \in Messages, NEW level \in Levels,
             Log(p, m, level)
      PROVE  [Abstract!Next]_(Abstract!logVars)
  <2>1. Goto(p, "enqueue") /\ pc[p] = "idle" /\ "enqueue" \in LogPC
    BY <1>2 DEF Log, MayCall, SinkMayLog, LogPC
  <2> QED
    BY <1>0, <1>2, <2>1, MoveStutter, MappedStutter DEF Log
<1>3. ASSUME NEW p \in Loggers, Enqueue(p)
      PROVE  [Abstract!Next]_(Abstract!logVars)
  <2>1. PICK m \in Messages : m = entry[p]
    BY <1>0, <1>3 DEF TypeOK, Enqueue
  <2>2. Goto(p, "logNotify") /\ pc[p] = "enqueue" /\ "logNotify" \in LogPC
    BY <1>3 DEF Enqueue, LogPC
  <2>3. Flushing' = Flushing /\ (pc[Owner] = "gone")' = (pc[Owner] = "gone")
    BY <1>0, <2>2, MoveStutter
  <2>4. pc[Owner] # "gone"
    <3>1. p \in Users \/ p = Owner \/ p = Drainer
      BY DEF Loggers, Callers
    <3> QED
      BY <2>2, <3>1 DEF Inv, ThreadInv, StopInv, Dying
  <2>5. Abstract!Accept(m)
    BY <1>3, <2>1, <2>3, <2>4 DEF Abstract!Accept, Enqueue, Flushing
  <2> QED
    BY <2>5 DEF Abstract!Next
<1>4. ASSUME NEW p \in Loggers, LogNotify(p)
      PROVE  [Abstract!Next]_(Abstract!logVars)
  <2>1. Goto(p, "idle") /\ pc[p] = "logNotify" /\ "idle" \in LogPC
    BY <1>4 DEF LogNotify, LogPC
  <2> QED
    BY <1>0, <1>4, <2>1, MoveStutter, MappedStutter DEF LogNotify
<1>5. ASSUME NEW p \in Callers, BeginFlush(p), pc[p] = "idle",
             pc[Owner] = "idle"
      PROVE  [Abstract!Next]_(Abstract!logVars)
  <2>1. Abstract!FlushCall(p)
    BY <1>0, <1>5 DEF Abstract!FlushCall, BeginFlush, Goto
  <2> QED
    BY <1>5, <2>1 DEF Abstract!Next
<1>6. ASSUME NEW p \in Callers, FlushNotify(p)
      PROVE  [Abstract!Next]_(Abstract!logVars)
  <2>1. Goto(p, "flushWait") /\ pc[p] = "flushNotify" /\ "flushWait" \in LogPC
    BY <1>6 DEF FlushNotify, LogPC
  <2> QED
    BY <1>0, <1>6, <2>1, MoveStutter, MappedStutter DEF FlushNotify
<1>7. ASSUME NEW p \in Callers, FlushReturn(p)
      PROVE  [Abstract!Next]_(Abstract!logVars)
  <2>1. mark[p] <= Len(sink)
    BY <1>0, <1>7 DEF Inv, FlushBarrier, FlushCovers, FlushReturn, TypeOK
  <2>2. Abstract!FlushReturn(p)
    BY <1>0, <1>7, <2>1 DEF Abstract!FlushReturn, FlushReturn, Goto
  <2> QED
    BY <1>7, <2>2 DEF Abstract!Next
<1>8. CASE StoreRunning
  <2>1. Goto(Owner, "stopNotify") /\ pc[Owner] = "stop" /\ "stopNotify" \in LogPC
    BY <1>8 DEF StoreRunning, LogPC
  <2> QED
    BY <1>0, <1>8, <2>1, MoveStutter, MappedStutter DEF StoreRunning
<1>9. CASE StopNotify
  <2>1. Goto(Owner, "join") /\ pc[Owner] = "stopNotify" /\ "join" \in LogPC
    BY <1>9 DEF StopNotify, LogPC
  <2> QED
    BY <1>0, <1>9, <2>1, MoveStutter, MappedStutter DEF StopNotify
<1>10. CASE Join
  <2>1. Flushing = {}
    BY <1>0, <1>10 DEF Join, Inv, ThreadInv, Dying, Flushing, Callers
  <2>2. batch = <<>> /\ queue_ = <<>>
    BY <1>10 DEF Join, Inv, StopInv, BatchInv
  <2>3. sink = accepted
    BY <1>0, <2>2 DEF Inv, NothingLost, TypeOK
  <2>4. pc'[Owner] = "gone" /\ Flushing' = Flushing
    BY <1>0, <1>10 DEF Join, Goto, Flushing
  <2>5. Abstract!Close
    BY <1>10, <2>1, <2>3, <2>4 DEF Abstract!Close, Join, Flushing
  <2> QED
    BY <2>5 DEF Abstract!Next
<1>11. CASE SinkCall
  <2>1. Len(sink) < Len(accepted) /\ Head(batch) = accepted[Len(sink) + 1]
    <3>1. /\ sink \in Seq(Messages) /\ batch \in Seq(Messages)
          /\ queue_ \in Seq(Messages) /\ batch # <<>>
      BY <1>0, <1>11 DEF TypeOK, SinkCall
    <3>2. accepted = sink \o batch \o queue_
      BY DEF Inv, NothingLost
    <3> QED
      BY <3>1, <3>2
  <2>2. Abstract!Write
    BY <1>11, <2>1 DEF Abstract!Write, SinkCall
  <2> QED
    BY <2>2 DEF Abstract!Next
<1>12. ASSUME NEW p \in Callers,
              \/ FlushSleep(p) \/ FlushWakeup(p)
              \/ \E level \in Levels : SetLevel(p, level)
       PROVE  [Abstract!Next]_(Abstract!logVars)
  BY <1>1, <1>12 DEF FlushSleep, FlushWakeup, SetLevel
<1>13. CASE CheckRunning \/ CheckEmpty \/ Doze \/ FallAsleep \/ SpuriousWakeup
  BY <1>1, <1>13 DEF CheckRunning, CheckEmpty, Doze, FallAsleep, SpuriousWakeup
<1>14. CASE TakeBatch \/ Timeout
  BY <1>1, <1>14 DEF TakeBatch, Timeout, SwapBatch
<1>15. CASE SinkReturn \/ BatchDone \/ NotifyFlushers
  BY <1>1, <1>15 DEF SinkReturn, BatchDone, NotifyFlushers
<1>16. CASE UNCHANGED vars
  BY <1>1, <1>16 DEF vars
<1> QED
  BY <1>0, <1>2, <1>3, <1>4, <1>5, <1>6, <1>7, <1>8, <1>9, <1>10, <1>11, <1>12,
     <1>13, <1>14, <1>15, <1>16
     DEF Next, Drain, Terminated, Flush, MayCall, Destroy

(* The logger keeps every promise of FlushedLog that does not depend on    *)
(* fairness: the sink sees the accepted entries in order, flush() returns  *)
(* behind all that was accepted before it, and ~Logger() behind everything.*)
THEOREM ImplementsFlushedLog == SafeSpec => FlushedLogSafeSpec
<1>1. Init => Abstract!Init
  BY DEF Init, Abstract!Init, Callers, Loggers
<1> QED
  BY <1>1, LogStep, Invariance, PTL DEF SafeSpec, FlushedLogSafeSpec, Abstract!SafeSpec

=============================================================================
