------------------------- MODULE AsioContextProofs --------------------------
(***************************************************************************)
(* Proofs about AsioContext, for every number of io threads, workers,      *)
(* tasks and handlers.  Inv is the inductive invariant; its conjuncts are  *)
(* named for what they say about the code.                                 *)
(***************************************************************************)
EXTENDS AsioContext, TLAPS, FiniteSetTheorems

(* The queue of the pool holds queued tasks, each once.                    *)
PoolInv ==
  /\ Pool!TypeOK
  /\ \A i \in 1..Len(queue) : status[queue[i]] = "queued"
  /\ \A i, j \in 1..Len(queue) : queue[i] = queue[j] => i = j

Types ==
  /\ phase \in Phase
  /\ work_guard_ \in BOOLEAN /\ stopped \in BOOLEAN
  /\ handler \in [Handlers -> HandlerState]
  /\ prom \in [Handlers -> PromiseState]
  /\ on \in [Handlers -> RunTasks \cup {NoTask}]

(* A running handler has a thread of its own, which is in run().           *)
ThreadInv ==
  /\ \A h \in Handlers : handler[h] = "running" <=> on[h] # NoTask
  /\ \A h, g \in Handlers : on[h] = on[g] /\ h # g => on[h] = NoTask
  /\ \A h \in Handlers : on[h] # NoTask => status[on[h]] = "running"

(* What the stage of construction or destruction says of the rest.         *)
PhaseInv ==
  /\ phase \in {"constructing", "open"} => work_guard_ /\ ~stopped
  /\ phase \in {"constructing", "unwinding", "failed"} =>
       \A h \in Handlers : handler[h] = "new"
  /\ phase = "constructing" =>
       \A t \in RunTasks : status[t] \in {"new", "queued", "running"}
  /\ phase = "destroyed" => \A t \in RunTasks : status[t] = "settled"

(* A promise waits exactly as long as its handler is not done.             *)
PromiseInv ==
  \A h \in Handlers :
    /\ handler[h] = "new" => prom[h] = "none"
    /\ handler[h] \in {"timer", "ready", "running"} => prom[h] \in {"none", "pending"}
    /\ prom[h] = "pending" => handler[h] \in {"timer", "ready", "running"}

pending == {t \in RunTasks : status[t] \in {"queued", "running"}}

threw == {h \in Handlers : handler[h] = "threw"}

(* While the context is open, only a handler that throws costs a thread.   *)
SpanInv ==
  /\ IsFiniteSet(threw)
  /\ phase = "open" => Cardinality(pending) + Cardinality(threw) = Cardinality(RunTasks)

Inv ==
  PoolInv /\ Types /\ ThreadInv /\ PhaseInv /\ PromiseInv /\ SpanInv

USE ThreadsAssumption, TasksAssumption, RunTasksAssumption

-----------------------------------------------------------------------------
(* The pool                                                                *)

(* submit() accepts a task.                                                *)
LEMMA AcceptFacts ==
  ASSUME PoolInv, NEW t \in Tasks, Pool!Accept(t)
  PROVE  PoolInv' /\ status[t] = "new" /\ status' = [status EXCEPT ![t] = "queued"]
<1>1. /\ status[t] = "new" /\ status' = [status EXCEPT ![t] = "queued"]
      /\ queue' = Append(queue, t) /\ UNCHANGED <<accepting, retired>>
  BY DEF Pool!Accept
<1>2. queue \in Seq(Tasks) /\ status \in [Tasks -> Pool!Status]
  BY DEF PoolInv, Pool!TypeOK
<1>3. Pool!TypeOK'
  BY <1>1, <1>2 DEF PoolInv, Pool!TypeOK, Pool!Status
<1>4. /\ Len(queue') = Len(queue) + 1 /\ queue'[Len(queue) + 1] = t
      /\ \A i \in 1..Len(queue) : queue'[i] = queue[i] /\ queue[i] # t /\ queue[i] \in Tasks
  BY <1>1, <1>2 DEF PoolInv
<1>5. Len(queue) \in Nat
  BY <1>2
<1>6. \A i \in 1..Len(queue') : status'[queue'[i]] = "queued"
  BY <1>1, <1>2, <1>4, <1>5 DEF PoolInv
<1>7. \A i, j \in 1..Len(queue') : queue'[i] = queue'[j] => i = j
  BY <1>4, <1>5 DEF PoolInv
<1> QED
  BY <1>1, <1>3, <1>6, <1>7 DEF PoolInv

(* A worker takes the oldest task.                                         *)
LEMMA StartFacts ==
  ASSUME PoolInv, Pool!Start
  PROVE  /\ PoolInv'
         /\ \E t \in Tasks : status[t] = "queued" /\ status' = [status EXCEPT ![t] = "running"]
<1>1. /\ queue # <<>> /\ status' = [status EXCEPT ![Head(queue)] = "running"]
      /\ queue' = Tail(queue) /\ UNCHANGED <<accepting, retired>>
  BY DEF Pool!Start
<1>2. queue \in Seq(Tasks) /\ status \in [Tasks -> Pool!Status]
  BY DEF PoolInv, Pool!TypeOK
<1>3. /\ Len(queue) \in Nat \ {0} /\ Len(queue') = Len(queue) - 1
      /\ Head(queue) = queue[1] /\ queue[1] \in Tasks /\ queue' \in Seq(Tasks)
      /\ \A i \in 1..Len(queue') : queue'[i] = queue[i + 1]
  BY <1>1, <1>2
<1>4. status[queue[1]] = "queued"
  BY <1>3 DEF PoolInv
<1>5. Pool!TypeOK'
  BY <1>1, <1>2, <1>3 DEF PoolInv, Pool!TypeOK, Pool!Status
<1>6. \A i \in 1..Len(queue') :
        /\ i + 1 \in 1..Len(queue) /\ queue'[i] = queue[i + 1]
        /\ queue[i + 1] \in Tasks /\ queue[i + 1] # queue[1]
  BY <1>2, <1>3 DEF PoolInv
<1>7. \A i \in 1..Len(queue') : status'[queue'[i]] = "queued"
  BY <1>1, <1>2, <1>3, <1>6 DEF PoolInv
<1>8. \A i, j \in 1..Len(queue') : queue'[i] = queue'[j] => i = j
  BY <1>3, <1>6 DEF PoolInv
<1> QED
  BY <1>1, <1>3, <1>4, <1>5, <1>7, <1>8 DEF PoolInv

(* The queue is left alone.                                                *)
LEMMA QueueStays ==
  ASSUME PoolInv, UNCHANGED queue, accepting' \in BOOLEAN, retired' \in BOOLEAN,
         \/ UNCHANGED status
         \/ \E t \in Tasks : \E s \in Pool!Status :
              status[t] # "queued" /\ status' = [status EXCEPT ![t] = s]
  PROVE  PoolInv'
<1>1. queue \in Seq(Tasks) /\ status \in [Tasks -> Pool!Status]
  BY DEF PoolInv, Pool!TypeOK
<1>2. status' \in [Tasks -> Pool!Status]
  BY <1>1
<1>3. \A i \in 1..Len(queue) : queue[i] \in Tasks
  BY <1>1
<1>4. \A i \in 1..Len(queue) : status'[queue[i]] = "queued"
  BY <1>1, <1>3 DEF PoolInv
<1> QED
  BY <1>1, <1>2, <1>4 DEF PoolInv, Pool!TypeOK

(* submit() refuses a task.                                                *)
LEMMA RefuseFacts ==
  ASSUME PoolInv, NEW t \in Tasks, Pool!Refuse(t)
  PROVE  PoolInv' /\ status[t] = "new" /\ status' = [status EXCEPT ![t] = "refused"]
<1>1. /\ status[t] = "new" /\ status' = [status EXCEPT ![t] = "refused"]
      /\ UNCHANGED <<accepting, queue, retired>>
  BY DEF Pool!Refuse
<1>2. "refused" \in Pool!Status /\ accepting \in BOOLEAN /\ retired \in BOOLEAN
  BY DEF PoolInv, Pool!TypeOK, Pool!Status
<1> QED
  BY <1>1, <1>2, QueueStays

(* A task is done.                                                         *)
LEMMA SettleFacts ==
  ASSUME PoolInv, NEW t \in Tasks, Pool!Settle(t)
  PROVE  PoolInv' /\ status[t] = "running" /\ status' = [status EXCEPT ![t] = "settled"]
<1>1. /\ status[t] = "running" /\ status' = [status EXCEPT ![t] = "settled"]
      /\ UNCHANGED <<accepting, queue, retired>>
  BY DEF Pool!Settle
<1>2. "settled" \in Pool!Status /\ accepting \in BOOLEAN /\ retired \in BOOLEAN
  BY DEF PoolInv, Pool!TypeOK, Pool!Status
<1> QED
  BY <1>1, <1>2, QueueStays

-----------------------------------------------------------------------------
(* The invariant                                                           *)

(* Nothing has been submitted or requested at first.                       *)
LEMMA InitInv == Init => Inv
<1> SUFFICES ASSUME Init PROVE Inv
  OBVIOUS
<1>1. PoolInv
  <2>1. queue = <<>> /\ accepting = TRUE /\ retired = FALSE
        /\ status = [t \in Tasks |-> "new"]
    BY DEF Init, Pool!Init
  <2>2. queue \in Seq(Tasks) /\ 1..Len(queue) = {}
    BY <2>1
  <2>3. status \in [Tasks -> Pool!Status]
    BY <2>1 DEF Pool!Status
  <2> QED
    BY <2>1, <2>2, <2>3 DEF PoolInv, Pool!TypeOK
<1>2. Types /\ ThreadInv /\ PromiseInv
  BY DEF Init, Types, Phase, HandlerState, PromiseState, ThreadInv, PromiseInv
<1>3. PhaseInv
  BY DEF Init, Pool!Init, PhaseInv
<1>4. threw = {}
  BY DEF Init, threw
<1>5. SpanInv
  BY <1>4, FS_EmptySet DEF SpanInv, Init
<1> QED
  BY <1>1, <1>2, <1>3, <1>5 DEF Inv

(* The pool serves its other tasks, or takes one for run(), or closes.     *)
LEMMA PoolStepInv ==
  ASSUME Inv, PoolInv', UNCHANGED <<phase, ioVars, handlerVars>>,
         \A t \in RunTasks :
           \/ status'[t] = status[t]
           \/ status[t] = "queued" /\ status'[t] = "running"
  PROVE  Inv'
<1>1. Types' /\ PromiseInv'
  BY DEF Inv, Types, PromiseInv, ioVars, handlerVars
<1>2. ThreadInv'
  BY DEF Inv, Types, ThreadInv, handlerVars
<1>3. PhaseInv'
  BY DEF Inv, PhaseInv, ioVars, handlerVars
<1>4. pending' = pending /\ threw' = threw
  BY DEF pending, threw, handlerVars
<1>5. SpanInv'
  BY <1>4 DEF Inv, SpanInv
<1> QED
  BY <1>1, <1>2, <1>3, <1>5 DEF Inv

(* The constructor and the start of the destructor.                        *)
LEMMA PhaseStepInv ==
  ASSUME Inv, UNCHANGED handlerVars,
         \/ \E t \in RunTasks : SubmitRun(t) \/ SubmitRunThrows(t)
         \/ UnwindIoContext \/ Constructed \/ ResetGuard \/ Stop
  PROVE  Inv'
<1>1. PoolInv' /\ \A t \in RunTasks :
                    \/ status'[t] = status[t]
                    \/ /\ phase = "constructing" /\ status[t] = "new"
                       /\ \/ phase' = "constructing" /\ status'[t] = "queued"
                          \/ phase' = "unwinding"
  <2>1. ASSUME NEW t \in RunTasks, SubmitRun(t)
        PROVE  PoolInv' /\ status[t] = "new" /\ status' = [status EXCEPT ![t] = "queued"]
               /\ phase = "constructing" /\ phase' = "constructing"
    BY <2>1, AcceptFacts DEF SubmitRun, Inv
  <2>2. ASSUME NEW t \in RunTasks, SubmitRunThrows(t)
        PROVE  PoolInv' /\ status[t] = "new" /\ status' = [status EXCEPT ![t] = "refused"]
               /\ phase = "constructing" /\ phase' = "unwinding"
    BY <2>2, RefuseFacts DEF SubmitRunThrows, Inv
  <2>3. CASE UnwindIoContext \/ Constructed \/ ResetGuard \/ Stop
    <3>1. UNCHANGED poolVars
      BY <2>3 DEF UnwindIoContext, Constructed, ResetGuard, Stop
    <3> QED
      BY <3>1 DEF poolVars, Inv, PoolInv, Pool!TypeOK
  <2>4. status \in [Tasks -> Pool!Status]
    BY DEF Inv, PoolInv, Pool!TypeOK
  <2>5. CASE \E t \in RunTasks : SubmitRun(t)
    BY <2>1, <2>4, <2>5
  <2>6. CASE \E t \in RunTasks : SubmitRunThrows(t)
    BY <2>2, <2>4, <2>6
  <2>7. CASE UnwindIoContext \/ Constructed \/ ResetGuard \/ Stop
    BY <2>3, <2>7 DEF UnwindIoContext, Constructed, ResetGuard, Stop, poolVars
  <2> QED
    BY <2>5, <2>6, <2>7
<1>2. /\ phase' \in Phase /\ work_guard_' \in BOOLEAN /\ stopped' \in BOOLEAN
      /\ phase' \in {"constructing", "open"} => phase = "constructing" /\ UNCHANGED ioVars
      /\ phase' \in {"unwinding", "failed"} => phase \in {"constructing", "unwinding"}
      /\ phase' # "destroyed"
  BY DEF Inv, Types, Phase, SubmitRun, SubmitRunThrows, UnwindIoContext, Constructed,
         ResetGuard, Stop, ioVars
<1>3. Types' /\ PromiseInv'
  BY <1>2 DEF Inv, Types, PromiseInv, handlerVars
<1>4. ThreadInv'
  <2>1. ASSUME NEW h \in Handlers, on[h] # NoTask
        PROVE  on[h] \in RunTasks /\ status[on[h]] = "running"
    BY <2>1 DEF Inv, Types, ThreadInv
  <2>2. \A h \in Handlers : on[h] # NoTask => status'[on[h]] = "running"
    BY <1>1, <2>1
  <2> QED
    BY <2>2 DEF Inv, ThreadInv, handlerVars
<1>5. PhaseInv'
  BY <1>1, <1>2 DEF Inv, PhaseInv, handlerVars, ioVars
<1>6. SpanInv'
  <2>1. threw' = threw
    BY DEF threw, handlerVars
  <2>2. ASSUME phase' = "open" PROVE pending' = RunTasks /\ threw' = {}
    <3>1. Constructed
      BY <1>1, <2>2 DEF SubmitRun, SubmitRunThrows, UnwindIoContext, Constructed, ResetGuard,
                        Stop
    <3>2. phase = "constructing" /\ \A t \in RunTasks : status[t] \notin {"new", "refused"}
      BY <3>1 DEF Constructed, Submitted
    <3>3. \A t \in RunTasks : status[t] \in {"queued", "running"}
      BY <3>2 DEF Inv, PhaseInv
    <3>4. status' = status
      BY <3>1 DEF Constructed, poolVars
    <3> QED
      BY <2>1, <3>2, <3>3, <3>4 DEF Inv, PhaseInv, pending, threw
  <2>3. Cardinality(RunTasks) \in Nat /\ Cardinality({}) = 0
    BY FS_CardinalityType, FS_EmptySet
  <2> QED
    BY <2>1, <2>2, <2>3 DEF Inv, SpanInv
<1> QED
  BY <1>1, <1>3, <1>4, <1>5, <1>6 DEF Inv

(* A handler that takes no part in construction goes one step on.          *)
LEMMA HandlerStepInv ==
  ASSUME Inv, NEW h \in Handlers, UNCHANGED <<poolVars, phase, ioVars>>,
         Types', ThreadInv', PromiseInv',
         phase \notin {"constructing", "unwinding", "failed"},
         \E s \in HandlerState \ {"threw"} : handler' = [handler EXCEPT ![h] = s],
         handler[h] # "threw"
  PROVE  Inv'
<1>1. PoolInv'
  BY DEF Inv, PoolInv, Pool!TypeOK, poolVars
<1>2. PhaseInv'
  BY DEF Inv, PhaseInv, poolVars, ioVars
<1>3. pending' = pending /\ threw' = threw
  BY DEF Inv, Types, pending, threw, poolVars
<1>4. SpanInv'
  BY <1>3 DEF Inv, SpanInv
<1> QED
  BY <1>1, <1>2, <1>4 DEF Inv

(* While a handler is beyond "new", the constructor has succeeded; while   *)
(* one runs, the destructor has not returned.                              *)
LEMMA Alive ==
  ASSUME Inv
  PROVE  /\ \A h \in Handlers : handler[h] # "new" =>
              phase \notin {"constructing", "unwinding", "failed"}
         /\ \A t \in RunTasks : status[t] = "running" => phase # "destroyed"
         /\ \A h \in Handlers : handler[h] = "running" =>
              /\ on[h] \in RunTasks /\ status[on[h]] = "running"
              /\ phase \notin {"constructing", "unwinding", "failed", "destroyed"}
         /\ MayCall => phase \notin {"constructing", "unwinding", "failed", "destroyed"}
<1>1. \A h \in Handlers : handler[h] # "new" =>
        phase \notin {"constructing", "unwinding", "failed"}
  BY DEF Inv, PhaseInv
<1>2. \A t \in RunTasks : status[t] = "running" => phase # "destroyed"
  BY DEF Inv, PhaseInv
<1>3. \A h \in Handlers : handler[h] = "running" =>
        on[h] \in RunTasks /\ status[on[h]] = "running"
  BY DEF Inv, Types, ThreadInv
<1> QED
  BY <1>1, <1>2, <1>3 DEF MayCall

(* A handler that throws takes its thread with it.                         *)
LEMMA ThrowInv ==
  ASSUME Inv, NEW h \in Handlers, HandlerThrows(h)
  PROVE  Inv'
<1> DEFINE t == on[h]
<1>1. /\ handler[h] = "running" /\ prom[h] = "none" /\ Pool!Settle(t)
      /\ handler' = [handler EXCEPT ![h] = "threw"] /\ on' = [on EXCEPT ![h] = NoTask]
      /\ UNCHANGED <<phase, work_guard_, stopped, prom>>
  BY DEF HandlerThrows, ioVars
<1>2. /\ t \in RunTasks /\ status[t] = "running"
      /\ phase \notin {"constructing", "unwinding", "failed", "destroyed"}
  BY <1>1, Alive
<1>3. /\ PoolInv' /\ status' = [status EXCEPT ![t] = "settled"]
      /\ status \in [Tasks -> Pool!Status]
  BY <1>1, <1>2, SettleFacts DEF Inv, PoolInv, Pool!TypeOK
<1>4. Types'
  BY <1>1 DEF Inv, Types, HandlerState
<1>5. ThreadInv'
  BY <1>1, <1>2, <1>3 DEF Inv, Types, ThreadInv
<1>6. PhaseInv' /\ PromiseInv'
  BY <1>1, <1>2 DEF Inv, Types, PhaseInv, PromiseInv
<1>7. SpanInv'
  <2>1. pending' = pending \ {t} /\ t \in pending
    BY <1>2, <1>3 DEF pending
  <2>2. threw' = threw \cup {h} /\ h \notin threw
    BY <1>1 DEF Inv, Types, threw
  <2>3. IsFiniteSet(pending) /\ Cardinality(pending) \in Nat
    BY FS_Subset, FS_CardinalityType DEF pending
  <2>4. /\ IsFiniteSet(threw) /\ Cardinality(threw) \in Nat
        /\ phase = "open" => Cardinality(pending) + Cardinality(threw) = Cardinality(RunTasks)
    BY FS_CardinalityType DEF Inv, SpanInv
  <2>5. Cardinality(pending') = Cardinality(pending) - 1
    BY <2>1, <2>3, FS_RemoveElement
  <2>6. IsFiniteSet(threw') /\ Cardinality(threw') = Cardinality(threw) + 1
    BY <2>2, <2>4, FS_AddElement
  <2>7. Cardinality(pending') + Cardinality(threw') = Cardinality(pending) + Cardinality(threw)
    BY <2>3, <2>4, <2>5, <2>6
  <2> QED
    BY <1>1, <2>4, <2>6, <2>7 DEF SpanInv
<1> QED
  BY <1>3, <1>4, <1>5, <1>6, <1>7 DEF Inv

(* run() returns: not while the context is under construction or open.     *)
LEMMA RunReturnsInv ==
  ASSUME Inv, NEW t \in Tasks, RunReturns(t)
  PROVE  Inv'
<1>1. /\ t \in RunTasks /\ Pool!Settle(t) /\ \A h \in Handlers : on[h] # t
      /\ stopped \/ ~work_guard_
      /\ stopped' = TRUE /\ UNCHANGED <<phase, work_guard_, handler, prom, on>>
  BY DEF RunReturns, InRun, OutstandingWork, handlerVars
<1>2. phase \notin {"constructing", "open"}
  BY <1>1 DEF Inv, PhaseInv
<1>3. /\ PoolInv' /\ status' = [status EXCEPT ![t] = "settled"]
      /\ status \in [Tasks -> Pool!Status]
  BY <1>1, SettleFacts DEF Inv, PoolInv, Pool!TypeOK
<1>4. Types' /\ PromiseInv'
  BY <1>1 DEF Inv, Types, PromiseInv
<1>5. ThreadInv'
  BY <1>1, <1>3 DEF Inv, Types, ThreadInv
<1>6. PhaseInv'
  BY <1>1, <1>2, <1>3 DEF Inv, PhaseInv
<1>7. threw' = threw
  BY <1>1 DEF threw
<1>8. SpanInv'
  BY <1>1, <1>2, <1>7 DEF Inv, SpanInv
<1> QED
  BY <1>3, <1>4, <1>5, <1>6, <1>8 DEF Inv

(* The destructor has waited for every run(): no handler runs.             *)
LEMMA DestroyInv ==
  ASSUME Inv, DestroyMembers
  PROVE  Inv' /\ \A h \in Handlers : handler[h] # "running"
<1>1. /\ phase' = "destroyed" /\ UNCHANGED <<work_guard_, stopped, on>>
      /\ UNCHANGED poolVars /\ \A t \in RunTasks : status[t] = "settled"
      /\ DropHandlers
  BY DEF DestroyMembers, ioVars
<1>2. \A h \in Handlers : handler[h] # "running"
  BY <1>1 DEF Inv, Types, ThreadInv
<1>3. PoolInv'
  BY <1>1 DEF Inv, PoolInv, Pool!TypeOK, poolVars
<1>4. Types'
  BY <1>1 DEF Inv, Types, DropHandlers, HandlerState, PromiseState, Phase
<1>5. ThreadInv'
  BY <1>1, <1>2 DEF Inv, Types, ThreadInv, DropHandlers, poolVars
<1>6. PhaseInv'
  BY <1>1 DEF PhaseInv, poolVars
<1>7. PromiseInv'
  BY <1>1, <1>2 DEF Inv, Types, PromiseInv, DropHandlers
<1>8. threw' = threw
  BY <1>1 DEF Inv, Types, threw, DropHandlers
<1>9. SpanInv'
  BY <1>1, <1>8 DEF Inv, SpanInv
<1> QED
  BY <1>2, <1>3, <1>4, <1>5, <1>6, <1>7, <1>9 DEF Inv

(* Every step preserves the invariant.                                     *)
LEMMA NextInv == Inv /\ [Next]_vars => Inv'
<1> SUFFICES ASSUME Inv, [Next]_vars PROVE Inv'
  OBVIOUS
<1>0. status \in [Tasks -> Pool!Status] /\ accepting \in BOOLEAN /\ retired \in BOOLEAN
  BY DEF Inv, PoolInv, Pool!TypeOK
<1>1. ASSUME NEW h \in Handlers, NEW s, NEW r,
             <<s, r>> \in {<<"ready", "pending">>, <<"timer", "pending">>,
                           <<"ready", "none">>, <<"timer", "none">>},
             Request(h, s, r)
      PROVE  Inv'
  <2>1. /\ handler[h] = "new" /\ handler' = [handler EXCEPT ![h] = s]
        /\ prom' = [prom EXCEPT ![h] = r] /\ UNCHANGED <<poolVars, phase, ioVars, on>>
        /\ s \in {"ready", "timer"} /\ r \in {"pending", "none"}
    BY <1>1 DEF Request
  <2>2. phase \notin {"constructing", "unwinding", "failed"}
    BY <1>1, Alive DEF Request
  <2>3. Types' /\ PromiseInv'
    BY <2>1 DEF Inv, Types, PromiseInv, HandlerState, PromiseState, ioVars
  <2>4. ThreadInv'
    BY <2>1 DEF Inv, Types, ThreadInv, poolVars
  <2> QED
    BY <2>1, <2>2, <2>3, <2>4, HandlerStepInv DEF HandlerState
<1>2. ASSUME NEW h \in Handlers, TimerExpires(h) PROVE Inv'
  <2>1. /\ handler[h] = "timer" /\ handler' = [handler EXCEPT ![h] = "ready"]
        /\ UNCHANGED <<poolVars, phase, ioVars, prom, on>>
    BY <1>2 DEF TimerExpires
  <2>2. Types' /\ PromiseInv' /\ ThreadInv'
    BY <2>1 DEF Inv, Types, PromiseInv, ThreadInv, HandlerState, ioVars, poolVars
  <2> QED
    BY <2>1, <2>2, Alive, HandlerStepInv DEF HandlerState
<1>3. ASSUME NEW h \in Handlers, RunHandler(h) PROVE Inv'
  <2>1. /\ handler[h] = "ready" /\ handler' = [handler EXCEPT ![h] = "running"]
        /\ UNCHANGED <<poolVars, phase, ioVars, prom>>
    BY <1>3 DEF RunHandler
  <2>2. PICK t \in RunTasks : /\ status[t] = "running" /\ on' = [on EXCEPT ![h] = t]
                              /\ \A g \in Handlers : on[g] # t
    BY <1>3 DEF RunHandler, InRun
  <2>3. Types' /\ PromiseInv'
    BY <2>1, <2>2 DEF Inv, Types, PromiseInv, HandlerState, ioVars
  <2>4. ThreadInv'
    BY <2>1, <2>2 DEF Inv, Types, ThreadInv, poolVars
  <2> QED
    BY <2>1, <2>3, <2>4, Alive, HandlerStepInv DEF HandlerState
<1>4. ASSUME NEW h \in Handlers, HandlerReturns(h) PROVE Inv'
  <2>1. /\ handler[h] = "running" /\ handler' = [handler EXCEPT ![h] = "finished"]
        /\ on' = [on EXCEPT ![h] = NoTask]
        /\ \/ prom[h] = "none" /\ prom' = prom
           \/ \E r \in {"value", "exception"} : prom' = [prom EXCEPT ![h] = r]
        /\ UNCHANGED <<poolVars, phase, ioVars>>
    BY <1>4 DEF HandlerReturns
  <2>2. Types' /\ PromiseInv'
    BY <2>1 DEF Inv, Types, PromiseInv, HandlerState, PromiseState, ioVars
  <2>3. ThreadInv'
    BY <2>1 DEF Inv, Types, ThreadInv, poolVars
  <2> QED
    BY <2>1, <2>2, <2>3, Alive, HandlerStepInv DEF HandlerState
<1>5. ASSUME NEW t \in Tasks, SubmitRun(t) \/ SubmitRunThrows(t) PROVE Inv'
  BY <1>5, PhaseStepInv DEF SubmitRun, SubmitRunThrows
<1>6. CASE UnwindIoContext \/ Constructed \/ ResetGuard \/ Stop
  BY <1>6, PhaseStepInv DEF UnwindIoContext, Constructed, ResetGuard, Stop
<1>7. CASE TakeNext
  BY <1>0, <1>7, StartFacts, PoolStepInv DEF TakeNext, Inv
<1>8. ASSUME NEW t \in Tasks, Submit(t) PROVE Inv'
  <2>1. PoolInv' /\ \E s \in Pool!Status : status' = [status EXCEPT ![t] = s]
    BY <1>8, AcceptFacts, RefuseFacts DEF Submit, Inv, Pool!Status
  <2> QED
    BY <1>0, <1>8, <2>1, PoolStepInv DEF Submit
<1>9. ASSUME NEW t \in Tasks, Return(t) PROVE Inv'
  BY <1>0, <1>9, SettleFacts, PoolStepInv DEF Return, Inv
<1>10. CASE PoolCloses
  <2>1. /\ UNCHANGED <<queue, status>> /\ accepting' \in BOOLEAN /\ retired' \in BOOLEAN
        /\ UNCHANGED <<phase, ioVars, handlerVars>>
    BY <1>0, <1>10 DEF PoolCloses, Pool!Close, Pool!Retire
  <2>2. PoolInv'
    BY <2>1, QueueStays DEF Inv
  <2> QED
    BY <2>1, <2>2, PoolStepInv
<1>11. CASE UNCHANGED vars
  <2>1. PoolInv' /\ status' = status
    BY <1>11 DEF vars, poolVars, Inv, PoolInv, Pool!TypeOK
  <2> QED
    BY <1>11, <2>1, PoolStepInv DEF vars
<1> QED
  BY <1>1, <1>2, <1>3, <1>4, <1>5, <1>6, <1>7, <1>8, <1>9, <1>10, <1>11, ThrowInv,
     RunReturnsInv, DestroyInv
     DEF Next, Construct, Execute, Finish, Post, AsyncAfter, Custom, Terminated

(* In every behaviour the threads, promises and phases fit together.       *)
THEOREM Invariance == SafeSpec => []Inv
<1> QED
  BY InitInv, NextInv, PTL DEF SafeSpec

-----------------------------------------------------------------------------
(* The properties of the runs                                              *)

(* Every variable keeps its type; a handler has a thread of its own.       *)
THEOREM TypeCorrect == SafeSpec => []TypeOK
<1>1. Inv => TypeOK
  BY DEF Inv, PoolInv, Types, ThreadInv, TypeOK
<1> QED
  BY <1>1, Invariance, PTL

(* While the context is open every run() is queued or on a worker, but for *)
(* those that a custom handler ended, and none is when the destructor has  *)
(* returned.                                                               *)
THEOREM RunsSpan == SafeSpec => []RunsSpanLifetime
<1>1. Inv => RunsSpanLifetime
  <2> SUFFICES ASSUME Inv PROVE RunsSpanLifetime
    OBVIOUS
  <2>1. phase = "open" => Cardinality(pending) + Cardinality(threw) = Cardinality(RunTasks)
    BY DEF Inv, SpanInv
  <2>2. phase = "destroyed" => pending = {}
    BY DEF Inv, PhaseInv, pending
  <2> QED
    BY <2>1, <2>2 DEF RunsSpanLifetime, pending, threw
<1> QED
  BY <1>1, Invariance, PTL

-----------------------------------------------------------------------------
(* Nobody waits for nothing: the safety under FuturesSettle and            *)
(* DestructorReturns.                                                      *)

(* An accepted task is found in the queue until a worker takes it.         *)
QueuedInv ==
  \A t \in Tasks : status[t] = "queued" => \E i \in 1..Len(queue) : queue[i] = t

(* A context that has been constructed has the futures of all its run()    *)
(* tasks; its destructor waits for them behind the stop(), and leaves no   *)
(* handler to be run.                                                      *)
WaitInv ==
  /\ phase \in {"open", "guardReset", "waiting"} => \A t \in RunTasks : Submitted(t)
  /\ phase = "waiting" => stopped
  /\ phase = "destroyed" =>
       \A h \in Handlers : handler[h] \notin {"timer", "ready", "running"}

(* Some thread has a step: one in run(), one in a handler, one in a task   *)
(* of somebody else, or a free worker with a task to take.                 *)
SomebodyMoves ==
  \/ \E t \in RunTasks : InRun(t)
  \/ \E h \in Handlers : handler[h] = "running"
  \/ \E t \in Tasks \ RunTasks : status[t] = "running"
  \/ queue # <<>> /\ Cardinality(Pool!Running) < NumThreads

(* A run() task that has not settled is never the end of all movement.     *)
LEMMA PendingMoves ==
  ASSUME Inv, QueuedInv, pending # {}
  PROVE  SomebodyMoves
<1>1. PICK t \in RunTasks : status[t] \in {"queued", "running"}
  BY DEF pending
<1>2. CASE \E r \in Tasks : status[r] = "running"
  <2>1. PICK r \in Tasks : status[r] = "running"
    BY <1>2
  <2>2. CASE r \in RunTasks /\ \E h \in Handlers : on[h] = r
    BY <2>2 DEF Inv, ThreadInv, SomebodyMoves
  <2>3. CASE r \in RunTasks /\ ~\E h \in Handlers : on[h] = r
    BY <2>1, <2>3 DEF InRun, SomebodyMoves
  <2>4. CASE r \notin RunTasks
    BY <2>1, <2>4 DEF SomebodyMoves
  <2> QED
    BY <2>2, <2>3, <2>4
<1>3. CASE ~\E r \in Tasks : status[r] = "running"
  <2>1. Pool!Running = {}
    BY <1>3 DEF Pool!Running
  <2>2. Cardinality(Pool!Running) < NumThreads
    BY <2>1, FS_EmptySet
  <2>3. PICK i \in 1..Len(queue) : queue[i] = t
    BY <1>1, <1>3 DEF QueuedInv
  <2>4. queue # <<>>
    BY <2>3
  <2> QED
    BY <2>2, <2>4 DEF SomebodyMoves
<1> QED
  BY <1>2, <1>3

(* Every step leaves the queued tasks in the queue.                        *)
LEMMA NextQueuedInv == Inv /\ QueuedInv /\ [Next]_vars => QueuedInv'
<1> SUFFICES ASSUME Inv, QueuedInv, [Next]_vars PROVE QueuedInv'
  OBVIOUS
<1>0. queue \in Seq(Tasks) /\ Len(queue) \in Nat /\ status \in [Tasks -> Pool!Status]
  BY DEF Inv, PoolInv, Pool!TypeOK
<1>1. CASE UNCHANGED <<queue, status>>
  BY <1>1 DEF QueuedInv
<1>2. ASSUME NEW t \in Tasks, Pool!Accept(t) PROVE QueuedInv'
  <2>1. queue' = Append(queue, t) /\ status' = [status EXCEPT ![t] = "queued"]
    BY <1>2 DEF Pool!Accept
  <2>2. /\ Len(queue') = Len(queue) + 1 /\ queue'[Len(queue) + 1] = t
        /\ \A i \in 1..Len(queue) : queue'[i] = queue[i]
    BY <1>0, <1>2, <2>1
  <2>3. SUFFICES ASSUME NEW u \in Tasks, status'[u] = "queued"
                 PROVE  \E i \in 1..Len(queue') : queue'[i] = u
    BY DEF QueuedInv
  <2>4. CASE u = t
    <3>1. Len(queue) + 1 \in 1..Len(queue')
      BY <1>0, <2>2
    <3> QED
      BY <2>2, <2>4, <3>1
  <2>5. CASE u # t
    <3>1. PICK i \in 1..Len(queue) : queue[i] = u
      BY <1>0, <2>1, <2>3, <2>5 DEF QueuedInv
    <3>2. i \in 1..Len(queue')
      BY <1>0, <2>2
    <3> QED
      BY <2>2, <3>1, <3>2
  <2> QED
    BY <2>4, <2>5
<1>3. CASE Pool!Start
  <2>1. /\ queue # <<>> /\ queue' = Tail(queue)
        /\ status' = [status EXCEPT ![Head(queue)] = "running"]
    BY <1>3 DEF Pool!Start
  <2>2. /\ Head(queue) = queue[1] /\ queue[1] \in Tasks
        /\ Len(queue') = Len(queue) - 1
        /\ \A i \in 1..Len(queue') : queue'[i] = queue[i + 1]
    BY <1>0, <2>1
  <2>3. SUFFICES ASSUME NEW u \in Tasks, status'[u] = "queued"
                 PROVE  \E i \in 1..Len(queue') : queue'[i] = u
    BY DEF QueuedInv
  <2>4. u # queue[1] /\ status[u] = "queued"
    BY <1>0, <2>1, <2>2, <2>3
  <2>5. PICK i \in 1..Len(queue) : queue[i] = u
    BY <2>4 DEF QueuedInv
  <2>6. i - 1 \in 1..Len(queue') /\ (i - 1) + 1 = i
    BY <1>0, <2>2, <2>4, <2>5
  <2> QED
    BY <2>2, <2>5, <2>6
<1>4. ASSUME NEW t \in Tasks, Pool!Refuse(t) \/ Pool!Settle(t) PROVE QueuedInv'
  <2>1. queue' = queue /\ \A u \in Tasks : status'[u] = "queued" => status[u] = "queued"
    BY <1>0, <1>4 DEF Pool!Refuse, Pool!Settle
  <2> QED
    BY <2>1 DEF QueuedInv
<1>5. ASSUME NEW h \in Handlers, HandlerThrows(h) PROVE QueuedInv'
  <2>1. on[h] \in Tasks
    BY <1>5, TasksAssumption DEF HandlerThrows, Inv, Types, ThreadInv
  <2> QED
    BY <1>4, <1>5, <2>1 DEF HandlerThrows
<1>6. ASSUME NEW h \in Handlers,
             Post(h) \/ AsyncAfter(h) \/ Custom(h) \/ Execute(h) \/ HandlerReturns(h)
      PROVE  QueuedInv'
  BY <1>1, <1>6 DEF Post, AsyncAfter, Custom, Request, Execute, TimerExpires, RunHandler,
                    HandlerReturns, poolVars
<1>7. ASSUME NEW t \in Tasks,
             SubmitRun(t) \/ SubmitRunThrows(t) \/ RunReturns(t) \/ Submit(t) \/ Return(t)
      PROVE  QueuedInv'
  BY <1>2, <1>4, <1>7 DEF SubmitRun, SubmitRunThrows, RunReturns, Submit, Return
<1>8. CASE \/ UnwindIoContext \/ Constructed \/ ResetGuard \/ Stop \/ DestroyMembers
           \/ UNCHANGED vars
  BY <1>1, <1>8 DEF UnwindIoContext, Constructed, ResetGuard, Stop, DestroyMembers, vars,
                    poolVars
<1>9. CASE TakeNext \/ PoolCloses
  BY <1>1, <1>3, <1>9 DEF TakeNext, PoolCloses, Pool!Close, Pool!Retire
<1> QED
  BY <1>5, <1>6, <1>7, <1>8, <1>9 DEF Next, Construct, Finish, Terminated

(* A status that is beyond submit() stays so; stop() is not taken back.    *)
LEMMA NextWaitInv == Inv /\ WaitInv /\ [Next]_vars => WaitInv'
<1> SUFFICES ASSUME Inv, WaitInv, [Next]_vars PROVE WaitInv'
  OBVIOUS
<1>0. status \in [Tasks -> Pool!Status] /\ stopped \in BOOLEAN
  BY DEF Inv, PoolInv, Pool!TypeOK, Types
<1>1. ASSUME phase' = phase, stopped => stopped',
             phase = "destroyed" => UNCHANGED handler,
             \A t \in RunTasks : Submitted(t) => Submitted(t)'
      PROVE  WaitInv'
  BY <1>1 DEF WaitInv, Submitted
<1>2. ASSUME NEW t \in Tasks, Pool!Accept(t) \/ Pool!Refuse(t) \/ Pool!Settle(t)
      PROVE  \A u \in RunTasks : Submitted(u) => Submitted(u)'
  BY <1>0, <1>2 DEF Pool!Accept, Pool!Refuse, Pool!Settle, Submitted
<1>3. ASSUME NEW t \in Tasks,
             SubmitRun(t) \/ RunReturns(t) \/ Submit(t) \/ Return(t)
      PROVE  WaitInv'
  BY <1>1, <1>2, <1>3 DEF SubmitRun, RunReturns, Submit, Return, ioVars, handlerVars
<1>4. ASSUME NEW t \in Tasks, SubmitRunThrows(t) PROVE WaitInv'
  BY <1>4 DEF SubmitRunThrows, WaitInv
<1>5. CASE UnwindIoContext \/ Constructed \/ ResetGuard \/ Stop
  BY <1>5 DEF UnwindIoContext, Constructed, ResetGuard, Stop, WaitInv, Submitted, poolVars,
              ioVars
<1>6. ASSUME NEW h \in Handlers,
             Post(h) \/ AsyncAfter(h) \/ Custom(h) \/ Execute(h) \/ HandlerReturns(h)
      PROVE  WaitInv'
  <2>1. /\ phase' = phase /\ UNCHANGED <<poolVars, ioVars>>
        /\ MayCall \/ handler[h] \in {"timer", "ready", "running"}
    BY <1>6 DEF Post, AsyncAfter, Custom, Request, Execute, TimerExpires, RunHandler,
                HandlerReturns
  <2>2. phase # "destroyed"
    BY <2>1, Alive DEF WaitInv
  <2> QED
    BY <1>1, <2>1, <2>2 DEF Submitted, poolVars, ioVars
<1>7. ASSUME NEW h \in Handlers, HandlerThrows(h) PROVE WaitInv'
  <2>1. on[h] \in Tasks
    BY <1>7, TasksAssumption DEF HandlerThrows, Inv, Types, ThreadInv
  <2>2. phase # "destroyed"
    BY <1>7, Alive DEF HandlerThrows
  <2> QED
    BY <1>1, <1>2, <1>7, <2>1, <2>2 DEF HandlerThrows, ioVars
<1>8. CASE TakeNext
  <2>1. \E t \in Tasks : status[t] = "queued" /\ status' = [status EXCEPT ![t] = "running"]
    BY <1>8, StartFacts DEF TakeNext, Inv
  <2>2. \A u \in RunTasks : Submitted(u) => Submitted(u)'
    BY <1>0, <2>1 DEF Submitted
  <2> QED
    BY <1>1, <1>8, <2>2 DEF TakeNext, ioVars, handlerVars
<1>9. CASE PoolCloses \/ UNCHANGED vars
  BY <1>1, <1>9 DEF PoolCloses, Pool!Close, Pool!Retire, Submitted, vars, poolVars, ioVars,
                    handlerVars
<1>10. CASE DestroyMembers
  <2>1. /\ phase' = "destroyed" /\ DropHandlers
        /\ \A h \in Handlers : handler[h] # "running"
    BY <1>10, DestroyInv DEF DestroyMembers
  <2>2. \A h \in Handlers : handler'[h] \notin {"timer", "ready", "running"}
    BY <2>1 DEF DropHandlers
  <2> QED
    BY <2>1, <2>2 DEF WaitInv
<1> QED
  BY <1>3, <1>4, <1>5, <1>6, <1>7, <1>8, <1>9, <1>10 DEF Next, Construct, Finish, Terminated

(* In every behaviour the queue and the destructor's futures are in order. *)
THEOREM WaitInvariance == SafeSpec => [](Inv /\ QueuedInv /\ WaitInv)
<1>1. Init => QueuedInv /\ WaitInv
  BY DEF Init, Pool!Init, QueuedInv, WaitInv
<1> QED
  BY <1>1, NextQueuedInv, NextWaitInv, Invariance, PTL DEF SafeSpec

(* ~AsioContext() waits for futures that exist, and while it waits for one *)
(* some thread has a step; those in run() return, the context is stopped.  *)
DestructorServed ==
  phase = "waiting" /\ (\E t \in RunTasks : status[t] # "settled") =>
    stopped /\ SomebodyMoves

(* The destructor never waits for everybody while everybody waits, whether *)
(* its run() tasks are queued, running or inside a handler.                *)
THEOREM DestructorNeverStuck == SafeSpec => []DestructorServed
<1>1. ASSUME Inv, QueuedInv, WaitInv PROVE DestructorServed
  <2>1. SUFFICES ASSUME phase = "waiting", NEW t \in RunTasks, status[t] # "settled"
                 PROVE  stopped /\ SomebodyMoves
    BY DEF DestructorServed
  <2>2. status[t] \in {"queued", "running"}
    BY <1>1, <2>1 DEF Inv, PoolInv, Pool!TypeOK, Pool!Status, WaitInv, Submitted
  <2>3. pending # {}
    BY <2>2 DEF pending
  <2> QED
    BY <1>1, <2>1, <2>3, PendingMoves DEF WaitInv
<1> QED
  BY <1>1, WaitInvariance, PTL

(* A future is pending only while the context lives; and while it is open, *)
(* unless custom handlers have thrown all threads out of run(), the        *)
(* io_context is not stopped and some thread has a step.                   *)
FuturesServed ==
  \A h \in Handlers : prom[h] = "pending" =>
    /\ phase \in {"open", "guardReset", "waiting"}
    /\ phase = "open" /\ Cardinality(threw) < Cardinality(RunTasks) =>
         ~stopped /\ SomebodyMoves

(* No future of post() or async_after() is forgotten by an open context.   *)
THEOREM FuturesNeverStuck == SafeSpec => []FuturesServed
<1>1. ASSUME Inv, QueuedInv, WaitInv PROVE FuturesServed
  <2>1. SUFFICES ASSUME NEW h \in Handlers, prom[h] = "pending"
                 PROVE  /\ phase \in {"open", "guardReset", "waiting"}
                        /\ phase = "open" /\ Cardinality(threw) < Cardinality(RunTasks) =>
                             ~stopped /\ SomebodyMoves
    BY DEF FuturesServed
  <2>2. handler[h] \in {"timer", "ready", "running"}
    BY <1>1, <2>1 DEF Inv, PromiseInv
  <2>3. phase \in {"open", "guardReset", "waiting", "destroyed"}
    BY <1>1, <2>2 DEF Inv, Types, Phase, PhaseInv
  <2>4. phase # "destroyed"
    BY <1>1, <2>2 DEF WaitInv
  <2>5. ASSUME phase = "open", Cardinality(threw) < Cardinality(RunTasks)
        PROVE  ~stopped /\ SomebodyMoves
    <3>1. pending # {}
      <4>1. Cardinality(pending) + Cardinality(threw) = Cardinality(RunTasks)
        BY <1>1, <2>5 DEF Inv, SpanInv
      <4>2. Cardinality(threw) \in Nat
        BY <1>1, FS_CardinalityType DEF Inv, SpanInv
      <4>3. Cardinality({}) = 0
        BY FS_EmptySet
      <4> QED
        BY <2>5, <4>1, <4>2, <4>3
    <3> QED
      BY <1>1, <2>5, <3>1, PendingMoves DEF Inv, PhaseInv
  <2> QED
    BY <2>3, <2>4, <2>5
<1> QED
  BY <1>1, WaitInvariance, PTL

(* With a worker more than io threads, the tasks that other users of the   *)
(* pool have in its queue never wait for run() alone: another of theirs is *)
(* on a worker, or a worker is free to take the head of the queue.         *)
OthersServed ==
  Cardinality(RunTasks) < NumThreads =>
    \A t \in Tasks \ RunTasks : status[t] = "queued" =>
      \/ \E u \in Tasks \ RunTasks : status[u] = "running"
      \/ queue # <<>> /\ Cardinality(Pool!Running) < NumThreads

(* The io threads occupy at most as many workers as there are of them,     *)
(* however many handlers run, block or throw.                              *)
THEOREM OthersNeverStarve == SafeSpec => []OthersServed
<1>1. ASSUME Inv, QueuedInv PROVE OthersServed
  <2>1. SUFFICES ASSUME Cardinality(RunTasks) < NumThreads,
                        NEW t \in Tasks \ RunTasks, status[t] = "queued",
                        \A u \in Tasks \ RunTasks : status[u] # "running"
                 PROVE  queue # <<>> /\ Cardinality(Pool!Running) < NumThreads
    BY DEF OthersServed
  <2>2. queue # <<>>
    BY <1>1, <2>1 DEF QueuedInv
  <2>3. Pool!Running \subseteq RunTasks
    BY <2>1 DEF Pool!Running
  <2>4. Cardinality(Pool!Running) <= Cardinality(RunTasks)
    BY <2>3, RunTasksAssumption, FS_Subset
  <2>5. Cardinality(RunTasks) \in Nat /\ Cardinality(Pool!Running) \in Nat
    BY <2>3, RunTasksAssumption, FS_Subset, FS_CardinalityType
  <2> QED
    BY <2>1, <2>2, <2>4, <2>5, ThreadsAssumption
<1> QED
  BY <1>1, WaitInvariance, PTL

-----------------------------------------------------------------------------
(* Refinement                                                              *)

alive == phase \notin {"failed", "destroyed"}

call ==
  [h \in Handlers |->
     IF prom[h] = "pending" /\ handler[h] = "running" THEN "running" ELSE prom[h]]

(* A request puts one call on its way, or none if it has no future.        *)
LEMMA RequestRefines ==
  ASSUME Inv, NEW h \in Handlers, NEW s, NEW r,
         s \in {"ready", "timer"}, r \in {"pending", "none"}, Request(h, s, r)
  PROVE  [Calls!Next]_Calls!callVars
<1>1. /\ handler[h] = "new" /\ handler' = [handler EXCEPT ![h] = s]
      /\ prom' = [prom EXCEPT ![h] = r] /\ phase' = phase
  BY DEF Request
<1>2. /\ alive /\ prom[h] = "none"
      /\ handler \in [Handlers -> HandlerState] /\ prom \in [Handlers -> PromiseState]
  BY <1>1, Alive DEF Request, Inv, Types, PromiseInv, alive
<1>3. call[h] = "none" /\ call' = [call EXCEPT ![h] = r] /\ alive' = alive
  <2>1. \A g \in Handlers : call'[g] = IF g = h THEN r ELSE call[g]
    BY <1>1, <1>2 DEF call
  <2> QED
    BY <1>1, <1>2, <2>1 DEF call, alive
<1>4. CASE r = "pending"
  BY <1>2, <1>3, <1>4 DEF Calls!Next, Calls!Request, Calls!Become, call, alive
<1>5. CASE r = "none"
  <2>1. call' = call
    BY <1>3, <1>5 DEF call
  <2> QED
    BY <1>3, <2>1 DEF Calls!callVars, call, alive
<1> QED
  BY <1>4, <1>5

(* A step of one handler that is on its way moves its call on, or not.     *)
LEMMA ExecuteRefines ==
  ASSUME Inv, NEW h \in Handlers, TimerExpires(h) \/ RunHandler(h)
  PROVE  [Calls!Next]_Calls!callVars
<1>1. /\ prom' = prom /\ phase' = phase /\ handler[h] \in {"timer", "ready"}
      /\ \/ handler[h] = "timer" /\ handler' = [handler EXCEPT ![h] = "ready"]
         \/ handler[h] = "ready" /\ handler' = [handler EXCEPT ![h] = "running"]
      /\ \E t \in RunTasks : status[t] = "running"
  BY DEF TimerExpires, RunHandler, InRun
<1>2. /\ alive /\ handler \in [Handlers -> HandlerState]
      /\ prom[h] \in {"none", "pending"} /\ prom \in [Handlers -> PromiseState]
  BY <1>1, Alive DEF Inv, Types, PromiseInv, alive
<1>3. CASE prom[h] = "pending" /\ handler[h] = "ready"
  <2>1. \A g \in Handlers : call'[g] = IF g = h THEN "running" ELSE call[g]
    BY <1>1, <1>2, <1>3 DEF call
  <2>2. call[h] = "pending" /\ call' = [call EXCEPT ![h] = "running"] /\ alive' = alive
    BY <1>1, <1>2, <1>3, <2>1 DEF call, alive
  <2> QED
    BY <1>2, <2>2 DEF Calls!Next, Calls!Begin, Calls!Become, call, alive
<1>4. CASE prom[h] = "none" \/ handler[h] = "timer"
  <2>1. \A g \in Handlers : call'[g] = call[g]
    BY <1>1, <1>2, <1>4 DEF call
  <2>2. call' = call /\ alive' = alive
    BY <1>1, <2>1 DEF call, alive
  <2> QED
    BY <2>2 DEF Calls!callVars, call, alive
<1> QED
  BY <1>1, <1>2, <1>3, <1>4

(* A handler that is done ends its call, if it has one.                    *)
LEMMA FinishRefines ==
  ASSUME Inv, NEW h \in Handlers, HandlerReturns(h) \/ HandlerThrows(h)
  PROVE  [Calls!Next]_Calls!callVars
<1>1. /\ handler[h] = "running" /\ phase' = phase
      /\ \E s \in {"finished", "threw"} : handler' = [handler EXCEPT ![h] = s]
      /\ \/ prom[h] = "none" /\ prom' = prom
         \/ /\ prom[h] # "none"
            /\ \E r \in {"value", "exception"} : prom' = [prom EXCEPT ![h] = r]
  BY DEF HandlerReturns, HandlerThrows, ioVars
<1>2. /\ alive /\ handler \in [Handlers -> HandlerState]
      /\ prom[h] \in {"none", "pending"} /\ prom \in [Handlers -> PromiseState]
  BY <1>1, Alive DEF Inv, Types, PromiseInv, alive
<1>3. CASE prom[h] = "pending"
  <2>1. PICK r \in {"value", "exception"} : prom' = [prom EXCEPT ![h] = r]
    BY <1>1, <1>3
  <2>2. \A g \in Handlers : call'[g] = IF g = h THEN r ELSE call[g]
    BY <1>1, <1>2, <1>3, <2>1 DEF call
  <2>3. call[h] = "running" /\ call' = [call EXCEPT ![h] = r] /\ alive' = alive
    BY <1>1, <1>2, <1>3, <2>2 DEF call, alive
  <2> QED
    BY <1>2, <2>1, <2>3 DEF Calls!Next, Calls!End, Calls!Become, call, alive
<1>4. CASE prom[h] = "none"
  <2>1. \A g \in Handlers : call'[g] = call[g]
    BY <1>1, <1>2, <1>4 DEF call
  <2>2. call' = call /\ alive' = alive
    BY <1>1, <2>1 DEF call, alive
  <2> QED
    BY <2>2 DEF Calls!callVars, call, alive
<1> QED
  BY <1>2, <1>3, <1>4

(* The context goes away, and breaks the calls that have not begun.        *)
LEMMA DieRefines ==
  ASSUME Inv, DestroyMembers \/ UnwindIoContext
  PROVE  [Calls!Next]_Calls!callVars
<1>1. /\ alive /\ ~alive' /\ \A h \in Handlers : handler[h] # "running"
      /\ handler \in [Handlers -> HandlerState] /\ prom \in [Handlers -> PromiseState]
  <2>1. alive /\ ~alive'
    BY DEF DestroyMembers, UnwindIoContext, alive
  <2>2. CASE DestroyMembers
    BY <2>1, <2>2, DestroyInv DEF Inv, Types
  <2>3. CASE UnwindIoContext
    BY <2>1, <2>3 DEF UnwindIoContext, Inv, PhaseInv, Types
  <2> QED
    BY <2>2, <2>3
<1>2. \A h \in Handlers : call[h] # "running"
  BY <1>1 DEF call, PromiseState
<1>3. \A h \in Handlers : call'[h] = IF call[h] = "pending" THEN "broken" ELSE call[h]
  <2>1. CASE DestroyMembers
    BY <1>1, <2>1 DEF DestroyMembers, DropHandlers, call, Inv, PromiseInv
  <2>2. CASE UnwindIoContext
    BY <1>1, <2>2 DEF UnwindIoContext, handlerVars, call, Inv, PromiseInv, PhaseInv
  <2> QED
    BY <2>1, <2>2
<1>4. call' = [h \in Handlers |-> IF call[h] = "pending" THEN "broken" ELSE call[h]]
  BY <1>3 DEF call
<1>5. Calls!Die
  BY <1>1, <1>2, <1>4 DEF Calls!Die, call, alive
<1> QED
  BY <1>5 DEF Calls!Next

(* The futures behave as DeferredCalls says: each settles at most once, by *)
(* a call that ran while the context was alive, or broken by its end.      *)
THEOREM ImplementsCalls == SafeSpec => CallsSpec
<1>1. Init => Calls!Init
  BY DEF Init, Calls!Init
<1>2. Inv /\ [Next]_vars => [Calls!Next]_Calls!callVars
  <2> SUFFICES ASSUME Inv, [Next]_vars PROVE [Calls!Next]_Calls!callVars
    OBVIOUS
  <2>1. ASSUME NEW h \in Handlers, Post(h) \/ AsyncAfter(h) \/ Custom(h)
        PROVE  [Calls!Next]_Calls!callVars
    BY <2>1, RequestRefines DEF Post, AsyncAfter, Custom
  <2>2. ASSUME NEW h \in Handlers, Execute(h) \/ Finish(h)
        PROVE  [Calls!Next]_Calls!callVars
    BY <2>2, ExecuteRefines, FinishRefines DEF Execute, Finish
  <2>3. CASE DestroyMembers \/ UnwindIoContext
    BY <2>3, DieRefines
  <2>4. CASE \/ \E t \in Tasks : SubmitRun(t) \/ SubmitRunThrows(t) \/ RunReturns(t)
                                 \/ Submit(t) \/ Return(t)
             \/ Constructed \/ ResetGuard \/ Stop \/ TakeNext \/ PoolCloses \/ UNCHANGED vars
    <3>1. handler' = handler /\ prom' = prom
      BY <2>4 DEF SubmitRun, SubmitRunThrows, RunReturns, Submit, Return, Constructed,
                  ResetGuard, Stop, TakeNext, PoolCloses, handlerVars, vars
    <3>2. alive' = alive
      BY <2>4 DEF SubmitRun, SubmitRunThrows, RunReturns, Submit, Return, Constructed,
                  ResetGuard, Stop, TakeNext, PoolCloses, vars, alive
    <3>3. call' = call
      BY <3>1 DEF call
    <3> QED
      BY <3>2, <3>3 DEF Calls!callVars, call, alive
  <2> QED
    BY <2>1, <2>2, <2>3, <2>4 DEF Next, Construct, Terminated
<1> QED
  BY <1>1, <1>2, Invariance, PTL DEF SafeSpec, CallsSpec, Calls!SafeSpec

=============================================================================
