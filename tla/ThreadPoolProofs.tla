-------------------------- MODULE ThreadPoolProofs --------------------------
(***************************************************************************)
(* Proofs about ThreadPool, for every number of workers, clients and       *)
(* tasks.  Inv is the inductive invariant; its conjuncts are named for     *)
(* what they say about the code.                                           *)
(***************************************************************************)
EXTENDS ThreadPool, TLAPS, FiniteSetTheorems, SequenceTheorems

(* The pool is only ever used between the constructor and the destructor;  *)
(* a constructor that has not finished, or has failed, has seen no call.   *)
Unusable == phase \in {"constructing", "unwinding", "failed"}

UnusableInv ==
  Unusable =>
    /\ tasks_ = <<>> /\ ~shutdown_
    /\ \A p \in Threads \ {Owner} : call[p] = "none"
    /\ \A w \in Workers : ~Busy(w)

(* workers_.size() in each phase, and what the owner may be inside.        *)
PhaseInv ==
  /\ phase = "constructing" =>
       spawned < NumThreads /\ call[Owner] = "none" /\ index[Owner] = 1
  /\ phase = "unwinding" => spawned > 0 /\ index[Owner] <= spawned
  /\ ~Unusable => spawned = NumThreads
  /\ phase \in {"failed", "up", "gone"} => call[Owner] = "none"
  /\ phase \in {"joining", "unwinding"} =>
       call[Owner] \in {"none", "stopCallback"}
  /\ phase = "destroying" => call[Owner] # "notifyOne"

(* A worker calls into the pool only from a callable, a client only while  *)
(* the pool is up.                                                         *)
CallInv ==
  /\ \A w \in Workers : call[w] # "none" => Busy(w)
  /\ \A c \in Clients : call[c] # "none" => phase = "up"

(* The queue is closed before any worker is told to stop, except when the  *)
(* constructor unwinds.                                                    *)
StopInv ==
  /\ phase \in {"destroying", "joining", "gone"} => shutdown_
  /\ \A p \in Threads :
       call[p] \in {"notifyAll", "requestStop", "stopCallback"} =>
         shutdown_ \/ phase = "unwinding"
  /\ \A w \in Workers :
       stop[w] => shutdown_ \/ phase \in {"unwinding", "failed"}
  /\ \A w \in Workers : pc[w] \in {"drain", "drainRun", "exited"} => stop[w]

(* Threads exist once spawned; sleepers are in wait(); an exited worker    *)
(* left an empty queue behind; a worker holds a callable exactly while it  *)
(* runs it.                                                                *)
WorkerInv ==
  /\ \A w \in Workers : pc[w] = "unborn" <=> w > spawned
  /\ \A w \in waiters : pc[w] = "wait"
  /\ \A w \in Workers : pc[w] = "exited" => tasks_ = <<>>
  /\ \A w \in Workers : Busy(w) <=> cur[w] # NoTask

Inv1 == TypeOK /\ UnusableInv /\ PhaseInv /\ CallInv /\ StopInv /\ WorkerInv

USE NumThreadsAssumption, ThreadsAssumption, TasksAssumption, WaitersAssumption

(* The initial state satisfies the control invariant.                      *)
LEMMA InitInv1 == Init => Inv1
<1> SUFFICES ASSUME Init PROVE Inv1
  OBVIOUS
<1> USE DEF Init, QueueInit, Workers, Threads
<1>1. TypeOK
  <2>1. QueueTypeOK
    <3>1. shutdown_ \in BOOLEAN /\ waiters \subseteq Waiters
      BY Zenon
    <3>2. tasks_ \in Seq(Tasks)
      OBVIOUS
    <3> QED
      BY <3>1, <3>2 DEF QueueTypeOK
  <2>2. accepted \in Seq(Tasks) /\ popped \in Seq(Tasks)
    OBVIOUS
  <2>3. index \in [Threads -> Workers] /\ spawned \in 0..NumThreads
    OBVIOUS
  <2>4. /\ pc \in [Workers -> WorkerPC]
        /\ cur \in [Workers -> Tasks \cup {NoTask}]
        /\ stop \in [Workers -> BOOLEAN]
        /\ call \in [Threads -> CallPC]
        /\ phase \in Phase
        /\ future \in [Tasks -> FutureState]
    BY DEF WorkerPC, CallPC, FutureState, Phase
  <2> QED
    BY <2>1, <2>2, <2>3, <2>4 DEF TypeOK
<1>2. UnusableInv /\ WorkerInv
  BY DEF UnusableInv, WorkerInv, Busy
<1>3. PhaseInv /\ CallInv /\ StopInv
  BY DEF PhaseInv, CallInv, StopInv, Unusable
<1> QED
  BY <1>1, <1>2, <1>3 DEF Inv1

(* A pop, in either loop of a worker, preserves the control invariant.     *)
LEMMA TookInv1 ==
  ASSUME Inv1, NEW w \in Workers, NEW t \in Tasks, NEW next,
         TakeFront(t), Took(w, t, next),
         \/ Awake(w) /\ next = "run"
         \/ pc[w] = "drain" /\ next = "drainRun"
  PROVE  Inv1'
<1> USE DEF Inv1, Workers, Threads, Unusable, Busy, TakeFront, Took, Awake
<1>1. TypeOK'
  <2>1. tasks_' \in Seq(Tasks) /\ popped' \in Seq(Tasks)
    BY DEF TypeOK, QueueTypeOK
  <2>2. /\ pc' \in [Workers -> WorkerPC]
        /\ cur' \in [Workers -> Tasks \cup {NoTask}]
    BY DEF TypeOK, WorkerPC
  <2> QED
    BY <2>1, <2>2 DEF TypeOK, QueueTypeOK
<1>2. ~Unusable
  BY DEF UnusableInv
<1>3. UnusableInv' /\ PhaseInv'
  BY <1>2 DEF UnusableInv, PhaseInv
<1>4. CallInv' /\ StopInv'
  BY DEF TypeOK, CallInv, StopInv
<1>5. WorkerInv'
  <2>1. \A v \in Workers : pc[v] # "exited"
    BY DEF WorkerInv
  <2>2. \A v \in Workers \ {w} : pc'[v] = pc[v] /\ cur'[v] = cur[v]
    BY DEF TypeOK
  <2>3. pc'[w] = next /\ cur'[w] = t /\ t # NoTask
    BY DEF TypeOK
  <2>4. w \notin waiters
    BY DEF WorkerInv
  <2>5. \A v \in waiters : v \in Workers \ {w}
    BY <2>4 DEF TypeOK, QueueTypeOK
  <2> QED
    BY <2>1, <2>2, <2>3, <2>5 DEF WorkerInv
<1> QED
  BY <1>1, <1>3, <1>4, <1>5

(* Every step of the pool preserves the control invariant.                 *)
LEMMA NextInv1 == Inv1 /\ [Next]_vars => Inv1'
<1> SUFFICES ASSUME Inv1, [Next]_vars PROVE Inv1'
  OBVIOUS
<1> USE DEF Inv1, Workers, Threads, queueVars, Unusable, Busy
<1>1. CASE Spawn
  <2>1. TypeOK'
    BY <1>1 DEF TypeOK, QueueTypeOK, WorkerPC, Phase, Spawn
  <2>2. UnusableInv'
    BY <1>1 DEF TypeOK, UnusableInv, Spawn
  <2>3. PhaseInv'
    BY <1>1 DEF TypeOK, PhaseInv, Spawn
  <2>4. CallInv'
    BY <1>1 DEF TypeOK, CallInv, UnusableInv, Spawn
  <2>5. StopInv'
    BY <1>1 DEF TypeOK, StopInv, Spawn
  <2>6. WorkerInv'
    BY <1>1 DEF TypeOK, WorkerInv, Spawn
  <2> QED
    BY <2>1, <2>2, <2>3, <2>4, <2>5, <2>6
<1>2. CASE SpawnThrows
  <2>1. TypeOK'
    BY <1>2 DEF TypeOK, QueueTypeOK, Phase, SpawnThrows
  <2>2. UnusableInv'
    BY <1>2 DEF UnusableInv, SpawnThrows
  <2>3. PhaseInv'
    BY <1>2 DEF TypeOK, PhaseInv, SpawnThrows
  <2>4. CallInv'
    BY <1>2 DEF CallInv, SpawnThrows
  <2>5. StopInv'
    BY <1>2 DEF StopInv, SpawnThrows
  <2>6. WorkerInv'
    BY <1>2 DEF WorkerInv, SpawnThrows
  <2> QED
    BY <2>1, <2>2, <2>3, <2>4, <2>5, <2>6
<1>3. CASE Destroy
  <2>1. TypeOK'
    BY <1>3
       DEF TypeOK, QueueTypeOK, CallPC, Phase, Destroy, EnterShutdown,
           SetShutdown
  <2>2. UnusableInv'
    BY <1>3 DEF TypeOK, UnusableInv, Destroy
  <2>3. PhaseInv'
    BY <1>3 DEF TypeOK, PhaseInv, Destroy, EnterShutdown
  <2>4. CallInv'
    BY <1>3 DEF TypeOK, CallInv, Destroy, EnterShutdown
  <2>5. StopInv'
    BY <1>3 DEF TypeOK, StopInv, Destroy, EnterShutdown, SetShutdown
  <2>6. WorkerInv'
    BY <1>3 DEF WorkerInv, Destroy, EnterShutdown, SetShutdown
  <2> QED
    BY <2>1, <2>2, <2>3, <2>4, <2>5, <2>6
<1>4. CASE StartJoining
  <2>1. TypeOK'
    BY <1>4 DEF TypeOK, QueueTypeOK, Phase, StartJoining
  <2>2. UnusableInv'
    BY <1>4 DEF UnusableInv, StartJoining
  <2>3. PhaseInv'
    BY <1>4 DEF TypeOK, PhaseInv, StartJoining
  <2>4. CallInv'
    BY <1>4 DEF CallInv, StartJoining
  <2>5. StopInv'
    BY <1>4 DEF StopInv, StartJoining
  <2>6. WorkerInv'
    BY <1>4 DEF WorkerInv, StartJoining
  <2> QED
    BY <2>1, <2>2, <2>3, <2>4, <2>5, <2>6
<1>5. CASE JthreadRequestStop
  <2>1. TypeOK'
    BY <1>5 DEF TypeOK, QueueTypeOK, CallPC, JthreadRequestStop
  <2>2. UnusableInv'
    BY <1>5 DEF TypeOK, UnusableInv, JthreadRequestStop
  <2>3. PhaseInv'
    BY <1>5 DEF TypeOK, PhaseInv, JthreadRequestStop, Joining
  <2>4. CallInv'
    BY <1>5 DEF TypeOK, CallInv, JthreadRequestStop
  <2>5. StopInv'
    BY <1>5 DEF TypeOK, StopInv, JthreadRequestStop, Joining
  <2>6. WorkerInv'
    BY <1>5 DEF WorkerInv, JthreadRequestStop
  <2> QED
    BY <2>1, <2>2, <2>3, <2>4, <2>5, <2>6
<1>6. CASE Join
  <2>1. TypeOK'
    <3>1. index' \in [Threads -> Workers]
      <4>1. CASE index[Owner] < spawned
        <5>1. index[Owner] + 1 \in Workers
          BY <4>1 DEF TypeOK
        <5> QED
          BY <1>6, <4>1, <5>1 DEF TypeOK, Join
      <4>2. CASE ~(index[Owner] < spawned)
        BY <1>6, <4>2 DEF TypeOK, Join
      <4> QED
        BY <4>1, <4>2
    <3>2. phase' \in Phase
      BY <1>6 DEF TypeOK, Join, Phase
    <3> QED
      BY <1>6, <3>1, <3>2 DEF TypeOK, QueueTypeOK, Join
  <2>2. UnusableInv'
    BY <1>6 DEF UnusableInv, Join, Joining
  <2>3. PhaseInv'
    <3>1. CASE index[Owner] < spawned
      BY <1>6, <3>1 DEF TypeOK, PhaseInv, Join, Joining
    <3>2. CASE ~(index[Owner] < spawned)
      BY <1>6, <3>2 DEF TypeOK, PhaseInv, Join, Joining
    <3> QED
      BY <3>1, <3>2
  <2>4. CallInv'
    BY <1>6 DEF CallInv, Join, Joining
  <2>5. StopInv'
    BY <1>6 DEF StopInv, UnusableInv, Join, Joining
  <2>6. WorkerInv'
    BY <1>6 DEF WorkerInv, Join
  <2> QED
    BY <2>1, <2>2, <2>3, <2>4, <2>5, <2>6
<1>7. CASE Terminated
  <2>1. TypeOK'
    BY <1>7 DEF TypeOK, QueueTypeOK, Terminated, vars, poolVars
  <2>2. UnusableInv'
    BY <1>7 DEF UnusableInv, Terminated, vars, poolVars
  <2>3. PhaseInv'
    BY <1>7 DEF PhaseInv, Terminated, vars, poolVars
  <2>4. CallInv'
    BY <1>7 DEF CallInv, Terminated, vars, poolVars
  <2>5. StopInv'
    BY <1>7 DEF StopInv, Terminated, vars, poolVars
  <2>6. WorkerInv'
    BY <1>7 DEF WorkerInv, Terminated, vars, poolVars
  <2> QED
    BY <2>1, <2>2, <2>3, <2>4, <2>5, <2>6
<1>8. ASSUME NEW p \in Threads, NotifyOne(p)
      PROVE  Inv1'
  <2>1. TypeOK'
    BY <1>8 DEF TypeOK, QueueTypeOK, CallPC, NotifyOne, CvNotifyOne
  <2>2. UnusableInv'
    BY <1>8 DEF TypeOK, UnusableInv, NotifyOne, CvNotifyOne
  <2>3. PhaseInv'
    BY <1>8 DEF TypeOK, PhaseInv, NotifyOne
  <2>4. CallInv'
    BY <1>8 DEF TypeOK, CallInv, NotifyOne
  <2>5. StopInv'
    BY <1>8 DEF TypeOK, StopInv, NotifyOne, CvNotifyOne
  <2>6. WorkerInv'
    BY <1>8 DEF WorkerInv, NotifyOne, CvNotifyOne
  <2> QED
    BY <2>1, <2>2, <2>3, <2>4, <2>5, <2>6
<1>9. ASSUME NEW p \in Threads, NotifyAll(p)
      PROVE  Inv1'
  <2>1. TypeOK'
    BY <1>9 DEF TypeOK, QueueTypeOK, CallPC, NotifyAll, CvNotifyAll
  <2>2. UnusableInv'
    BY <1>9 DEF TypeOK, UnusableInv, NotifyAll, CvNotifyAll
  <2>3. PhaseInv'
    BY <1>9 DEF TypeOK, PhaseInv, NotifyAll
  <2>4. CallInv'
    BY <1>9 DEF TypeOK, CallInv, NotifyAll
  <2>5. StopInv'
    BY <1>9 DEF TypeOK, StopInv, NotifyAll, CvNotifyAll
  <2>6. WorkerInv'
    BY <1>9 DEF WorkerInv, NotifyAll, CvNotifyAll
  <2> QED
    BY <2>1, <2>2, <2>3, <2>4, <2>5, <2>6
<1>10. ASSUME NEW p \in Threads, RequestStop(p)
      PROVE  Inv1'
  <2>0. ~Unusable
    <3>1. CASE p = Owner
      BY <1>10, <3>1 DEF RequestStop, PhaseInv
    <3>2. CASE p # Owner
      BY <1>10, <3>2 DEF RequestStop, UnusableInv
    <3> QED
      BY <3>1, <3>2
  <2>1. TypeOK'
    <3>1. index' \in [Threads -> Workers] /\ call' \in [Threads -> CallPC]
      <4>1. CASE NextWorker(p) /\ ~Unusable
        <5>1. spawned = NumThreads /\ index[p] \in Workers
          BY <4>1 DEF PhaseInv, TypeOK
        <5>2. index[p] # spawned => index[p] + 1 \in Workers
          BY <5>1
        <5>3. index \in [Threads -> Workers] /\ call \in [Threads -> CallPC]
          BY DEF TypeOK
        <5>4. CASE index[p] = spawned
          BY <4>1, <5>3, <5>4 DEF NextWorker, CallPC
        <5>5. CASE index[p] # spawned
          <6> HIDE DEF Workers, Threads
          <6> QED
            BY <4>1, <5>2, <5>3, <5>5 DEF NextWorker, CallPC
        <5> QED
          BY <5>4, <5>5
      <4>2. CASE UNCHANGED index
        BY <1>10, <4>2 DEF RequestStop, NextWorker, TypeOK, CallPC
      <4> QED
        BY <1>10, <2>0, <4>1, <4>2 DEF RequestStop
    <3> QED
      BY <1>10, <3>1 DEF TypeOK, QueueTypeOK, RequestStop
  <2>2. UnusableInv'
    BY <1>10 DEF TypeOK, UnusableInv, RequestStop, NextWorker
  <2>3. PhaseInv'
    BY <1>10, <2>0 DEF TypeOK, PhaseInv, RequestStop, NextWorker
  <2>4. CallInv'
    BY <1>10 DEF TypeOK, CallInv, RequestStop, NextWorker
  <2>5. StopInv'
    BY <1>10 DEF TypeOK, StopInv, RequestStop
  <2>6. WorkerInv'
    BY <1>10 DEF WorkerInv, RequestStop
  <2> QED
    BY <2>1, <2>2, <2>3, <2>4, <2>5, <2>6
<1>11. ASSUME NEW p \in Threads, StopCallback(p)
      PROVE  Inv1'
  <2>0. (p = Owner /\ phase \in {"joining", "unwinding"}) \/ ~Unusable
    <3>1. CASE p = Owner
      BY <1>11, <3>1 DEF StopCallback, PhaseInv
    <3>2. CASE p # Owner
      BY <1>11, <3>2 DEF StopCallback, UnusableInv
    <3> QED
      BY <3>1, <3>2
  <2>1. TypeOK'
    <3>1. index' \in [Threads -> Workers] /\ call' \in [Threads -> CallPC]
      <4>1. CASE NextWorker(p) /\ ~Unusable
        <5>1. spawned = NumThreads /\ index[p] \in Workers
          BY <4>1 DEF PhaseInv, TypeOK
        <5>2. index[p] # spawned => index[p] + 1 \in Workers
          BY <5>1
        <5>3. index \in [Threads -> Workers] /\ call \in [Threads -> CallPC]
          BY DEF TypeOK
        <5>4. CASE index[p] = spawned
          BY <4>1, <5>3, <5>4 DEF NextWorker, CallPC
        <5>5. CASE index[p] # spawned
          <6> HIDE DEF Workers, Threads
          <6> QED
            BY <4>1, <5>2, <5>3, <5>5 DEF NextWorker, CallPC
        <5> QED
          BY <5>4, <5>5
      <4>2. CASE UNCHANGED index
        <5>1. \/ call' = [call EXCEPT ![p] = "none"]
              \/ call' = [call EXCEPT ![p] = "requestStop"]
          BY <1>11 DEF StopCallback, NextWorker
        <5>2. call' \in [Threads -> CallPC]
          BY <5>1 DEF TypeOK, CallPC
        <5> QED
          BY <4>2, <5>2 DEF TypeOK
      <4> QED
        BY <1>11, <2>0, <4>1, <4>2 DEF StopCallback
    <3> QED
      BY <1>11, <3>1 DEF TypeOK, QueueTypeOK, StopCallback, CvNotifyAll
  <2>2. UnusableInv'
    BY <1>11 DEF TypeOK, UnusableInv, StopCallback, NextWorker, CvNotifyAll
  <2>3. PhaseInv'
    BY <1>11, <2>0 DEF TypeOK, PhaseInv, CallInv, StopCallback, NextWorker
  <2>4. CallInv'
    BY <1>11 DEF TypeOK, CallInv, StopCallback, NextWorker
  <2>5. StopInv'
    BY <1>11 DEF TypeOK, StopInv, StopCallback, CvNotifyAll
  <2>6. WorkerInv'
    BY <1>11 DEF WorkerInv, StopCallback, CvNotifyAll
  <2> QED
    BY <2>1, <2>2, <2>3, <2>4, <2>5, <2>6
<1>12. ASSUME NEW p \in Threads, Shutdown(p)
      PROVE  Inv1'
  <2>1. TypeOK'
    BY <1>12
       DEF TypeOK, QueueTypeOK, CallPC, Shutdown, EnterShutdown, SetShutdown
  <2>2. UnusableInv'
    BY <1>12 DEF TypeOK, UnusableInv, Shutdown, MayCall
  <2>3. PhaseInv'
    BY <1>12 DEF TypeOK, PhaseInv, Shutdown, MayCall, EnterShutdown
  <2>4. CallInv'
    BY <1>12 DEF TypeOK, CallInv, Shutdown, MayCall, EnterShutdown
  <2>5. StopInv'
    BY <1>12 DEF TypeOK, StopInv, Shutdown, EnterShutdown, SetShutdown
  <2>6. WorkerInv'
    BY <1>12 DEF WorkerInv, Shutdown, EnterShutdown, SetShutdown
  <2> QED
    BY <2>1, <2>2, <2>3, <2>4, <2>5, <2>6
<1>13. ASSUME NEW p \in Threads, NEW t \in Tasks, SubmitAccepted(p, t)
      PROVE  Inv1'
  <2>1. TypeOK'
    BY <1>13
       DEF TypeOK, QueueTypeOK, CallPC, FutureState, Phase, SubmitAccepted,
           PushAccepted
  <2>2. UnusableInv'
    BY <1>13 DEF TypeOK, UnusableInv, SubmitAccepted, MayCall
  <2>3. PhaseInv'
    BY <1>13 DEF TypeOK, PhaseInv, SubmitAccepted, MayCall
  <2>4. CallInv'
    BY <1>13 DEF TypeOK, CallInv, SubmitAccepted, MayCall
  <2>5. StopInv'
    BY <1>13 DEF TypeOK, StopInv, SubmitAccepted, PushAccepted
  <2>6. WorkerInv'
    BY <1>13
       DEF WorkerInv, StopInv, UnusableInv, SubmitAccepted, MayCall,
           PushAccepted
  <2> QED
    BY <2>1, <2>2, <2>3, <2>4, <2>5, <2>6
<1>14. ASSUME NEW p \in Threads, NEW t \in Tasks, SubmitThrows(p, t)
      PROVE  Inv1'
  <2>1. TypeOK'
    BY <1>14 DEF TypeOK, QueueTypeOK, FutureState, SubmitThrows, PushRefused
  <2>2. UnusableInv'
    BY <1>14 DEF UnusableInv, SubmitThrows, PushRefused
  <2>3. PhaseInv'
    BY <1>14 DEF PhaseInv, SubmitThrows
  <2>4. CallInv'
    BY <1>14 DEF CallInv, SubmitThrows
  <2>5. StopInv'
    BY <1>14 DEF StopInv, SubmitThrows, PushRefused
  <2>6. WorkerInv'
    BY <1>14 DEF WorkerInv, SubmitThrows, PushRefused
  <2> QED
    BY <2>1, <2>2, <2>3, <2>4, <2>5, <2>6
<1>15. ASSUME NEW w \in Workers, CheckStop(w)
      PROVE  Inv1'
  <2>1. TypeOK'
    BY <1>15 DEF TypeOK, QueueTypeOK, WorkerPC, CheckStop
  <2>2. UnusableInv'
    BY <1>15 DEF TypeOK, UnusableInv, CheckStop
  <2>3. PhaseInv'
    BY <1>15 DEF PhaseInv, CheckStop
  <2>4. CallInv'
    BY <1>15 DEF TypeOK, CallInv, CheckStop
  <2>5. StopInv'
    BY <1>15 DEF TypeOK, StopInv, CheckStop
  <2>6. WorkerInv'
    BY <1>15 DEF TypeOK, QueueTypeOK, WorkerInv, CheckStop
  <2> QED
    BY <2>1, <2>2, <2>3, <2>4, <2>5, <2>6
<1>16. ASSUME NEW w \in Workers, WaitAndPop(w)
      PROVE  Inv1'
  <2>1. CASE \E t \in Tasks : WaitTakes(t) /\ Took(w, t, "run")
    BY <1>16, <2>1, TookInv1 DEF WaitAndPop, WaitTakes
  <2>2. CASE /\ WaitReturnsNullopt(stop[w])
             /\ pc' = [pc EXCEPT ![w] = "loop"]
             /\ UNCHANGED <<cur, stop, call, index, phase, spawned, future,
                            accepted, popped>>
    <3>1. TypeOK'
      BY <1>16, <2>2 DEF TypeOK, QueueTypeOK, WorkerPC, WaitReturnsNullopt
    <3>2. UnusableInv'
      BY <1>16, <2>2 DEF TypeOK, UnusableInv, WaitReturnsNullopt
    <3>3. PhaseInv'
      BY <1>16, <2>2 DEF PhaseInv
    <3>4. CallInv'
      BY <1>16, <2>2 DEF TypeOK, CallInv, WaitAndPop, Awake
    <3>5. StopInv'
      BY <1>16, <2>2 DEF TypeOK, StopInv, WaitReturnsNullopt
    <3>6. WorkerInv'
      BY <1>16, <2>2
         DEF TypeOK, QueueTypeOK, WorkerInv, WaitAndPop, Awake,
             WaitReturnsNullopt
    <3> QED
      BY <3>1, <3>2, <3>3, <3>4, <3>5, <3>6
  <2>3. CASE WaitSleeps(w, stop[w]) /\ UNCHANGED poolVars
    <3>1. TypeOK'
      BY <1>16, <2>3 DEF TypeOK, QueueTypeOK, WaitSleeps, poolVars
    <3>2. UnusableInv'
      BY <1>16, <2>3 DEF UnusableInv, WaitSleeps, poolVars
    <3>3. PhaseInv'
      BY <1>16, <2>3 DEF PhaseInv, poolVars
    <3>4. CallInv'
      BY <1>16, <2>3 DEF CallInv, poolVars
    <3>5. StopInv'
      BY <1>16, <2>3 DEF StopInv, WaitSleeps, poolVars
    <3>6. WorkerInv'
      BY <1>16, <2>3 DEF WorkerInv, WaitAndPop, Awake, WaitSleeps, poolVars
    <3> QED
      BY <3>1, <3>2, <3>3, <3>4, <3>5, <3>6
  <2> QED
    BY <1>16, <2>1, <2>2, <2>3 DEF WaitAndPop
<1>17. ASSUME NEW w \in Workers, Spurious(w)
      PROVE  Inv1'
  <2>1. TypeOK'
    BY <1>17 DEF TypeOK, QueueTypeOK, Spurious, SpuriousWakeup, poolVars
  <2>2. UnusableInv'
    BY <1>17 DEF UnusableInv, Spurious, SpuriousWakeup, poolVars
  <2>3. PhaseInv'
    BY <1>17 DEF PhaseInv, Spurious, poolVars
  <2>4. CallInv'
    BY <1>17 DEF CallInv, Spurious, poolVars
  <2>5. StopInv'
    BY <1>17 DEF StopInv, Spurious, SpuriousWakeup, poolVars
  <2>6. WorkerInv'
    BY <1>17 DEF WorkerInv, Spurious, SpuriousWakeup, poolVars
  <2> QED
    BY <2>1, <2>2, <2>3, <2>4, <2>5, <2>6
<1>18. ASSUME NEW w \in Workers, Finish(w)
      PROVE  Inv1'
  <2>1. TypeOK'
    BY <1>18 DEF TypeOK, QueueTypeOK, WorkerPC, FutureState, Finish
  <2>2. UnusableInv'
    BY <1>18 DEF TypeOK, UnusableInv, Finish
  <2>3. PhaseInv'
    BY <1>18 DEF PhaseInv, Finish
  <2>4. CallInv'
    BY <1>18 DEF TypeOK, CallInv, Finish
  <2>5. StopInv'
    BY <1>18 DEF TypeOK, StopInv, Finish
  <2>6. WorkerInv'
    BY <1>18 DEF TypeOK, WorkerInv, Finish
  <2> QED
    BY <2>1, <2>2, <2>3, <2>4, <2>5, <2>6
<1>19. ASSUME NEW w \in Workers, Drain(w)
      PROVE  Inv1'
  <2>1. CASE \E t \in Tasks : TakeFront(t) /\ Took(w, t, "drainRun")
    BY <1>19, <2>1, TookInv1 DEF Drain
  <2>2. CASE /\ tasks_ = <<>>
             /\ pc' = [pc EXCEPT ![w] = "exited"]
             /\ UNCHANGED <<queueVars, cur, stop, call, index, phase, spawned,
                            future, accepted, popped>>
    <3>1. TypeOK'
      BY <1>19, <2>2 DEF TypeOK, QueueTypeOK, WorkerPC
    <3>2. UnusableInv'
      BY <1>19, <2>2 DEF TypeOK, UnusableInv
    <3>3. PhaseInv'
      BY <1>19, <2>2 DEF PhaseInv
    <3>4. CallInv'
      BY <1>19, <2>2 DEF TypeOK, CallInv, Drain
    <3>5. StopInv'
      BY <1>19, <2>2 DEF TypeOK, StopInv, Drain
    <3>6. WorkerInv'
      BY <1>19, <2>2 DEF TypeOK, QueueTypeOK, WorkerInv, Drain
    <3> QED
      BY <3>1, <3>2, <3>3, <3>4, <3>5, <3>6
  <2> QED
    BY <1>19, <2>1, <2>2 DEF Drain
<1>20. CASE UNCHANGED vars
  BY <1>20
     DEF vars, poolVars, TypeOK, QueueTypeOK, UnusableInv, PhaseInv, CallInv,
         StopInv, WorkerInv
<1> QED
  BY <1>1, <1>2, <1>3, <1>4, <1>5, <1>6, <1>7, <1>8, <1>9, <1>10, <1>11, <1>12,
     <1>13, <1>14, <1>15, <1>16, <1>17, <1>18, <1>19, <1>20
     DEF Next, CallStep, OwnerStep

-----------------------------------------------------------------------------

(* Moving the head of one sequence to the end of another keeps their       *)
(* concatenation.                                                          *)
LEMMA MoveHead ==
  ASSUME NEW S, NEW p \in Seq(S), NEW q \in Seq(S), q # <<>>
  PROVE  p \o q = Append(p, Head(q)) \o Tail(q)
  OBVIOUS

(* Only push() and the two pops touch the queue or the histories.          *)
LEMMA QueueSteps ==
  ASSUME [Next]_vars
  PROVE  \/ UNCHANGED <<tasks_, accepted, popped>>
         \/ \E p \in Threads, t \in Tasks : SubmitAccepted(p, t)
         \/ \E w \in Workers, t \in Tasks :
              /\ TakeFront(t)
              /\ \/ Awake(w) /\ Took(w, t, "run")
                 \/ pc[w] = "drain" /\ Took(w, t, "drainRun")
<1>1. CASE Spawn \/ SpawnThrows \/ Destroy \/ OwnerStep \/ Terminated
  BY <1>1
     DEF Spawn, SpawnThrows, Destroy, EnterShutdown, SetShutdown, OwnerStep,
         StartJoining, JthreadRequestStop, Join, Terminated, vars, poolVars,
         queueVars
<1>2. ASSUME NEW p \in Threads, CallStep(p)
      PROVE  UNCHANGED <<tasks_, accepted, popped>>
  BY <1>2
     DEF CallStep, NotifyOne, NotifyAll, RequestStop, StopCallback,
         CvNotifyOne, CvNotifyAll, queueVars
<1>3. ASSUME NEW p \in Threads, Shutdown(p)
      PROVE  UNCHANGED <<tasks_, accepted, popped>>
  BY <1>3 DEF Shutdown, EnterShutdown, SetShutdown
<1>4. ASSUME NEW p \in Threads, NEW t \in Tasks, SubmitThrows(p, t)
      PROVE  UNCHANGED <<tasks_, accepted, popped>>
  BY <1>4 DEF SubmitThrows, PushRefused, queueVars
<1>5. ASSUME NEW w \in Workers, CheckStop(w) \/ Spurious(w) \/ Finish(w)
      PROVE  UNCHANGED <<tasks_, accepted, popped>>
  BY <1>5 DEF CheckStop, Spurious, SpuriousWakeup, Finish, queueVars, poolVars
<1>6. ASSUME NEW w \in Workers, WaitAndPop(w)
      PROVE  \/ UNCHANGED <<tasks_, accepted, popped>>
             \/ \E t \in Tasks : TakeFront(t) /\ Awake(w) /\ Took(w, t, "run")
  BY <1>6
     DEF WaitAndPop, WaitTakes, WaitReturnsNullopt, WaitSleeps, queueVars,
         poolVars
<1>7. ASSUME NEW w \in Workers, Drain(w)
      PROVE  \/ UNCHANGED <<tasks_, accepted, popped>>
             \/ \E t \in Tasks :
                  TakeFront(t) /\ pc[w] = "drain" /\ Took(w, t, "drainRun")
  BY <1>7 DEF Drain, queueVars
<1>8. CASE UNCHANGED vars
  BY <1>8 DEF vars, queueVars, poolVars
<1> QED
  BY <1>1, <1>2, <1>3, <1>4, <1>5, <1>6, <1>7, <1>8 DEF Next

(* FIFO, without loss: the order of push() is the order of the pops.       *)
LEMMA NextFifoNoLoss == TypeOK /\ FifoNoLoss /\ [Next]_vars => FifoNoLoss'
<1> SUFFICES ASSUME TypeOK, FifoNoLoss, [Next]_vars
             PROVE  FifoNoLoss'
  OBVIOUS
<1>1. tasks_ \in Seq(Tasks) /\ popped \in Seq(Tasks)
  BY DEF TypeOK, QueueTypeOK
<1>2. CASE UNCHANGED <<tasks_, accepted, popped>>
  BY <1>2 DEF FifoNoLoss
<1>3. ASSUME NEW p \in Threads, NEW t \in Tasks, SubmitAccepted(p, t)
      PROVE  FifoNoLoss'
  <2>1. Append(popped \o tasks_, t) = popped \o Append(tasks_, t)
    BY <1>1, <1>3
  <2> QED
    BY <1>3, <2>1 DEF FifoNoLoss, SubmitAccepted, PushAccepted
<1>4. ASSUME NEW w \in Workers, NEW t \in Tasks, NEW next,
             TakeFront(t), Took(w, t, next)
      PROVE  FifoNoLoss'
  BY <1>1, <1>4, MoveHead DEF FifoNoLoss, TakeFront, Took
<1> QED
  BY <1>2, <1>3, <1>4, QueueSteps

-----------------------------------------------------------------------------

(* Both counts of TaskWakeups are of finite sets.                         *)
LEMMA FiniteThreads ==
  /\ IsFiniteSet(Workers) /\ IsFiniteSet(Threads)
  /\ \A S \in SUBSET Threads : IsFiniteSet(S) /\ Cardinality(S) \in Nat
<1>1. IsFiniteSet(Workers)
  BY FS_Interval DEF Workers
<1>2. IsFiniteSet(Threads)
  <2>1. IsFiniteSet({Owner})
    BY FS_Singleton
  <2>2. IsFiniteSet(Workers \cup Clients)
    BY <1>1, FS_Union DEF ThreadsAssumption
  <2> QED
    BY <2>1, <2>2, FS_Union DEF Threads
<1> QED
  BY <1>1, <1>2, FS_Subset, FS_CardinalityType

(* A step that takes no task and no wakeup away keeps the balance.         *)
LEMMA WakeupMonotone ==
  ASSUME TaskWakeups, tasks_' = tasks_, waiters' \subseteq waiters,
         Notifying \subseteq Notifying', Looking \subseteq Looking', TypeOK
  PROVE  TaskWakeups'
<1>1. /\ Notifying \in SUBSET Threads /\ Notifying' \in SUBSET Threads
      /\ Looking \in SUBSET Threads /\ Looking' \in SUBSET Threads
  BY DEF Notifying, Looking, Threads
<1>2. /\ Cardinality(Notifying) <= Cardinality(Notifying')
      /\ Cardinality(Looking) <= Cardinality(Looking')
  BY <1>1, FiniteThreads, FS_Subset
<1>3. /\ Cardinality(Notifying) \in Nat /\ Cardinality(Notifying') \in Nat
      /\ Cardinality(Looking) \in Nat /\ Cardinality(Looking') \in Nat
  BY <1>1, FiniteThreads
<1>4. Len(tasks_) \in Nat
  BY DEF TypeOK, QueueTypeOK
<1> QED
  BY <1>2, <1>3, <1>4 DEF TaskWakeups

(* Every step leaves a wakeup for every queued task, or nobody asleep.     *)
LEMMA NextTaskWakeups ==
  Inv1 /\ TaskWakeups /\ [Next]_vars => TaskWakeups'
<1> SUFFICES ASSUME Inv1, TaskWakeups, [Next]_vars
             PROVE  TaskWakeups'
  OBVIOUS
<1> USE DEF Inv1
<1>0. TypeOK
  OBVIOUS
<1>1. CASE Spawn \/ SpawnThrows \/ Destroy \/ OwnerStep \/ Terminated
           \/ UNCHANGED vars
  <2>1. tasks_' = tasks_ /\ waiters' = waiters
    BY <1>1
       DEF Spawn, SpawnThrows, Destroy, EnterShutdown, SetShutdown, OwnerStep,
           StartJoining, JthreadRequestStop, Join, Terminated, vars, queueVars
  <2>2. Notifying \subseteq Notifying'
    BY <1>1
       DEF Spawn, SpawnThrows, Destroy, EnterShutdown, OwnerStep, StartJoining,
           JthreadRequestStop, Join, Joining, Terminated, vars, poolVars,
           Notifying, TypeOK, PhaseInv
  <2>3. Looking \subseteq Looking'
    <3>1. CASE Spawn
      <4>1. spawned + 1 \in Workers /\ pc[spawned + 1] = "unborn"
        BY <3>1 DEF Spawn, TypeOK, WorkerInv, Workers
      <4> QED
        BY <2>1, <3>1, <4>1 DEF Spawn, Looking, Awake, TypeOK
    <3>2. CASE UNCHANGED pc
      BY <2>1, <3>2 DEF Looking, Awake
    <3> QED
      BY <1>1, <3>1, <3>2
         DEF SpawnThrows, Destroy, OwnerStep, StartJoining, JthreadRequestStop,
             Join, Terminated, vars, poolVars
  <2> QED
    BY <1>0, <2>1, <2>2, <2>3, WakeupMonotone
<1>2. ASSUME NEW p \in Threads, NotifyOne(p)
      PROVE  TaskWakeups'
  <2>1. CASE waiters = {}
    BY <1>2, <2>1 DEF NotifyOne, CvNotifyOne, TaskWakeups
  <2>2. CASE waiters # {}
    <3>1. PICK w \in waiters : waiters' = waiters \ {w}
      BY <1>2, <2>2 DEF NotifyOne, CvNotifyOne
    <3>2. w \in Workers /\ pc[w] = "wait"
      BY <3>1 DEF TypeOK, QueueTypeOK, WorkerInv
    <3>3. Notifying' = Notifying \ {p} /\ p \in Notifying
      BY <1>2 DEF NotifyOne, Notifying, TypeOK
    <3>4. Looking' = Looking \cup {w} /\ w \notin Looking
      BY <1>2, <3>1, <3>2 DEF NotifyOne, Looking, Awake
    <3>5. /\ Cardinality(Notifying') = Cardinality(Notifying) - 1
          /\ Cardinality(Looking') = Cardinality(Looking) + 1
      <4>1. IsFiniteSet(Notifying) /\ IsFiniteSet(Looking)
        BY FiniteThreads DEF Notifying, Looking, Threads
      <4> QED
        BY <3>3, <3>4, <4>1, FS_AddElement, FS_RemoveElement
    <3>6. Cardinality(Notifying) \in Nat /\ Cardinality(Looking) \in Nat
      BY FiniteThreads DEF Notifying, Looking, Threads
    <3>7. tasks_' = tasks_ /\ Len(tasks_) \in Nat
      BY <1>2 DEF NotifyOne, CvNotifyOne, TypeOK, QueueTypeOK
    <3> QED
      BY <2>2, <3>5, <3>6, <3>7 DEF TaskWakeups
  <2> QED
    BY <2>1, <2>2
<1>3. ASSUME NEW p \in Threads,
             NotifyAll(p) \/ RequestStop(p) \/ StopCallback(p) \/ Shutdown(p)
      PROVE  TaskWakeups'
  <2>1. CASE waiters' = {}
    BY <2>1 DEF TaskWakeups
  <2>2. CASE waiters' # {}
    <3>1. tasks_' = tasks_ /\ waiters' = waiters /\ UNCHANGED pc
      BY <1>3, <2>2
         DEF NotifyAll, RequestStop, StopCallback, Shutdown, EnterShutdown,
             SetShutdown, CvNotifyAll, queueVars
    <3>2. Notifying \subseteq Notifying'
      <4>1. call[p] # "notifyOne"
        BY <1>3 DEF NotifyAll, RequestStop, StopCallback, Shutdown, MayCall
      <4>2. \A q \in Threads \ {p} : call'[q] = call[q]
        BY <1>3
           DEF NotifyAll, RequestStop, StopCallback, Shutdown, EnterShutdown,
               NextWorker, TypeOK
      <4> QED
        BY <4>1, <4>2 DEF Notifying
    <3>3. Looking \subseteq Looking'
      BY <3>1 DEF Looking, Awake
    <3> QED
      BY <1>0, <3>1, <3>2, <3>3, WakeupMonotone
  <2> QED
    BY <2>1, <2>2
<1>4. ASSUME NEW p \in Threads, NEW t \in Tasks, SubmitAccepted(p, t)
      PROVE  TaskWakeups'
  <2>1. Notifying' = Notifying \cup {p} /\ p \notin Notifying
    BY <1>4 DEF SubmitAccepted, MayCall, Notifying, TypeOK
  <2>2. Looking' = Looking /\ waiters' = waiters
    BY <1>4 DEF SubmitAccepted, PushAccepted, Looking, Awake
  <2>3. Len(tasks_') = Len(tasks_) + 1 /\ Len(tasks_) \in Nat
    BY <1>4 DEF SubmitAccepted, PushAccepted, TypeOK, QueueTypeOK
  <2>4. Cardinality(Notifying') = Cardinality(Notifying) + 1
    <3>1. IsFiniteSet(Notifying)
      BY FiniteThreads DEF Notifying
    <3> QED
      BY <2>1, <3>1, FS_AddElement
  <2>5. Cardinality(Notifying) \in Nat /\ Cardinality(Looking) \in Nat
    BY FiniteThreads DEF Notifying, Looking, Threads
  <2> QED
    BY <2>2, <2>3, <2>4, <2>5 DEF TaskWakeups
<1>5. ASSUME NEW p \in Threads, NEW t \in Tasks, SubmitThrows(p, t)
      PROVE  TaskWakeups'
  BY <1>0, <1>5, WakeupMonotone
     DEF SubmitThrows, PushRefused, queueVars, Notifying, Looking, Awake
<1>6. ASSUME NEW w \in Workers, CheckStop(w) \/ Spurious(w) \/ Finish(w)
      PROVE  TaskWakeups'
  <2>1. tasks_' = tasks_ /\ waiters' \subseteq waiters /\ UNCHANGED call
    BY <1>6
       DEF CheckStop, Spurious, SpuriousWakeup, Finish, queueVars, poolVars
  <2>2. Looking \subseteq Looking'
    BY <1>6, <2>1
       DEF CheckStop, Spurious, Finish, Busy, Looking, Awake, poolVars, TypeOK
  <2> QED
    BY <1>0, <2>1, <2>2, WakeupMonotone DEF Notifying
<1>7. ASSUME NEW w \in Workers, NEW t \in Tasks, NEW next,
             TakeFront(t), Took(w, t, next), w \in Looking \/ pc[w] = "drain",
             next # "wait"
      PROVE  TaskWakeups'
  <2>1. waiters' = waiters /\ Notifying' = Notifying
    BY <1>7 DEF TakeFront, Took, Notifying
  <2>2. Looking' = Looking \ {w}
    BY <1>7, <2>1 DEF Took, Looking, Awake, TypeOK
  <2>3. Cardinality(Looking') >= Cardinality(Looking) - 1
    <3>1. IsFiniteSet(Looking) /\ Cardinality(Looking) \in Nat
      BY FiniteThreads DEF Looking, Threads
    <3>2. Cardinality(Looking \ {w}) =
            IF w \in Looking THEN Cardinality(Looking) - 1
                             ELSE Cardinality(Looking)
      BY <3>1, FS_RemoveElement
    <3> QED
      BY <2>2, <3>1, <3>2
  <2>4. Len(tasks_') = Len(tasks_) - 1 /\ Len(tasks_) \in Nat
    BY <1>7 DEF TakeFront, TypeOK, QueueTypeOK
  <2>5. /\ Cardinality(Notifying) \in Nat /\ Cardinality(Looking) \in Nat
        /\ Cardinality(Looking') \in Nat
    BY <2>2, FiniteThreads DEF Notifying, Looking, Threads
  <2> QED
    BY <2>1, <2>3, <2>4, <2>5 DEF TaskWakeups
<1>8. ASSUME NEW w \in Workers, WaitAndPop(w)
      PROVE  TaskWakeups'
  <2>1. CASE \E t \in Tasks : WaitTakes(t) /\ Took(w, t, "run")
    BY <1>7, <1>8, <2>1 DEF WaitAndPop, WaitTakes, Looking
  <2>2. CASE WaitReturnsNullopt(stop[w]) \/ WaitSleeps(w, stop[w])
    <3>1. Len(tasks_') = 0
      BY <2>2 DEF WaitReturnsNullopt, WaitSleeps, queueVars
    <3>2. Cardinality(Looking') \in Nat /\ Cardinality(Notifying') \in Nat
      <4>1. Looking' \in SUBSET Threads /\ Notifying' \in SUBSET Threads
        BY DEF Looking, Notifying, Threads
      <4> QED
        BY <4>1, FiniteThreads
    <3> QED
      BY <3>1, <3>2 DEF TaskWakeups
  <2> QED
    BY <1>8, <2>1, <2>2 DEF WaitAndPop
<1>9. ASSUME NEW w \in Workers, Drain(w)
      PROVE  TaskWakeups'
  <2>1. CASE \E t \in Tasks : TakeFront(t) /\ Took(w, t, "drainRun")
    BY <1>7, <1>9, <2>1 DEF Drain
  <2>2. CASE ~\E t \in Tasks : TakeFront(t) /\ Took(w, t, "drainRun")
    <3>1. /\ pc[w] = "drain" /\ pc' = [pc EXCEPT ![w] = "exited"]
          /\ UNCHANGED <<tasks_, waiters, call>>
      BY <1>9, <2>2 DEF Drain, queueVars
    <3>2. Looking \subseteq Looking'
      BY <3>1 DEF Looking, Awake, TypeOK
    <3> QED
      BY <1>0, <3>1, <3>2, WakeupMonotone DEF Notifying
  <2> QED
    BY <2>1, <2>2
<1> QED
  BY <1>1, <1>2, <1>3, <1>4, <1>5, <1>6, <1>8, <1>9 DEF Next, CallStep

(* A step that wakes nobody by itself leaves every callback and every       *)
(* notification of shutdown() to come where it was.                        *)
LEMMA StopMonotone ==
  ASSUME StopWakeups, waiters' \subseteq waiters, UNCHANGED <<stop, shutdown_>>,
         \A q \in Threads :
           call[q] \in {"stopCallback", "notifyAll"} =>
             call'[q] = call[q] /\ index'[q] = index[q]
  PROVE  StopWakeups'
BY DEF StopWakeups

(* No step puts a sleeper out of the reach of a stop or of shutdown().     *)
LEMMA NextStopWakeups ==
  Inv1 /\ StopWakeups /\ [Next]_vars => StopWakeups'
<1> SUFFICES ASSUME Inv1, StopWakeups, [Next]_vars
             PROVE  StopWakeups'
  OBVIOUS
<1> USE DEF Inv1
<1>0. /\ call \in [Threads -> CallPC] /\ index \in [Threads -> Workers]
      /\ stop \in [Workers -> BOOLEAN] /\ waiters \subseteq Workers
      /\ Owner \in Threads
  BY DEF TypeOK, QueueTypeOK, Threads
<1>1. CASE Spawn \/ SpawnThrows \/ StartJoining \/ Join \/ Terminated
           \/ UNCHANGED vars
  BY <1>0, <1>1, StopMonotone
     DEF Spawn, SpawnThrows, StartJoining, Join, Joining, Terminated, vars,
         queueVars, poolVars
<1>2. CASE JthreadRequestStop
  <2>1. /\ UNCHANGED <<waiters, shutdown_, index>> /\ call[Owner] = "none"
        /\ call'[Owner] = "stopCallback"
        /\ \A q \in Threads \ {Owner} : call'[q] = call[q]
        /\ \A w \in Workers \ {index[Owner]} : stop'[w] = stop[w]
    BY <1>0, <1>2 DEF JthreadRequestStop, Joining, queueVars
  <2> QED
    BY <1>0, <2>1 DEF StopWakeups
<1>3. ASSUME NEW p \in Threads, EnterShutdown(p), call[p] = "none",
             UNCHANGED stop
      PROVE  StopWakeups'
  <2>1. /\ UNCHANGED waiters /\ call'[p] = "notifyAll"
        /\ \A q \in Threads \ {p} : call'[q] = call[q] /\ index'[q] = index[q]
    BY <1>0, <1>3 DEF EnterShutdown, SetShutdown
  <2> QED
    BY <1>3, <2>1 DEF StopWakeups
<1>4. CASE Destroy
  BY <1>0, <1>3, <1>4 DEF Destroy, PhaseInv
<1>5. ASSUME NEW p \in Threads, Shutdown(p)
      PROVE  StopWakeups'
  BY <1>3, <1>5 DEF Shutdown, MayCall
<1>6. ASSUME NEW p \in Threads, NotifyOne(p)
      PROVE  StopWakeups'
  BY <1>0, <1>6, StopMonotone DEF NotifyOne, CvNotifyOne
<1>7. ASSUME NEW p \in Threads, NotifyAll(p)
      PROVE  StopWakeups'
  BY <1>7 DEF NotifyAll, CvNotifyAll, StopWakeups
<1>8. ASSUME NEW p \in Threads, RequestStop(p)
      PROVE  StopWakeups'
  <2>1. /\ UNCHANGED <<waiters, shutdown_>> /\ call[p] = "requestStop"
        /\ \A q \in Threads \ {p} : call'[q] = call[q] /\ index'[q] = index[q]
    BY <1>0, <1>8 DEF RequestStop, NextWorker, queueVars
  <2>2. CASE stop' = stop
    BY <2>1, <2>2, StopMonotone
  <2>3. CASE stop' # stop
    <3>1. /\ call'[p] = "stopCallback" /\ index'[p] = index[p]
          /\ \A w \in Workers \ {index[p]} : stop'[w] = stop[w]
      BY <1>0, <1>8, <2>3 DEF RequestStop
    <3> QED
      BY <1>0, <2>1, <3>1 DEF StopWakeups
  <2> QED
    BY <2>2, <2>3
<1>9. ASSUME NEW p \in Threads, StopCallback(p)
      PROVE  StopWakeups'
  <2>1. CASE index[p] \in waiters
    BY <1>9, <2>1 DEF StopCallback, CvNotifyAll, StopWakeups
  <2>2. CASE index[p] \notin waiters
    <3>1. /\ UNCHANGED <<waiters, stop, shutdown_>>
          /\ call[p] = "stopCallback"
          /\ \A q \in Threads \ {p} : call'[q] = call[q] /\ index'[q] = index[q]
      BY <1>0, <1>9, <2>2 DEF StopCallback, NextWorker, queueVars
    <3> QED
      BY <2>2, <3>1 DEF StopWakeups
  <2> QED
    BY <2>1, <2>2
<1>10. ASSUME NEW p \in Threads, NEW t \in Tasks,
              SubmitAccepted(p, t) \/ SubmitThrows(p, t)
       PROVE  StopWakeups'
  BY <1>0, <1>10, StopMonotone
     DEF SubmitAccepted, PushAccepted, SubmitThrows, PushRefused, MayCall,
         queueVars
<1>11. ASSUME NEW w \in Workers, WaitSleeps(w, stop[w]), UNCHANGED poolVars
       PROVE  StopWakeups'
  <2>1. /\ waiters' = waiters \cup {w} /\ ~shutdown_' /\ ~stop[w]
        /\ UNCHANGED <<stop, call, index>>
    BY <1>11 DEF WaitSleeps, poolVars
  <2> QED
    BY <2>1 DEF StopWakeups
<1>12. ASSUME NEW w \in Workers,
              CheckStop(w) \/ WaitAndPop(w) \/ Spurious(w) \/ Finish(w)
              \/ Drain(w)
       PROVE  StopWakeups'
  <2>1. CASE WaitSleeps(w, stop[w]) /\ UNCHANGED poolVars
    BY <1>11, <2>1
  <2>2. CASE ~(WaitSleeps(w, stop[w]) /\ UNCHANGED poolVars)
    <3>1. /\ waiters' \subseteq waiters
          /\ UNCHANGED <<stop, shutdown_, call, index>>
      BY <1>12, <2>2
         DEF CheckStop, WaitAndPop, WaitTakes, TakeFront, WaitReturnsNullopt,
             Took, Spurious, SpuriousWakeup, Finish, Drain, queueVars, poolVars
    <3> QED
      BY <3>1, StopMonotone
  <2> QED
    BY <2>1, <2>2
<1> QED
  BY <1>1, <1>2, <1>4, <1>5, <1>6, <1>7, <1>8, <1>9, <1>10, <1>12
     DEF Next, CallStep, OwnerStep

-----------------------------------------------------------------------------

(* Custody without counting: no callable is queued twice, held twice, or   *)
(* both, and the pending ones are exactly the queued and the held ones.    *)
QueuedOnce == \A i, j \in 1..Len(tasks_) : tasks_[i] = tasks_[j] => i = j
HeldOnce ==
  \A v, w \in Workers : cur[v] = cur[w] /\ cur[v] # NoTask => v = w
QueuedOrHeld ==
  \A i \in 1..Len(tasks_), w \in Workers : cur[w] # tasks_[i]
InQueue(t) == \E i \in 1..Len(tasks_) : tasks_[i] = t
Held(t) == \E w \in Workers : cur[w] = t
PendingInv ==
  \A t \in Tasks : future[t] = "pending" <=> InQueue(t) \/ Held(t)
CustodyInv == QueuedOnce /\ HeldOnce /\ QueuedOrHeld /\ PendingInv

(* Only push(), the pops, the end of a callable and a refusal touch what   *)
(* CustodyInv speaks of.                                                   *)
LEMMA CustodySteps ==
  ASSUME [Next]_vars
  PROVE  \/ UNCHANGED <<tasks_, cur, future>>
         \/ \E p \in Threads, t \in Tasks :
              SubmitAccepted(p, t) \/ SubmitThrows(p, t)
         \/ \E w \in Workers : Finish(w)
         \/ \E w \in Workers, t \in Tasks :
              /\ TakeFront(t)
              /\ \/ Awake(w) /\ Took(w, t, "run")
                 \/ pc[w] = "drain" /\ Took(w, t, "drainRun")
<1>1. CASE Spawn \/ SpawnThrows \/ Destroy \/ OwnerStep \/ Terminated
  BY <1>1
     DEF Spawn, SpawnThrows, Destroy, EnterShutdown, SetShutdown, OwnerStep,
         StartJoining, JthreadRequestStop, Join, Terminated, vars, poolVars,
         queueVars
<1>2. ASSUME NEW p \in Threads, CallStep(p) \/ Shutdown(p)
      PROVE  UNCHANGED <<tasks_, cur, future>>
  BY <1>2
     DEF CallStep, NotifyOne, NotifyAll, RequestStop, StopCallback,
         CvNotifyOne, CvNotifyAll, Shutdown, EnterShutdown, SetShutdown,
         queueVars
<1>3. ASSUME NEW w \in Workers, CheckStop(w) \/ Spurious(w)
      PROVE  UNCHANGED <<tasks_, cur, future>>
  BY <1>3 DEF CheckStop, Spurious, SpuriousWakeup, queueVars, poolVars
<1>4. ASSUME NEW w \in Workers, WaitAndPop(w)
      PROVE  \/ UNCHANGED <<tasks_, cur, future>>
             \/ \E t \in Tasks : TakeFront(t) /\ Awake(w) /\ Took(w, t, "run")
  BY <1>4
     DEF WaitAndPop, WaitTakes, WaitReturnsNullopt, WaitSleeps, queueVars,
         poolVars
<1>5. ASSUME NEW w \in Workers, Drain(w)
      PROVE  \/ UNCHANGED <<tasks_, cur, future>>
             \/ \E t \in Tasks :
                  TakeFront(t) /\ pc[w] = "drain" /\ Took(w, t, "drainRun")
  BY <1>5 DEF Drain, queueVars
<1>6. CASE UNCHANGED vars
  BY <1>6 DEF vars, queueVars, poolVars
<1> QED
  BY <1>1, <1>2, <1>3, <1>4, <1>5, <1>6 DEF Next

(* A callable is in one place, or in none.                                 *)
LEMMA NextCustody == Inv1 /\ CustodyInv /\ [Next]_vars => CustodyInv'
<1> SUFFICES ASSUME Inv1, CustodyInv, [Next]_vars
             PROVE  CustodyInv'
  OBVIOUS
<1> USE DEF CustodyInv
<1>0. /\ tasks_ \in Seq(Tasks)
      /\ cur \in [Workers -> Tasks \cup {NoTask}]
      /\ future \in [Tasks -> FutureState]
      /\ Len(tasks_) \in Nat
  BY DEF Inv1, TypeOK, QueueTypeOK
<1>1. CASE UNCHANGED <<tasks_, cur, future>>
  BY <1>1 DEF QueuedOnce, HeldOnce, QueuedOrHeld, PendingInv, InQueue, Held
<1>2. ASSUME NEW p \in Threads, NEW t \in Tasks, SubmitAccepted(p, t)
      PROVE  CustodyInv'
  <2>1. /\ future[t] = "none" /\ future' = [future EXCEPT ![t] = "pending"]
        /\ tasks_' = Append(tasks_, t) /\ cur' = cur
    BY <1>2 DEF SubmitAccepted, PushAccepted
  <2>2. ~InQueue(t) /\ ~Held(t)
    BY <1>2, <2>1 DEF PendingInv
  <2>3. /\ Len(tasks_') = Len(tasks_) + 1 /\ tasks_'[Len(tasks_) + 1] = t
        /\ \A i \in 1..Len(tasks_) : tasks_'[i] = tasks_[i]
    BY <1>0, <1>2, <2>1
  <2>4. QueuedOnce'
    BY <1>0, <2>2, <2>3 DEF QueuedOnce, InQueue
  <2>5. HeldOnce' /\ QueuedOrHeld'
    BY <1>0, <2>1, <2>2, <2>3 DEF HeldOnce, QueuedOrHeld, Held
  <2>6. PendingInv'
    <3> SUFFICES ASSUME NEW u \in Tasks
                 PROVE  future'[u] = "pending" <=> InQueue(u)' \/ Held(u)'
      BY DEF PendingInv
    <3>1. InQueue(u)' <=> InQueue(u) \/ u = t
      BY <1>0, <2>3 DEF InQueue
    <3>2. Held(u)' <=> Held(u)
      BY <2>1 DEF Held
    <3>3. future'[u] = "pending" <=> future[u] = "pending" \/ u = t
      BY <1>0, <2>1
    <3> QED
      BY <3>1, <3>2, <3>3 DEF PendingInv
  <2> QED
    BY <2>4, <2>5, <2>6
<1>3. ASSUME NEW p \in Threads, NEW t \in Tasks, SubmitThrows(p, t)
      PROVE  CustodyInv'
  <2>1. /\ tasks_' = tasks_ /\ cur' = cur
        /\ future[t] = "none" /\ future' = [future EXCEPT ![t] = "refused"]
    BY <1>3 DEF SubmitThrows, PushRefused, queueVars
  <2>2. \A u \in Tasks : future'[u] = "pending" <=> future[u] = "pending"
    BY <1>0, <2>1
  <2> QED
    BY <2>1, <2>2
       DEF QueuedOnce, HeldOnce, QueuedOrHeld, PendingInv, InQueue, Held
<1>4. ASSUME NEW w \in Workers, Finish(w)
      PROVE  CustodyInv'
  <2>1. PICK r \in {"value", "exception"} :
          future' = [future EXCEPT ![cur[w]] = r]
    BY <1>4 DEF Finish
  <2>2. cur[w] \in Tasks
    BY <1>0, <1>4 DEF Inv1, WorkerInv, Finish
  <2>3. /\ tasks_' = tasks_ /\ cur'[w] = NoTask
        /\ \A v \in Workers \ {w} : cur'[v] = cur[v]
    BY <1>0, <1>4 DEF Finish, queueVars
  <2>4. QueuedOnce' /\ HeldOnce'
    BY <2>3 DEF QueuedOnce, HeldOnce
  <2>5. QueuedOrHeld'
    <3>1. \A i \in 1..Len(tasks_) : tasks_[i] # NoTask
      BY <1>0 DEF TasksAssumption
    <3> QED
      BY <2>3, <3>1 DEF QueuedOrHeld
  <2>6. PendingInv'
    <3> SUFFICES ASSUME NEW u \in Tasks
                 PROVE  future'[u] = "pending" <=> InQueue(u)' \/ Held(u)'
      BY DEF PendingInv
    <3>1. InQueue(u)' <=> InQueue(u)
      BY <2>3 DEF InQueue
    <3>2. Held(u)' <=> Held(u) /\ u # cur[w]
      BY <1>4, <2>2, <2>3 DEF Held, HeldOnce, TasksAssumption
    <3>3. future'[u] = "pending" <=> future[u] = "pending" /\ u # cur[w]
      BY <1>0, <2>1, <2>2
    <3>4. u = cur[w] => ~InQueue(u)
      BY <1>4 DEF QueuedOrHeld, InQueue
    <3> QED
      BY <3>1, <3>2, <3>3, <3>4 DEF PendingInv
  <2> QED
    BY <2>4, <2>5, <2>6
<1>5. ASSUME NEW w \in Workers, NEW t \in Tasks, NEW next, TakeFront(t),
             Took(w, t, next), Awake(w) \/ pc[w] = "drain"
      PROVE  CustodyInv'
  <2>1. /\ future' = future /\ tasks_' = Tail(tasks_) /\ tasks_ # <<>>
        /\ t = tasks_[1] /\ cur'[w] = t
        /\ \A v \in Workers \ {w} : cur'[v] = cur[v]
    BY <1>0, <1>5 DEF TakeFront, Took
  <2>2. cur[w] = NoTask
    BY <1>5 DEF Inv1, WorkerInv, Awake, Busy
  <2>3. /\ Len(tasks_) >= 1 /\ Len(tasks_') = Len(tasks_) - 1
        /\ \A i \in 1..Len(tasks_') : tasks_'[i] = tasks_[i + 1]
    BY <1>0, <2>1
  <2>4. QueuedOnce'
    BY <1>0, <2>3 DEF QueuedOnce
  <2>5. ~Held(t)
    BY <1>0, <2>1, <2>3 DEF QueuedOrHeld, Held
  <2>6. HeldOnce'
    BY <1>5, <2>1, <2>5 DEF HeldOnce, Held
  <2>7. QueuedOrHeld'
    <3>1. \A i \in 1..Len(tasks_') : tasks_'[i] # t
      BY <1>0, <2>1, <2>3 DEF QueuedOnce
    <3>2. \A i \in 1..Len(tasks_') : i + 1 \in 1..Len(tasks_)
      BY <1>0, <2>3
    <3> QED
      BY <1>0, <2>1, <2>3, <3>1, <3>2 DEF QueuedOrHeld
  <2>8. PendingInv'
    <3> SUFFICES ASSUME NEW u \in Tasks
                 PROVE  future'[u] = "pending" <=> InQueue(u)' \/ Held(u)'
      BY DEF PendingInv
    <3>1. InQueue(u) <=> InQueue(u)' \/ u = t
      <4>1. ASSUME NEW i \in 1..Len(tasks_)
            PROVE  \/ i = 1
                   \/ i - 1 \in 1..Len(tasks_') /\ tasks_'[i - 1] = tasks_[i]
        <5>1. i # 1 => i - 1 \in 1..Len(tasks_')
          BY <1>0, <2>3, <4>1
        <5>2. i # 1 => (i - 1) + 1 = i
          BY <4>1
        <5> QED
          BY <2>3, <5>1, <5>2
      <4>2. \A i \in 1..Len(tasks_') :
              i + 1 \in 1..Len(tasks_) /\ tasks_[i + 1] = tasks_'[i]
        BY <1>0, <2>3
      <4>3. InQueue(u) => InQueue(u)' \/ u = t
        <5>1. SUFFICES ASSUME NEW i \in 1..Len(tasks_), tasks_[i] = u, u # t
                       PROVE  InQueue(u)'
          BY DEF InQueue
        <5>2. i - 1 \in 1..Len(tasks_') /\ tasks_'[i - 1] = u
          BY <2>1, <4>1, <5>1
        <5> QED
          BY <5>2 DEF InQueue
      <4>4. InQueue(u)' => InQueue(u)
        BY <4>2 DEF InQueue
      <4>5. InQueue(t)
        BY <1>0, <2>1, <2>3 DEF InQueue
      <4> QED
        BY <4>3, <4>4, <4>5
    <3>2. Held(u)' <=> Held(u) \/ u = t
      BY <1>5, <2>1, <2>2 DEF Held, TasksAssumption
    <3> QED
      BY <2>1, <3>1, <3>2 DEF PendingInv
  <2> QED
    BY <2>4, <2>6, <2>7, <2>8
<1> QED
  BY <1>1, <1>2, <1>3, <1>4, <1>5, CustodySteps

-----------------------------------------------------------------------------

(* The destructor joins the workers in the order of workers_: those before *)
(* its position have left worker_loop, and do not come back.               *)
JoinInv ==
  /\ phase \in {"joining", "unwinding"} =>
       \A w \in Workers : w < index[Owner] => pc[w] = "exited"
  /\ phase = "gone" => \A w \in Workers : pc[w] = "exited"

(* A worker that has left stays out, in every step.                        *)
LEMMA ExitedStable ==
  ASSUME Inv1, [Next]_vars, NEW v \in Workers, pc[v] = "exited"
  PROVE  pc'[v] = "exited"
<1> USE DEF Inv1, TypeOK
<1>1. CASE Spawn
  <2>1. spawned + 1 \in Workers /\ pc[spawned + 1] = "unborn"
    BY <1>1 DEF Spawn, WorkerInv, Workers
  <2> QED
    BY <1>1, <2>1 DEF Spawn
<1>2. CASE SpawnThrows \/ Destroy \/ OwnerStep \/ Terminated \/ UNCHANGED vars
  BY <1>2
     DEF SpawnThrows, Destroy, OwnerStep, StartJoining, JthreadRequestStop,
         Join, Terminated, vars, poolVars
<1>3. ASSUME NEW p \in Threads, CallStep(p) \/ Shutdown(p)
      PROVE  pc'[v] = "exited"
  BY <1>3
     DEF CallStep, NotifyOne, NotifyAll, RequestStop, StopCallback, Shutdown
<1>4. ASSUME NEW p \in Threads, NEW t \in Tasks,
             SubmitAccepted(p, t) \/ SubmitThrows(p, t)
      PROVE  pc'[v] = "exited"
  BY <1>4 DEF SubmitAccepted, SubmitThrows
<1>5. ASSUME NEW w \in Workers, CheckStop(w) \/ WaitAndPop(w) \/ Spurious(w)
      PROVE  pc'[v] = "exited"
  BY <1>5 DEF CheckStop, WaitAndPop, Awake, Took, Spurious, poolVars
<1>6. ASSUME NEW w \in Workers, Finish(w) \/ Drain(w)
      PROVE  pc'[v] = "exited"
  BY <1>6 DEF Finish, Busy, Drain, Took
<1> QED
  BY <1>1, <1>2, <1>3, <1>4, <1>5, <1>6 DEF Next

(* What moves the owner's position while it joins.                         *)
LEMMA OwnerSteps ==
  ASSUME Inv1, [Next]_vars
  PROVE  \/ phase' = phase /\ index'[Owner] = index[Owner]
         \/ phase' = phase /\ phase = "destroying"
         \/ phase' \notin {"joining", "unwinding", "gone"}
         \/ SpawnThrows \/ StartJoining \/ Join
<1> USE DEF Inv1, TypeOK
<1>1. CASE Spawn \/ SpawnThrows \/ Destroy \/ OwnerStep \/ Terminated
           \/ UNCHANGED vars
  BY <1>1
     DEF Spawn, Destroy, OwnerStep, JthreadRequestStop, Terminated, vars,
         poolVars
<1>2. ASSUME NEW p \in Threads, CallStep(p) \/ Shutdown(p)
      PROVE  /\ phase' = phase
             /\ index'[Owner] = index[Owner] \/ phase = "destroying"
  <2>1. CASE p # Owner
    BY <1>2, <2>1
       DEF CallStep, NotifyOne, NotifyAll, RequestStop, NextWorker,
           StopCallback, Shutdown, EnterShutdown, Threads
  <2>2. CASE p = Owner
    <3>1. Owner \notin Clients \cup Workers
      BY DEF ThreadsAssumption
    <3>2. ~Shutdown(p)
      BY <2>2, <3>1 DEF Shutdown, MayCall
    <3>3. CASE phase = "destroying"
      BY <1>2, <3>2, <3>3
         DEF CallStep, NotifyOne, NotifyAll, RequestStop, StopCallback
    <3>4. CASE phase # "destroying"
      <4>1. call[Owner] \in {"none", "stopCallback"}
        BY <3>4 DEF PhaseInv, Phase
      <4>2. call[Owner] = "stopCallback" => phase \in {"joining", "unwinding"}
        BY <3>4 DEF PhaseInv, Phase
      <4> QED
        BY <1>2, <2>2, <3>2, <4>1, <4>2
           DEF CallStep, NotifyOne, NotifyAll, RequestStop, StopCallback
    <3> QED
      BY <3>3, <3>4
  <2> QED
    BY <2>1, <2>2
<1>3. ASSUME NEW p \in Threads, NEW t \in Tasks,
             SubmitAccepted(p, t) \/ SubmitThrows(p, t)
      PROVE  phase' = phase /\ index' = index
  BY <1>3 DEF SubmitAccepted, SubmitThrows
<1>4. ASSUME NEW w \in Workers, CheckStop(w) \/ WaitAndPop(w) \/ Spurious(w)
             \/ Finish(w) \/ Drain(w)
      PROVE  phase' = phase /\ index' = index
  BY <1>4 DEF CheckStop, WaitAndPop, Took, Spurious, Finish, Drain, poolVars
<1> QED
  BY <1>1, <1>2, <1>3, <1>4 DEF Next

(* The destructor never passes a worker that is still in its loop.         *)
LEMMA NextJoinInv == Inv1 /\ JoinInv /\ [Next]_vars => JoinInv'
<1> SUFFICES ASSUME Inv1, JoinInv, [Next]_vars
             PROVE  JoinInv'
  OBVIOUS
<1>0. /\ Workers = 1..NumThreads /\ index \in [Threads -> Workers]
      /\ Owner \in Threads /\ spawned \in 0..NumThreads
  BY DEF Inv1, TypeOK, Workers, Threads
<1>1. \A w \in Workers : pc[w] = "exited" => pc'[w] = "exited"
  BY ExitedStable
<1>2. CASE phase' = phase /\ index'[Owner] = index[Owner]
  BY <1>1, <1>2 DEF JoinInv
<1>3. CASE \/ phase' = phase /\ phase = "destroying"
           \/ phase' \notin {"joining", "unwinding", "gone"}
  BY <1>3 DEF JoinInv
<1>4. CASE SpawnThrows
  BY <1>0, <1>4 DEF SpawnThrows, JoinInv, Inv1, PhaseInv
<1>5. CASE StartJoining
  BY <1>0, <1>5 DEF StartJoining, JoinInv
<1>6. CASE Join
  <2>1. pc[index[Owner]] = "exited" /\ pc' = pc
    BY <1>6 DEF Join
  <2>2. \A w \in Workers : w <= index[Owner] => pc[w] = "exited"
    BY <1>0, <1>6, <2>1 DEF Join, Joining, JoinInv
  <2>3. CASE index[Owner] < spawned
    <3>1. phase' = phase /\ index'[Owner] = index[Owner] + 1
      BY <1>0, <1>6, <2>3 DEF Join
    <3>2. phase # "gone"
      BY <1>6 DEF Join, Joining
    <3> QED
      BY <1>0, <2>1, <2>2, <3>1, <3>2 DEF JoinInv
  <2>4. CASE ~(index[Owner] < spawned)
    <3>1. CASE phase = "joining"
      <4>1. spawned = NumThreads /\ phase' = "gone"
        BY <1>6, <2>4, <3>1 DEF Join, Inv1, PhaseInv, Unusable
      <4> QED
        BY <1>0, <2>1, <2>2, <2>4, <4>1 DEF JoinInv
    <3>2. CASE phase # "joining"
      BY <1>6, <2>4, <3>2 DEF Join, JoinInv
    <3> QED
      BY <3>1, <3>2
  <2> QED
    BY <2>3, <2>4
<1> QED
  BY <1>2, <1>3, <1>4, <1>5, <1>6, OwnerSteps

-----------------------------------------------------------------------------
(* The inductive invariant of the pool, and what follows from it.          *)

Inv == Inv1 /\ FifoNoLoss /\ NoLostWakeup /\ CustodyInv /\ JoinInv

(* The empty queue, with nobody asleep and nothing accepted, satisfies Inv. *)
LEMMA InitInv == Init => Inv
<1> SUFFICES ASSUME Init PROVE Inv
  OBVIOUS
<1>1. FifoNoLoss /\ NoLostWakeup
  BY DEF Init, QueueInit, FifoNoLoss, NoLostWakeup, TaskWakeups, StopWakeups
<1>2. CustodyInv
  BY
     DEF Init, QueueInit, CustodyInv, QueuedOnce, HeldOnce, QueuedOrHeld,
         PendingInv, InQueue, Held
<1>3. JoinInv
  BY DEF Init, JoinInv
<1> QED
  BY <1>1, <1>2, <1>3, InitInv1 DEF Inv

(* Inv is an invariant of the pool.                                        *)
THEOREM Invariance == SafeSpec => []Inv
<1>1. Inv /\ [Next]_vars => Inv'
  BY NextInv1, NextFifoNoLoss, NextTaskWakeups, NextStopWakeups, NextCustody,
     NextJoinInv
     DEF Inv, Inv1, NoLostWakeup
<1> QED
  BY InitInv, <1>1, PTL DEF SafeSpec

(* Every variable keeps to its type; no call indexes past workers_.        *)
THEOREM TypeCorrect == SafeSpec => []TypeOK
<1>1. Inv => TypeOK
  BY DEF Inv, Inv1
<1> QED
  BY <1>1, Invariance, PTL

(* The two pop loops take the callables in push() order, without loss.     *)
THEOREM Fifo == SafeSpec => []FifoNoLoss
<1>1. Inv => FifoNoLoss
  BY DEF Inv
<1> QED
  BY <1>1, Invariance, PTL

(* notify_one() after the unlock, the stop callback and the notify_all()   *)
(* of shutdown() lose no wakeup.                                           *)
THEOREM WakeupsSuffice == SafeSpec => []NoLostWakeup
<1>1. Inv => NoLostWakeup
  BY DEF Inv
<1> QED
  BY <1>1, Invariance, PTL

(* While a destructor or an unwinding constructor is at work, some thread  *)
(* has a step to take: no shutdown, join or drain waits for a sleeper that *)
(* nobody is going to wake.                                                *)
SomebodyMoves ==
  phase \in {"destroying", "joining", "unwinding"} =>
    \/ \E p \in Threads : call[p] # "none"
    \/ \E w \in Workers :
         Awake(w) \/ Busy(w) \/ pc[w] \in {"loop", "drain"}
    \/ phase = "destroying" \/ ~stop[index[Owner]]
    \/ pc[index[Owner]] = "exited"

(* ~ThreadPool() never waits for everybody while everybody waits.          *)
THEOREM DestructorNeverStuck == SafeSpec => []SomebodyMoves
<1>1. ASSUME Inv
      PROVE  SomebodyMoves
  <2>1. SUFFICES ASSUME phase \in {"joining", "unwinding"},
                        stop[index[Owner]], pc[index[Owner]] # "exited",
                        \A p \in Threads : call[p] = "none"
                 PROVE  \E w \in Workers :
                          Awake(w) \/ Busy(w) \/ pc[w] \in {"loop", "drain"}
    BY DEF SomebodyMoves
  <2> DEFINE w == index[Owner]
  <2>2. w \in Workers /\ pc[w] \in WorkerPC
    BY <1>1 DEF Inv, Inv1, TypeOK, Threads
  <2>3. w \notin waiters
    BY <1>1, <2>1 DEF Inv, NoLostWakeup, StopWakeups
  <2>4. pc[w] # "unborn"
    <3>1. w <= spawned
      <4>1. CASE phase = "unwinding"
        BY <1>1, <4>1 DEF Inv, Inv1, PhaseInv
      <4>2. CASE phase = "joining"
        <5>1. spawned = NumThreads
          BY <1>1, <4>2 DEF Inv, Inv1, PhaseInv, Unusable
        <5> QED
          BY <2>2, <5>1 DEF Workers
      <4> QED
        BY <2>1, <4>1, <4>2
    <3>2. w \in Nat /\ spawned \in Nat
      BY <1>1, <2>2 DEF Inv, Inv1, TypeOK, Workers
    <3> QED
      BY <1>1, <2>2, <3>1, <3>2 DEF Inv, Inv1, WorkerInv
  <2> HIDE DEF w
  <2> QED
    BY <2>1, <2>2, <2>3, <2>4 DEF w, WorkerPC, Awake, Busy
<1> QED
  BY <1>1, Invariance, PTL

(* An accepted callable is in the queue once or with one worker until its  *)
(* future is ready.                                                        *)
THEOREM CustodyHolds == SafeSpec => []Custody
<1>1. ASSUME Inv
      PROVE  Custody
  <2> SUFFICES ASSUME NEW t \in Tasks
               PROVE  Cardinality({i \in DOMAIN tasks_ : tasks_[i] = t})
                        + Cardinality({w \in Workers : cur[w] = t})
                      = IF future[t] = "pending" THEN 1 ELSE 0
    BY DEF Custody
  <2> DEFINE queued == {i \in DOMAIN tasks_ : tasks_[i] = t}
             holders == {w \in Workers : cur[w] = t}
  <2>1. DOMAIN tasks_ = 1..Len(tasks_)
    BY <1>1 DEF Inv, Inv1, TypeOK, QueueTypeOK
  <2>2. Cardinality(queued) = IF InQueue(t) THEN 1 ELSE 0
    <3>1. CASE InQueue(t)
      <4>1. PICK i \in 1..Len(tasks_) : tasks_[i] = t
        BY <3>1 DEF InQueue
      <4>2. queued = {i}
        BY <1>1, <2>1, <4>1 DEF Inv, CustodyInv, QueuedOnce
      <4> QED
        BY <3>1, <4>2, FS_Singleton
    <3>2. CASE ~InQueue(t)
      <4>1. queued = {}
        BY <2>1, <3>2 DEF InQueue
      <4> QED
        BY <3>2, <4>1, FS_EmptySet
    <3> QED
      BY <3>1, <3>2
  <2>3. Cardinality(holders) = IF Held(t) THEN 1 ELSE 0
    <3>1. CASE Held(t)
      <4>1. PICK w \in Workers : cur[w] = t
        BY <3>1 DEF Held
      <4>2. holders = {w}
        BY <1>1, <4>1 DEF Inv, CustodyInv, HeldOnce, TasksAssumption
      <4> QED
        BY <3>1, <4>2, FS_Singleton
    <3>2. CASE ~Held(t)
      <4>1. holders = {}
        BY <3>2 DEF Held
      <4> QED
        BY <3>2, <4>1, FS_EmptySet
    <3> QED
      BY <3>1, <3>2
  <2>4. ~(InQueue(t) /\ Held(t))
    BY <1>1 DEF Inv, CustodyInv, QueuedOrHeld, InQueue, Held
  <2>5. future[t] = "pending" <=> InQueue(t) \/ Held(t)
    BY <1>1 DEF Inv, CustodyInv, PendingInv
  <2> QED
    BY <2>2, <2>3, <2>4, <2>5
<1> QED
  BY <1>1, Invariance, PTL

(* No worker leaves a task behind, and a destroyed pool leaves no future   *)
(* pending.                                                                *)
THEOREM NothingAbandonedHolds == SafeSpec => []NothingAbandoned
<1>1. ASSUME Inv
      PROVE  NothingAbandoned
  <2> USE <1>1 DEF Inv, Inv1
  <2>1. ASSUME NEW w \in Workers, pc[w] = "exited"
        PROVE  /\ tasks_ = <<>>
               /\ shutdown_ \/ phase \in {"unwinding", "failed"}
    BY <2>1 DEF WorkerInv, StopInv
  <2>2. ASSUME phase = "gone" \/ \A w \in Workers : pc[w] = "exited",
               NEW t \in Tasks
        PROVE  future[t] # "pending"
    <3>1. \A w \in Workers : pc[w] = "exited"
      BY <2>2 DEF JoinInv
    <3>2. 1 \in Workers
      BY DEF Workers
    <3>3. tasks_ = <<>>
      BY <2>1, <3>1, <3>2
    <3>4. \A w \in Workers : cur[w] = NoTask
      BY <3>1 DEF WorkerInv, Busy
    <3>5. ~InQueue(t) /\ ~Held(t)
      BY <2>2, <3>3, <3>4 DEF InQueue, Held, TasksAssumption
    <3> QED
      BY <2>2, <3>5 DEF CustodyInv, PendingInv
  <2> QED
    BY <2>1, <2>2 DEF NothingAbandoned
<1> QED
  BY <1>1, Invariance, PTL

-----------------------------------------------------------------------------
(* The pool implements TaskExecutor (its safety part).                     *)

(* The mapped variables do not change when what they are made of does not. *)
LEMMA MappedStutter ==
  ASSUME UNCHANGED <<tasks_, shutdown_, cur, future>>,
         phase' = "gone" <=> phase = "gone"
  PROVE  UNCHANGED Executor!execVars
<1>1. taskStatus' = taskStatus
  BY DEF taskStatus
<1>2. (~shutdown_)' = ~shutdown_ /\ (phase = "gone")' = (phase = "gone")
  OBVIOUS
<1> QED
  BY <1>1, <1>2 DEF Executor!execVars

(* What one task's mapped status is.                                       *)
LEMMA StatusOf ==
  ASSUME TypeOK, CustodyInv, NEW t \in Tasks
  PROVE  /\ taskStatus[t] = "new" <=> future[t] = "none"
         /\ taskStatus[t] = "refused" <=> future[t] = "refused"
         /\ taskStatus[t] = "settled" <=> future[t] \in {"value", "exception"}
         /\ taskStatus[t] = "running" <=> Held(t)
         /\ taskStatus[t] = "queued" <=> future[t] = "pending" /\ ~Held(t)
<1>1. Held(t) => future[t] = "pending"
  BY DEF CustodyInv, PendingInv
<1>2. future[t] \in FutureState
  BY DEF TypeOK
<1>3. taskStatus[t] =
        CASE future[t] = "none" -> "new"
          [] future[t] = "refused" -> "refused"
          [] future[t] \in {"value", "exception"} -> "settled"
          [] future[t] = "pending" -> IF Held(t) THEN "running" ELSE "queued"
  BY DEF taskStatus, Held
<1>4. CASE future[t] = "none"
  BY <1>1, <1>3, <1>4
<1>5. CASE future[t] = "refused"
  BY <1>1, <1>3, <1>5
<1>6. CASE future[t] \in {"value", "exception"}
  BY <1>1, <1>3, <1>6
<1>7. CASE future[t] = "pending"
  BY <1>3, <1>7
<1> QED
  BY <1>2, <1>4, <1>5, <1>6, <1>7 DEF FutureState

(* A step that changes the future and the holder of one task only changes  *)
(* that task's mapped status only.                                         *)
LEMMA StatusUpdate ==
  ASSUME NEW t \in Tasks, NEW s, taskStatus'[t] = s,
         \A u \in Tasks \ {t} :
           future'[u] = future[u] /\ (Held(u)' <=> Held(u))
  PROVE  taskStatus' = [taskStatus EXCEPT ![t] = s]
<1> DEFINE E(u) ==
             CASE future[u] = "none" -> "new"
               [] future[u] = "refused" -> "refused"
               [] future[u] \in {"value", "exception"} -> "settled"
               [] future[u] = "pending" ->
                    IF \E w \in Workers : cur[w] = u
                      THEN "running" ELSE "queued"
<1>1. /\ taskStatus = [u \in Tasks |-> E(u)]
      /\ taskStatus' = [u \in Tasks |-> E(u)']
  BY Zenon DEF taskStatus
<1>2. \A u \in Tasks \ {t} : E(u)' = E(u)
  <2> SUFFICES ASSUME NEW u \in Tasks \ {t} PROVE E(u)' = E(u)
    OBVIOUS
  <2>1. CASE Held(u)
    BY <2>1 DEF Held
  <2>2. CASE ~Held(u)
    BY <2>2 DEF Held
  <2> QED
    BY <2>1, <2>2
<1> HIDE DEF E
<1> QED
  BY <1>1, <1>2

(* The callables that run are in the hands of other workers than one that  *)
(* holds none, so fewer than NumThreads of them run.                       *)
LEMMA FewerRunning ==
  ASSUME TypeOK, CustodyInv, NEW w \in Workers, cur[w] = NoTask
  PROVE  Cardinality(Executor!Running) < NumThreads
<1> DEFINE R == Executor!Running
           H(t) == CHOOSE v \in Workers : cur[v] = t
           f == [t \in R |-> H(t)]
<1>1. R = {t \in Tasks : Held(t)}
  BY StatusOf DEF Executor!Running
<1>2. \A t \in R : H(t) \in Workers \ {w} /\ cur[H(t)] = t
  BY <1>1 DEF Held, TasksAssumption
<1>3. f \in Injection(R, Workers \ {w})
  <2> HIDE DEF R, H
  <2>1. f \in [R -> Workers \ {w}]
    BY <1>2
  <2>2. \A s, t \in R : f[s] = f[t] => s = t
    BY <1>2
  <2> QED
    BY <2>1, <2>2 DEF Injection, IsInjective
<1>4. IsFiniteSet(Workers \ {w}) /\ Cardinality(Workers \ {w}) = NumThreads - 1
  <2>1. IsFiniteSet(Workers) /\ Cardinality(Workers) = NumThreads
    BY FS_Interval DEF Workers
  <2>2. /\ IsFiniteSet(Workers \ {w})
        /\ Cardinality(Workers \ {w}) =
             IF w \in Workers THEN Cardinality(Workers) - 1
                              ELSE Cardinality(Workers)
    BY <2>1, FS_RemoveElement
  <2> QED
    BY <2>1, <2>2
<1> HIDE DEF R, f
<1>5. IsFiniteSet(R) /\ Cardinality(R) <= Cardinality(Workers \ {w})
  BY <1>3, <1>4, FS_Injection, Zenon
<1>6. Cardinality(R) \in Nat
  BY <1>5, FS_CardinalityType
<1>7. Cardinality(R) < NumThreads
  BY <1>4, <1>5, <1>6
<1> QED
  BY <1>7 DEF R

(* Every step of the pool is a step of the executor or a stutter.          *)
LEMMA ExecutorStep ==
  ASSUME Inv, Inv', [Next]_vars
  PROVE  [Executor!Next]_(Executor!execVars)
<1> USE DEF Inv
<1>0. TypeOK /\ CustodyInv /\ TypeOK' /\ CustodyInv'
  BY DEF Inv1
<1>1. CASE Spawn \/ SpawnThrows \/ StartJoining \/ JthreadRequestStop
           \/ Terminated \/ UNCHANGED vars
  <2>1. /\ UNCHANGED <<tasks_, shutdown_, cur, future>>
        /\ phase' = "gone" <=> phase = "gone"
    BY <1>1
       DEF Spawn, SpawnThrows, StartJoining, JthreadRequestStop, Terminated,
           vars, queueVars, poolVars
  <2> QED
    BY <2>1, MappedStutter
<1>2. ASSUME NEW p \in Threads, EnterShutdown(p), UNCHANGED <<cur, future>>,
             phase' = "gone" <=> phase = "gone"
      PROVE  [Executor!Next]_(Executor!execVars)
  <2>1. tasks_' = tasks_ /\ shutdown_' = TRUE
    BY <1>2 DEF EnterShutdown, SetShutdown
  <2>2. CASE shutdown_
    <3>1. shutdown_' = shutdown_
      BY <1>0, <2>1, <2>2 DEF TypeOK, QueueTypeOK
    <3> QED
      BY <1>2, <2>1, <3>1, MappedStutter
  <2>3. CASE ~shutdown_
    <3>1. taskStatus' = taskStatus
      BY <1>2 DEF taskStatus
    <3>2. (phase = "gone")' = (phase = "gone")
      BY <1>2
    <3>3. (~shutdown_)' = FALSE
      BY <2>1
    <3>4. Executor!Close
      BY <2>1, <2>3, <3>1, <3>2, <3>3 DEF Executor!Close
    <3> QED
      BY <3>4 DEF Executor!Next
  <2> QED
    BY <2>2, <2>3
<1>3. CASE Destroy
  <2>1. /\ EnterShutdown(Owner) /\ UNCHANGED <<cur, future>>
        /\ phase' = "gone" <=> phase = "gone"
    BY <1>3 DEF Destroy
  <2>2. Owner \in Threads
    BY DEF Threads
  <2> QED
    BY <1>2, <2>1, <2>2
<1>4. ASSUME NEW p \in Threads, Shutdown(p)
      PROVE  [Executor!Next]_(Executor!execVars)
  BY <1>2, <1>4 DEF Shutdown
<1>5. CASE Join
  <2>1. UNCHANGED <<tasks_, shutdown_, cur, future>>
    BY <1>5 DEF Join, queueVars
  <2>2. CASE phase' = "gone" <=> phase = "gone"
    BY <2>1, <2>2, MappedStutter
  <2>3. CASE ~(phase' = "gone" <=> phase = "gone")
    <3>1. phase = "joining" /\ phase' = "gone"
      BY <1>5, <2>3 DEF Join, Joining
    <3>2. shutdown_
      BY <3>1 DEF Inv1, StopInv
    <3>3. \A w \in Workers : pc[w] = "exited"
      <4>1. \A w \in Workers : pc'[w] = "exited"
        BY <3>1 DEF JoinInv
      <4> QED
        BY <1>5, <4>1 DEF Join
    <3>4. tasks_ = <<>>
      <4>1. 1 \in Workers
        BY DEF Workers
      <4> QED
        BY <3>3, <4>1 DEF Inv1, WorkerInv
    <3>5. Executor!Running = {}
      <4>1. \A t \in Tasks : ~Held(t)
        BY <3>3 DEF Held, Inv1, WorkerInv, Busy
      <4> QED
        BY <1>0, <4>1, StatusOf DEF Executor!Running
    <3>6. taskStatus' = taskStatus /\ (~shutdown_)' = ~shutdown_
      BY <2>1 DEF taskStatus
    <3>7. (phase = "gone") = FALSE /\ (phase = "gone")' = TRUE
      BY <3>1
    <3>8. Executor!Retire
      BY <2>1, <3>2, <3>4, <3>5, <3>6, <3>7 DEF Executor!Retire
    <3> QED
      BY <3>8 DEF Executor!Next
  <2> QED
    BY <2>2, <2>3
<1>6. ASSUME NEW p \in Threads, CallStep(p)
      PROVE  [Executor!Next]_(Executor!execVars)
  <2>1. UNCHANGED <<tasks_, shutdown_, cur, future, phase>>
    BY <1>6
       DEF CallStep, NotifyOne, NotifyAll, RequestStop, StopCallback,
           CvNotifyOne, CvNotifyAll, queueVars
  <2> QED
    BY <2>1, MappedStutter
<1>7. ASSUME NEW p \in Threads, NEW t \in Tasks, SubmitAccepted(p, t)
      PROVE  [Executor!Next]_(Executor!execVars)
  <2>1. /\ ~shutdown_ /\ shutdown_' = shutdown_ /\ tasks_' = Append(tasks_, t)
        /\ future[t] = "none" /\ future' = [future EXCEPT ![t] = "pending"]
        /\ cur' = cur /\ phase' = phase
    BY <1>7 DEF SubmitAccepted, PushAccepted
  <2>2. future'[t] = "pending" /\ ~Held(t) /\ ~Held(t)'
    BY <1>0, <1>7, <2>1 DEF TypeOK, CustodyInv, PendingInv, Held
  <2>3. taskStatus[t] = "new"
    BY <1>0, <1>7, <2>1, StatusOf
  <2>4. taskStatus'[t] = "queued"
    BY <1>7, <2>2 DEF taskStatus, Held
  <2>5. taskStatus' = [taskStatus EXCEPT ![t] = "queued"]
    BY <1>0, <1>7, <2>1, <2>4, StatusUpdate DEF TypeOK, Held
  <2>6. (~shutdown_)' = ~shutdown_ /\ (phase = "gone")' = (phase = "gone")
    BY <2>1
  <2>7. Executor!Accept(t)
    BY <2>1, <2>3, <2>5, <2>6 DEF Executor!Accept
  <2> QED
    BY <1>7, <2>7 DEF Executor!Next
<1>8. ASSUME NEW p \in Threads, NEW t \in Tasks, SubmitThrows(p, t)
      PROVE  [Executor!Next]_(Executor!execVars)
  <2>1. /\ shutdown_ /\ shutdown_' = shutdown_ /\ tasks_' = tasks_
        /\ future[t] = "none" /\ future' = [future EXCEPT ![t] = "refused"]
        /\ cur' = cur /\ phase' = phase
    BY <1>8 DEF SubmitThrows, PushRefused, queueVars
  <2>2. future'[t] = "refused"
    BY <1>0, <1>8, <2>1 DEF TypeOK
  <2>3. taskStatus[t] = "new"
    BY <1>0, <1>8, <2>1, StatusOf
  <2>4. taskStatus'[t] = "refused"
    BY <1>8, <2>2 DEF taskStatus
  <2>5. taskStatus' = [taskStatus EXCEPT ![t] = "refused"]
    BY <1>0, <1>8, <2>1, <2>4, StatusUpdate DEF TypeOK, Held
  <2>6. (~shutdown_)' = ~shutdown_ /\ (phase = "gone")' = (phase = "gone")
    BY <2>1
  <2>7. Executor!Refuse(t)
    BY <2>1, <2>3, <2>5, <2>6 DEF Executor!Refuse
  <2> QED
    BY <1>8, <2>7 DEF Executor!Next
<1>9. ASSUME NEW w \in Workers, NEW t \in Tasks, NEW next, TakeFront(t),
             Took(w, t, next), Awake(w) \/ pc[w] = "drain"
      PROVE  [Executor!Next]_(Executor!execVars)
  <2>1. /\ tasks_ # <<>> /\ t = Head(tasks_) /\ tasks_' = Tail(tasks_)
        /\ shutdown_' = shutdown_ /\ future' = future /\ phase' = phase
        /\ cur' = [cur EXCEPT ![w] = t]
    BY <1>9 DEF TakeFront, Took
  <2>2. cur[w] = NoTask
    BY <1>9 DEF Inv1, WorkerInv, Awake, Busy
  <2>3. Held(t)'
    BY <1>0, <1>9, <2>1 DEF Held, TypeOK
  <2>4. taskStatus'[t] = "running"
    <3>1. future'[t] = "pending"
      BY <1>0, <1>9, <2>3 DEF CustodyInv, PendingInv
    <3> QED
      BY <1>9, <2>3, <3>1 DEF taskStatus, Held
  <2>5. \A u \in Tasks \ {t} : Held(u)' <=> Held(u)
    BY <1>0, <1>9, <2>1, <2>2 DEF Held, TypeOK, TasksAssumption
  <2>6. taskStatus' = [taskStatus EXCEPT ![t] = "running"]
    BY <1>9, <2>1, <2>4, <2>5, StatusUpdate
  <2>7. (~shutdown_)' = ~shutdown_ /\ (phase = "gone")' = (phase = "gone")
    BY <2>1
  <2>8. Cardinality(Executor!Running) < NumThreads
    BY <1>0, <1>9, <2>2, FewerRunning
  <2>9. Executor!Start
    <3>1. taskStatus' = [taskStatus EXCEPT ![Head(tasks_)] = "running"]
      BY <2>1, <2>6
    <3>2. tasks_ # <<>> /\ tasks_' = Tail(tasks_)
      BY <2>1
    <3>3. UNCHANGED <<~shutdown_, phase = "gone">>
      BY <2>7
    <3>4. Executor!Cardinality(Executor!Running) = Cardinality(Executor!Running)
      BY DEF Executor!Cardinality, Cardinality
    <3> QED
      BY <2>8, <3>1, <3>2, <3>3, <3>4 DEF Executor!Start
  <2> QED
    BY <2>9 DEF Executor!Next
<1>10. ASSUME NEW w \in Workers, WaitAndPop(w)
       PROVE  [Executor!Next]_(Executor!execVars)
  <2>1. CASE \E t \in Tasks : WaitTakes(t) /\ Took(w, t, "run")
    BY <1>9, <1>10, <2>1 DEF WaitAndPop, WaitTakes
  <2>2. CASE ~\E t \in Tasks : WaitTakes(t) /\ Took(w, t, "run")
    <3>1. UNCHANGED <<tasks_, shutdown_, cur, future, phase>>
      BY <1>10, <2>2
         DEF WaitAndPop, WaitReturnsNullopt, WaitSleeps, queueVars, poolVars
    <3> QED
      BY <3>1, MappedStutter
  <2> QED
    BY <2>1, <2>2
<1>11. ASSUME NEW w \in Workers, Drain(w)
       PROVE  [Executor!Next]_(Executor!execVars)
  <2>1. CASE \E t \in Tasks : TakeFront(t) /\ Took(w, t, "drainRun")
    BY <1>9, <1>11, <2>1 DEF Drain
  <2>2. CASE ~\E t \in Tasks : TakeFront(t) /\ Took(w, t, "drainRun")
    <3>1. UNCHANGED <<tasks_, shutdown_, cur, future, phase>>
      BY <1>11, <2>2 DEF Drain, queueVars
    <3> QED
      BY <3>1, MappedStutter
  <2> QED
    BY <2>1, <2>2
<1>12. ASSUME NEW w \in Workers, CheckStop(w) \/ Spurious(w)
       PROVE  [Executor!Next]_(Executor!execVars)
  <2>1. UNCHANGED <<tasks_, shutdown_, cur, future, phase>>
    BY <1>12 DEF CheckStop, Spurious, SpuriousWakeup, queueVars, poolVars
  <2> QED
    BY <2>1, MappedStutter
<1>13. ASSUME NEW w \in Workers, Finish(w)
       PROVE  [Executor!Next]_(Executor!execVars)
  <2> DEFINE t == cur[w]
  <2>1. t \in Tasks /\ Held(t)
    BY <1>0, <1>13 DEF Finish, TypeOK, Held
  <2>2. PICK r \in {"value", "exception"} : future' = [future EXCEPT ![t] = r]
    BY <1>13 DEF Finish
  <2>3. /\ UNCHANGED <<tasks_, shutdown_, phase>>
        /\ cur' = [cur EXCEPT ![w] = NoTask]
    BY <1>13 DEF Finish, queueVars
  <2>4. taskStatus[t] = "running"
    BY <1>0, <2>1, StatusOf
  <2>5. future'[t] \in {"value", "exception"}
    BY <1>0, <2>1, <2>2 DEF TypeOK
  <2>6. taskStatus'[t] = "settled"
    BY <2>1, <2>5 DEF taskStatus
  <2>7. \A u \in Tasks \ {t} : future'[u] = future[u]
    BY <1>0, <2>1, <2>2 DEF TypeOK
  <2>8. \A u \in Tasks \ {t} : Held(u)' <=> Held(u)
    BY <1>0, <1>13, <2>3 DEF Held, TypeOK, TasksAssumption
  <2> HIDE DEF t
  <2>9. taskStatus' = [taskStatus EXCEPT ![t] = "settled"]
    BY <2>1, <2>6, <2>7, <2>8, StatusUpdate
  <2>10. (~shutdown_)' = ~shutdown_ /\ (phase = "gone")' = (phase = "gone")
    BY <2>3
  <2>11. Executor!Settle(t)
    BY <2>3, <2>4, <2>9, <2>10 DEF Executor!Settle
  <2> QED
    BY <2>1, <2>11 DEF Executor!Next
<1> QED
  BY <1>1, <1>3, <1>4, <1>5, <1>6, <1>7, <1>8, <1>10, <1>11, <1>12, <1>13
     DEF Next, OwnerStep

(* The pool keeps every promise of TaskExecutor that does not depend on    *)
(* fairness: FIFO start, at most NumThreads at a time, each accepted task  *)
(* settled once, and a drained queue before the destructor returns.        *)
THEOREM ImplementsExecutor == SafeSpec => ExecutorSafeSpec
<1>1. Init => Executor!Init
  <2> SUFFICES ASSUME Init PROVE Executor!Init
    OBVIOUS
  <2>1. taskStatus = [t \in Tasks |-> "new"]
    BY DEF Init, taskStatus
  <2>2. (~shutdown_) = TRUE /\ (phase = "gone") = FALSE /\ tasks_ = <<>>
    BY DEF Init, QueueInit
  <2> QED
    BY <2>1, <2>2 DEF Executor!Init
<1>2. Inv /\ Inv' /\ [Next]_vars => [Executor!Next]_(Executor!execVars)
  BY ExecutorStep
<1> QED
  BY <1>1, <1>2, Invariance, PTL
     DEF SafeSpec, ExecutorSafeSpec, Executor!SafeSpec

=============================================================================
