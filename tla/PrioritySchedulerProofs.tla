---------------------- MODULE PrioritySchedulerProofs -----------------------
(***************************************************************************)
(* Proofs about PriorityScheduler, for every set of threads, tasks and     *)
(* priorities.  NoLostWakeup is inductive together with the types.         *)
(***************************************************************************)
EXTENDS PriorityScheduler, TLAPS, FiniteSetTheorems, WellFoundedInduction

USE ThreadsAssumption, PrioritiesAssumption

(* The threads that are about to look into the queue or to wake somebody.  *)
busy == {p \in Threads : Awake(p) \/ pc[p] = "notifyOne"}

WakeInv == waiters # {} => Cardinality(queue_) <= Cardinality(busy)

Inv == TypeOK /\ IsFiniteSet(queue_) /\ WakeInv /\ StopWakeups

(* A set of numbers that is not empty has a least one.                     *)
LEMMA LeastNumber ==
  ASSUME NEW N, N \subseteq Nat, N # {}
  PROVE  \E n \in N : \A m \in N : n <= m
<1>1. PICK n \in N : \A m \in N : <<m, n>> \notin OpToRel(<, Nat)
  BY NatLessThanWellFounded, WFMin
<1>2. \A m \in N : ~(m < n)
  BY <1>1 DEF OpToRel
<1> QED
  BY <1>2

(* A queue that is not empty has a top: the oldest task of the highest     *)
(* priority.                                                               *)
LEMMA TopExists ==
  ASSUME TypeOK, queue_ # {}
  PROVE  Top \in queue_ /\ \A f \in queue_ \ {Top} : Before(Top, f)
<1> DEFINE N == {3 - e.priority : e \in queue_}
<1>1. \A e \in queue_ : e.priority \in 0..3 /\ e.sequence \in Nat
  BY DEF TypeOK, PriorityTask
<1>2. N \subseteq Nat /\ N # {}
  BY <1>1
<1>3. PICK n \in N : \A m \in N : n <= m
  BY <1>2, LeastNumber
<1>4. PICK a \in queue_ : n = 3 - a.priority
  BY DEF N
<1> DEFINE S == {e \in queue_ : e.priority = a.priority}
           M == {e.sequence : e \in S}
<1>5. M \subseteq Nat /\ M # {}
  BY <1>1, <1>4
<1>6. PICK k \in M : \A m \in M : k <= m
  BY <1>5, LeastNumber
<1>7. PICK b \in S : k = b.sequence
  BY DEF M
<1>8. ASSUME NEW f \in queue_ \ {b} PROVE Before(b, f)
  <2>1. f.priority <= a.priority
    <3>1. n <= 3 - f.priority
      BY <1>3 DEF N
    <3> QED
      BY <1>1, <1>4, <3>1
  <2>2. f.priority = a.priority => k <= f.sequence
    BY <1>6
  <2>3. b.sequence # f.sequence
    BY DEF TypeOK
  <2> QED
    BY <1>1, <1>7, <2>1, <2>2, <2>3 DEF Before
<1> QED
  BY <1>7, <1>8 DEF Top

(* Nobody sleeps and nothing is queued at first.                           *)
LEMMA InitInv == Init => Inv
<1> SUFFICES ASSUME Init PROVE Inv
  OBVIOUS
<1>1. TypeOK
  BY DEF Init, TypeOK, SchedulerPC
<1> QED
  BY <1>1, FS_EmptySet DEF Init, Inv, WakeInv, StopWakeups

(* The size of a set of threads, and of the set with one more or one less. *)
LEMMA CountThreads ==
  ASSUME NEW B, B \subseteq Threads
  PROVE  /\ IsFiniteSet(B) /\ Cardinality(B) \in Nat
         /\ \A p : p \notin B => Cardinality(B \cup {p}) = Cardinality(B) + 1
         /\ \A p \in B : Cardinality(B \ {p}) = Cardinality(B) - 1
         /\ \A C : C \subseteq B => Cardinality(C) <= Cardinality(B)
<1>1. IsFiniteSet(B)
  BY FS_Subset
<1> QED
  BY <1>1, FS_CardinalityType, FS_AddElement, FS_RemoveElement, FS_Subset

(* Every step keeps the types, and numbers apart.                          *)
LEMMA NextTypeOK == TypeOK /\ [Next]_vars => TypeOK'
<1> SUFFICES ASSUME TypeOK, [Next]_vars PROVE TypeOK'
  OBVIOUS
<1>1. CASE UNCHANGED vars
  BY <1>1 DEF vars, TypeOK
<1>2. ASSUME NEW p \in Threads, NEW t \in Tasks, NEW q \in Priorities, Push(p, t, q)
      PROVE  TypeOK'
  <2> DEFINE e == [func |-> t, priority |-> q, sequence |-> next_seq_]
  <2>1. /\ pc[p] = "idle" /\ next_seq_' = next_seq_ + 1 /\ queue_' = queue_ \cup {e}
        /\ pc' = [pc EXCEPT ![p] = "notifyOne"] /\ pushed' = pushed \cup {t}
        /\ UNCHANGED <<stopped_, waiters, stop, callbacks>>
    BY <1>2 DEF Push, Goto
  <2>2. e \in PriorityTask /\ e.sequence = next_seq_
    BY DEF TypeOK, PriorityTask
  <2>3. queue_' \subseteq PriorityTask /\ pushed' \subseteq Tasks
    BY <2>1, <2>2 DEF TypeOK
  <2>4. /\ waiters' \subseteq {w \in Threads : pc'[w] = "waiting"}
        /\ pc' \in [Threads -> SchedulerPC]
    BY <2>1 DEF TypeOK, SchedulerPC
  <2>5. \A f \in queue_ : f.sequence \in Nat /\ f.sequence < next_seq_
    BY DEF TypeOK, PriorityTask
  <2> HIDE DEF e
  <2>6. /\ \A f \in queue_' : f.sequence < next_seq_'
        /\ \A f, g \in queue_' : f.sequence = g.sequence => f = g
    BY <2>1, <2>2, <2>5 DEF TypeOK
  <2> QED
    BY <2>1, <2>3, <2>4, <2>6 DEF TypeOK
<1>3. ASSUME NEW p \in Threads,
             \/ Notify(p) \/ Shutdown(p) \/ CallWaitAndPop(p) \/ WaitReturnsNullopt(p)
             \/ WaitSleeps(p) \/ SpuriousWakeup(p)
      PROVE  TypeOK'
  <2>1. /\ UNCHANGED <<queue_, next_seq_, stop, callbacks, pushed>>
        /\ stopped_' \in BOOLEAN
    BY <1>3 DEF Notify, NotifyOne, NotifyAll, Shutdown, CallWaitAndPop,
                WaitReturnsNullopt, WaitSleeps, SpuriousWakeup, TypeOK
  <2>2. \/ pc' = pc
        \/ \E l \in SchedulerPC : pc' = [pc EXCEPT ![p] = l]
    BY <1>3 DEF Notify, NotifyOne, NotifyAll, Shutdown, CallWaitAndPop,
                WaitReturnsNullopt, WaitSleeps, SpuriousWakeup, Goto, SchedulerPC
  <2>3. pc' \in [Threads -> SchedulerPC]
    BY <2>2 DEF TypeOK
  <2>4. waiters' \subseteq {w \in Threads : pc'[w] = "waiting"}
    BY <1>3 DEF Notify, NotifyOne, NotifyAll, Shutdown, CallWaitAndPop, Awake,
                WaitReturnsNullopt, WaitSleeps, SpuriousWakeup, Goto, TypeOK
  <2> QED
    BY <2>1, <2>3, <2>4 DEF TypeOK
<1>4. ASSUME NEW p \in Threads, TryPop(p) \/ WaitTakes(p) PROVE TypeOK'
  <2>1. /\ queue_' \subseteq queue_ /\ p \notin waiters
        /\ pc' = [pc EXCEPT ![p] = "idle"]
        /\ UNCHANGED <<next_seq_, stopped_, waiters, stop, callbacks, pushed>>
    BY <1>4 DEF TryPop, WaitTakes, PopTop, Awake, Goto, TypeOK
  <2>2. pc' \in [Threads -> SchedulerPC]
    BY <2>1 DEF TypeOK, SchedulerPC
  <2>3. waiters' \subseteq {w \in Threads : pc'[w] = "waiting"}
    BY <2>1 DEF TypeOK
  <2> QED
    BY <2>1, <2>2, <2>3 DEF TypeOK
<1>5. ASSUME NEW p \in Threads, RequestStop(p) \/ StopCallback(p) PROVE TypeOK'
  <2>1. /\ UNCHANGED <<queue_, next_seq_, stopped_, pc, pushed>>
        /\ callbacks' \subseteq stop' /\ stop' \subseteq Threads /\ waiters' \subseteq waiters
    BY <1>5 DEF RequestStop, StopCallback, TypeOK
  <2> QED
    BY <2>1 DEF TypeOK
<1> QED
  BY <1>1, <1>2, <1>3, <1>4, <1>5 DEF Next, WaitAndPop

(* Every step leaves as many busy threads as there are queued tasks.       *)
LEMMA NextWakeInv == Inv /\ TypeOK' /\ [Next]_vars => IsFiniteSet(queue_') /\ WakeInv'
<1> SUFFICES ASSUME Inv, TypeOK', [Next]_vars PROVE IsFiniteSet(queue_') /\ WakeInv'
  OBVIOUS
<1> DEFINE size == Cardinality(queue_)
           size1 == Cardinality(queue_')
           many == Cardinality(busy)
           many1 == Cardinality(busy')
<1>1. /\ TypeOK /\ IsFiniteSet(queue_) /\ size \in Nat
      /\ waiters # {} => size <= many
  BY FS_CardinalityType DEF Inv, WakeInv
<1>2. /\ busy \subseteq Threads /\ busy' \subseteq Threads
      /\ many \in Nat /\ many1 \in Nat
  <2>1. busy \subseteq Threads /\ busy' \subseteq Threads
    BY DEF busy
  <2> QED
    BY <2>1, CountThreads
<1> SUFFICES IsFiniteSet(queue_') /\ (waiters' # {} => size1 <= many1)
  BY DEF WakeInv
<1>3. ASSUME queue_' = queue_, waiters' \subseteq waiters,
             waiters' = {} \/ busy \subseteq busy'
      PROVE  IsFiniteSet(queue_') /\ (waiters' # {} => size1 <= many1)
  <2>1. busy \subseteq busy' => many <= many1
    BY <1>2, CountThreads
  <2> QED
    BY <1>1, <1>2, <1>3, <2>1
<1>4. ASSUME queue_' = queue_, queue_ = {}
      PROVE  IsFiniteSet(queue_') /\ (waiters' # {} => size1 <= many1)
  BY <1>1, <1>2, <1>4, FS_EmptySet
<1>5. ASSUME NEW p \in Threads, NEW t \in Tasks, NEW q \in Priorities, Push(p, t, q)
      PROVE  IsFiniteSet(queue_') /\ (waiters' # {} => size1 <= many1)
  <2> DEFINE e == [func |-> t, priority |-> q, sequence |-> next_seq_]
  <2>1. /\ pc[p] = "idle" /\ queue_' = queue_ \cup {e} /\ waiters' = waiters
        /\ pc' = [pc EXCEPT ![p] = "notifyOne"]
    BY <1>5 DEF Push, Goto
  <2> HIDE DEF e
  <2>2. IsFiniteSet(queue_') /\ size1 \in Nat /\ size1 <= size + 1
    <3>1. /\ IsFiniteSet(queue_')
          /\ size1 = IF e \in queue_ THEN size ELSE size + 1
      BY <1>1, <2>1, FS_AddElement
    <3> HIDE DEF size, size1
    <3> QED
      BY <1>1, <3>1
  <2>3. p \notin busy /\ busy' = busy \cup {p}
    BY <1>1, <2>1 DEF TypeOK, busy, Awake
  <2>4. many1 = many + 1
    BY <1>2, <2>3, CountThreads
  <2> QED
    BY <1>1, <1>2, <2>1, <2>2, <2>4
<1>6. ASSUME NEW p \in Threads, NotifyOne(p)
      PROVE  IsFiniteSet(queue_') /\ (waiters' # {} => size1 <= many1)
  <2>1. /\ pc[p] = "notifyOne" /\ queue_' = queue_ /\ pc' = [pc EXCEPT ![p] = "idle"]
    BY <1>6 DEF NotifyOne, Goto
  <2>2. CASE waiters' = {}
    BY <1>3, <2>1, <2>2
  <2>3. CASE waiters' # {}
    <3>1. PICK w \in waiters : waiters' = waiters \ {w}
      BY <1>6, <2>3 DEF NotifyOne
    <3>2. w \in Threads /\ pc[w] = "waiting" /\ w # p
      BY <1>1, <2>1 DEF TypeOK
    <3>3. p \in busy /\ w \notin busy /\ busy' = (busy \ {p}) \cup {w}
      BY <1>1, <2>1, <3>1, <3>2 DEF TypeOK, busy, Awake
    <3> DEFINE B == busy \ {p}
    <3>4. B \subseteq Threads /\ w \notin B /\ Cardinality(B) = many - 1
      BY <1>2, <3>3, CountThreads
    <3>5. many1 = Cardinality(B) + 1
      BY <3>3, <3>4, CountThreads
    <3>6. many1 = many
      BY <1>2, <3>4, <3>5
    <3> QED
      BY <1>1, <2>1, <3>1, <3>6
  <2> QED
    BY <2>2, <2>3
<1>7. ASSUME NEW p \in Threads, TryPop(p) \/ WaitTakes(p)
      PROVE  IsFiniteSet(queue_') /\ (waiters' # {} => size1 <= many1)
  <2>1. /\ queue_ # {} /\ queue_' = queue_ \ {Top} /\ waiters' = waiters
        /\ pc' = [pc EXCEPT ![p] = "idle"]
    BY <1>7 DEF TryPop, WaitTakes, PopTop, Goto
  <2>2. Top \in queue_
    BY <1>1, <2>1, TopExists
  <2>3. IsFiniteSet(queue_') /\ size1 = size - 1
    BY <1>1, <2>1, <2>2, FS_RemoveElement
  <2>4. CASE TryPop(p)
    <3>1. pc[p] = "idle"
      BY <2>4 DEF TryPop
    <3>2. busy' = busy
      BY <1>1, <2>1, <3>1 DEF TypeOK, busy, Awake
    <3> QED
      BY <1>1, <1>2, <2>1, <2>3, <3>2
  <2>5. CASE WaitTakes(p)
    <3>1. pc[p] = "waiting" /\ p \notin waiters
      BY <2>5 DEF WaitTakes, Awake
    <3>2. p \in busy /\ busy' = busy \ {p}
      BY <1>1, <2>1, <3>1 DEF TypeOK, busy, Awake
    <3>3. many1 = many - 1
      BY <1>2, <3>2, CountThreads
    <3> QED
      BY <1>1, <1>2, <2>1, <2>3, <3>3
  <2> QED
    BY <1>7, <2>4, <2>5
<1>8. ASSUME NEW p \in Threads, WaitReturnsNullopt(p) \/ WaitSleeps(p)
      PROVE  IsFiniteSet(queue_') /\ (waiters' # {} => size1 <= many1)
  BY <1>4, <1>8 DEF WaitReturnsNullopt, WaitSleeps
<1>9. ASSUME NEW p \in Threads,
             \/ NotifyAll(p) \/ Shutdown(p) \/ CallWaitAndPop(p)
             \/ SpuriousWakeup(p) \/ RequestStop(p) \/ StopCallback(p)
      PROVE  IsFiniteSet(queue_') /\ (waiters' # {} => size1 <= many1)
  <2>1. queue_' = queue_ /\ waiters' \subseteq waiters
    BY <1>9 DEF NotifyAll, Shutdown, CallWaitAndPop, SpuriousWakeup, RequestStop,
                StopCallback
  <2>2. waiters' = {} \/ busy \subseteq busy'
    <3>1. CASE NotifyAll(p)
      BY <3>1 DEF NotifyAll
    <3>2. CASE Shutdown(p) \/ CallWaitAndPop(p)
      BY <1>1, <3>2 DEF Shutdown, CallWaitAndPop, Goto, TypeOK, busy, Awake
    <3>3. CASE SpuriousWakeup(p) \/ RequestStop(p) \/ StopCallback(p)
      BY <3>3 DEF SpuriousWakeup, RequestStop, StopCallback, busy, Awake
    <3> QED
      BY <1>9, <3>1, <3>2, <3>3
  <2> QED
    BY <1>3, <2>1, <2>2
<1>10. CASE UNCHANGED vars
  <2>1. queue_' = queue_ /\ waiters' = waiters /\ busy' = busy
    BY <1>10 DEF vars, busy, Awake
  <2> QED
    BY <1>3, <2>1
<1> QED
  BY <1>5, <1>6, <1>7, <1>8, <1>9, <1>10 DEF Next, Notify, WaitAndPop

(* No step leaves a stopped sleeper without a callback or a notify_all().  *)
LEMMA NextStopWakeups == TypeOK /\ StopWakeups /\ [Next]_vars => StopWakeups'
<1> SUFFICES ASSUME TypeOK, StopWakeups, [Next]_vars PROVE StopWakeups'
  OBVIOUS
<1>0. /\ pc \in [Threads -> SchedulerPC] /\ waiters \subseteq Threads
      /\ callbacks \subseteq stop /\ stop \subseteq Threads
  BY DEF TypeOK
<1>1. ASSUME waiters' \subseteq waiters, UNCHANGED <<stopped_, stop, callbacks>>,
             \A q \in Threads : pc[q] = "notifyAll" => pc'[q] = "notifyAll"
      PROVE  StopWakeups'
  BY <1>1 DEF StopWakeups
<1>2. ASSUME NEW p \in Threads,
             \/ \E t \in Tasks, q \in Priorities : Push(p, t, q)
             \/ NotifyOne(p) \/ TryPop(p) \/ CallWaitAndPop(p) \/ WaitTakes(p)
             \/ WaitReturnsNullopt(p) \/ SpuriousWakeup(p)
      PROVE  StopWakeups'
  <2>1. waiters' \subseteq waiters /\ UNCHANGED <<stopped_, stop, callbacks>>
    BY <1>2 DEF Push, NotifyOne, TryPop, CallWaitAndPop, WaitTakes, PopTop,
                WaitReturnsNullopt, SpuriousWakeup
  <2>2. pc' = pc \/ \E l : pc' = [pc EXCEPT ![p] = l] /\ pc[p] # "notifyAll"
    BY <1>2 DEF Push, NotifyOne, TryPop, CallWaitAndPop, WaitTakes, PopTop,
                WaitReturnsNullopt, SpuriousWakeup, Goto, Awake
  <2> QED
    BY <1>0, <1>1, <2>1, <2>2
<1>3. ASSUME NEW p \in Threads, Shutdown(p)
      PROVE  StopWakeups'
  BY <1>0, <1>3 DEF Shutdown, Goto, StopWakeups
<1>4. ASSUME NEW p \in Threads, NotifyAll(p)
      PROVE  StopWakeups'
  BY <1>4 DEF NotifyAll, StopWakeups
<1>5. ASSUME NEW p \in Threads, WaitSleeps(p)
      PROVE  StopWakeups'
  BY <1>5 DEF WaitSleeps, StopWakeups
<1>6. ASSUME NEW p \in Threads, RequestStop(p) \/ StopCallback(p)
      PROVE  StopWakeups'
  BY <1>6 DEF RequestStop, StopCallback, StopWakeups
<1>7. CASE UNCHANGED vars
  BY <1>7 DEF vars, StopWakeups
<1> QED
  BY <1>2, <1>3, <1>4, <1>5, <1>6, <1>7 DEF Next, Notify, WaitAndPop

(* The types and the wakeups hold in every behaviour.                      *)
THEOREM Invariance == SafeSpec => []Inv
<1>1. Inv /\ [Next]_vars => Inv'
  BY NextTypeOK, NextWakeInv, NextStopWakeups DEF Inv
<1> QED
  BY <1>1, InitInv, PTL DEF SafeSpec

(* Every variable keeps its type, and a number is given to one task.       *)
THEOREM TypeCorrect == SafeSpec => []TypeOK
<1>1. Inv => TypeOK
  BY DEF Inv
<1> QED
  BY <1>1, Invariance, PTL

(* No wakeup is lost, however many threads push, pop, wait and stop.       *)
THEOREM WakeupsSuffice == SafeSpec => []NoLostWakeup
<1>1. Inv => NoLostWakeup
  BY DEF Inv, WakeInv, NoLostWakeup, TaskWakeups, busy
<1> QED
  BY <1>1, Invariance, PTL

-----------------------------------------------------------------------------
(* Refinement                                                              *)

(* Tasks with numbers of their own.                                        *)
Numbered(S) ==
  /\ IsFiniteSet(S)
  /\ \A e \in S : e.sequence \in Nat
  /\ \A e, f \in S : e.sequence = f.sequence => e = f

(* Each place of a lane is taken, by one task.                             *)
LEMMA Places ==
  ASSUME NEW S, Numbered(S)
  PROVE  /\ Cardinality(S) \in Nat
         /\ \A e \in S : Place(e, S) \in 1..Cardinality(S)
         /\ \A e, f \in S : Place(e, S) = Place(f, S) => e = f
         /\ \A i \in 1..Cardinality(S) : \E e \in S : Place(e, S) = i
<1> DEFINE ahead(e) == {f \in S : f.sequence < e.sequence}
           n == Cardinality(S)
<1>1. IsFiniteSet(S) /\ n \in Nat
  BY FS_CardinalityType DEF Numbered
<1>2. ASSUME NEW e \in S
      PROVE  /\ IsFiniteSet(ahead(e)) /\ Cardinality(ahead(e)) \in 0..(n - 1)
  <2>1. ahead(e) \subseteq S \ {e}
    BY DEF Numbered
  <2>2. IsFiniteSet(S \ {e}) /\ Cardinality(S \ {e}) = n - 1
    BY <1>1, FS_RemoveElement
  <2> HIDE DEF ahead
  <2>3. IsFiniteSet(ahead(e)) /\ Cardinality(ahead(e)) <= n - 1
    BY <2>1, <2>2, FS_Subset
  <2>4. Cardinality(ahead(e)) \in Nat
    BY <2>3, FS_CardinalityType
  <2> HIDE DEF n
  <2> QED
    BY <1>1, <2>3, <2>4
<1>3. \A e \in S : Place(e, S) = 1 + Cardinality(ahead(e))
  BY DEF Place
<1> HIDE DEF n
<1>4. \A e \in S : Place(e, S) \in 1..n
  <2> HIDE DEF ahead
  <2> QED
    BY <1>1, <1>2, <1>3
<1>5. ASSUME NEW e \in S, NEW f \in S, e.sequence < f.sequence
      PROVE  Place(e, S) # Place(f, S)
  <2>1. ahead(e) \subseteq ahead(f) /\ e \in ahead(f) /\ e \notin ahead(e)
    BY <1>5 DEF Numbered
  <2> HIDE DEF ahead
  <2>2. Cardinality(ahead(e)) # Cardinality(ahead(f))
    BY <1>2, <2>1, FS_Subset
  <2> QED
    BY <1>2, <1>3, <2>2
<1>6. \A e, f \in S : Place(e, S) = Place(f, S) => e = f
  BY <1>5 DEF Numbered
<1>7. \A i \in 1..n : \E e \in S : Place(e, S) = i
  <2> DEFINE p == [e \in S |-> Place(e, S)]
  <2>1. p \in Injection(S, 1..n)
    BY <1>4, <1>6 DEF Injection, IsInjective
  <2>2. IsFiniteSet(1..n) /\ Cardinality(1..n) = n
    BY <1>1, FS_Interval
  <2>3. p \in Surjection(S, 1..n)
    BY <2>1, <2>2, FS_Injection DEF n
  <2> QED
    BY <2>3 DEF Surjection
<1> QED
  BY <1>1, <1>4, <1>6, <1>7 DEF n

(* L lists the tasks of S in their places.                                 *)
IsLane(L, S) ==
  /\ L \in Seq(Tasks) /\ Len(L) = Cardinality(S)
  /\ \A e \in S : L[Place(e, S)] = e.func

(* The places of S make one list only.                                     *)
LEMMA OneLane ==
  ASSUME NEW S, Numbered(S), NEW K \in Seq(Tasks), NEW L, IsLane(L, S),
         Len(K) = Cardinality(S), \A e \in S : K[Place(e, S)] = e.func
  PROVE  L = K
<1>1. \A i \in 1..Cardinality(S) : L[i] = K[i]
  BY Places DEF IsLane
<1> QED
  BY <1>1 DEF IsLane

(* A task with a number above the others comes last.                       *)
LEMMA AppendLane ==
  ASSUME NEW S, NEW e, e \notin S, Numbered(S \cup {e}), e.func \in Tasks,
         \A f \in S : f.sequence < e.sequence,
         NEW K, NEW L, IsLane(K, S), IsLane(L, S \cup {e})
  PROVE  L = Append(K, e.func)
<1> DEFINE T == S \cup {e}
<1>1. Numbered(S) /\ Cardinality(S) \in Nat /\ Cardinality(T) = Cardinality(S) + 1
  <2>1. IsFiniteSet(T) /\ T \ {e} = S /\ Cardinality(T) \in Nat
    BY FS_CardinalityType DEF Numbered
  <2>2. IsFiniteSet(S) /\ Cardinality(S) = Cardinality(T) - 1
    BY <2>1, FS_RemoveElement
  <2>3. Cardinality(S) \in Nat
    BY <2>2, FS_CardinalityType
  <2> HIDE DEF T
  <2>4. Cardinality(T) = Cardinality(S) + 1
    BY <2>1, <2>2
  <2> QED
    BY <2>2, <2>3, <2>4 DEF Numbered, T
<1>2. \A f \in S : Place(f, T) = Place(f, S)
  <2>1. \A f \in S : f.sequence \in Nat /\ e.sequence \in Nat
    BY DEF Numbered
  <2>2. \A f \in S : {g \in T : g.sequence < f.sequence} = {g \in S : g.sequence < f.sequence}
    BY <2>1
  <2> QED
    BY <2>2 DEF Place
<1>3. Place(e, T) = Cardinality(T)
  <2>1. {g \in T : g.sequence < e.sequence} = S
    BY DEF Numbered
  <2> HIDE DEF T
  <2>2. Place(e, T) = 1 + Cardinality(S)
    BY <2>1 DEF Place
  <2> QED
    BY <1>1, <2>2
<1> DEFINE A == Append(K, e.func)
<1> HIDE DEF T
<1>4. A \in Seq(Tasks) /\ Len(A) = Cardinality(T) /\ A[Cardinality(T)] = e.func
  BY <1>1 DEF IsLane
<1>5. \A f \in S : A[Place(f, T)] = f.func
  BY <1>1, <1>2, Places DEF IsLane
<1>6. \A f \in T : A[Place(f, T)] = f.func
  BY <1>3, <1>4, <1>5 DEF T
<1> HIDE DEF A
<1>7. Numbered(T) /\ IsLane(L, T)
  BY DEF T
<1>8. L = A
  BY <1>4, <1>6, <1>7, OneLane
<1> QED
  BY <1>8 DEF A

(* Without its first task the others of a lane move up.                    *)
LEMMA TailLane ==
  ASSUME NEW S, NEW m \in S, Numbered(S),
         \A f \in S \ {m} : m.sequence < f.sequence,
         NEW K, NEW L, IsLane(K, S), IsLane(L, S \ {m})
  PROVE  K # <<>> /\ L = Tail(K)
<1> DEFINE T == S \ {m}
<1>1. /\ IsFiniteSet(T) /\ Cardinality(T) = Cardinality(S) - 1
      /\ Cardinality(S) \in Nat \ {0} /\ Numbered(T)
  <2>1. IsFiniteSet(S)
    BY DEF Numbered
  <2>2. IsFiniteSet(T) /\ Cardinality(T) = Cardinality(S) - 1
    BY <2>1, FS_RemoveElement
  <2>3. Cardinality(S) \in Nat \ {0}
    BY <2>1, FS_CardinalityType, FS_EmptySet
  <2> QED
    BY <2>2, <2>3 DEF Numbered
<1>2. \A f \in T : Place(f, S) = Place(f, T) + 1 /\ Place(f, T) \in 1..Cardinality(T)
  <2>1. ASSUME NEW f \in T PROVE Place(f, S) = Place(f, T) + 1
    <3> DEFINE A == {g \in S : g.sequence < f.sequence}
               B == {g \in T : g.sequence < f.sequence}
    <3>1. IsFiniteSet(B) /\ Cardinality(B) \in Nat
      BY <1>1, FS_Subset, FS_CardinalityType
    <3>2. A = B \cup {m} /\ m \notin B
      OBVIOUS
    <3> HIDE DEF A, B
    <3>3. Cardinality(A) = Cardinality(B) + 1
      BY <3>1, <3>2, FS_AddElement
    <3> QED
      BY <3>1, <3>3 DEF A, B, Place
  <2> HIDE DEF T
  <2> QED
    BY <1>1, <2>1, Places
<1> HIDE DEF T
<1>3. K \in Seq(Tasks) /\ Len(K) = Cardinality(S) /\ K # <<>>
  BY <1>1 DEF IsLane
<1>4. Tail(K) \in Seq(Tasks) /\ Len(Tail(K)) = Cardinality(T)
  BY <1>1, <1>3
<1>5. \A i \in 1..Cardinality(T) : Tail(K)[i] = K[i + 1]
  BY <1>1, <1>3
<1>6. \A f \in T : Tail(K)[Place(f, T)] = f.func
  BY <1>2, <1>5 DEF IsLane, T
<1>7. L = Tail(K)
  BY <1>1, <1>4, <1>6, OneLane DEF T
<1> QED
  BY <1>3, <1>7

(* What Lane(q) stands for.                                                *)
LEMMA LaneIsLane ==
  TypeOK /\ IsFiniteSet(queue_) =>
    \A q \in Priorities : Numbered(OfPriority(q)) /\ IsLane(Lane(q), OfPriority(q))
<1> SUFFICES ASSUME TypeOK, IsFiniteSet(queue_), NEW q \in Priorities
             PROVE  Numbered(OfPriority(q)) /\ IsLane(Lane(q), OfPriority(q))
  OBVIOUS
<1> DEFINE S == OfPriority(q)
<1>1. Numbered(S)
  <2>1. IsFiniteSet(S)
    BY FS_Subset DEF OfPriority
  <2> QED
    BY <2>1 DEF Numbered, OfPriority, TypeOK, PriorityTask
<1>2. \A e \in S : e.func \in Tasks
  BY DEF OfPriority, TypeOK, PriorityTask
<1>3. \A i \in 1..Cardinality(S) :
        (CHOOSE e \in S : Place(e, S) = i) \in {e \in S : Place(e, S) = i}
  BY <1>1, Places
<1>4. \A e \in S : (CHOOSE f \in S : Place(f, S) = Place(e, S)) = e
  BY <1>1, Places
<1>5. Lane(q) \in [1..Cardinality(S) -> Tasks]
  BY <1>2, <1>3 DEF Lane
<1>6. Lane(q) \in Seq(Tasks) /\ Len(Lane(q)) = Cardinality(S)
  BY <1>1, <1>5, Places
<1>7. \A e \in S : Lane(q)[Place(e, S)] = e.func
  BY <1>1, <1>4, Places DEF Lane
<1> QED
  BY <1>1, <1>6, <1>7 DEF IsLane

queued == [q \in Priorities |-> OfPriority(q)]

lanes == [q \in Priorities |-> Lane(q)]

LanesInv ==
  \A q \in Priorities : Numbered(queued[q]) /\ IsLane(lanes[q], queued[q])

(* The lanes are lists of what is queued.                                  *)
LEMMA InvLanes == Inv => LanesInv
BY LaneIsLane DEF Inv, LanesInv, queued, lanes

(* The lanes depend on the queue only.                                     *)
LEMMA SameLanes == queue_' = queue_ => lanes' = lanes
BY DEF lanes, Lane, OfPriority

(* A lane whose tasks stay is the same list.                               *)
LEMMA SameLane ==
  ASSUME Inv, LanesInv', NEW q \in Priorities, queued'[q] = queued[q]
  PROVE  lanes'[q] = lanes[q]
<1> DEFINE S == queued[q]
<1>1. Numbered(S) /\ IsLane(lanes[q], S) /\ IsLane(lanes'[q], S)
  BY InvLanes DEF LanesInv
<1> HIDE DEF S
<1> QED
  BY <1>1, OneLane DEF IsLane

(* push() appends to the lane of the priority.                             *)
LEMMA PushRefines ==
  ASSUME Inv, LanesInv', NEW p \in Threads, NEW t \in Tasks, NEW q \in Priorities,
         Push(p, t, q)
  PROVE  Lanes!Admit(t, q)
<1> DEFINE e == [func |-> t, priority |-> q, sequence |-> next_seq_]
<1>1. /\ ~stopped_ /\ stopped_' = stopped_ /\ queue_' = queue_ \cup {e}
  BY DEF Push
<1>2. e.priority = q /\ e.func = t /\ e.sequence = next_seq_
  OBVIOUS
<1> HIDE DEF e
<1>3. \A f \in queue_ : f.sequence < next_seq_ /\ f.sequence \in Nat
  BY DEF Inv, TypeOK, PriorityTask
<1>4. queued[q] \subseteq queue_ /\ e \notin queue_
  BY <1>2, <1>3 DEF queued, OfPriority
<1>5. queued'[q] = queued[q] \cup {e}
  BY <1>1, <1>2 DEF queued, OfPriority
<1>6. \A r \in Priorities \ {q} : queued'[r] = queued[r]
  BY <1>1, <1>2 DEF queued, OfPriority
<1>7. lanes'[q] = Append(lanes[q], t)
  <2>1. /\ IsLane(lanes[q], queued[q]) /\ IsLane(lanes'[q], queued[q] \cup {e})
        /\ Numbered(queued[q] \cup {e})
    BY <1>5, InvLanes DEF LanesInv
  <2>2. \A f \in queued[q] : f.sequence < e.sequence
    BY <1>2, <1>3, <1>4
  <2> QED
    BY <1>2, <1>4, <2>1, <2>2, AppendLane
<1>8. \A r \in Priorities \ {q} : lanes'[r] = lanes[r]
  BY <1>6, SameLane
<1>9. lanes' = [lanes EXCEPT ![q] = Append(@, t)]
  BY <1>7, <1>8 DEF lanes
<1> QED
  BY <1>1, <1>9 DEF Lanes!Admit, lanes

(* A pop takes the first task of the highest lane that has one.            *)
LEMMA PopRefines ==
  ASSUME Inv, LanesInv', NEW p \in Threads, PopTop(p)
  PROVE  \E q \in Priorities : Lanes!Serve(q)
<1> DEFINE m == Top
<1>1. queue_ # {} /\ queue_' = queue_ \ {m} /\ stopped_' = stopped_
  BY DEF PopTop
<1>2. m \in queue_ /\ \A f \in queue_ \ {m} : Before(m, f)
  BY <1>1, TopExists DEF Inv
<1> HIDE DEF m
<1> DEFINE q == m.priority
<1>3. q \in Priorities /\ \A f \in queue_ : f.priority \in 0..3
  BY <1>2 DEF Inv, TypeOK, PriorityTask
<1>4. m \in queued[q] /\ \A f \in queued[q] \ {m} : m.sequence < f.sequence
  <2>1. queued[q] = {f \in queue_ : f.priority = q}
    BY <1>3 DEF queued, OfPriority
  <2> QED
    BY <1>2, <1>3, <2>1 DEF Before
<1>5. queued'[q] = queued[q] \ {m}
  BY <1>1, <1>3 DEF queued, OfPriority
<1>6. \A r \in Priorities \ {q} : queued'[r] = queued[r]
  BY <1>1 DEF queued, OfPriority
<1> HIDE DEF q
<1>7. lanes[q] # <<>> /\ lanes'[q] = Tail(lanes[q])
  <2>1. /\ IsLane(lanes[q], queued[q]) /\ IsLane(lanes'[q], queued[q] \ {m})
        /\ Numbered(queued[q])
    BY <1>3, <1>5, InvLanes DEF LanesInv
  <2> QED
    BY <1>4, <2>1, TailLane
<1>8. \A r \in Priorities \ {q} : lanes'[r] = lanes[r]
  BY <1>6, SameLane
<1>9. lanes' = [lanes EXCEPT ![q] = Tail(@)]
  BY <1>7, <1>8 DEF lanes
<1>10. ASSUME NEW r \in Priorities, r > q PROVE lanes[r] = <<>>
  <2>1. \A f \in queue_ : f.priority # r
    <3>1. \A f \in queue_ : f.priority <= q
      BY <1>2, <1>3 DEF Before, q
    <3> QED
      BY <1>3, <1>10, <3>1
  <2>2. queued[r] = {}
    BY <2>1 DEF queued, OfPriority
  <2>3. lanes[r] \in Seq(Tasks) /\ Len(lanes[r]) = 0
    BY <2>2, InvLanes, FS_EmptySet DEF IsLane, LanesInv
  <2> QED
    BY <2>3
<1>11. Lanes!Serve(q)
  BY <1>1, <1>7, <1>9, <1>10 DEF Lanes!Serve, lanes
<1> QED
  BY <1>3, <1>11

(* Tasks leave by priority and, in one priority, in the order in which     *)
(* they came, none lost.                                                   *)
THEOREM ImplementsLanes == SafeSpec => LanesSpec
<1>1. Init => Lanes!Init
  <2> SUFFICES ASSUME Init PROVE Lanes!Init
    OBVIOUS
  <2>1. Inv /\ queue_ = {} /\ stopped_ = FALSE
    BY InitInv DEF Init
  <2>2. ASSUME NEW q \in Priorities PROVE Lane(q) = <<>>
    <3>1. OfPriority(q) = {}
      BY <2>1 DEF OfPriority
    <3>2. Lane(q) \in Seq(Tasks) /\ Len(Lane(q)) = 0
      BY <2>1, <3>1, LaneIsLane, FS_EmptySet DEF IsLane, Inv
    <3> QED
      BY <3>2
  <2> QED
    BY <2>1, <2>2 DEF Lanes!Init
<1>2. Inv /\ LanesInv' /\ [Next]_vars => [Lanes!Next]_Lanes!lanesVars
  <2> SUFFICES ASSUME Inv, LanesInv', [Next]_vars PROVE [Lanes!Next]_Lanes!lanesVars
    OBVIOUS
  <2>1. ASSUME NEW p \in Threads, NEW t \in Tasks, NEW q \in Priorities, Push(p, t, q)
        PROVE  Lanes!Next
    BY <2>1, PushRefines DEF Lanes!Next
  <2>2. ASSUME NEW p \in Threads, TryPop(p) \/ WaitTakes(p) PROVE Lanes!Next
    BY <2>2, PopRefines DEF TryPop, WaitTakes, Lanes!Next
  <2>3. queue_' = queue_ => [q \in Priorities |-> Lane(q)]' = [q \in Priorities |-> Lane(q)]
    BY SameLanes DEF lanes
  <2>4. ASSUME NEW p \in Threads, Shutdown(p) PROVE [Lanes!Next]_Lanes!lanesVars
    <3>1. queue_' = queue_ /\ stopped_' = TRUE /\ stopped_ \in BOOLEAN
      BY <2>4 DEF Shutdown, Inv, TypeOK
    <3>2. CASE stopped_
      BY <2>3, <3>1, <3>2 DEF Lanes!lanesVars
    <3>3. CASE ~stopped_
      BY <2>3, <3>1, <3>3 DEF Lanes!Next, Lanes!Close
    <3> QED
      BY <3>2, <3>3
  <2>5. CASE \/ UNCHANGED vars
             \/ \E p \in Threads :
                  \/ Notify(p) \/ CallWaitAndPop(p) \/ WaitReturnsNullopt(p)
                  \/ WaitSleeps(p) \/ SpuriousWakeup(p) \/ RequestStop(p)
                  \/ StopCallback(p)
    <3>1. UNCHANGED <<queue_, stopped_>>
      BY <2>5 DEF vars, Notify, NotifyOne, NotifyAll, CallWaitAndPop, WaitReturnsNullopt,
                  WaitSleeps, SpuriousWakeup, RequestStop, StopCallback
    <3> QED
      BY <2>3, <3>1 DEF Lanes!lanesVars
  <2> QED
    BY <2>1, <2>2, <2>4, <2>5 DEF Next, WaitAndPop
<1> QED
  BY <1>1, <1>2, Invariance, InvLanes, PTL DEF SafeSpec, LanesSpec, Lanes!SafeSpec

=============================================================================
