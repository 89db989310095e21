------------------------- MODULE AsyncResultProofs --------------------------
(***************************************************************************)
(* Proofs about AsyncResult, for every number of workers and tasks.  Inv   *)
(* is the inductive invariant; its conjuncts are named for what they say   *)
(* about the code.                                                         *)
(***************************************************************************)
EXTENDS AsyncResult, TLAPS, FiniteSetTheorems, WellFoundedInduction

Types ==
  /\ Pool!TypeOK
  /\ chain \in [Tasks -> Seq(Tasks)]
  /\ future_ \in [Tasks -> FutureState]
  /\ called \subseteq Tasks
  /\ error \in [Tasks -> Tasks \cup {NoTask}]

accepted == {t \in Tasks : status[t] \in {"queued", "running", "settled"}}

started == {t \in Tasks : status[t] \in {"running", "settled"}}

(* Whose result the task waits for, if any.                                *)
pred == [t \in Tasks |-> IF HasPredecessor(t) THEN Predecessor(t) ELSE NoTask]

(* A task has a chain and a future once it is accepted.  The chain ends in *)
(* it, and is that of its predecessor before it.                           *)
ChainInv ==
  /\ \A t \in Tasks \ accepted : chain[t] = <<>> /\ future_[t] = "none"
  /\ \A t \in accepted : chain[t] # <<>> /\ chain[t][Len(chain[t])] = t
  /\ \A t \in Tasks : pred[t] # NoTask =>
       pred[t] \in accepted /\ chain[t] = Append(chain[pred[t]], t)

(* A future was moved iff there is a continuation, and there is one.       *)
MovedInv ==
  /\ \A t \in Tasks : pred[t] # NoTask => future_[pred[t]] = "moved"
  /\ \A t, u \in Tasks : pred[t] # NoTask /\ pred[t] = pred[u] => t = u
  /\ \A r \in Tasks : future_[r] = "moved" => \E t \in Tasks : pred[t] = r

(* The queue holds the queued tasks, each once.                            *)
QueueInv ==
  /\ \A t \in Tasks : status[t] = "queued" => \E i \in 1..Len(queue) : queue[i] = t
  /\ \A i \in 1..Len(queue) : status[queue[i]] = "queued"
  /\ \A i, j \in 1..Len(queue) : queue[i] = queue[j] => i = j

(* A continuation never overtakes its predecessor on the way to a worker.  *)
OrderInv ==
  /\ \A t \in started : pred[t] # NoTask => pred[t] \in started
  /\ \A j \in 1..Len(queue) : pred[queue[j]] # NoTask =>
       \/ pred[queue[j]] \in started
       \/ \E i \in 1..(j - 1) : queue[i] = pred[queue[j]]

Inv1 == Types /\ ChainInv /\ MovedInv /\ QueueInv /\ OrderInv

USE ThreadsAssumption, TasksAssumption

(* The initial state satisfies the invariant.                              *)
LEMMA InitInv1 == Init => Inv1
<1> SUFFICES ASSUME Init PROVE Inv1
  OBVIOUS
<1>1. \A t \in Tasks : chain[t] = <<>> /\ future_[t] = "none" /\ status[t] = "new"
                       /\ pred[t] = NoTask
  BY DEF Init, Pool!Init, HasPredecessor, pred
<1>2. Types
  <2>1. accepting \in BOOLEAN /\ retired \in BOOLEAN
    BY DEF Init, Pool!Init
  <2>2. queue \in Seq(Tasks) /\ status \in [Tasks -> Pool!Status]
    BY DEF Init, Pool!Init, Pool!Status
  <2>3. /\ chain \in [Tasks -> Seq(Tasks)] /\ future_ \in [Tasks -> FutureState]
        /\ called \subseteq Tasks /\ error \in [Tasks -> Tasks \cup {NoTask}]
    BY DEF Init, FutureState
  <2> QED
    BY <2>1, <2>2, <2>3 DEF Types, Pool!TypeOK
<1>3. queue = <<>>
  BY DEF Init, Pool!Init
<1> QED
  BY <1>1, <1>2, <1>3 DEF Inv1, ChainInv, MovedInv, QueueInv, OrderInv, accepted, started

(* A step that leaves the chains and the progress of the tasks alone.      *)
LEMMA Untouched ==
  ASSUME Inv1, Types', UNCHANGED <<queue, chain>>,
         \A u \in Tasks : /\ status'[u] \in {"new", "refused"} <=> status[u] \in {"new", "refused"}
                          /\ status'[u] = "queued" <=> status[u] = "queued",
         \A u \in Tasks : /\ future_'[u] = "moved" <=> future_[u] = "moved"
                          /\ future_'[u] = "none" <=> future_[u] = "none"
  PROVE  Inv1'
<1>1. pred' = pred
  BY DEF pred, HasPredecessor, Predecessor
<1>2. accepted' = accepted /\ started' = started
  BY DEF Inv1, Types, Pool!TypeOK, Pool!Status, accepted, started
<1>3. ChainInv'
  BY <1>1, <1>2 DEF Inv1, ChainInv
<1>4. MovedInv'
  <2>1. \A t \in Tasks : pred[t] # NoTask => pred[t] \in Tasks
    BY DEF Inv1, ChainInv, accepted
  <2> QED
    BY <1>1, <2>1 DEF Inv1, MovedInv
<1>5. QueueInv'
  BY DEF Inv1, QueueInv, Types, Pool!TypeOK
<1>6. OrderInv'
  BY <1>1, <1>2 DEF Inv1, OrderInv
<1> QED
  BY <1>3, <1>4, <1>5, <1>6 DEF Inv1

(* submit() refuses a task.                                                *)
LEMMA RefuseInv1 ==
  ASSUME Inv1, NEW t \in Tasks, SubmitAsyncThrows(t) \/ \E r \in Tasks : ThenThrows(r, t)
  PROVE  Inv1'
<1>1. /\ status[t] = "new" /\ status' = [status EXCEPT ![t] = "refused"]
      /\ UNCHANGED <<accepting, queue, retired, chain, called, error>>
  BY DEF SubmitAsyncThrows, ThenThrows, Pool!Refuse
<1>2. \/ future_' = future_
      \/ \E r \in Tasks : future_[r] = "valid" /\ future_' = [future_ EXCEPT ![r] = "lost"]
  BY DEF SubmitAsyncThrows, ThenThrows
<1>3. Types'
  <2>1. status' \in [Tasks -> Pool!Status]
    BY <1>1 DEF Inv1, Types, Pool!TypeOK, Pool!Status
  <2>2. future_' \in [Tasks -> FutureState]
    BY <1>2 DEF Inv1, Types, FutureState
  <2> QED
    BY <1>1, <2>1, <2>2 DEF Inv1, Types, Pool!TypeOK
<1>4. \A u \in Tasks : /\ future_'[u] = "none" <=> future_[u] = "none"
                       /\ future_'[u] = "moved" <=> future_[u] = "moved"
  BY <1>2 DEF Inv1, Types
<1>5. \A u \in Tasks :
        /\ status'[u] \in {"new", "refused"} <=> status[u] \in {"new", "refused"}
        /\ status'[u] = "queued" <=> status[u] = "queued"
  BY <1>1 DEF Inv1, Types, Pool!TypeOK
<1> QED
  BY <1>1, <1>3, <1>4, <1>5, Untouched

(* submit() accepts a task: it is queued, last, and follows and is         *)
(* followed by nobody.                                                     *)
LEMMA AcceptPool ==
  ASSUME Inv1, NEW t \in Tasks, Pool!Accept(t)
  PROVE  /\ Pool!TypeOK' /\ QueueInv'
         /\ queue \in Seq(Tasks) /\ queue' = Append(queue, t)
         /\ chain[t] = <<>> /\ future_[t] = "none" /\ t \notin accepted
         /\ accepted' = accepted \cup {t} /\ started' = started
         /\ t \notin started /\ started \subseteq accepted
         /\ \A i \in 1..Len(queue) : queue[i] \in Tasks \ {t}
         /\ pred[t] = NoTask /\ \A u \in Tasks : pred[u] # t
<1>1. /\ status[t] = "new" /\ queue' = Append(queue, t)
      /\ status' = [status EXCEPT ![t] = "queued"]
      /\ UNCHANGED <<accepting, retired>>
      /\ queue \in Seq(Tasks) /\ status \in [Tasks -> Pool!Status]
  BY DEF Pool!Accept, Inv1, Types, Pool!TypeOK
<1>2. \A i \in 1..Len(queue) : queue[i] \in Tasks \ {t}
  BY <1>1 DEF Inv1, QueueInv
<1>3. QueueInv'
  BY <1>1, <1>2 DEF Inv1, QueueInv
<1>4. Pool!TypeOK'
  <2>1. status' \in [Tasks -> Pool!Status] /\ queue' \in Seq(Tasks)
    BY <1>1 DEF Pool!Status
  <2> QED
    BY <1>1, <2>1 DEF Inv1, Types, Pool!TypeOK
<1>5. /\ t \notin accepted /\ t \notin started /\ started \subseteq accepted
      /\ accepted' = accepted \cup {t} /\ started' = started
  BY <1>1 DEF accepted, started
<1>6. chain[t] = <<>> /\ future_[t] = "none" /\ \A u \in Tasks : pred[u] # t
  BY <1>5 DEF Inv1, ChainInv
<1>7. pred[t] = NoTask
  BY <1>6 DEF pred, HasPredecessor
<1> QED
  BY <1>1, <1>2, <1>3, <1>4, <1>5, <1>6, <1>7

(* The queue's order survives a new task at its end that follows nobody or *)
(* an accepted task.                                                       *)
LEMMA AcceptOrder ==
  ASSUME Inv1, NEW t \in Tasks, Pool!Accept(t),
         \A u \in Tasks \ {t} : pred'[u] = pred[u],
         pred'[t] # NoTask => pred'[t] \in accepted
  PROVE  OrderInv'
<1>1. /\ queue \in Seq(Tasks) /\ queue' = Append(queue, t)
      /\ started' = started /\ t \notin started /\ started \subseteq Tasks
      /\ \A i \in 1..Len(queue) : queue[i] \in Tasks \ {t}
  BY AcceptPool DEF started
<1>2. \A u \in started : pred'[u] # NoTask => pred'[u] \in started
  BY <1>1 DEF Inv1, OrderInv
<1>3. ASSUME NEW j \in 1..Len(queue'), pred'[queue'[j]] # NoTask
      PROVE  \/ pred'[queue'[j]] \in started
             \/ \E i \in 1..(j - 1) : queue'[i] = pred'[queue'[j]]
  <2>1. CASE j \in 1..Len(queue)
    <3>1. queue'[j] = queue[j] /\ \A i \in 1..(j - 1) : queue'[i] = queue[i]
      BY <1>1, <2>1
    <3> QED
      BY <1>1, <1>3, <2>1, <3>1 DEF Inv1, OrderInv
  <2>2. CASE j = Len(queue) + 1
    <3>1. queue'[j] = t /\ \A i \in 1..(j - 1) : queue'[i] = queue[i]
      BY <1>1, <2>2
    <3>2. pred'[t] \in started \/ status[pred'[t]] = "queued"
      BY <1>3, <3>1 DEF accepted, started
    <3>3. \A u \in Tasks : status[u] = "queued" => \E i \in 1..Len(queue) : queue[i] = u
      BY DEF Inv1, QueueInv
    <3> QED
      BY <1>3, <2>2, <3>1, <3>2, <3>3 DEF accepted
  <2> QED
    BY <1>1, <2>1, <2>2
<1> QED
  BY <1>1, <1>2, <1>3 DEF OrderInv

(* submit_async() begins a chain.                                          *)
LEMMA SubmitAsyncInv1 ==
  ASSUME Inv1, NEW t \in Tasks, SubmitAsync(t)
  PROVE  Inv1'
<1> USE DEF Inv1
<1>1. /\ Pool!Accept(t) /\ chain' = [chain EXCEPT ![t] = <<t>>]
      /\ future_' = [future_ EXCEPT ![t] = "valid"]
      /\ UNCHANGED <<called, error>>
  BY DEF SubmitAsync
<1>2. /\ Pool!TypeOK' /\ QueueInv'
      /\ t \notin accepted /\ accepted' = accepted \cup {t}
      /\ pred[t] = NoTask /\ \A u \in Tasks : pred[u] # t
  BY <1>1, AcceptPool
<1>3. Types'
  <2>1. chain' \in [Tasks -> Seq(Tasks)] /\ future_' \in [Tasks -> FutureState]
    BY <1>1 DEF Types, FutureState
  <2> QED
    BY <1>1, <1>2, <2>1 DEF Types
<1>4. /\ chain'[t] = <<t>> /\ future_'[t] = "valid" /\ future_[t] # "moved"
      /\ \A u \in Tasks \ {t} : chain'[u] = chain[u] /\ future_'[u] = future_[u]
  BY <1>1, <1>2 DEF Types, ChainInv
<1>5. pred'[t] = NoTask /\ \A u \in Tasks \ {t} : pred'[u] = pred[u]
  <2>1. ~HasPredecessor(t)'
    BY <1>4 DEF HasPredecessor
  <2> QED
    BY <1>4, <2>1 DEF pred, HasPredecessor, Predecessor
<1>6. \A u \in Tasks : pred[u] # NoTask => pred[u] \in accepted \ {t}
  BY <1>2 DEF ChainInv
<1>7. ChainInv'
  <2>1. \A u \in Tasks : pred'[u] # NoTask =>
          pred'[u] \in accepted' /\ chain'[u] = Append(chain'[pred'[u]], u)
    <3>1. \A u \in Tasks \ {t} : pred'[u] # NoTask =>
            /\ pred'[u] \in accepted \ {t}
            /\ chain'[u] = Append(chain[pred'[u]], u)
      BY <1>4, <1>5, <1>6 DEF ChainInv
    <3>2. \A p \in accepted \ {t} : chain'[p] = chain[p] /\ p \in accepted'
      BY <1>2, <1>4 DEF accepted
    <3> QED
      BY <1>5, <3>1, <3>2
  <2>2. /\ \A u \in Tasks \ accepted' : chain'[u] = <<>> /\ future_'[u] = "none"
        /\ \A u \in accepted' : chain'[u] # <<>> /\ chain'[u][Len(chain'[u])] = u
    BY <1>2, <1>4 DEF ChainInv, accepted
  <2> QED
    BY <2>1, <2>2 DEF ChainInv
<1>8. MovedInv'
  <2>1. \A u \in Tasks : pred'[u] # NoTask => future_'[pred'[u]] = "moved"
    BY <1>4, <1>5, <1>6 DEF MovedInv, accepted
  <2>2. \A u, v \in Tasks : pred'[u] # NoTask /\ pred'[u] = pred'[v] => u = v
    BY <1>5 DEF MovedInv
  <2>3. \A r \in Tasks : future_'[r] = "moved" => \E u \in Tasks : pred'[u] = r
    BY <1>2, <1>4, <1>5 DEF MovedInv
  <2> QED
    BY <2>1, <2>2, <2>3 DEF MovedInv
<1>9. OrderInv'
  BY <1>1, <1>5, AcceptOrder
<1> QED
  BY <1>2, <1>3, <1>7, <1>8, <1>9

(* then() continues a chain and moves its last future.                     *)
LEMMA ThenInv1 ==
  ASSUME Inv1, NEW r \in Tasks, NEW t \in Tasks, Then(r, t)
  PROVE  Inv1' /\ pred'[t] = r /\ r \in accepted
<1> USE DEF Inv1
<1>1. /\ Pool!Accept(t) /\ chain' = [chain EXCEPT ![t] = Append(chain[r], t)]
      /\ future_' = [future_ EXCEPT ![r] = "moved", ![t] = "valid"]
      /\ future_[r] = "valid"
      /\ UNCHANGED <<called, error>>
  BY DEF Then
<1>2. /\ Pool!TypeOK' /\ QueueInv'
      /\ t \notin accepted /\ accepted' = accepted \cup {t}
      /\ pred[t] = NoTask /\ \A u \in Tasks : pred[u] # t
  BY <1>1, AcceptPool
<1>3. Types'
  <2>1. Append(chain[r], t) \in Seq(Tasks)
    BY DEF Types
  <2>2. chain' \in [Tasks -> Seq(Tasks)] /\ future_' \in [Tasks -> FutureState]
    BY <1>1, <2>1 DEF Types, FutureState
  <2> QED
    BY <1>1, <1>2, <2>2 DEF Types
<1>4. /\ r # t /\ r \in accepted
      /\ chain[r] \in Seq(Tasks) /\ chain[r] # <<>> /\ chain[r][Len(chain[r])] = r
  BY <1>1, <1>2 DEF ChainInv, Types
<1>5. /\ chain'[t] = Append(chain[r], t) /\ future_'[t] = "valid"
      /\ future_'[r] = "moved" /\ future_[t] # "moved"
      /\ \A u \in Tasks \ {t} : chain'[u] = chain[u]
      /\ \A u \in Tasks \ {r, t} : future_'[u] = future_[u]
  BY <1>1, <1>2, <1>4 DEF Types, ChainInv
<1>6. pred'[t] = r /\ \A u \in Tasks \ {t} : pred'[u] = pred[u]
  <2>1. /\ Len(Append(chain[r], t)) = Len(chain[r]) + 1 /\ Len(chain[r]) >= 1
        /\ Append(chain[r], t)[Len(chain[r])] = r
    BY <1>4
  <2>2. pred'[t] = r
    BY <1>5, <2>1 DEF pred, HasPredecessor, Predecessor
  <2> QED
    BY <1>5, <2>2 DEF pred, HasPredecessor, Predecessor
<1>7. \A u \in Tasks : pred[u] # NoTask => pred[u] \in accepted \ {t, r}
  BY <1>1, <1>2 DEF ChainInv, MovedInv
<1>8. ChainInv'
  <2>1. \A u \in Tasks : pred'[u] # NoTask =>
          pred'[u] \in accepted' /\ chain'[u] = Append(chain'[pred'[u]], u)
    <3>1. \A u \in Tasks \ {t} : pred'[u] # NoTask =>
            /\ pred'[u] \in accepted \ {t}
            /\ chain'[u] = Append(chain[pred'[u]], u)
      BY <1>5, <1>6, <1>7 DEF ChainInv
    <3>2. \A p \in accepted \ {t} : chain'[p] = chain[p] /\ p \in accepted'
      BY <1>2, <1>5 DEF accepted
    <3> QED
      BY <1>4, <1>5, <1>6, <3>1, <3>2
  <2>2. \A u \in Tasks \ accepted' : chain'[u] = <<>> /\ future_'[u] = "none"
    BY <1>2, <1>4, <1>5 DEF ChainInv, accepted
  <2>3. \A u \in accepted' : chain'[u] # <<>> /\ chain'[u][Len(chain'[u])] = u
    BY <1>2, <1>4, <1>5 DEF ChainInv, accepted
  <2> QED
    BY <2>1, <2>2, <2>3 DEF ChainInv
<1>9. MovedInv'
  <2>1. \A u \in Tasks : pred'[u] # NoTask => future_'[pred'[u]] = "moved"
    BY <1>5, <1>6, <1>7 DEF MovedInv, accepted
  <2>2. \A u, v \in Tasks : pred'[u] # NoTask /\ pred'[u] = pred'[v] => u = v
    BY <1>6, <1>7 DEF MovedInv
  <2>3. ASSUME NEW q \in Tasks, future_'[q] = "moved"
        PROVE  \E u \in Tasks : pred'[u] = q
    <3>1. CASE q = r
      BY <1>6, <3>1
    <3>2. CASE q # r
      BY <1>2, <1>5, <1>6, <2>3, <3>2 DEF MovedInv
    <3> QED
      BY <3>1, <3>2
  <2> QED
    BY <2>1, <2>2, <2>3 DEF MovedInv
<1>10. OrderInv'
  BY <1>1, <1>4, <1>6, AcceptOrder
<1> QED
  BY <1>2, <1>3, <1>4, <1>6, <1>8, <1>9, <1>10

(* A worker takes the oldest task: its predecessor is ahead of it.         *)
LEMMA TakeNextInv1 ==
  ASSUME Inv1, TakeNext
  PROVE  Inv1'
<1> USE DEF Inv1
<1>1. /\ queue \in Seq(Tasks) /\ queue # <<>> /\ queue' = Tail(queue)
      /\ status' = [status EXCEPT ![Head(queue)] = "running"]
      /\ status \in [Tasks -> Pool!Status]
      /\ UNCHANGED <<accepting, retired, chain, future_, called, error>>
  BY DEF TakeNext, Pool!Start, Types, Pool!TypeOK
<1> DEFINE h == Head(queue)
<1>2. /\ h \in Tasks /\ h = queue[1] /\ 1 \in 1..Len(queue) /\ status[h] = "queued"
      /\ Len(queue') = Len(queue) - 1 /\ Len(queue') \in Nat
      /\ \A i \in 1..Len(queue') : queue'[i] = queue[i + 1] /\ i + 1 \in 1..Len(queue)
  BY <1>1 DEF QueueInv
<1>3. pred' = pred
  BY <1>1 DEF pred, HasPredecessor, Predecessor
<1> HIDE DEF h
<1>4. /\ status' = [status EXCEPT ![h] = "running"]
      /\ status'[h] = "running" /\ \A u \in Tasks \ {h} : status'[u] = status[u]
  BY <1>1, <1>2 DEF h
<1>5. accepted' = accepted /\ started' = started \cup {h}
  BY <1>2, <1>4 DEF accepted, started
<1>6. Types'
  <2>1. queue' \in Seq(Tasks) /\ status' \in [Tasks -> Pool!Status]
    BY <1>1, <1>2, <1>4 DEF Pool!Status
  <2> QED
    BY <1>1, <2>1 DEF Types, Pool!TypeOK
<1>7. ChainInv'
  BY <1>1, <1>3, <1>5 DEF ChainInv
<1>8. MovedInv'
  BY <1>1, <1>3 DEF MovedInv
<1>9. QueueInv'
  <2>1. \A i \in 1..Len(queue') : queue'[i] # h /\ queue'[i] \in Tasks
    BY <1>1, <1>2 DEF QueueInv
  <2>2. ASSUME NEW u \in Tasks, status'[u] = "queued"
        PROVE  \E i \in 1..Len(queue') : queue'[i] = u
    <3>1. u # h /\ status[u] = "queued"
      BY <1>4, <2>2
    <3>2. PICK i \in 1..Len(queue) : queue[i] = u
      BY <3>1 DEF QueueInv
    <3>3. i # 1
      BY <1>2, <3>1, <3>2
    <3>4. i - 1 \in 1..Len(queue') /\ queue'[i - 1] = u
      BY <1>1, <1>2, <3>2, <3>3
    <3> QED
      BY <3>4
  <2>3. \A i \in 1..Len(queue') : status'[queue'[i]] = "queued"
    BY <1>2, <1>4, <2>1 DEF QueueInv
  <2>4. \A i, j \in 1..Len(queue') : queue'[i] = queue'[j] => i = j
    BY <1>1, <1>2 DEF QueueInv
  <2> QED
    BY <2>2, <2>3, <2>4 DEF QueueInv
<1>10. OrderInv'
  <2>1. pred[h] # NoTask => pred[h] \in started
    BY <1>2 DEF OrderInv
  <2>2. \A u \in started' : pred'[u] # NoTask => pred'[u] \in started'
    BY <1>3, <1>5, <2>1 DEF OrderInv
  <2>3. ASSUME NEW j \in 1..Len(queue'), pred'[queue'[j]] # NoTask
        PROVE  \/ pred'[queue'[j]] \in started'
               \/ \E i \in 1..(j - 1) : queue'[i] = pred'[queue'[j]]
    <3> DEFINE p == pred[queue[j + 1]]
    <3>1. p = pred'[queue'[j]] /\ j + 1 \in 1..Len(queue)
      BY <1>2, <1>3
    <3>2. p \in started \/ \E i \in 1..j : queue[i] = p
      BY <1>2, <2>3, <3>1 DEF OrderInv
    <3>3. ASSUME NEW i \in 1..j, queue[i] = p, i # 1
          PROVE  \E k \in 1..(j - 1) : queue'[k] = p
      <4>1. i - 1 \in 1..(j - 1) /\ i - 1 \in 1..Len(queue')
        BY <3>3, <1>2
      <4>2. queue'[i - 1] = queue[i]
        BY <1>2, <4>1
      <4> QED
        BY <3>3, <4>1, <4>2
    <3> HIDE DEF p
    <3> QED
      BY <1>2, <1>5, <3>1, <3>2, <3>3
  <2> QED
    BY <2>2, <2>3 DEF OrderInv
<1> QED
  BY <1>6, <1>7, <1>8, <1>9, <1>10

(* pred is the predecessor.                                                *)
LEMMA PredFacts ==
  ASSUME Types, NEW t \in Tasks
  PROVE  /\ HasPredecessor(t) => pred[t] = Predecessor(t) /\ pred[t] \in Tasks
         /\ ~HasPredecessor(t) => pred[t] = NoTask
         /\ Ready(t) <=> pred[t] = NoTask \/ status[pred[t]] = "settled"
<1>1. HasPredecessor(t) => Predecessor(t) \in Tasks
  BY DEF Types, HasPredecessor, Predecessor
<1> QED
  BY <1>1 DEF pred, Ready, Settled

(* A worker calls a callable or settles its task.                          *)
LEMMA SettleInv1 ==
  ASSUME Inv1, NEW t \in Tasks, Call(t) \/ Return(t) \/ Rethrow(t)
  PROVE  Inv1' /\ accepted' = accepted /\ started' = started
<1>1. /\ status[t] = "running" /\ UNCHANGED <<queue, accepting, retired, chain, future_>>
      /\ status' = status \/ status' = [status EXCEPT ![t] = "settled"]
  BY DEF Call, Return, Rethrow, Pool!Settle, poolVars
<1>2. called' \subseteq Tasks /\ error' \in [Tasks -> Tasks \cup {NoTask}]
  <2>1. called' \subseteq Tasks
    BY DEF Call, Return, Rethrow, Inv1, Types
  <2>2. error \in [Tasks -> Tasks \cup {NoTask}]
    BY DEF Inv1, Types
  <2>3. CASE Call(t)
    BY <2>1, <2>2, <2>3 DEF Call
  <2>4. CASE Return(t)
    <3>1. PICK e \in {NoTask, t} : error' = [error EXCEPT ![t] = e]
      BY <2>4 DEF Return
    <3> QED
      BY <2>1, <2>2, <3>1
  <2>5. CASE Rethrow(t)
    BY <2>1, <2>5, PredFacts DEF Rethrow, Inv1, Types
  <2> QED
    BY <2>3, <2>4, <2>5
<1>3. \A u \in Tasks :
        /\ status'[u] \in {"new", "refused"} <=> status[u] \in {"new", "refused"}
        /\ status'[u] = "queued" <=> status[u] = "queued"
        /\ status'[u] \in {"running", "settled"} <=> status[u] \in {"running", "settled"}
        /\ status'[u] \in Pool!Status
  BY <1>1 DEF Inv1, Types, Pool!TypeOK, Pool!Status
<1>4. Types'
  <2>1. status' \in [Tasks -> Pool!Status]
    BY <1>1 DEF Inv1, Types, Pool!TypeOK, Pool!Status
  <2> QED
    BY <1>1, <1>2, <2>1 DEF Inv1, Types, Pool!TypeOK
<1>5. Inv1'
  BY <1>1, <1>3, <1>4, Untouched
<1>6. accepted' = accepted /\ started' = started
  BY <1>3 DEF accepted, started
<1> QED
  BY <1>5, <1>6

(* get() consumes a future that no continuation has.                       *)
LEMMA GetInv1 ==
  ASSUME Inv1, NEW r \in Tasks, Get(r)
  PROVE  Inv1'
<1>1. /\ UNCHANGED <<poolVars, chain, called, error>>
      /\ future_[r] = "valid" /\ future_' = [future_ EXCEPT ![r] = "consumed"]
  BY DEF Get
<1>2. Types'
  BY <1>1 DEF Inv1, Types, Pool!TypeOK, poolVars, FutureState
<1> QED
  BY <1>1, <1>2, Untouched DEF poolVars, Inv1, Types

(* shutdown(), or the end of the pool, leaves every task where it is.      *)
LEMMA PoolClosesInv1 ==
  ASSUME Inv1, PoolCloses
  PROVE  Inv1' /\ UNCHANGED <<queue, status, chain, future_, called, error>>
<1>1. /\ UNCHANGED <<queue, status, chain, future_, called, error>>
      /\ accepting' \in BOOLEAN /\ retired' \in BOOLEAN
  BY DEF PoolCloses, Pool!Close, Pool!Retire, Inv1, Types, Pool!TypeOK
<1>2. Types'
  BY <1>1 DEF Inv1, Types, Pool!TypeOK
<1> QED
  BY <1>1, <1>2, Untouched

(* Every step keeps futures, chains and the queue consistent.              *)
LEMMA NextInv1 == Inv1 /\ [Next]_vars => Inv1'
<1> SUFFICES ASSUME Inv1, [Next]_vars PROVE Inv1'
  OBVIOUS
<1>1. ASSUME NEW t \in Tasks, SubmitAsync(t) PROVE Inv1'
  BY <1>1, SubmitAsyncInv1
<1>2. ASSUME NEW t \in Tasks, SubmitAsyncThrows(t) \/ \E r \in Tasks : ThenThrows(r, t)
      PROVE  Inv1'
  BY <1>2, RefuseInv1
<1>3. ASSUME NEW r \in Tasks, NEW t \in Tasks, Then(r, t) PROVE Inv1'
  BY <1>3, ThenInv1
<1>4. ASSUME NEW t \in Tasks, Get(t) PROVE Inv1'
  BY <1>4, GetInv1
<1>5. ASSUME NEW t \in Tasks, Call(t) \/ Return(t) \/ Rethrow(t) PROVE Inv1'
  BY <1>5, SettleInv1
<1>6. CASE TakeNext
  BY <1>6, TakeNextInv1
<1>7. CASE PoolCloses
  BY <1>7, PoolClosesInv1
<1>8. CASE UNCHANGED vars
  BY <1>8, Untouched DEF vars, poolVars, Inv1, Types, Pool!TypeOK
<1> QED
  BY <1>1, <1>2, <1>3, <1>4, <1>5, <1>6, <1>7, <1>8 DEF Next, Terminated

-----------------------------------------------------------------------------
(* What the tasks have done.                                               *)

done == {t \in Tasks : Settled(t)}

threw == [t \in Tasks |-> {i \in DOMAIN chain[t] : error[chain[t][i]] = chain[t][i]}]

ran == [t \in Tasks |-> {i \in DOMAIN chain[t] : chain[t][i] \in called}]

(* Only what runs is called, behind a predecessor that returned a value.   *)
CalledInv ==
  \A t \in called :
    /\ t \in started
    /\ pred[t] # NoTask => pred[t] \in done /\ error[pred[t]] = NoTask

(* A settled chain has settled from its beginning.                         *)
DoneInv ==
  /\ \A t \in Tasks \ done : error[t] = NoTask
  /\ \A t \in done : \A i \in 1..Len(chain[t]) : chain[t][i] \in done

OutcomeInv ==
  \A t \in done :
    /\ threw[t] = {} => error[t] = NoTask /\ ran[t] = 1..Len(chain[t])
    /\ threw[t] # {} =>
         \E i \in threw[t] : error[t] = chain[t][i] /\ ran[t] = 1..i

Inv == Inv1 /\ CalledInv /\ DoneInv /\ OutcomeInv

(* Nothing has settled or been called at first.                            *)
LEMMA InitInv == Init => Inv
<1> SUFFICES ASSUME Init PROVE Inv
  OBVIOUS
<1>1. called = {} /\ done = {} /\ \A t \in Tasks : error[t] = NoTask
  BY DEF Init, Pool!Init, done, Settled
<1> QED
  BY <1>1, InitInv1 DEF Inv, CalledInv, DoneInv, OutcomeInv

(* What has settled is not disturbed.                                      *)
LEMMA Undisturbed ==
  ASSUME Inv, Inv1', NEW t \in done, t \in done',
         \A u \in done : u \in done' /\ chain'[u] = chain[u] /\ error'[u] = error[u],
         \A u \in done : u \in called' <=> u \in called
  PROVE  /\ \A i \in 1..Len(chain'[t]) : chain'[t][i] \in done'
         /\ threw'[t] = threw[t] /\ ran'[t] = ran[t]
         /\ chain'[t] = chain[t] /\ error'[t] = error[t]
<1>1. /\ t \in Tasks /\ chain'[t] = chain[t] /\ error'[t] = error[t]
      /\ chain[t] \in Seq(Tasks)
  BY DEF done, Inv, Inv1, Types
<1>2. \A i \in 1..Len(chain[t]) :
        /\ chain[t][i] \in done /\ chain[t][i] \in done'
        /\ error'[chain[t][i]] = error[chain[t][i]]
        /\ (chain[t][i] \in called' <=> chain[t][i] \in called)
  BY DEF Inv, DoneInv
<1>3. threw'[t] = threw[t]
  BY <1>1, <1>2 DEF threw
<1>4. ran'[t] = ran[t]
  BY <1>1, <1>2 DEF ran
<1> QED
  BY <1>1, <1>2, <1>3, <1>4

(* A step in which nothing settles.                                        *)
LEMMA NothingSettles ==
  ASSUME Inv, Inv1', CalledInv', done' = done,
         \A u \in done : chain'[u] = chain[u] /\ (u \in called' <=> u \in called),
         error' = error
  PROVE  Inv'
<1>1. \A t \in done :
         /\ \A i \in 1..Len(chain'[t]) : chain'[t][i] \in done'
         /\ threw'[t] = threw[t] /\ ran'[t] = ran[t]
         /\ chain'[t] = chain[t] /\ error'[t] = error[t]
  BY Undisturbed
<1>2. DoneInv'
  BY <1>1 DEF Inv, DoneInv
<1>3. OutcomeInv'
  BY <1>1 DEF Inv, OutcomeInv
<1> QED
  BY <1>2, <1>3 DEF Inv

(* A task settles behind q, the chain of its predecessor, which has.       *)
LEMMA OneSettles ==
  ASSUME Inv, Inv1', UNCHANGED <<chain, called>>,
         NEW t \in Tasks, t \notin done, done' = done \cup {t},
         NEW e \in Tasks \cup {NoTask}, error' = [error EXCEPT ![t] = e],
         NEW q \in Seq(Tasks), chain[t] = Append(q, t),
         \A i \in 1..Len(q) : q[i] \in done,
         LET n == Len(q) + 1
             c == {i \in 1..Len(q) : q[i] \in called}
             x == {i \in 1..Len(q) : error[q[i]] = q[i]}
         IN  \/ x = {} /\ c = 1..Len(q) /\ e \in {NoTask, t} /\ t \in called
             \/ t \notin called /\ \E i \in x : e = q[i] /\ c = 1..i
  PROVE  DoneInv' /\ OutcomeInv'
<1> DEFINE x == {i \in 1..Len(q) : error[q[i]] = q[i]}
           c == {i \in 1..Len(q) : q[i] \in called}
           n == Len(q) + 1
<1>1. \A u \in done : u \in done' /\ chain'[u] = chain[u] /\ error'[u] = error[u]
  <2>1. error \in [Tasks -> Tasks \cup {NoTask}] /\ done \subseteq Tasks
    BY DEF Inv, Inv1, Types, done
  <2> QED
    BY <2>1
<1>2. \A u \in done :
         /\ \A i \in 1..Len(chain'[u]) : chain'[u][i] \in done'
         /\ threw'[u] = threw[u] /\ ran'[u] = ran[u]
         /\ chain'[u] = chain[u] /\ error'[u] = error[u]
  BY <1>1, Undisturbed
<1>3. /\ chain'[t] = chain[t] /\ Len(chain'[t]) = n /\ n \in Nat /\ chain'[t][n] = t
      /\ DOMAIN chain'[t] = 1..n
      /\ \A i \in 1..Len(q) : i \in 1..n /\ chain'[t][i] = q[i] /\ i # n
      /\ \A i \in 1..n : i = n \/ i \in 1..Len(q)
  OBVIOUS
<1>4. error'[t] = e /\ \A u \in done : error'[u] = error[u] /\ u # t
  BY <1>1 DEF Inv, Inv1, Types
<1>5. \A i \in 1..n : chain'[t][i] \in done'
  BY <1>3
<1>6. DoneInv'
  <2>1. \A u \in Tasks \ done' : error'[u] = NoTask
    BY DEF Inv, DoneInv, Inv1, Types
  <2>2. \A u \in done' : \A i \in 1..Len(chain'[u]) : chain'[u][i] \in done'
    BY <1>2, <1>3, <1>5
  <2> QED
    BY <2>1, <2>2 DEF DoneInv
<1>7. threw'[t] = x \cup (IF e = t THEN {n} ELSE {})
  <2>1. threw'[t] = {i \in 1..n : error'[chain'[t][i]] = chain'[t][i]}
    BY <1>3 DEF threw
  <2>2. \A i \in 1..Len(q) : error'[chain'[t][i]] = error[q[i]]
    BY <1>3, <1>4
  <2>3. error'[chain'[t][n]] = e
    BY <1>3, <1>4
  <2> QED
    BY <1>3, <2>1, <2>2, <2>3
<1>8. ran'[t] = c \cup (IF t \in called THEN {n} ELSE {})
  <2>1. ran'[t] = {i \in 1..n : chain'[t][i] \in called}
    BY <1>3 DEF ran
  <2> QED
    BY <1>3, <2>1
<1>9. /\ threw'[t] = {} => error'[t] = NoTask /\ ran'[t] = 1..Len(chain'[t])
      /\ threw'[t] # {} => \E i \in threw'[t] : error'[t] = chain'[t][i] /\ ran'[t] = 1..i
  <2>1. CASE x = {} /\ c = 1..Len(q) /\ e \in {NoTask, t} /\ t \in called
    <3>1. ran'[t] = 1..n
      BY <1>3, <1>8, <2>1
    <3>2. CASE e = t
      BY <1>3, <1>4, <1>7, <2>1, <3>1, <3>2
    <3>3. CASE e = NoTask
      BY <1>3, <1>4, <1>7, <2>1, <3>1, <3>3
    <3> QED
      BY <2>1, <3>2, <3>3
  <2>2. CASE t \notin called /\ \E i \in x : e = q[i] /\ c = 1..i
    <3>1. PICK i \in x : e = q[i] /\ c = 1..i
      BY <2>2
    <3>2. e # t /\ i \in 1..Len(q)
      BY <3>1
    <3>3. threw'[t] = x /\ ran'[t] = c
      BY <1>7, <1>8, <2>2, <3>2
    <3> HIDE DEF x, c
    <3> QED
      BY <1>3, <1>4, <3>1, <3>2, <3>3
  <2> QED
    BY <2>1, <2>2
<1>10. OutcomeInv'
  <2>1. ASSUME NEW u \in done
        PROVE  /\ threw'[u] = {} => error'[u] = NoTask /\ ran'[u] = 1..Len(chain'[u])
               /\ threw'[u] # {} =>
                    \E i \in threw'[u] : error'[u] = chain'[u][i] /\ ran'[u] = 1..i
    BY <1>2 DEF Inv, OutcomeInv
  <2> QED
    BY <1>9, <2>1 DEF OutcomeInv
<1> QED
  BY <1>6, <1>10

(* What is behind a task that is ready.                                    *)
LEMMA ReadyChain ==
  ASSUME Inv, NEW t \in started, t \notin done, Ready(t)
  PROVE  /\ pred[t] = NoTask => chain[t] = Append(<<>>, t)
         /\ pred[t] # NoTask =>
              /\ pred[t] \in done /\ chain[pred[t]] \in Seq(Tasks)
              /\ chain[t] = Append(chain[pred[t]], t)
              /\ \A i \in 1..Len(chain[pred[t]]) : chain[pred[t]][i] \in done
<1>1. t \in Tasks /\ t \in accepted /\ chain[t] \in Seq(Tasks)
  BY DEF started, accepted, Inv, Inv1, Types
<1>2. CASE pred[t] = NoTask
  <2>1. ~HasPredecessor(t)
    BY <1>1, <1>2, PredFacts DEF Inv, Inv1
  <2>2. chain[t] # <<>> /\ chain[t][Len(chain[t])] = t
    BY <1>1 DEF Inv, Inv1, ChainInv
  <2>3. Len(chain[t]) = 1
    <3>1. \A s \in Seq(Tasks) : s # <<>> => Len(s) \in Nat \ {0}
      OBVIOUS
    <3>2. Len(chain[t]) \in Nat \ {0} /\ ~(Len(chain[t]) > 1)
      BY <1>1, <2>1, <2>2, <3>1 DEF HasPredecessor
    <3>3. \A n \in Nat \ {0} : ~(n > 1) => n = 1
      OBVIOUS
    <3> QED
      BY <3>2, <3>3
  <2> QED
    BY <1>1, <1>2, <2>2, <2>3
<1>3. CASE pred[t] # NoTask
  <2>1. pred[t] \in accepted /\ chain[t] = Append(chain[pred[t]], t)
    BY <1>1, <1>3 DEF Inv, Inv1, ChainInv
  <2>2. pred[t] \in done
    BY <1>1, <1>3, <2>1, PredFacts DEF Inv, Inv1, done, Settled, accepted
  <2> QED
    BY <1>3, <2>1, <2>2 DEF Inv, Inv1, DoneInv, Types, accepted
<1> QED
  BY <1>2, <1>3

(* A callable returns or throws behind results that are values.            *)
LEMMA ReturnInv ==
  ASSUME Inv, NEW t \in Tasks, Return(t)
  PROVE  Inv'
<1>1. /\ t \in called /\ status[t] = "running" /\ status' = [status EXCEPT ![t] = "settled"]
      /\ UNCHANGED <<chain, future_, called>>
  BY DEF Return, Pool!Settle
<1>2. PICK e \in {NoTask, t} : error' = [error EXCEPT ![t] = e]
  BY DEF Return
<1>3. Inv1' /\ started' = started
  BY SettleInv1 DEF Inv
<1>4. t \in started /\ t \notin done /\ done' = done \cup {t}
  BY <1>1 DEF started, done, Settled, Inv, Inv1, Types, Pool!TypeOK
<1>5. pred[t] # NoTask => pred[t] \in done /\ error[pred[t]] = NoTask
  BY <1>1 DEF Inv, CalledInv
<1>6. Ready(t) /\ pred' = pred
  BY <1>1, <1>5, PredFacts DEF Inv, Inv1, done, Settled, pred, HasPredecessor, Predecessor
<1>7. DoneInv' /\ OutcomeInv'
  <2>1. CASE pred[t] = NoTask
    <3> DEFINE q == <<>>
    <3>1. chain[t] = Append(q, t) /\ q \in Seq(Tasks) /\ Len(q) = 0 /\ 1..Len(q) = {}
      BY <1>4, <1>6, <2>1, ReadyChain
    <3> HIDE DEF q
    <3> QED
      BY <1>1, <1>2, <1>3, <1>4, <3>1, OneSettles
  <2>2. CASE pred[t] # NoTask
    <3> DEFINE p == pred[t]
               q == chain[p]
    <3>1. /\ p \in done /\ q \in Seq(Tasks) /\ chain[t] = Append(q, t)
          /\ \A i \in 1..Len(q) : q[i] \in done
      BY <1>4, <1>6, <2>2, ReadyChain
    <3>2. /\ threw[p] = {i \in 1..Len(q) : error[q[i]] = q[i]}
          /\ ran[p] = {i \in 1..Len(q) : q[i] \in called}
      BY <3>1 DEF threw, ran, done
    <3>3. error[p] = NoTask /\ \A i \in 1..Len(q) : q[i] # NoTask
      BY <1>5, <2>2, <3>1 DEF done
    <3>4. threw[p] = {} /\ ran[p] = 1..Len(q)
      BY <3>1, <3>2, <3>3 DEF Inv, OutcomeInv
    <3> HIDE DEF p, q
    <3> QED
      BY <1>1, <1>2, <1>3, <1>4, <3>1, <3>2, <3>4, OneSettles
  <2> QED
    BY <2>1, <2>2
<1>8. CalledInv'
  <2>1. \A u \in called : error'[u] = error[u] \/ u \notin done
    BY <1>2, <1>4 DEF Inv, Inv1, Types
  <2>2. \A u \in Tasks : u \in done => error'[u] = error[u]
    BY <1>2, <1>4 DEF Inv, Inv1, Types
  <2> QED
    BY <1>1, <1>3, <1>4, <1>6, <2>2 DEF Inv, CalledInv, done
<1> QED
  BY <1>3, <1>7, <1>8 DEF Inv

(* A continuation behind an exception is skipped.                          *)
LEMMA RethrowInv ==
  ASSUME Inv, NEW t \in Tasks, Rethrow(t)
  PROVE  Inv'
<1>1. /\ t \notin called /\ status[t] = "running" /\ status' = [status EXCEPT ![t] = "settled"]
      /\ UNCHANGED <<chain, future_, called>> /\ Ready(t)
  BY DEF Rethrow, Pool!Settle
<1>2. /\ pred[t] # NoTask /\ error[pred[t]] # NoTask
      /\ error' = [error EXCEPT ![t] = error[pred[t]]]
  BY PredFacts DEF Rethrow, Inv, Inv1
<1>3. Inv1' /\ started' = started
  BY SettleInv1 DEF Inv
<1>4. t \in started /\ t \notin done /\ done' = done \cup {t} /\ pred' = pred
  BY <1>1 DEF started, done, Settled, Inv, Inv1, Types, Pool!TypeOK,
              pred, HasPredecessor, Predecessor
<1>5. DoneInv' /\ OutcomeInv'
  <2> DEFINE p == pred[t]
             q == chain[p]
  <2>1. /\ p \in done /\ q \in Seq(Tasks) /\ chain[t] = Append(q, t)
        /\ \A i \in 1..Len(q) : q[i] \in done
    BY <1>1, <1>2, <1>4, ReadyChain
  <2>2. /\ threw[p] = {i \in 1..Len(q) : error[q[i]] = q[i]}
        /\ ran[p] = {i \in 1..Len(q) : q[i] \in called}
    BY <2>1 DEF threw, ran, done
  <2>3. error[p] \in Tasks \cup {NoTask}
    BY <2>1 DEF done, Inv, Inv1, Types
  <2>4. \E i \in threw[p] : error[p] = q[i] /\ ran[p] = 1..i
    BY <1>2, <2>1 DEF Inv, OutcomeInv
  <2>5. error' = [error EXCEPT ![t] = error[p]]
    BY <1>2
  <2> HIDE DEF p, q
  <2>6. \E i \in {i \in 1..Len(q) : error[q[i]] = q[i]} :
          error[p] = q[i] /\ {j \in 1..Len(q) : q[j] \in called} = 1..i
    BY <2>2, <2>4
  <2> QED
    BY <1>1, <1>3, <1>4, <2>1, <2>3, <2>5, <2>6, OneSettles
<1>6. CalledInv'
  <2>1. \A u \in Tasks : u \in done => error'[u] = error[u]
    BY <1>2, <1>4 DEF Inv, Inv1, Types
  <2> QED
    BY <1>1, <1>3, <1>4, <2>1 DEF Inv, CalledInv, done
<1> QED
  BY <1>3, <1>5, <1>6 DEF Inv

(* get() has returned: the callable may be called.                         *)
LEMMA CallInv ==
  ASSUME Inv, NEW t \in Tasks, Call(t)
  PROVE  Inv'
<1>1. /\ status[t] = "running" /\ called' = called \cup {t} /\ Ready(t)
      /\ HasPredecessor(t) => error[Predecessor(t)] = NoTask
      /\ UNCHANGED <<status, chain, error>>
  BY DEF Call, poolVars
<1>2. Inv1' /\ started' = started
  BY SettleInv1 DEF Inv
<1>3. done' = done /\ pred' = pred /\ t \in started /\ t \notin done
  BY <1>1 DEF done, Settled, pred, HasPredecessor, Predecessor, started
<1>4. pred[t] # NoTask => pred[t] \in done /\ error[pred[t]] = NoTask
  <2>1. pred[t] # NoTask => pred[t] = Predecessor(t) /\ pred[t] \in Tasks
    BY PredFacts DEF Inv, Inv1
  <2>2. pred[t] # NoTask => HasPredecessor(t)
    BY PredFacts DEF Inv, Inv1
  <2> QED
    BY <1>1, <2>1, <2>2, PredFacts DEF Inv, Inv1, done, Settled
<1>5. CalledInv'
  BY <1>1, <1>2, <1>3, <1>4 DEF Inv, CalledInv
<1> QED
  BY <1>1, <1>2, <1>3, <1>5, NothingSettles

(* submit() has accepted a task: what has settled keeps its chain.         *)
LEMMA AcceptInv ==
  ASSUME Inv, NEW t \in Tasks, SubmitAsync(t) \/ \E r \in Tasks : Then(r, t)
  PROVE  Inv'
<1>1. /\ Pool!Accept(t) /\ UNCHANGED <<called, error>>
      /\ \A u \in Tasks \ {t} : chain'[u] = chain[u]
  BY DEF SubmitAsync, Then, Inv, Inv1, Types
<1>2. Inv1'
  BY SubmitAsyncInv1, ThenInv1 DEF Inv
<1>3. t \notin accepted /\ started' = started
  BY <1>1, AcceptPool DEF Inv
<1>4. done' = done /\ t \notin done
  BY <1>1 DEF Pool!Accept, done, Settled, Inv, Inv1, Types, Pool!TypeOK
<1>5. \A u \in started : pred'[u] = pred[u] /\ u # t
  <2>1. \A u \in started : u \in Tasks /\ u # t
    BY <1>3 DEF started, accepted
  <2> QED
    BY <1>1, <2>1 DEF pred, HasPredecessor, Predecessor
<1>6. CalledInv'
  BY <1>1, <1>3, <1>4, <1>5 DEF Inv, CalledInv
<1> QED
  BY <1>1, <1>2, <1>4, <1>6, NothingSettles DEF done

(* The other steps: nobody is called and nothing settles.                  *)
LEMMA OtherInv ==
  ASSUME Inv, Inv1',
         \/ \E t \in Tasks : \/ SubmitAsyncThrows(t) \/ Get(t)
                             \/ \E r \in Tasks : ThenThrows(r, t)
         \/ TakeNext \/ PoolCloses \/ UNCHANGED vars
  PROVE  Inv'
<1>1. UNCHANGED <<chain, called, error>>
  BY DEF SubmitAsyncThrows, Get, ThenThrows, TakeNext, PoolCloses, vars
<1>2. pred' = pred
  BY <1>1 DEF pred, HasPredecessor, Predecessor
<1>3. done' = done /\ started \subseteq started'
  <2>1. CASE \E t \in Tasks : SubmitAsyncThrows(t) \/ \E r \in Tasks : ThenThrows(r, t)
    BY <2>1 DEF SubmitAsyncThrows, ThenThrows, Pool!Refuse, done, Settled, started,
                Inv, Inv1, Types, Pool!TypeOK
  <2>2. CASE (\E t \in Tasks : Get(t)) \/ PoolCloses \/ UNCHANGED vars
    BY <2>2, PoolClosesInv1 DEF Get, vars, poolVars, done, Settled, started, Inv
  <2>3. CASE TakeNext
    <3>1. queue # <<>> /\ status' = [status EXCEPT ![queue[1]] = "running"]
      BY <2>3 DEF TakeNext, Pool!Start
    <3>2. status[queue[1]] = "queued"
      <4>1. 1 \in 1..Len(queue)
        BY <3>1 DEF Inv, Inv1, Types, Pool!TypeOK
      <4> QED
        BY <4>1 DEF Inv, Inv1, QueueInv
    <3> QED
      BY <3>1, <3>2 DEF done, Settled, started, Inv, Inv1, Types, Pool!TypeOK
  <2> QED
    BY <2>1, <2>2, <2>3
<1>4. CalledInv'
  BY <1>1, <1>2, <1>3 DEF Inv, CalledInv
<1> QED
  BY <1>1, <1>3, <1>4, NothingSettles

(* Every step preserves the invariant.                                     *)
LEMMA NextInv == Inv /\ [Next]_vars => Inv'
<1> SUFFICES ASSUME Inv, [Next]_vars PROVE Inv'
  OBVIOUS
<1>1. Inv1'
  BY NextInv1 DEF Inv
<1>2. ASSUME NEW t \in Tasks, SubmitAsync(t) \/ \E r \in Tasks : Then(r, t) PROVE Inv'
  BY <1>2, AcceptInv
<1>3. ASSUME NEW t \in Tasks, Call(t) PROVE Inv'
  BY <1>3, CallInv
<1>4. ASSUME NEW t \in Tasks, Return(t) PROVE Inv'
  BY <1>4, ReturnInv
<1>5. ASSUME NEW t \in Tasks, Rethrow(t) PROVE Inv'
  BY <1>5, RethrowInv
<1>6. CASE \/ \E t \in Tasks : \/ SubmitAsyncThrows(t) \/ Get(t)
                               \/ \E r \in Tasks : ThenThrows(r, t)
           \/ TakeNext \/ PoolCloses \/ UNCHANGED vars
  BY <1>1, <1>6, OtherInv
<1> QED
  BY <1>2, <1>3, <1>4, <1>5, <1>6 DEF Next, Terminated

(* In every behaviour the futures, the queue and the chains fit together.  *)
THEOREM Invariance == SafeSpec => []Inv
<1> QED
  BY InitInv, NextInv, PTL DEF SafeSpec

-----------------------------------------------------------------------------
(* The properties of the runs.                                             *)

(* Every variable keeps its type, and a moved future is in exactly one     *)
(* continuation.                                                           *)
THEOREM TypeCorrect == SafeSpec => []TypeOK
<1>1. Inv => TypeOK
  <2> SUFFICES ASSUME Inv PROVE TypeOK
    OBVIOUS
  <2>1. ASSUME NEW r \in Tasks
        PROVE  Cardinality({t \in Tasks : HasPredecessor(t) /\ Predecessor(t) = r})
                 = IF future_[r] = "moved" THEN 1 ELSE 0
    <3> DEFINE C == {t \in Tasks : HasPredecessor(t) /\ Predecessor(t) = r}
    <3>1. C = {t \in Tasks : pred[t] = r}
      BY PredFacts DEF Inv, Inv1
    <3>2. CASE future_[r] = "moved"
      <4>1. PICK t \in Tasks : pred[t] = r
        BY <3>2 DEF Inv, Inv1, MovedInv
      <4>2. C = {t}
        BY <3>1, <4>1 DEF Inv, Inv1, MovedInv
      <4> QED
        BY <3>2, <4>2, FS_Singleton
    <3>3. CASE future_[r] # "moved"
      <4>1. C = {}
        BY <3>1, <3>3 DEF Inv, Inv1, MovedInv
      <4> QED
        BY <3>3, <4>1, FS_EmptySet
    <3> QED
      BY <3>2, <3>3
  <2> QED
    BY <2>1 DEF TypeOK, Inv, Inv1, Types
<1> QED
  BY <1>1, Invariance, PTL

(* Results stop at the first callable of their chain that threw.           *)
THEOREM FirstExceptionIsTheResult == SafeSpec => []FirstExceptionWins
<1>1. Inv => FirstExceptionWins
  <2> SUFFICES ASSUME Inv, NEW t \in Tasks, Settled(t)
               PROVE  /\ threw[t] = {} => error[t] = NoTask /\ ran[t] = DOMAIN chain[t]
                      /\ threw[t] # {} =>
                           \E i \in threw[t] : error[t] = chain[t][i] /\ ran[t] = 1..i
    BY DEF FirstExceptionWins, threw, ran
  <2>1. t \in done /\ DOMAIN chain[t] = 1..Len(chain[t])
    BY DEF done, Inv, Inv1, Types
  <2> QED
    BY <2>1 DEF Inv, OutcomeInv
<1> QED
  BY <1>1, Invariance, PTL

(* However few the workers, not all of them wait for each other.           *)
THEOREM WorkersAdvance == SafeSpec => []SomeWorkerAdvances
<1>1. Inv => SomeWorkerAdvances
  <2> SUFFICES ASSUME Inv, Pool!Running # {}
               PROVE  \E t \in Pool!Running : Ready(t)
    BY DEF SomeWorkerAdvances
  <2> DEFINE L == {Len(chain[t]) : t \in Pool!Running}
  <2>1. L \subseteq Nat /\ L # {}
    <3>1. \A t \in Pool!Running : chain[t] \in Seq(Tasks)
      BY DEF Pool!Running, Inv, Inv1, Types
    <3>2. \A t \in Pool!Running : Len(chain[t]) \in Nat
      BY <3>1
    <3> QED
      BY <3>2
  <2>2. PICK n \in L : \A m \in L : <<m, n>> \notin OpToRel(<, Nat)
    BY <2>1, NatLessThanWellFounded, WFMin
  <2>3. PICK t \in Pool!Running : n = Len(chain[t])
    BY DEF L
  <2>4. t \in started /\ t \in Tasks
    BY DEF Pool!Running, started
  <2>5. CASE pred[t] # NoTask
    <3>1. pred[t] \in started /\ pred[t] \in Tasks /\ chain[t] = Append(chain[pred[t]], t)
      BY <2>4, <2>5 DEF Inv, Inv1, OrderInv, ChainInv, started
    <3>2. Len(chain[pred[t]]) \in Nat /\ Len(chain[pred[t]]) < n
      BY <2>3, <3>1 DEF Inv, Inv1, Types
    <3>3. pred[t] \notin Pool!Running
      BY <2>1, <2>2, <3>2 DEF L, OpToRel
    <3> QED
      BY <2>3, <2>4, <3>1, <3>3, PredFacts DEF Pool!Running, started, Inv, Inv1
  <2>6. CASE pred[t] = NoTask
    BY <2>3, <2>4, <2>6, PredFacts DEF Inv, Inv1
  <2> QED
    BY <2>5, <2>6
<1> QED
  BY <1>1, Invariance, PTL

(* A result that has not been computed is on its way: some worker runs or  *)
(* calls a callable, or is free to take the head of the queue.  So get()   *)
(* does not wait for workers that all wait themselves.                     *)
ResultsServed ==
  (\E t \in Tasks : status[t] \in {"queued", "running"}) =>
    \/ \E u \in Pool!Running : Ready(u)
    \/ queue # <<>> /\ Cardinality(Pool!Running) < NumThreads

(* No chain of then() calls, on however few workers, leaves a result that  *)
(* nobody computes.                                                        *)
THEOREM ResultsNeverStuck == SafeSpec => []ResultsServed
<1>1. ASSUME Inv, SomeWorkerAdvances PROVE ResultsServed
  <2>1. SUFFICES ASSUME NEW t \in Tasks, status[t] \in {"queued", "running"},
                        Pool!Running = {}
                 PROVE  queue # <<>> /\ Cardinality(Pool!Running) < NumThreads
    BY <1>1 DEF ResultsServed, SomeWorkerAdvances
  <2>2. status[t] = "queued"
    BY <2>1 DEF Pool!Running
  <2>3. queue # <<>>
    BY <1>1, <2>2 DEF Inv, Inv1, QueueInv
  <2> QED
    BY <2>1, <2>3, FS_EmptySet, ThreadsAssumption
<1> QED
  BY <1>1, Invariance, WorkersAdvance, PTL

-----------------------------------------------------------------------------
(* Refinement                                                              *)

(* The abstract view of a running task that is ready: it is its turn, and  *)
(* the exceptions before it are those its predecessor has seen.            *)
LEMMA ItsTurn ==
  ASSUME Inv, NEW t \in started, t \notin done, Ready(t)
  PROVE  /\ Chains!Turn(t)
         /\ pred[t] = NoTask => Chains!Thrown(t) = {}
         /\ pred[t] # NoTask =>
              Chains!Thrown(t) = {chain[pred[t]][i] : i \in threw[pred[t]]}
<1>1. t \in Tasks /\ done \subseteq Tasks
  BY DEF started, done
<1>2. ASSUME NEW q \in Seq(Tasks), chain[t] = Append(q, t),
             \A i \in 1..Len(q) : q[i] \in done
      PROVE  /\ Chains!Turn(t)
             /\ Chains!Thrown(t) = {q[i] : i \in {i \in 1..Len(q) : error[q[i]] = q[i]}}
  <2>1. chain[t] # <<>> /\ Len(chain[t]) - 1 = Len(q)
    BY <1>1, <1>2
  <2>2. \A i \in 1..Len(q) : chain[t][i] = q[i]
    BY <1>1, <1>2
  <2>3. Chains!Earlier(t) = {q[i] : i \in 1..Len(q)}
    BY <2>1, <2>2 DEF Chains!Earlier
  <2> QED
    BY <1>2, <2>1, <2>3 DEF Chains!Turn, Chains!Thrown, done
<1>3. CASE pred[t] = NoTask
  <2>1. chain[t] = Append(<<>>, t) /\ <<>> \in Seq(Tasks) /\ 1..Len(<<>>) = {}
    BY <1>3, ReadyChain
  <2> QED
    BY <1>2, <1>3, <2>1
<1>4. CASE pred[t] # NoTask
  <2> DEFINE q == chain[pred[t]]
  <2>1. /\ pred[t] \in done /\ q \in Seq(Tasks) /\ chain[t] = Append(q, t)
        /\ \A i \in 1..Len(q) : q[i] \in done
    BY <1>4, ReadyChain
  <2>2. threw[pred[t]] = {i \in 1..Len(q) : error[q[i]] = q[i]}
    BY <1>1, <2>1 DEF threw
  <2> HIDE DEF q
  <2>3. /\ Chains!Turn(t)
        /\ Chains!Thrown(t) = {q[i] : i \in {i \in 1..Len(q) : error[q[i]] = q[i]}}
    BY <1>2, <2>1
  <2> QED
    BY <1>4, <2>2, <2>3 DEF q
<1> QED
  BY <1>3, <1>4

(* A call of submit_async() or then() adds a link.                         *)
LEMMA CallsRefine ==
  ASSUME Inv, NEW t \in Tasks, SubmitAsync(t) \/ \E r \in Tasks : Then(r, t)
  PROVE  Chains!Next
<1>1. Pool!Accept(t) /\ error' = error
  BY DEF SubmitAsync, Then
<1>2. chain[t] = <<>> /\ t \notin accepted
  BY <1>1, AcceptPool DEF Inv
<1>3. {u \in Tasks : Settled(u)}' = {u \in Tasks : Settled(u)}
  BY <1>1 DEF Pool!Accept, Settled, Inv, Inv1, Types, Pool!TypeOK
<1>4. CASE SubmitAsync(t)
  <2>1. chain' = [chain EXCEPT ![t] = Append(<<>>, t)]
    BY <1>4 DEF SubmitAsync
  <2>2. Chains!Attach(<<>>, t)
    BY <1>1, <1>2, <1>3, <2>1 DEF Chains!Attach
  <2> QED
    BY <2>2 DEF Chains!Next
<1>5. ASSUME NEW r \in Tasks, Then(r, t) PROVE Chains!Next
  <2>1. future_[r] = "valid" /\ chain' = [chain EXCEPT ![t] = Append(chain[r], t)]
    BY <1>5 DEF Then
  <2>2. chain[r] # <<>> /\ chain[r] \in Seq(Tasks) /\ chain[r][Len(chain[r])] = r
    BY <2>1 DEF Inv, Inv1, ChainInv, Types
  <2>3. ASSUME NEW u \in Tasks, chain[u] = Append(chain[r], u) PROVE FALSE
    <3>1. Len(chain[r]) \in Nat \ {0} /\ Len(chain[u]) = Len(chain[r]) + 1
      BY <2>2, <2>3
    <3>2. HasPredecessor(u) /\ Predecessor(u) = r
      BY <2>2, <2>3, <3>1 DEF HasPredecessor, Predecessor
    <3>3. pred[u] = r /\ r # NoTask
      BY <3>2, PredFacts DEF Inv, Inv1
    <3> QED
      BY <2>1, <3>3 DEF Inv, Inv1, MovedInv
  <2>4. Chains!Attach(chain[r], t)
    BY <1>1, <1>2, <1>3, <2>1 DEF Chains!Attach
  <2> QED
    BY <2>2, <2>3, <2>4 DEF Chains!Next, Chains!Continue
<1> QED
  BY <1>4, <1>5

(* A worker that is done with a task has run it or skipped it.             *)
LEMMA SettlesRefine ==
  ASSUME Inv, NEW t \in Tasks, Return(t) \/ Rethrow(t)
  PROVE  Chains!Next
<1>1. /\ status[t] = "running" /\ status' = [status EXCEPT ![t] = "settled"]
      /\ chain' = chain
  BY DEF Return, Rethrow, Pool!Settle
<1>2. /\ t \in started /\ t \notin done
      /\ {u \in Tasks : Settled(u)}' = {u \in Tasks : Settled(u)} \cup {t}
  BY <1>1 DEF started, done, Settled, Inv, Inv1, Types, Pool!TypeOK
<1>3. Ready(t)
  BY PredFacts DEF Return, Rethrow, Inv, Inv1, CalledInv, done, Settled
<1>4. Chains!Turn(t)
  BY <1>2, <1>3, ItsTurn
<1>5. CASE Return(t)
  <2>1. PICK e \in {NoTask, t} : error' = [error EXCEPT ![t] = e]
    BY <1>5 DEF Return
  <2>2. Chains!Thrown(t) = {}
    <3>1. CASE pred[t] = NoTask
      BY <1>2, <1>3, <3>1, ItsTurn
    <3>2. CASE pred[t] # NoTask
      <4>1. pred[t] \in done /\ error[pred[t]] = NoTask
        BY <1>5, <3>2 DEF Return, Inv, CalledInv
      <4>2. \A i \in threw[pred[t]] : chain[pred[t]][i] # NoTask
        BY <4>1 DEF threw, done, Inv, Inv1, Types
      <4>3. threw[pred[t]] = {}
        BY <4>1, <4>2 DEF Inv, OutcomeInv
      <4> QED
        BY <1>2, <1>3, <3>2, <4>3, ItsTurn
    <3> QED
      BY <3>1, <3>2
  <2>3. Chains!Run(t)
    BY <1>1, <1>2, <1>4, <2>1, <2>2 DEF Chains!Run
  <2> QED
    BY <2>3 DEF Chains!Next
<1>6. CASE Rethrow(t)
  <2>1. /\ pred[t] # NoTask /\ error[pred[t]] # NoTask
        /\ error' = [error EXCEPT ![t] = error[pred[t]]]
    BY <1>6, PredFacts DEF Rethrow, Inv, Inv1
  <2>2. pred[t] \in done
    BY <1>2, <1>3, <2>1, ReadyChain
  <2>3. \E i \in threw[pred[t]] : error[pred[t]] = chain[pred[t]][i]
    BY <2>1, <2>2 DEF Inv, OutcomeInv
  <2>4. error[pred[t]] \in Chains!Thrown(t)
    BY <1>2, <1>3, <2>1, <2>3, ItsTurn
  <2>5. Chains!Skip(t)
    BY <1>1, <1>2, <1>4, <2>1, <2>4 DEF Chains!Skip
  <2> QED
    BY <2>5 DEF Chains!Next
<1> QED
  BY <1>5, <1>6

(* The other steps leave the abstract state alone.                         *)
LEMMA OthersStutter ==
  ASSUME Inv,
         \/ \E t \in Tasks : \/ SubmitAsyncThrows(t) \/ Get(t) \/ Call(t)
                             \/ \E r \in Tasks : ThenThrows(r, t)
         \/ TakeNext \/ PoolCloses \/ UNCHANGED vars
  PROVE  UNCHANGED Chains!chainVars
<1>1. UNCHANGED <<chain, error>>
  BY DEF SubmitAsyncThrows, Get, ThenThrows, TakeNext, PoolCloses, Call, vars
<1>2. \A u \in Tasks : status'[u] = "settled" <=> status[u] = "settled"
  <2>1. CASE \E t \in Tasks : SubmitAsyncThrows(t) \/ \E r \in Tasks : ThenThrows(r, t)
    BY <2>1 DEF SubmitAsyncThrows, ThenThrows, Pool!Refuse, Inv, Inv1, Types, Pool!TypeOK
  <2>2. CASE (\E t \in Tasks : Get(t) \/ Call(t)) \/ PoolCloses \/ UNCHANGED vars
    BY <2>2, PoolClosesInv1 DEF Get, Call, vars, poolVars, Inv
  <2>3. CASE TakeNext
    <3>1. queue # <<>> /\ status' = [status EXCEPT ![queue[1]] = "running"]
      BY <2>3 DEF TakeNext, Pool!Start
    <3>2. 1 \in 1..Len(queue)
      BY <3>1 DEF Inv, Inv1, Types, Pool!TypeOK
    <3>3. status[queue[1]] = "queued"
      BY <3>2 DEF Inv, Inv1, QueueInv
    <3> QED
      BY <3>1, <3>3 DEF Inv, Inv1, Types, Pool!TypeOK
  <2> QED
    BY <2>1, <2>2, <2>3
<1> QED
  BY <1>1, <1>2 DEF Chains!chainVars, Settled

(* Over the pool, the results settle like those of ResultChain: the safety *)
(* half of ChainsSpec.                                                     *)
THEOREM ImplementsChains == SafeSpec => Chains!SafeSpec
<1>1. Init => Chains!Init
  BY DEF Init, Pool!Init, Chains!Init, Settled
<1>2. Inv /\ [Next]_vars => [Chains!Next]_Chains!chainVars
  <2> SUFFICES ASSUME Inv, [Next]_vars PROVE [Chains!Next]_Chains!chainVars
    OBVIOUS
  <2>1. CASE \E t \in Tasks : SubmitAsync(t) \/ \E r \in Tasks : Then(r, t)
    BY <2>1, CallsRefine
  <2>2. CASE \E t \in Tasks : Return(t) \/ Rethrow(t)
    BY <2>2, SettlesRefine
  <2>3. CASE \/ \E t \in Tasks : \/ SubmitAsyncThrows(t) \/ Get(t) \/ Call(t)
                                 \/ \E r \in Tasks : ThenThrows(r, t)
             \/ TakeNext \/ PoolCloses \/ UNCHANGED vars
    BY <2>3, OthersStutter
  <2> QED
    BY <2>1, <2>2, <2>3 DEF Next, Terminated
<1> QED
  BY <1>1, <1>2, Invariance, PTL DEF SafeSpec, Chains!SafeSpec

=============================================================================
