--------------------------- MODULE PipelineProofs ----------------------------
(***************************************************************************)
(* Proofs about Pipeline, for all numbers of pipelines, stages, tasks and  *)
(* workers.  The inductive invariant says where each stage is, and that    *)
(* what is left of a value still is, or has lost, what the value was       *)
(* built from.                                                             *)
(***************************************************************************)
EXTENDS Pipeline, TLAPS, SequenceTheorems

(* What the task of a run() has applied, and what is left to apply.        *)
work == [t \in Tasks |-> job[t].value \o job[t].rest]

(* The queue of the pool holds queued tasks, each once.                    *)
PoolInv ==
  /\ Pool!TypeOK
  /\ \A i \in 1..Len(queue) : status[queue[i]] = "queued"
  /\ \A i, j \in 1..Len(queue) : queue[i] = queue[j] => i = j

Types ==
  /\ initial_ \in [Pipes -> Value] /\ source \in [Pipes -> Value]
  /\ chain_ \in [Pipes -> Seq(Stages)] /\ built \in [Pipes -> Value]
  /\ job \in [Tasks -> Job] /\ threw \subseteq Tasks

(* The task of a run() ends when nothing is left to apply, or by an        *)
(* exception before that.                                                  *)
JobInv ==
  \A t \in Tasks :
    /\ status[t] \in {"new", "refused"} => job[t] = NoJob
    /\ status[t] \notin {"new", "refused"} => job[t].pipe # NoPipe
    /\ t \in threw => status[t] = "settled" /\ job[t].rest # <<>>
    /\ status[t] = "settled" /\ t \notin threw => job[t].rest = <<>>

(* The stages that have been passed to then().                             *)
used == {s \in Stages : ~UnusedStage(s)}

(* A stage is at one place of one chain or of one run().                   *)
ChainPlaces ==
  /\ \A p \in Pipes : \A i \in 1..Len(chain_[p]) : chain_[p][i] \in used
  /\ \A p, q \in Pipes : \A i \in 1..Len(chain_[p]), j \in 1..Len(chain_[q]) :
       chain_[p][i] = chain_[q][j] => p = q /\ i = j

WorkPlaces ==
  /\ \A t \in Tasks : \A i \in 1..Len(work[t]) :
       work[t][i] \in Stages => work[t][i] \in used
  /\ \A t, u \in Tasks : \A i \in 1..Len(work[t]), j \in 1..Len(work[u]) :
       work[t][i] = work[u][j] /\ work[t][i] \in Stages => t = u /\ i = j

Apart ==
  \A p \in Pipes, t \in Tasks : \A i \in 1..Len(chain_[p]), j \in 1..Len(work[t]) :
    chain_[p][i] # work[t][j]

(* An initial value is as it was, or moved out.                            *)
OrderInv ==
  /\ \A p \in Pipes :
       /\ Unused(p) => initial_[p] = <<>> /\ chain_[p] = <<>>
       /\ ~Unused(p) => built[p][1] \in Pipes
       /\ initial_[p] # <<>> =>
            initial_[p] = built[p] /\ Len(built[p]) = 1 /\ chain_[p] = <<>>
       /\ chain_[p] # <<>> =>
            \/ source[p] = <<>>
            \/ /\ Len(source[p]) = 1 /\ source[p][1] \in Pipes
               /\ built[p] = source[p] \o chain_[p]
  /\ \A t \in Tasks : job[t].pipe # NoPipe =>
       /\ job[t].expected # <<>> /\ job[t].expected[1] \in Pipes
       /\ work[t] = job[t].expected \/ work[t] \in Seq(Stages)

PlaceInv == ChainPlaces /\ WorkPlaces /\ Apart

Inv == PoolInv /\ Types /\ JobInv /\ PlaceInv /\ OrderInv

USE ThreadsAssumption, PipesAssumption

-----------------------------------------------------------------------------
(* The pool                                                                *)

(* submit() accepts a task.                                                *)
LEMMA AcceptFacts ==
  ASSUME PoolInv, NEW t \in Tasks, Pool!Accept(t)
  PROVE  PoolInv' /\ status[t] = "new" /\ status' = [status EXCEPT ![t] = "queued"]
<1>1. /\ status[t] = "new" /\ status' = [status EXCEPT ![t] = "queued"]
      /\ queue' = Append(queue, t) /\ UNCHANGED <<accepting, retired>>
  BY DEF Pool!Accept
<1>2. queue \in Seq(Tasks) /\ status \in [Tasks -> Pool!Status]
  BY DEF PoolInv, Pool!TypeOK
<1>3. Pool!TypeOK'
  BY <1>1, <1>2 DEF PoolInv, Pool!TypeOK, Pool!Status
<1>4. /\ Len(queue') = Len(queue) + 1 /\ queue'[Len(queue) + 1] = t
      /\ \A i \in 1..Len(queue) : queue'[i] = queue[i] /\ queue[i] # t /\ queue[i] \in Tasks
  BY <1>1, <1>2 DEF PoolInv
<1>5. Len(queue) \in Nat
  BY <1>2
<1>6. \A i \in 1..Len(queue') : status'[queue'[i]] = "queued"
  BY <1>1, <1>2, <1>4, <1>5 DEF PoolInv
<1>7. \A i, j \in 1..Len(queue') : queue'[i] = queue'[j] => i = j
  BY <1>4, <1>5 DEF PoolInv
<1> QED
  BY <1>1, <1>3, <1>6, <1>7 DEF PoolInv

(* A worker takes the oldest task.                                         *)
LEMMA StartFacts ==
  ASSUME PoolInv, Pool!Start
  PROVE  /\ PoolInv'
         /\ \E t \in Tasks : status[t] = "queued" /\ status' = [status EXCEPT ![t] = "running"]
<1>1. /\ queue # <<>> /\ status' = [status EXCEPT ![Head(queue)] = "running"]
      /\ queue' = Tail(queue) /\ UNCHANGED <<accepting, retired>>
  BY DEF Pool!Start
<1>2. queue \in Seq(Tasks) /\ status \in [Tasks -> Pool!Status]
  BY DEF PoolInv, Pool!TypeOK
<1>3. /\ Len(queue) \in Nat \ {0} /\ Len(queue') = Len(queue) - 1
      /\ Head(queue) = queue[1] /\ queue[1] \in Tasks /\ queue' \in Seq(Tasks)
      /\ \A i \in 1..Len(queue') : queue'[i] = queue[i + 1]
  BY <1>1, <1>2
<1>4. status[queue[1]] = "queued"
  BY <1>3 DEF PoolInv
<1>5. Pool!TypeOK'
  BY <1>1, <1>2, <1>3 DEF PoolInv, Pool!TypeOK, Pool!Status
<1>6. \A i \in 1..Len(queue') :
        /\ i + 1 \in 1..Len(queue) /\ queue'[i] = queue[i + 1]
        /\ queue[i + 1] \in Tasks /\ queue[i + 1] # queue[1]
  BY <1>2, <1>3 DEF PoolInv
<1>7. \A i \in 1..Len(queue') : status'[queue'[i]] = "queued"
  BY <1>1, <1>2, <1>3, <1>6 DEF PoolInv
<1>8. \A i, j \in 1..Len(queue') : queue'[i] = queue'[j] => i = j
  BY <1>3, <1>6 DEF PoolInv
<1> QED
  BY <1>1, <1>3, <1>4, <1>5, <1>7, <1>8 DEF PoolInv

(* The queue is left alone.                                                *)
LEMMA QueueStays ==
  ASSUME PoolInv, UNCHANGED queue, accepting' \in BOOLEAN, retired' \in BOOLEAN,
         \/ UNCHANGED status
         \/ \E t \in Tasks : \E s \in Pool!Status :
              status[t] # "queued" /\ status' = [status EXCEPT ![t] = s]
  PROVE  PoolInv'
<1>1. queue \in Seq(Tasks) /\ status \in [Tasks -> Pool!Status]
  BY DEF PoolInv, Pool!TypeOK
<1>2. status' \in [Tasks -> Pool!Status]
  BY <1>1
<1>3. \A i \in 1..Len(queue) : queue[i] \in Tasks
  BY <1>1
<1>4. \A i \in 1..Len(queue) : status'[queue[i]] = "queued"
  BY <1>1, <1>3 DEF PoolInv
<1> QED
  BY <1>1, <1>2, <1>4 DEF PoolInv, Pool!TypeOK

(* submit() refuses a task.                                                *)
LEMMA RefuseFacts ==
  ASSUME PoolInv, NEW t \in Tasks, Pool!Refuse(t)
  PROVE  PoolInv' /\ status[t] = "new" /\ status' = [status EXCEPT ![t] = "refused"]
<1>1. /\ status[t] = "new" /\ status' = [status EXCEPT ![t] = "refused"]
      /\ UNCHANGED <<accepting, queue, retired>>
  BY DEF Pool!Refuse
<1>2. "refused" \in Pool!Status /\ accepting \in BOOLEAN /\ retired \in BOOLEAN
  BY DEF PoolInv, Pool!TypeOK, Pool!Status
<1> QED
  BY <1>1, <1>2, QueueStays

(* A task is done.                                                         *)
LEMMA SettleFacts ==
  ASSUME PoolInv, NEW t \in Tasks, Pool!Settle(t)
  PROVE  PoolInv' /\ status[t] = "running" /\ status' = [status EXCEPT ![t] = "settled"]
<1>1. /\ status[t] = "running" /\ status' = [status EXCEPT ![t] = "settled"]
      /\ UNCHANGED <<accepting, queue, retired>>
  BY DEF Pool!Settle
<1>2. "settled" \in Pool!Status /\ accepting \in BOOLEAN /\ retired \in BOOLEAN
  BY DEF PoolInv, Pool!TypeOK, Pool!Status
<1> QED
  BY <1>1, <1>2, QueueStays

-----------------------------------------------------------------------------
(* Sequences                                                               *)

(* The next stage goes from what is left to what has been applied.         *)
LEMMA MoveOn ==
  ASSUME NEW S, NEW v \in Seq(S), NEW r \in Seq(S), r # <<>>
  PROVE  Append(v, Head(r)) \o Tail(r) = v \o r
<1>1. /\ Head(r) \in S /\ Head(r) = r[1] /\ Tail(r) \in Seq(S)
      /\ Len(Tail(r)) = Len(r) - 1 /\ \A i \in 1..Len(Tail(r)) : Tail(r)[i] = r[i + 1]
      /\ Len(v) \in Nat /\ Len(r) \in Nat \ {0}
  BY HeadTailProperties, LenProperties, EmptySeq
<1> DEFINE a == Append(v, Head(r))
<1>2. /\ a \in Seq(S) /\ Len(a) = Len(v) + 1 /\ a[Len(v) + 1] = r[1]
      /\ \A i \in 1..Len(v) : a[i] = v[i]
  BY <1>1
<1> HIDE DEF a
<1>3. /\ a \o Tail(r) \in Seq(S) /\ Len(a \o Tail(r)) = Len(a) + Len(Tail(r))
      /\ \A i \in 1..(Len(a) + Len(Tail(r))) :
           (a \o Tail(r))[i] = IF i <= Len(a) THEN a[i] ELSE Tail(r)[i - Len(a)]
  BY <1>1, <1>2, ConcatProperties
<1>4. /\ v \o r \in Seq(S) /\ Len(v \o r) = Len(v) + Len(r)
      /\ \A i \in 1..(Len(v) + Len(r)) :
           (v \o r)[i] = IF i <= Len(v) THEN v[i] ELSE r[i - Len(v)]
  BY ConcatProperties
<1>5. Len(a \o Tail(r)) = Len(v \o r)
  BY <1>1, <1>2, <1>3, <1>4
<1>6. ASSUME NEW i \in 1..Len(a \o Tail(r)) PROVE (a \o Tail(r))[i] = (v \o r)[i]
  <2>1. CASE i <= Len(v)
    BY <1>1, <1>2, <1>3, <1>4, <2>1
  <2>2. CASE i = Len(v) + 1
    BY <1>1, <1>2, <1>3, <1>4, <2>2
  <2>3. CASE i > Len(v) + 1
    <3>1. i - Len(a) \in 1..Len(Tail(r)) /\ (i - Len(a)) + 1 = i - Len(v)
      BY <1>1, <1>2, <1>3, <2>3
    <3> QED
      BY <1>1, <1>2, <1>3, <1>4, <2>3, <3>1
  <2>4. i \in Int /\ Len(v) \in Int
    BY <1>1
  <2>5. i <= Len(v) \/ i = Len(v) + 1 \/ i > Len(v) + 1
    BY <2>4
  <2> QED
    BY <2>1, <2>2, <2>3, <2>5, Zenon
<1>7. a \o Tail(r) = v \o r
  BY <1>3, <1>4, <1>5, <1>6, SeqEqual
<1> QED
  BY <1>7 DEF a

(* A stage is added at the end.                                            *)
LEMMA AddOne ==
  ASSUME NEW S, NEW v \in Seq(S), NEW r \in Seq(S), NEW s \in S
  PROVE  v \o Append(r, s) = Append(v \o r, s)
<1>1. <<s>> \in Seq(S) /\ r \o <<s>> = Append(r, s) /\ v \o r \in Seq(S)
      /\ (v \o r) \o <<s>> = Append(v \o r, s)
  BY ConcatProperties
<1>2. (v \o r) \o <<s>> = v \o (r \o <<s>>)
  BY <1>1, ConcatAssociative
<1> QED
  BY <1>1, <1>2

(* Append, in one place.                                                   *)
LEMMA AppendFacts ==
  ASSUME NEW S, NEW r \in Seq(S), NEW s \in S
  PROVE  /\ Append(r, s) \in Seq(S) /\ Append(r, s) # <<>>
         /\ Len(r) \in Nat /\ Len(Append(r, s)) = Len(r) + 1
         /\ Append(r, s)[Len(r) + 1] = s
         /\ \A i \in 1..Len(r) : Append(r, s)[i] = r[i]
         /\ DOMAIN Append(r, s) = 1..(Len(r) + 1)
<1>1. Append(r, s) \in Seq(S) /\ Len(r) \in Nat /\ Len(Append(r, s)) = Len(r) + 1
  BY LenProperties
<1>2. /\ Append(r, s)[Len(r) + 1] = s /\ \A i \in 1..Len(r) : Append(r, s)[i] = r[i]
  BY <1>1
<1>3. DOMAIN Append(r, s) = 1..(Len(r) + 1)
  BY <1>1, LenProperties
<1>4. Append(r, s) # <<>>
  BY <1>1, EmptySeq
<1> QED
  BY <1>1, <1>2, <1>3, <1>4

-----------------------------------------------------------------------------
(* Facts about states that satisfy the invariant                           *)

(* The parts of a job and its work.                                        *)
LEMMA WorkFacts ==
  ASSUME Types, NEW t \in Tasks
  PROVE  /\ job[t].value \in Value /\ job[t].rest \in Seq(Stages) /\ job[t].expected \in Value
         /\ work[t] \in Value /\ work[t] = job[t].value \o job[t].rest
         /\ Len(job[t].value) \in Nat /\ Len(job[t].rest) \in Nat
         /\ Len(work[t]) = Len(job[t].value) + Len(job[t].rest)
         /\ \A i \in 1..Len(job[t].value) : work[t][i] = job[t].value[i]
<1>1. job[t] \in Job
  BY DEF Types
<1>2. job[t].value \in Value /\ job[t].rest \in Seq(Stages) /\ job[t].expected \in Value
  BY <1>1 DEF Job
<1>3. job[t].rest \in Value
  BY <1>2, SeqMonotonic DEF Value
<1>4. work[t] = job[t].value \o job[t].rest
  BY DEF work
<1> DEFINE v == job[t].value
           r == job[t].rest
<1>5. /\ v \in Value /\ r \in Value /\ Len(v) \in Nat /\ Len(r) \in Nat
  BY <1>2, <1>3, LenProperties DEF Value
<1> HIDE DEF v, r
<1>6. /\ v \o r \in Value /\ Len(v \o r) = Len(v) + Len(r)
      /\ \A i \in 1..(Len(v) + Len(r)) :
           (v \o r)[i] = IF i <= Len(v) THEN v[i] ELSE r[i - Len(v)]
  BY <1>5, ConcatProperties DEF Value
<1>7. \A i \in 1..Len(v) : (v \o r)[i] = v[i]
  BY <1>5, <1>6
<1> QED
  BY <1>2, <1>4, <1>5, <1>6, <1>7 DEF v, r

(* There is nothing at first.                                              *)
LEMMA InitInv == Init => Inv
<1> SUFFICES ASSUME Init PROVE Inv
  OBVIOUS
<1>1. PoolInv
  <2>1. queue = <<>> /\ accepting = TRUE /\ retired = FALSE
        /\ status = [t \in Tasks |-> "new"]
    BY DEF Init, Pool!Init
  <2>2. queue \in Seq(Tasks) /\ 1..Len(queue) = {}
    BY <2>1
  <2>3. status \in [Tasks -> Pool!Status]
    BY <2>1 DEF Pool!Status
  <2> QED
    BY <2>1, <2>2, <2>3 DEF PoolInv, Pool!TypeOK
<1>2. /\ <<>> \in Value /\ <<>> \in Seq(Stages) /\ NoJob \in Job
      /\ NoJob.pipe = NoPipe /\ NoJob.value = <<>> /\ NoJob.rest = <<>>
  BY EmptySeq DEF Value, Job, NoJob, DefaultValue
<1>3. Types
  BY <1>2 DEF Init, Types, DefaultValue
<1>4. \A t \in Tasks : status[t] = "new" /\ job[t] = NoJob /\ t \notin threw
  BY DEF Init, Pool!Init
<1>5. JobInv
  BY <1>4 DEF JobInv
<1>6. ASSUME NEW t \in Tasks PROVE Len(work[t]) = 0
  <2>1. job[t].value = <<>> /\ job[t].rest = <<>> /\ Len(<<>>) = 0
    BY <1>2, <1>4, EmptySeq
  <2>2. Len(work[t]) = Len(job[t].value) + Len(job[t].rest)
    BY <1>3, WorkFacts
  <2> QED
    BY <2>1, <2>2
<1>7. /\ \A p \in Pipes : /\ Unused(p) /\ initial_[p] = <<>>
                          /\ chain_[p] = <<>> /\ Len(chain_[p]) = 0
  BY DEF Init, Unused, DefaultValue
<1>8. PlaceInv
  BY <1>6, <1>7 DEF PlaceInv, ChainPlaces, WorkPlaces, Apart
<1>9. OrderInv
  BY <1>2, <1>4, <1>7 DEF OrderInv
<1> QED
  BY <1>1, <1>3, <1>5, <1>8, <1>9 DEF Inv

(* A stage that has been passed to then() stays used.                      *)
LEMMA UsedStays ==
  ASSUME \A p \in Pipes : built'[p] = built[p] \/ Unused(p)
  PROVE  used \subseteq used'
<1> SUFFICES ASSUME NEW s \in used PROVE s \in used'
  OBVIOUS
<1>1. s \in Stages /\ \E p \in Pipes : \E i \in DOMAIN built[p] : built[p][i] = s
  BY DEF used, UnusedStage
<1>2. PICK p \in Pipes : \E i \in DOMAIN built[p] : built[p][i] = s
  BY <1>1
<1>3. built'[p] = built[p]
  BY <1>2 DEF Unused
<1> QED
  BY <1>1, <1>2, <1>3 DEF used, UnusedStage

(* What run() submits: the chain behind the initial value, or without it.  *)
LEMMA SubmissionFacts ==
  ASSUME Types, OrderInv, NEW p \in Pipes, ~Unused(p),
         NEW v, v = (IF chain_[p] = <<>> THEN initial_[p] ELSE source[p])
  PROVE  /\ v \in Value
         /\ \/ v = <<>>
            \/ Len(v) = 1 /\ v[1] \in Pipes /\ built[p] = v \o chain_[p]
<1>1. /\ initial_[p] \in Value /\ source[p] \in Value /\ built[p] \in Value
      /\ chain_[p] \in Seq(Stages)
  BY DEF Types
<1>2. CASE chain_[p] = <<>>
  <2>1. initial_[p] # <<>> =>
          initial_[p] = built[p] /\ Len(built[p]) = 1 /\ built[p][1] \in Pipes
    BY DEF OrderInv
  <2>2. v \o chain_[p] = v
    BY <1>1, <1>2, ConcatEmptySeq DEF Value
  <2> QED
    BY <1>1, <1>2, <2>1, <2>2
<1>3. CASE chain_[p] # <<>>
  BY <1>1, <1>3 DEF OrderInv
<1> QED
  BY <1>2, <1>3

-----------------------------------------------------------------------------
(* The builder                                                             *)

(* The conjuncts about the chains stay true when chains are dropped, and   *)
(* when initial values stay, or are dropped where there is no chain.       *)
LEMMA DropPlaces ==
  ASSUME Types, ChainPlaces, Apart, work' = work,
         \A p \in Pipes : built'[p] = built[p] \/ Unused(p),
         \A p \in Pipes : chain_'[p] = chain_[p] \/ chain_'[p] = <<>>
  PROVE  ChainPlaces' /\ Apart'
<1>1. \A p \in Pipes : \A i \in 1..Len(chain_'[p]) :
        i \in 1..Len(chain_[p]) /\ chain_'[p][i] = chain_[p][i]
  BY EmptySeq
<1>2. \A p \in Pipes : \A i \in 1..Len(chain_'[p]) : chain_'[p][i] \in used'
  BY <1>1, UsedStays DEF ChainPlaces
<1>3. \A p, q \in Pipes : \A i \in 1..Len(chain_'[p]), j \in 1..Len(chain_'[q]) :
       chain_'[p][i] = chain_'[q][j] => p = q /\ i = j
  BY <1>1 DEF ChainPlaces
<1>4. ChainPlaces'
  BY <1>2, <1>3 DEF ChainPlaces
<1>5. Apart'
  BY <1>1 DEF Apart
<1> QED
  BY <1>4, <1>5

(* Stages that have been used stay used by the runs.                       *)
LEMMA WorkStays ==
  ASSUME Types, WorkPlaces, work' = work,
         \A p \in Pipes : built'[p] = built[p] \/ Unused(p)
  PROVE  WorkPlaces'
<1>1. \A t \in Tasks : \A i \in 1..Len(work'[t]) :
       work'[t][i] \in Stages => work'[t][i] \in used'
  BY UsedStays DEF WorkPlaces
<1>2. \A t, u \in Tasks : \A i \in 1..Len(work'[t]), j \in 1..Len(work'[u]) :
       work'[t][i] = work'[u][j] /\ work'[t][i] \in Stages => t = u /\ i = j
  BY DEF WorkPlaces
<1> QED
  BY <1>1, <1>2 DEF WorkPlaces

(* A pipeline is created with its initial value.                           *)
LEMMA CreateInv ==
  ASSUME Inv, NEW p \in Pipes, Create(p)
  PROVE  Inv'
<1>1. /\ Unused(p) /\ initial_' = [initial_ EXCEPT ![p] = <<p>>]
      /\ built' = [built EXCEPT ![p] = <<p>>]
      /\ UNCHANGED <<accepting, queue, status, retired, chain_, source, job, threw>>
  BY DEF Create, poolVars
<1>2. <<p>> \in Value /\ Len(<<p>>) = 1 /\ <<p>>[1] = p /\ <<p>> # <<>>
  BY DEF Value
<1>3. PoolInv'
  BY <1>1 DEF Inv, PoolInv, Pool!TypeOK
<1>4. Types'
  BY <1>1, <1>2 DEF Inv, Types
<1>5. JobInv'
  BY <1>1 DEF Inv, JobInv
<1>6. work' = work /\ \A q \in Pipes : built'[q] = built[q] \/ Unused(q)
  BY <1>1 DEF work, Inv, Types
<1>7. PlaceInv'
  BY <1>1, <1>6, DropPlaces, WorkStays DEF Inv, PlaceInv
<1>8. OrderInv'
  <2>1. \A q \in Pipes \ {p} : initial_'[q] = initial_[q] /\ built'[q] = built[q]
    BY <1>1 DEF Inv, Types
  <2>2. initial_'[p] = <<p>> /\ built'[p] = <<p>> /\ chain_'[p] = <<>>
    BY <1>1 DEF Inv, Types, OrderInv
  <2>3. \A t \in Tasks : job'[t].pipe # NoPipe =>
          /\ job'[t].expected # <<>> /\ job'[t].expected[1] \in Pipes
          /\ work'[t] = job'[t].expected \/ work'[t] \in Seq(Stages)
    BY <1>1, <1>6 DEF Inv, OrderInv
  <2>4. ASSUME NEW q \in Pipes
        PROVE  /\ built'[q] = <<>> => initial_'[q] = <<>> /\ chain_'[q] = <<>>
               /\ built'[q] # <<>> => built'[q][1] \in Pipes
               /\ initial_'[q] # <<>> =>
                    initial_'[q] = built'[q] /\ Len(built'[q]) = 1 /\ chain_'[q] = <<>>
               /\ chain_'[q] # <<>> =>
                    \/ source'[q] = <<>>
                    \/ /\ Len(source'[q]) = 1 /\ source'[q][1] \in Pipes
                       /\ built'[q] = source'[q] \o chain_'[q]
    <3>1. CASE q = p
      BY <1>2, <2>2, <3>1
    <3>2. CASE q # p
      BY <1>1, <2>1, <3>2 DEF Inv, OrderInv, Unused
    <3> QED
      BY <3>1, <3>2
  <2> QED
    BY <2>3, <2>4 DEF OrderInv, Unused
<1> QED
  BY <1>3, <1>4, <1>5, <1>7, <1>8 DEF Inv

(* What is moved out of p is not there any more, or an unchanged value.    *)
LEMMA MoveOutInv ==
  ASSUME Inv, NEW p \in Pipes, MoveOut(p)
  PROVE  /\ ChainPlaces' /\ chain_'[p] = <<>>
         /\ \A q \in Pipes : chain_'[q] = chain_[q] \/ chain_'[q] = <<>>
         /\ source' = source /\ built' = built
         /\ initial_' \in [Pipes -> Value] /\ chain_' \in [Pipes -> Seq(Stages)]
         /\ \A q \in Pipes :
              /\ Unused(q) => initial_'[q] = <<>> /\ chain_'[q] = <<>>
              /\ ~Unused(q) => built[q][1] \in Pipes
              /\ initial_'[q] # <<>> =>
                   initial_'[q] = built[q] /\ Len(built[q]) = 1 /\ chain_'[q] = <<>>
              /\ chain_'[q] # <<>> =>
                   \/ source[q] = <<>>
                   \/ /\ Len(source[q]) = 1 /\ source[q][1] \in Pipes
                      /\ built[q] = source[q] \o chain_'[q]
<1>1. /\ source' = source /\ built' = built
      /\ initial_ \in [Pipes -> Value] /\ chain_ \in [Pipes -> Seq(Stages)]
      /\ <<>> \in Value /\ <<>> \in Seq(Stages)
      /\ \/ initial_' = initial_ /\ chain_' = [chain_ EXCEPT ![p] = <<>>]
         \/ /\ \E v \in {initial_[p], <<>>} : initial_' = [initial_ EXCEPT ![p] = v]
            /\ chain_' = chain_ /\ chain_[p] = <<>>
  BY EmptySeq DEF MoveOut, MovedFrom, DefaultValue, Inv, Types, Value
<1>2. /\ \A q \in Pipes : chain_'[q] = chain_[q] \/ chain_'[q] = <<>>
      /\ \A q \in Pipes : initial_'[q] = initial_[q] \/ initial_'[q] = <<>>
      /\ chain_'[p] = <<>>
  BY <1>1
<1>3. initial_' \in [Pipes -> Value] /\ chain_' \in [Pipes -> Seq(Stages)]
  BY <1>1
<1>4. ChainPlaces'
  <2>1. \A q \in Pipes : \A i \in 1..Len(chain_'[q]) :
          i \in 1..Len(chain_[q]) /\ chain_'[q][i] = chain_[q][i]
    BY <1>2, EmptySeq
  <2>2. used' = used
    BY <1>1 DEF used, UnusedStage
  <2> QED
    BY <2>1, <2>2 DEF Inv, PlaceInv, ChainPlaces
<1>5. ASSUME NEW q \in Pipes
      PROVE  /\ Unused(q) => initial_'[q] = <<>> /\ chain_'[q] = <<>>
             /\ ~Unused(q) => built[q][1] \in Pipes
             /\ initial_'[q] # <<>> =>
                  initial_'[q] = built[q] /\ Len(built[q]) = 1 /\ chain_'[q] = <<>>
             /\ chain_'[q] # <<>> =>
                  \/ source[q] = <<>>
                  \/ /\ Len(source[q]) = 1 /\ source[q][1] \in Pipes
                     /\ built[q] = source[q] \o chain_'[q]
  BY <1>2 DEF Inv, OrderInv
<1> QED
  BY <1>1, <1>2, <1>3, <1>4, <1>5

(* then() moves the chain, or the initial value, into the next pipeline.   *)
LEMMA ThenInv ==
  ASSUME Inv, NEW p \in Pipes, NEW s \in Stages, NEW q \in Pipes, Then(p, s, q)
  PROVE  Inv'
<1> DEFINE v == IF chain_[p] = <<>> THEN initial_[p] ELSE source[p]
           c == Append(chain_[p], s)
<1>1. /\ ~Unused(p) /\ Unused(q) /\ UnusedStage(s) /\ p # q
      /\ chain_' = [chain_ EXCEPT ![p] = <<>>, ![q] = c]
      /\ source' = [source EXCEPT ![q] = v]
      /\ \E w \in {initial_[p], <<>>} : initial_' = [initial_ EXCEPT ![p] = w]
      /\ built' = [built EXCEPT ![q] = Append(built[p], s)]
      /\ UNCHANGED <<accepting, queue, status, retired, job, threw>>
  BY DEF Then, MovedFrom, DefaultValue, poolVars, Unused
<1>2. /\ initial_ \in [Pipes -> Value] /\ source \in [Pipes -> Value]
      /\ chain_ \in [Pipes -> Seq(Stages)] /\ built \in [Pipes -> Value]
      /\ <<>> \in Value /\ <<>> \in Seq(Stages)
  BY EmptySeq DEF Inv, Types, Value
<1>3. /\ v \in Value
      /\ \/ v = <<>>
         \/ Len(v) = 1 /\ v[1] \in Pipes /\ built[p] = v \o chain_[p]
  BY <1>1, SubmissionFacts DEF Inv
<1> HIDE DEF v
<1>4. /\ c \in Seq(Stages) /\ c # <<>> /\ Len(c) = Len(chain_[p]) + 1 /\ c[Len(c)] = s
      /\ Len(chain_[p]) \in Nat /\ \A i \in 1..Len(chain_[p]) : c[i] = chain_[p][i]
  <2>1. chain_[p] \in Seq(Stages)
    BY <1>2
  <2> QED
    BY <2>1, AppendFacts
<1>5. /\ Append(built[p], s) \in Value /\ Append(built[p], s) # <<>>
      /\ Append(built[p], s)[1] = built[p][1] /\ built[p][1] \in Pipes
      /\ Len(Append(built[p], s)) = Len(built[p]) + 1
      /\ Append(built[p], s)[Len(built[p]) + 1] = s /\ Len(built[p]) \in Nat
      /\ DOMAIN Append(built[p], s) = 1..(Len(built[p]) + 1)
  <2>1. s \in Pipes \cup Stages /\ built[p] # <<>> /\ built[p] \in Seq(Pipes \cup Stages)
    BY <1>1, <1>2 DEF Unused, Value
  <2>2. built[p][1] \in Pipes
    BY <1>1 DEF Inv, OrderInv
  <2>3. Len(built[p]) \in Nat \ {0}
    BY <2>1, EmptySeq
  <2>4. Append(built[p], s)[1] = built[p][1]
    BY <2>1, <2>3, AppendFacts
  <2> QED
    BY <2>1, <2>2, <2>4, AppendFacts DEF Value
<1>6. built[p] = v \o chain_[p] => Append(built[p], s) = v \o c
  <2>1. v \in Seq(Pipes \cup Stages) /\ chain_[p] \in Seq(Pipes \cup Stages)
    BY <1>2, <1>3, SeqMonotonic DEF Value
  <2>2. s \in Pipes \cup Stages
    OBVIOUS
  <2>3. v \o Append(chain_[p], s) = Append(v \o chain_[p], s)
    BY <2>1, <2>2, AddOne
  <2> QED
    BY <2>3
<1> HIDE DEF c
<1>7. \A r \in Pipes : built'[r] = IF r = q THEN Append(built[p], s) ELSE built[r]
  BY <1>1, <1>2
<1>8. /\ work' = work /\ \A r \in Pipes : built'[r] = built[r] \/ Unused(r)
  BY <1>1, <1>7 DEF work
<1>9. PoolInv'
  BY <1>1 DEF Inv, PoolInv, Pool!TypeOK
<1>10. Types'
  <2>1. chain_' \in [Pipes -> Seq(Stages)]
    BY <1>1, <1>2, <1>4
  <2>3. initial_' \in [Pipes -> Value]
    BY <1>1, <1>2
  <2>2. source' \in [Pipes -> Value] /\ built' \in [Pipes -> Value]
    BY <1>1, <1>2, <1>3, <1>5
  <2> QED
    BY <1>1, <2>1, <2>2, <2>3 DEF Inv, Types
<1>11. JobInv'
  BY <1>1 DEF Inv, JobInv
<1>12. WorkPlaces'
  BY <1>8, WorkStays DEF Inv, PlaceInv
<1>13. s \in used' /\ s \notin used /\ used \subseteq used'
  <2>3. built'[q] = Append(built[p], s)
    BY <1>7
  <2>4. Len(built[p]) + 1 \in 1..(Len(built[p]) + 1)
    BY <1>5
  <2>1. Len(built[p]) + 1 \in DOMAIN built'[q] /\ built'[q][Len(built[p]) + 1] = s
    BY <1>5, <2>3, <2>4
  <2>2. used \subseteq used'
    BY <1>8, UsedStays
  <2> QED
    BY <1>1, <2>1, <2>2 DEF used, UnusedStage
<1>14. /\ \A r \in Pipes : \A i \in 1..Len(chain_[r]) : chain_[r][i] # s
       /\ \A t \in Tasks : \A i \in 1..Len(work[t]) : work[t][i] # s
  BY <1>13 DEF Inv, PlaceInv, ChainPlaces, WorkPlaces
<1>15. /\ chain_'[p] = <<>> /\ chain_'[q] = c
       /\ \A r \in Pipes \ {p, q} : chain_'[r] = chain_[r]
  BY <1>1, <1>2
<1>16. ASSUME NEW r \in Pipes, NEW i \in 1..Len(chain_'[r])
       PROVE  \/ r = q /\ i = Len(c) /\ chain_'[r][i] = s
              \/ r = q /\ i \in 1..Len(chain_[p]) /\ chain_'[r][i] = chain_[p][i]
              \/ r \notin {p, q} /\ i \in 1..Len(chain_[r]) /\ chain_'[r][i] = chain_[r][i]
  <2>1. CASE r = p
    BY <1>15, <2>1, EmptySeq
  <2>2. CASE r = q
    BY <1>4, <1>15, <2>2
  <2>3. CASE r \notin {p, q}
    BY <1>15, <2>3
  <2> QED
    BY <2>1, <2>2, <2>3
<1>17. ChainPlaces'
  <2>1. ASSUME NEW r \in Pipes, NEW i \in 1..Len(chain_'[r])
        PROVE  chain_'[r][i] \in used'
    BY <1>13, <1>16 DEF Inv, PlaceInv, ChainPlaces
  <2>2. ASSUME NEW r \in Pipes, NEW i \in 1..Len(chain_'[r]),
               NEW u \in Pipes, NEW j \in 1..Len(chain_'[u]), chain_'[r][i] = chain_'[u][j]
        PROVE  r = u /\ i = j
    <3>1. CASE chain_'[r][i] = s
      <4>1. r = q /\ i = Len(c)
        BY <1>14, <1>16, <3>1
      <4>2. u = q /\ j = Len(c)
        <5>1. chain_'[u][j] = s
          BY <2>2, <3>1
        <5> QED
          BY <1>14, <1>16, <5>1
      <4> QED
        BY <4>1, <4>2
    <3>2. CASE chain_'[r][i] # s
      <4>1. /\ r = q /\ i \in 1..Len(chain_[p]) /\ chain_'[r][i] = chain_[p][i]
            \/ /\ r \notin {p, q} /\ i \in 1..Len(chain_[r])
               /\ chain_'[r][i] = chain_[r][i]
        BY <1>16, <3>2
      <4> QED
        BY <1>16, <2>2, <3>2 DEF Inv, PlaceInv, ChainPlaces
    <3> QED
      BY <3>1, <3>2
  <2> QED
    BY <2>1, <2>2 DEF ChainPlaces
<1>18. Apart'
  BY <1>8, <1>14, <1>16 DEF Inv, PlaceInv, Apart
<1>19. OrderInv'
  <2>1. /\ \A r \in Pipes \ {p} : initial_'[r] = initial_[r]
        /\ initial_'[p] = initial_[p] \/ initial_'[p] = <<>>
        /\ \A r \in Pipes \ {q} : source'[r] = source[r] /\ built'[r] = built[r]
        /\ source'[q] = v /\ built'[q] = Append(built[p], s)
    BY <1>1, <1>2
  <2>2. initial_'[q] = <<>>
    BY <1>1, <2>1 DEF Inv, OrderInv
  <2>3. ASSUME NEW r \in Pipes
        PROVE  /\ built'[r] = <<>> => initial_'[r] = <<>> /\ chain_'[r] = <<>>
               /\ built'[r] # <<>> => built'[r][1] \in Pipes
               /\ initial_'[r] # <<>> =>
                    initial_'[r] = built'[r] /\ Len(built'[r]) = 1 /\ chain_'[r] = <<>>
               /\ chain_'[r] # <<>> =>
                    \/ source'[r] = <<>>
                    \/ /\ Len(source'[r]) = 1 /\ source'[r][1] \in Pipes
                       /\ built'[r] = source'[r] \o chain_'[r]
    <3>1. CASE r = q
      BY <1>3, <1>4, <1>5, <1>6, <1>15, <2>1, <2>2, <3>1
    <3>2. CASE r = p
      <4>1. built'[p] = built[p] /\ built[p] # <<>> /\ built[p][1] \in Pipes
        BY <1>1, <2>1 DEF Inv, OrderInv, Unused
      <4>2. initial_'[p] # <<>> => initial_'[p] = built[p] /\ Len(built[p]) = 1
        BY <2>1 DEF Inv, OrderInv
      <4> QED
        BY <1>15, <3>2, <4>1, <4>2
    <3>3. CASE r \notin {p, q}
      BY <1>15, <2>1, <3>3 DEF Inv, OrderInv, Unused
    <3> QED
      BY <3>1, <3>2, <3>3
  <2>4. \A t \in Tasks : job'[t].pipe # NoPipe =>
          /\ job'[t].expected # <<>> /\ job'[t].expected[1] \in Pipes
          /\ work'[t] = job'[t].expected \/ work'[t] \in Seq(Stages)
    BY <1>1, <1>8 DEF Inv, OrderInv
  <2> QED
    BY <2>3, <2>4 DEF OrderInv, Unused
<1> QED
  BY <1>9, <1>10, <1>11, <1>12, <1>17, <1>18, <1>19 DEF Inv, PlaceInv

-----------------------------------------------------------------------------
(* run() and the workers                                                   *)

(* run() hands the chain, or the initial value, to a task.                 *)
LEMMA RunInv ==
  ASSUME Inv, NEW p \in Pipes, NEW t \in Tasks, RunPipeline(p, t)
  PROVE  Inv'
<1> DEFINE v == IF chain_[p] = <<>> THEN initial_[p] ELSE source[p]
<1>1. /\ ~Unused(p) /\ Pool!Accept(t) /\ MoveOut(p) /\ threw' = threw
      /\ job' = [job EXCEPT ![t] = Submission(p)] /\ job \in [Tasks -> Job]
  BY DEF RunPipeline, Inv, Types
<1>2. /\ v \in Value /\ chain_[p] \in Seq(Stages) /\ built[p] \in Value
      /\ \/ v = <<>>
         \/ Len(v) = 1 /\ v[1] \in Pipes /\ built[p] = v \o chain_[p]
  BY <1>1, SubmissionFacts DEF Inv, Types
<1>3. Submission(p) = [pipe |-> p, rest |-> chain_[p], expected |-> built[p], value |-> v]
  BY DEF Submission
<1> HIDE DEF v
<1>4. /\ Submission(p) \in Job /\ Submission(p).pipe = p /\ Submission(p).value = v
      /\ Submission(p).rest = chain_[p] /\ Submission(p).expected = built[p]
  BY <1>2, <1>3 DEF Job
<1>5. PoolInv' /\ status[t] = "new" /\ status' = [status EXCEPT ![t] = "queued"]
      /\ status \in [Tasks -> Pool!Status]
  BY <1>1, AcceptFacts DEF Inv, PoolInv, Pool!TypeOK
<1>6. /\ ChainPlaces' /\ chain_'[p] = <<>>
      /\ \A q \in Pipes : chain_'[q] = chain_[q] \/ chain_'[q] = <<>>
      /\ source' = source /\ built' = built
      /\ initial_' \in [Pipes -> Value] /\ chain_' \in [Pipes -> Seq(Stages)]
  BY <1>1, MoveOutInv
<1>7. Types'
  BY <1>1, <1>4, <1>6 DEF Inv, Types
<1>8. /\ \A u \in Tasks \ {t} : job'[u] = job[u] /\ work'[u] = work[u]
      /\ work'[t] = v \o chain_[p] /\ job'[t] = Submission(p)
  BY <1>1, <1>4 DEF work
<1>9. JobInv'
  <2>1. t \notin threw /\ p # NoPipe
    BY <1>5 DEF Inv, JobInv
  <2> QED
    BY <1>1, <1>4, <1>5, <1>8, <2>1 DEF Inv, JobInv
<1>10. /\ work'[t] \in Value /\ Len(work'[t]) = Len(v) + Len(chain_[p])
       /\ Len(v) \in {0, 1} /\ (Len(v) = 1 => v[1] \in Pipes)
       /\ Len(chain_[p]) \in Nat
       /\ \A i \in 1..(Len(v) + Len(chain_[p])) :
            work'[t][i] = IF i <= Len(v) THEN v[i] ELSE chain_[p][i - Len(v)]
  <2>1. chain_[p] \in Value
    BY <1>2, SeqMonotonic DEF Value
  <2> QED
    BY <1>2, <1>8, <2>1, ConcatProperties, EmptySeq, LenProperties DEF Value
<1>11. \A i \in 1..Len(work'[t]) :
         \/ work'[t][i] \in Pipes
         \/ i - Len(v) \in 1..Len(chain_[p]) /\ work'[t][i] = chain_[p][i - Len(v)]
  <2> SUFFICES ASSUME NEW i \in 1..Len(work'[t])
               PROVE  \/ work'[t][i] \in Pipes
                      \/ /\ i - Len(v) \in 1..Len(chain_[p])
                         /\ work'[t][i] = chain_[p][i - Len(v)]
    OBVIOUS
  <2>1. CASE i <= Len(v)
    <3>1. i = 1 /\ Len(v) = 1
      BY <1>10, <2>1
    <3>2. work'[t][i] = v[i]
      BY <1>10, <2>1
    <3> QED
      BY <1>10, <3>1, <3>2
  <2>2. CASE ~(i <= Len(v))
    <3>1. i - Len(v) \in 1..Len(chain_[p])
      BY <1>10, <2>2
    <3>2. work'[t][i] = chain_[p][i - Len(v)]
      BY <1>10, <2>2
    <3> QED
      BY <3>1, <3>2
  <2> QED
    BY <2>1, <2>2
<1>12. used' = used
  BY <1>6 DEF used, UnusedStage
<1>13. WorkPlaces'
  <2>1. ASSUME NEW u \in Tasks, NEW i \in 1..Len(work'[u]), work'[u][i] \in Stages
        PROVE  work'[u][i] \in used'
    <3>1. CASE u = t
      <4>1. PICK k \in 1..Len(chain_[p]) : work'[t][i] = chain_[p][k]
        BY <1>11, <2>1, <3>1
      <4> QED
        BY <1>12, <3>1, <4>1 DEF Inv, PlaceInv, ChainPlaces
    <3>2. CASE u # t
      BY <1>8, <1>12, <2>1, <3>2 DEF Inv, PlaceInv, WorkPlaces
    <3> QED
      BY <3>1, <3>2
  <2>2. ASSUME NEW u \in Tasks, NEW i \in 1..Len(work'[u]),
               NEW w \in Tasks, NEW j \in 1..Len(work'[w]),
               work'[u][i] = work'[w][j], work'[u][i] \in Stages
        PROVE  u = w /\ i = j
    <3>1. CASE u = t /\ w = t
      <4>1. /\ i - Len(v) \in 1..Len(chain_[p]) /\ j - Len(v) \in 1..Len(chain_[p])
            /\ chain_[p][i - Len(v)] = chain_[p][j - Len(v)]
        BY <1>11, <2>2, <3>1
      <4>2. i - Len(v) = j - Len(v)
        BY <4>1 DEF Inv, PlaceInv, ChainPlaces
      <4> QED
        BY <1>10, <3>1, <4>2
    <3>2. CASE u = t /\ w # t
      <4>1. PICK k \in 1..Len(chain_[p]) : work'[t][i] = chain_[p][k]
        BY <1>11, <2>2, <3>2
      <4>2. work'[w] = work[w]
        BY <1>8, <3>2
      <4> QED
        BY <2>2, <3>2, <4>1, <4>2 DEF Inv, PlaceInv, Apart
    <3>3. CASE u # t /\ w = t
      <4>1. PICK k \in 1..Len(chain_[p]) : work'[t][j] = chain_[p][k]
        BY <1>11, <2>2, <3>3
      <4>2. work'[u] = work[u]
        BY <1>8, <3>3
      <4> QED
        BY <2>2, <3>3, <4>1, <4>2 DEF Inv, PlaceInv, Apart
    <3>4. CASE u # t /\ w # t
      BY <1>8, <2>2, <3>4 DEF Inv, PlaceInv, WorkPlaces
    <3> QED
      BY <3>1, <3>2, <3>3, <3>4
  <2> QED
    BY <2>1, <2>2 DEF WorkPlaces
<1>14. Apart'
  <2>1. ASSUME NEW q \in Pipes, NEW i \in 1..Len(chain_'[q])
        PROVE  q # p /\ i \in 1..Len(chain_[q]) /\ chain_'[q][i] = chain_[q][i]
    BY <1>6, <2>1, EmptySeq
  <2>2. ASSUME NEW q \in Pipes, NEW u \in Tasks,
               NEW i \in 1..Len(chain_'[q]), NEW j \in 1..Len(work'[u])
        PROVE  chain_'[q][i] # work'[u][j]
    <3>1. CASE u = t
      <4>1. chain_[q][i] \in Stages
        BY <2>1 DEF Inv, Types
      <4> QED
        BY <1>11, <2>1, <3>1, <4>1 DEF Inv, PlaceInv, ChainPlaces
    <3>2. CASE u # t
      BY <1>8, <2>1, <3>2 DEF Inv, PlaceInv, Apart
    <3> QED
      BY <3>1, <3>2
  <2> QED
    BY <2>2 DEF Apart
<1>15. OrderInv'
  <2>1. built[p] # <<>> /\ built[p][1] \in Pipes
    BY <1>1 DEF Inv, OrderInv, Unused
  <2>2. work'[t] = built[p] \/ work'[t] \in Seq(Stages)
    <3>1. v = <<>> => v \o chain_[p] = chain_[p]
      BY <1>2, ConcatEmptySeq
    <3> QED
      BY <1>2, <1>8, <3>1
  <2>3. ASSUME NEW u \in Tasks, job'[u].pipe # NoPipe
        PROVE  /\ job'[u].expected # <<>> /\ job'[u].expected[1] \in Pipes
               /\ work'[u] = job'[u].expected \/ work'[u] \in Seq(Stages)
    <3>1. CASE u = t
      BY <1>4, <1>8, <2>1, <2>2, <3>1
    <3>2. CASE u # t
      BY <1>8, <2>3, <3>2 DEF Inv, OrderInv
    <3> QED
      BY <3>1, <3>2
  <2>4. \A q \in Pipes :
          /\ Unused(q) => initial_'[q] = <<>> /\ chain_'[q] = <<>>
          /\ ~Unused(q) => built[q][1] \in Pipes
          /\ initial_'[q] # <<>> =>
               initial_'[q] = built[q] /\ Len(built[q]) = 1 /\ chain_'[q] = <<>>
          /\ chain_'[q] # <<>> =>
               \/ source[q] = <<>>
               \/ /\ Len(source[q]) = 1 /\ source[q][1] \in Pipes
                  /\ built[q] = source[q] \o chain_'[q]
    BY <1>1, MoveOutInv
  <2> QED
    BY <1>6, <2>3, <2>4 DEF OrderInv, Unused
<1> QED
  BY <1>5, <1>7, <1>9, <1>6, <1>13, <1>14, <1>15 DEF Inv, PlaceInv

(* What the pool does to a task without touching the jobs.                 *)
LEMMA JobsStay ==
  ASSUME Inv, PoolInv', job' = job, Types', JobInv',
         \/ UNCHANGED pipeVars
         \/ \E p \in Pipes : MoveOut(p)
  PROVE  Inv'
<1>1. work' = work
  BY DEF work
<1>2. CASE UNCHANGED pipeVars
  <2>1. UNCHANGED <<initial_, chain_, source, built>>
    BY <1>2 DEF pipeVars
  <2>2. used' = used
    BY <2>1 DEF used, UnusedStage
  <2>3. PlaceInv'
    BY <1>1, <2>1, <2>2 DEF Inv, PlaceInv, ChainPlaces, WorkPlaces, Apart
  <2>4. OrderInv'
    BY <1>1, <2>1 DEF Inv, OrderInv, Unused
  <2> QED
    BY <2>3, <2>4 DEF Inv
<1>3. ASSUME NEW p \in Pipes, MoveOut(p) PROVE Inv'
  <2>1. /\ ChainPlaces' /\ source' = source /\ built' = built
        /\ \A q \in Pipes : chain_'[q] = chain_[q] \/ chain_'[q] = <<>>
        /\ \A q \in Pipes :
             /\ Unused(q) => initial_'[q] = <<>> /\ chain_'[q] = <<>>
             /\ ~Unused(q) => built[q][1] \in Pipes
             /\ initial_'[q] # <<>> =>
                  initial_'[q] = built[q] /\ Len(built[q]) = 1 /\ chain_'[q] = <<>>
             /\ chain_'[q] # <<>> =>
                  \/ source[q] = <<>>
                  \/ /\ Len(source[q]) = 1 /\ source[q][1] \in Pipes
                     /\ built[q] = source[q] \o chain_'[q]
    BY <1>3, MoveOutInv
  <2>2. \A q \in Pipes : built'[q] = built[q] \/ Unused(q)
    BY <2>1
  <2>3. WorkPlaces' /\ Apart'
    BY <1>1, <2>1, <2>2, DropPlaces, WorkStays DEF Inv, PlaceInv
  <2>4. OrderInv'
    BY <1>1, <2>1 DEF Inv, OrderInv, Unused
  <2> QED
    BY <2>1, <2>3, <2>4 DEF Inv, PlaceInv
<1> QED
  BY <1>2, <1>3

(* The task of a run() applies its next stage.                             *)
LEMMA StageInv ==
  ASSUME Inv, NEW t \in Tasks, StageReturns(t)
  PROVE  Inv'
<1> DEFINE v == job[t].value
           r == job[t].rest
<1>1. /\ status[t] = "running" /\ r # <<>> /\ job \in [Tasks -> Job]
      /\ job' = [job EXCEPT ![t].value = Append(v, Head(r)), ![t].rest = Tail(r)]
      /\ UNCHANGED <<accepting, queue, status, retired, pipeVars, threw>>
  BY DEF StageReturns, poolVars, Inv, Types
<1>2. /\ v \in Value /\ r \in Seq(Stages) /\ r \in Value
      /\ job[t].pipe \in Pipes \cup {NoPipe} /\ job[t].expected \in Value
  <2>1. job[t] \in Job
    BY <1>1
  <2> QED
    BY <2>1, SeqMonotonic DEF Job, Value
<1>3. /\ job'[t] = [job[t] EXCEPT !.value = Append(v, Head(r)), !.rest = Tail(r)]
      /\ \A u \in Tasks \ {t} : job'[u] = job[u]
      /\ job' = [job EXCEPT ![t] = job'[t]]
  BY <1>1
<1>4. /\ Append(v, Head(r)) \in Value /\ Tail(r) \in Seq(Stages)
      /\ Append(v, Head(r)) \o Tail(r) = v \o r
  <2>1. v \in Seq(Pipes \cup Stages) /\ r \in Seq(Pipes \cup Stages)
    BY <1>2 DEF Value
  <2>2. Head(r) \in Pipes \cup Stages /\ Tail(r) \in Seq(Stages)
    BY <1>1, <1>2, <2>1, HeadTailProperties
  <2> HIDE DEF v, r
  <2>3. Append(v, Head(r)) \in Value
    BY <2>1, <2>2, AppendFacts DEF Value
  <2>4. Append(v, Head(r)) \o Tail(r) = v \o r
    BY <1>1, <2>1, MoveOn
  <2> QED
    BY <2>2, <2>3, <2>4
<1>5. /\ job'[t] \in Job /\ job'[t].pipe = job[t].pipe /\ job'[t].expected = job[t].expected
      /\ job'[t].value = Append(v, Head(r)) /\ job'[t].rest = Tail(r)
  BY <1>1, <1>2, <1>3, <1>4 DEF Job
<1>6. work' = work
  <2>1. \A u \in Tasks : work'[u] = work[u]
    BY <1>3, <1>4, <1>5 DEF work
  <2> QED
    BY <2>1 DEF work
<1>7. PoolInv'
  BY <1>1 DEF Inv, PoolInv, Pool!TypeOK
<1>8. Types'
  BY <1>1, <1>3, <1>5 DEF Inv, Types, pipeVars
<1>9. JobInv'
  <2>1. t \notin threw /\ job[t].pipe # NoPipe
    BY <1>1 DEF Inv, JobInv
  <2> QED
    BY <1>1, <1>3, <1>5, <2>1 DEF Inv, JobInv
<1>10. PlaceInv'
  <2>1. used' = used
    BY <1>1 DEF used, UnusedStage, pipeVars
  <2> QED
    BY <1>1, <1>6, <2>1 DEF Inv, PlaceInv, ChainPlaces, WorkPlaces, Apart, pipeVars
<1>11. OrderInv'
  <2>1. \A u \in Tasks : job'[u].pipe = job[u].pipe /\ job'[u].expected = job[u].expected
    BY <1>3, <1>5
  <2> QED
    BY <1>1, <1>6, <2>1 DEF Inv, OrderInv, Unused, pipeVars
<1> QED
  BY <1>7, <1>8, <1>9, <1>10, <1>11 DEF Inv

(* The task of a run() ends.                                               *)
LEMMA EndInv ==
  ASSUME Inv, NEW t \in Tasks, StageThrows(t) \/ ChainReturns(t)
  PROVE  Inv'
<1>1. /\ Pool!Settle(t) /\ UNCHANGED pipeVars /\ job' = job
      /\ \/ threw' = threw \cup {t} /\ job[t].rest # <<>>
         \/ threw' = threw /\ job[t].rest = <<>>
  BY DEF StageThrows, ChainReturns
<1>2. PoolInv' /\ status[t] = "running" /\ status' = [status EXCEPT ![t] = "settled"]
      /\ status \in [Tasks -> Pool!Status]
  BY <1>1, SettleFacts DEF Inv, PoolInv, Pool!TypeOK
<1>3. Types'
  BY <1>1 DEF Inv, Types, pipeVars
<1>4. JobInv'
  <2>1. t \notin threw
    BY <1>2 DEF Inv, JobInv
  <2> QED
    BY <1>1, <1>2, <2>1 DEF Inv, JobInv
<1> QED
  BY <1>1, <1>2, <1>3, <1>4, JobsStay

(* A task is refused or started, or the pool closes.                       *)
LEMMA PoolStepInv ==
  ASSUME Inv,
         \/ TakeNext \/ PoolCloses \/ UNCHANGED vars
         \/ \E p \in Pipes, t \in Tasks : RunThrows(p, t)
  PROVE  Inv'
<1>1. status \in [Tasks -> Pool!Status]
  BY DEF Inv, PoolInv, Pool!TypeOK
<1>2. CASE TakeNext
  <2>1. /\ PoolInv' /\ \E t \in Tasks : /\ status[t] = "queued"
                                        /\ status' = [status EXCEPT ![t] = "running"]
    BY <1>2, StartFacts DEF TakeNext, Inv
  <2>2. UNCHANGED <<pipeVars, job, threw>>
    BY <1>2 DEF TakeNext
  <2>3. Types' /\ JobInv'
    BY <1>1, <2>1, <2>2 DEF Inv, Types, JobInv, pipeVars
  <2> QED
    BY <2>1, <2>2, <2>3, JobsStay
<1>3. CASE PoolCloses
  <2>1. UNCHANGED <<queue, status>> /\ accepting' \in BOOLEAN /\ retired' \in BOOLEAN
    BY <1>3 DEF PoolCloses, Pool!Close, Pool!Retire, Inv, PoolInv, Pool!TypeOK
  <2>2. UNCHANGED <<pipeVars, job, threw>>
    BY <1>3 DEF PoolCloses
  <2>3. PoolInv'
    BY <2>1, QueueStays DEF Inv
  <2>4. Types' /\ JobInv'
    BY <2>1, <2>2 DEF Inv, Types, JobInv, pipeVars
  <2> QED
    BY <2>2, <2>3, <2>4, JobsStay
<1>4. CASE UNCHANGED vars
  <2>1. UNCHANGED <<accepting, queue, status, retired, pipeVars, job, threw>>
    BY <1>4 DEF vars, poolVars
  <2>2. PoolInv' /\ Types' /\ JobInv'
    BY <2>1 DEF Inv, PoolInv, Pool!TypeOK, Types, JobInv, pipeVars
  <2> QED
    BY <2>1, <2>2, JobsStay
<1>5. ASSUME NEW p \in Pipes, NEW t \in Tasks, RunThrows(p, t) PROVE Inv'
  <2>1. Pool!Refuse(t) /\ MoveOut(p) /\ UNCHANGED <<job, threw>>
    BY <1>5 DEF RunThrows
  <2>2. PoolInv' /\ status[t] = "new" /\ status' = [status EXCEPT ![t] = "refused"]
    BY <2>1, RefuseFacts DEF Inv
  <2>3. JobInv'
    BY <1>1, <2>1, <2>2 DEF Inv, JobInv
  <2>4. /\ source' = source /\ built' = built
        /\ initial_' \in [Pipes -> Value] /\ chain_' \in [Pipes -> Seq(Stages)]
    BY <2>1, MoveOutInv
  <2>5. Types'
    BY <2>1, <2>4 DEF Inv, Types
  <2> QED
    BY <2>1, <2>2, <2>3, <2>5, JobsStay
<1> QED
  BY <1>2, <1>3, <1>4, <1>5

(* What has been applied is where it is in the work.                       *)
LEMMA AppliedIsWork ==
  ASSUME Types, NEW t \in Tasks, NEW i \in DOMAIN job[t].value
  PROVE  i \in 1..Len(work[t]) /\ work[t][i] = job[t].value[i]
<1> DEFINE v == job[t].value
<1>1. /\ v \in Value /\ Len(v) \in Nat /\ Len(job[t].rest) \in Nat
      /\ Len(work[t]) = Len(v) + Len(job[t].rest)
      /\ \A k \in 1..Len(v) : work[t][k] = v[k]
  BY WorkFacts
<1>2. i \in DOMAIN v
  OBVIOUS
<1> HIDE DEF v
<1>3. DOMAIN v = 1..Len(v)
  BY <1>1, LenProperties DEF Value
<1>4. i \in 1..Len(v) /\ i \in 1..Len(work[t])
  BY <1>1, <1>2, <1>3
<1>5. work[t][i] = v[i]
  BY <1>1, <1>4
<1> QED
  BY <1>4, <1>5 DEF v

(* Every step keeps the invariant.                                         *)
LEMMA NextInv == Inv /\ [Next]_vars => Inv'
<1> SUFFICES ASSUME Inv, [Next]_vars PROVE Inv'
  OBVIOUS
<1>1. ASSUME NEW p \in Pipes, Create(p) PROVE Inv'
  BY <1>1, CreateInv
<1>2. ASSUME NEW p \in Pipes, NEW s \in Stages, NEW q \in Pipes, Then(p, s, q) PROVE Inv'
  BY <1>2, ThenInv
<1>3. ASSUME NEW p \in Pipes, NEW t \in Tasks, RunPipeline(p, t) \/ RunThrows(p, t) PROVE Inv'
  BY <1>3, RunInv, PoolStepInv
<1>4. ASSUME NEW t \in Tasks, StageReturns(t) \/ StageThrows(t) \/ ChainReturns(t) PROVE Inv'
  BY <1>4, StageInv, EndInv
<1>5. CASE TakeNext \/ PoolCloses \/ Terminated \/ UNCHANGED vars
  BY <1>5, PoolStepInv DEF Terminated
<1> QED
  BY <1>1, <1>2, <1>3, <1>4, <1>5 DEF Next

(* Every state satisfies the inductive invariant.                          *)
THEOREM Invariance == SafeSpec => []Inv
BY InitInv, NextInv, PTL DEF SafeSpec

-----------------------------------------------------------------------------
(* What follows                                                            *)

(* The variables keep their types, a job belongs to a task of the pool,    *)
(* and a stage waits in one chain only, once.                              *)
THEOREM TypeCorrect == SafeSpec => []TypeOK
<1>1. Inv => TypeOK
  <2> SUFFICES ASSUME Inv PROVE TypeOK
    OBVIOUS
  <2>1. \A t \in Tasks : status[t] \in {"new", "refused"} <=> job[t] = NoJob
    BY DEF Inv, JobInv, NoJob
  <2>2. ASSUME NEW p \in Pipes, NEW q \in Pipes, p # q,
               NEW i \in DOMAIN chain_[p], NEW j \in DOMAIN chain_[q]
        PROVE  chain_[p][i] # chain_[q][j]
    <3>1. i \in 1..Len(chain_[p]) /\ j \in 1..Len(chain_[q])
      BY LenProperties DEF Inv, Types
    <3> QED
      BY <2>2, <3>1 DEF Inv, PlaceInv, ChainPlaces
  <2> QED
    BY <2>1, <2>2 DEF TypeOK, Inv, Types, PoolInv
<1> QED
  BY <1>1, Invariance, PTL

(* A run() applies the stages in the order of the then() calls, none       *)
(* behind one that threw, and no stage function is called by two runs or   *)
(* twice, however then() and run() were called on moved-from pipelines.    *)
THEOREM StagesInOrder == SafeSpec => []RunsApplyStages
<1>1. Inv => NoStageRunsTwice
  <2> SUFFICES ASSUME Inv, NEW t \in Tasks, NEW u \in Tasks,
                      NEW i \in DOMAIN job[t].value, NEW j \in DOMAIN job[u].value,
                      job[t].value[i] = job[u].value[j], job[t].value[i] \in Stages
               PROVE  t = u /\ i = j
    BY DEF NoStageRunsTwice
  <2>1. i \in 1..Len(work[t]) /\ work[t][i] = job[t].value[i]
    BY AppliedIsWork DEF Inv
  <2>2. j \in 1..Len(work[u]) /\ work[u][j] = job[u].value[j]
    BY AppliedIsWork DEF Inv
  <2> QED
    BY <2>1, <2>2 DEF Inv, PlaceInv, WorkPlaces
<1>2. Inv => ResultAsBuilt
  <2> SUFFICES ASSUME Inv, NEW t \in Tasks, Settled(t), job[t].value # <<>>,
                      job[t].value[1] = job[t].expected[1]
               PROVE  /\ job[t].value = SubSeq(job[t].expected, 1, Len(job[t].value))
                      /\ t \in threw <=> job[t].value # job[t].expected
    BY DEF ResultAsBuilt
  <2> DEFINE v == job[t].value
             r == job[t].rest
  <2>1. /\ v \in Value /\ r \in Seq(Stages) /\ r \in Value /\ work[t] = v \o r
        /\ Len(v) \in Nat \ {0} /\ Len(r) \in Nat /\ Len(work[t]) = Len(v) + Len(r)
        /\ work[t] \in Value /\ \A i \in 1..Len(v) : work[t][i] = v[i]
    <3>1. r \in Value
      BY WorkFacts, SeqMonotonic DEF Inv, Value
    <3> QED
      BY <3>1, WorkFacts, EmptySeq DEF Inv, Value
  <2>2. job[t].pipe # NoPipe
    BY DEF Inv, JobInv, Settled
  <2>3. work[t] = job[t].expected
    <3>0. 1 \in 1..Len(v) /\ 1 \in 1..Len(work[t])
      <4> HIDE DEF v, r
      <4> QED
        BY <2>1
    <3>1. work[t][1] \in Pipes
      <4>1. work[t][1] = job[t].expected[1]
        BY <2>1, <3>0
      <4> QED
        BY <2>2, <4>1 DEF Inv, OrderInv
    <3>2. work[t] \in Seq(Stages) => work[t][1] \in Stages
      BY <3>0, ElementOfSeq
    <3> QED
      BY <2>2, <3>1, <3>2 DEF Inv, OrderInv
  <2>4. v = SubSeq(work[t], 1, Len(v))
    <3>1. v \in Seq(Pipes \cup Stages) /\ work[t] \in Seq(Pipes \cup Stages)
      BY <2>1 DEF Value
    <3> DEFINE w == work[t]
               n == Len(v)
    <3>2. w \in Seq(Pipes \cup Stages) /\ n \in Int /\ 1 \in Int /\ 1 <= n
          /\ \A i \in 1..n : w[i] = v[i]
      <4>1. Len(v) \in Nat \ {0} /\ \A i \in 1..Len(v) : work[t][i] = v[i]
        BY <2>1
      <4> HIDE DEF v
      <4> QED
        BY <3>1, <4>1
    <3> HIDE DEF v, w
    <3>3. \A i \in 1..n : w[i] \in Pipes \cup Stages
      BY <3>1, <3>2, ElementOfSeq
    <3> HIDE DEF n
    <3>4. /\ SubSeq(w, 1, n) \in Seq(Pipes \cup Stages)
          /\ Len(SubSeq(w, 1, n)) = IF 1 <= n THEN n - 1 + 1 ELSE 0
          /\ \A i \in 1..(n - 1 + 1) : SubSeq(w, 1, n)[i] = w[1 + i - 1]
      BY <3>2, <3>3, SubSeqProperties
    <3>5. Len(SubSeq(w, 1, n)) = n /\ \A i \in 1..n : SubSeq(w, 1, n)[i] = v[i]
      BY <3>2, <3>4
    <3>6. v = SubSeq(w, 1, n)
      BY <3>1, <3>4, <3>5, SeqEqual DEF n
    <3> QED
      BY <3>6 DEF w, n
  <2>5. t \in threw <=> r # <<>>
    BY DEF Inv, JobInv, Settled
  <2>6. v \o r = v <=> r = <<>>
    <3>1. v \in Seq(Pipes \cup Stages) /\ r \in Seq(Pipes \cup Stages)
      BY <2>1 DEF Value
    <3> HIDE DEF v, r
    <3> QED
      BY <3>1, ConcatEqualIffEmpty
  <2> QED
    BY <2>1, <2>3, <2>4, <2>5, <2>6
<1> QED
  BY <1>1, <1>2, Invariance, PTL DEF RunsApplyStages

=============================================================================
