--------------------------- MODULE CoroTaskProofs ---------------------------
(***************************************************************************)
(* Proofs about CoroTask, for every number of objects, coroutines, tasks   *)
(* and workers.  Inv is the inductive invariant: a coroutine is lazy, or   *)
(* done, or in the hands of one thread, or of one resumption to come.      *)
(***************************************************************************)
EXTENDS CoroTask, TLAPS, FiniteSetTheorems

inPC == {"body", "finalSuspend", "awaitSuspend", "signal"}

(* Whose frame each thread is in.                                          *)
at == [x \in Threads |-> IF InFrame(x) THEN On(x) ELSE NoCoro]

(* Which coroutine each task and each timer is about to resume.            *)
due ==
  [y \in Tasks \cup Coros |->
     IF y \in Tasks
     THEN IF pc[y] = "idle" /\ status[y] \in {"queued", "running"} THEN resumes[y]
          ELSE NoCoro
     ELSE IF y \in armed THEN y ELSE NoCoro]

outcome == [c \in Coros |-> IF result_[c] = "moved" THEN "value" ELSE result_[c]]

(* The queue of the pool holds queued tasks, each once.                    *)
PoolInv ==
  /\ Pool!TypeOK
  /\ \A i \in 1..Len(queue) : status[queue[i]] = "queued"
  /\ \A i, j \in 1..Len(queue) : queue[i] = queue[j] => i = j

Types ==
  /\ handle_ \in [Objects -> Coros \cup {NoCoro}]
  /\ frame \in [Coros -> FrameState]
  /\ result_ \in [Coros -> Result] /\ got \in [Coros -> Result]
  /\ signal \in [Coros -> Result \cup {"pending"}]
  /\ external_promise_ \subseteq Coros /\ armed \subseteq Coros
  /\ away \subseteq Coros /\ getting \subseteq Objects
  /\ pc \in [Threads -> PC]
  /\ resumes \in [Tasks -> Coros \cup {NoCoro}]
  /\ io_ctx \in {"running", "stopped"}

(* Where each kind of thread may be, and that it has a coroutine there.    *)
ThreadInv ==
  /\ \A o \in Objects : /\ pc[o] # "returning"
                        /\ pc[o] # "idle" => handle_[o] \in Coros
  /\ \A t \in Tasks : /\ pc[t] \in inPC \cup {"idle", "returning"}
                      /\ pc[t] # "idle" => status[t] = "running"
                      /\ status[t] \in {"queued", "running"} => resumes[t] \in Coros
  /\ \A c \in Coros : pc[c] \in inPC \cup {"idle"}

(* A live frame has one owner.                                             *)
OwnerInv ==
  /\ \A o \in Objects : handle_[o] # NoCoro =>
       frame[handle_[o]] \notin {"none", "destroyed"}
  /\ \A o, p \in Objects : handle_[o] = handle_[p] /\ o # p => handle_[o] = NoCoro
  /\ \A c \in Coros : frame[c] \notin {"none", "destroyed"} =>
       \E o \in Objects : handle_[o] = c
  /\ \A c \in away : frame[c] # "none"

(* A thread is in a frame that is active, alone, and unless it is the      *)
(* owner's the coroutine is away.                                          *)
AtInv ==
  /\ \A x \in Threads : at[x] # NoCoro =>
       /\ frame[at[x]] = IF pc[x] \in {"body", "finalSuspend"} THEN "running" ELSE "final"
       /\ x \notin Objects => at[x] \in away
  /\ \A x, y \in Threads : at[x] = at[y] /\ x # y => at[x] = NoCoro
  /\ \A c \in Coros : frame[c] = "running" => \E x \in Threads : at[x] = c

(* A resumption to come is that of a suspended coroutine that is away, and *)
(* the only one.                                                           *)
DueInv ==
  /\ \A y \in Tasks \cup Coros : due[y] # NoCoro =>
       frame[due[y]] = "suspended" /\ due[y] \in away
  /\ \A x, y \in Tasks \cup Coros : due[x] = due[y] /\ x # y => due[x] = NoCoro
  /\ \A c \in away : frame[c] = "suspended" => \E y \in Tasks \cup Coros : due[y] = c

(* What a get() that has begun may rely on.                                *)
GetInv ==
  /\ \A o \in getting :
       /\ pc[o] # "idle" /\ handle_[o] \in external_promise_
       /\ got[handle_[o]] = "none"
  /\ \A o \in Objects : pc[o] \in {"attached", "blocked"} => o \in getting
  /\ \A o \in Objects : pc[o] = "attached" =>
       frame[handle_[o]] = "suspended" /\ handle_[o] \notin away

(* The promise is set by the last access to the frame, with the result.    *)
SignalInv ==
  /\ \A c \in external_promise_ : signal[c] # "pending" =>
       /\ frame[c] \in {"final", "destroyed"} /\ \A x \in Threads : at[x] # c
       /\ frame[c] = "final" => signal[c] = outcome[c]
  /\ \A c \in external_promise_ : got[c] = "none" /\ frame[c] # "destroyed" =>
       \E o \in getting : handle_[o] = c
  /\ \A x \in Threads : pc[x] = "signal" => at[x] \in external_promise_

(* The result is there when the body has ended, and taken once.            *)
ResultInv ==
  /\ \A c \in Coros :
       /\ frame[c] \in {"none", "suspended"} => result_[c] = "none"
       /\ frame[c] = "final" => result_[c] # "none"
       /\ got[c] # "none" => frame[c] \in {"final", "destroyed"}
       /\ result_[c] = "moved" /\ got[c] = "none" /\ frame[c] = "final" =>
            \E o \in getting : handle_[o] = c
  /\ \A x \in Threads : at[x] # NoCoro =>
       IF pc[x] = "body" THEN result_[at[x]] = "none"
       ELSE result_[at[x]] \in {"value", "exception"}

Inv ==
  /\ PoolInv /\ Types /\ ThreadInv /\ OwnerInv /\ AtInv /\ DueInv
  /\ GetInv /\ SignalInv /\ ResultInv

USE ThreadsAssumption, ThreadKindsAssumption

-----------------------------------------------------------------------------
(* The pool                                                                *)

(* submit() accepts a task.                                                *)
LEMMA AcceptFacts ==
  ASSUME PoolInv, NEW t \in Tasks, Pool!Accept(t)
  PROVE  PoolInv' /\ status[t] = "new" /\ status' = [status EXCEPT ![t] = "queued"]
<1>1. /\ status[t] = "new" /\ status' = [status EXCEPT ![t] = "queued"]
      /\ queue' = Append(queue, t) /\ UNCHANGED <<accepting, retired>>
  BY DEF Pool!Accept
<1>2. queue \in Seq(Tasks) /\ status \in [Tasks -> Pool!Status]
  BY DEF PoolInv, Pool!TypeOK
<1>3. Pool!TypeOK'
  BY <1>1, <1>2 DEF PoolInv, Pool!TypeOK, Pool!Status
<1>4. /\ Len(queue') = Len(queue) + 1 /\ queue'[Len(queue) + 1] = t
      /\ \A i \in 1..Len(queue) : queue'[i] = queue[i] /\ queue[i] # t /\ queue[i] \in Tasks
  BY <1>1, <1>2 DEF PoolInv
<1>5. Len(queue) \in Nat
  BY <1>2
<1>6. \A i \in 1..Len(queue') : status'[queue'[i]] = "queued"
  BY <1>1, <1>2, <1>4, <1>5 DEF PoolInv
<1>7. \A i, j \in 1..Len(queue') : queue'[i] = queue'[j] => i = j
  BY <1>4, <1>5 DEF PoolInv
<1> QED
  BY <1>1, <1>3, <1>6, <1>7 DEF PoolInv

(* A worker takes the oldest task.                                         *)
LEMMA StartFacts ==
  ASSUME PoolInv, Pool!Start
  PROVE  /\ PoolInv'
         /\ \E t \in Tasks : status[t] = "queued" /\ status' = [status EXCEPT ![t] = "running"]
<1>1. /\ queue # <<>> /\ status' = [status EXCEPT ![Head(queue)] = "running"]
      /\ queue' = Tail(queue) /\ UNCHANGED <<accepting, retired>>
  BY DEF Pool!Start
<1>2. queue \in Seq(Tasks) /\ status \in [Tasks -> Pool!Status]
  BY DEF PoolInv, Pool!TypeOK
<1>3. /\ Len(queue) \in Nat \ {0} /\ Len(queue') = Len(queue) - 1
      /\ Head(queue) = queue[1] /\ queue[1] \in Tasks /\ queue' \in Seq(Tasks)
      /\ \A i \in 1..Len(queue') : queue'[i] = queue[i + 1]
  BY <1>1, <1>2
<1>4. status[queue[1]] = "queued"
  BY <1>3 DEF PoolInv
<1>5. Pool!TypeOK'
  BY <1>1, <1>2, <1>3 DEF PoolInv, Pool!TypeOK, Pool!Status
<1>6. \A i \in 1..Len(queue') :
        /\ i + 1 \in 1..Len(queue) /\ queue'[i] = queue[i + 1]
        /\ queue[i + 1] \in Tasks /\ queue[i + 1] # queue[1]
  BY <1>2, <1>3 DEF PoolInv
<1>7. \A i \in 1..Len(queue') : status'[queue'[i]] = "queued"
  BY <1>1, <1>2, <1>3, <1>6 DEF PoolInv
<1>8. \A i, j \in 1..Len(queue') : queue'[i] = queue'[j] => i = j
  BY <1>3, <1>6 DEF PoolInv
<1> QED
  BY <1>1, <1>3, <1>4, <1>5, <1>7, <1>8 DEF PoolInv

(* The queue is left alone.                                                *)
LEMMA QueueStays ==
  ASSUME PoolInv, UNCHANGED queue, accepting' \in BOOLEAN, retired' \in BOOLEAN,
         \/ UNCHANGED status
         \/ \E t \in Tasks : \E s \in Pool!Status :
              status[t] # "queued" /\ status' = [status EXCEPT ![t] = s]
  PROVE  PoolInv'
<1>1. queue \in Seq(Tasks) /\ status \in [Tasks -> Pool!Status]
  BY DEF PoolInv, Pool!TypeOK
<1>2. status' \in [Tasks -> Pool!Status]
  BY <1>1
<1>3. \A i \in 1..Len(queue) : queue[i] \in Tasks
  BY <1>1
<1>4. \A i \in 1..Len(queue) : status'[queue[i]] = "queued"
  BY <1>1, <1>3 DEF PoolInv
<1> QED
  BY <1>1, <1>2, <1>4 DEF PoolInv, Pool!TypeOK

(* submit() refuses a task.                                                *)
LEMMA RefuseFacts ==
  ASSUME PoolInv, NEW t \in Tasks, Pool!Refuse(t)
  PROVE  PoolInv' /\ status[t] = "new" /\ status' = [status EXCEPT ![t] = "refused"]
<1>1. /\ status[t] = "new" /\ status' = [status EXCEPT ![t] = "refused"]
      /\ UNCHANGED <<accepting, queue, retired>>
  BY DEF Pool!Refuse
<1>2. "refused" \in Pool!Status /\ accepting \in BOOLEAN /\ retired \in BOOLEAN
  BY DEF PoolInv, Pool!TypeOK, Pool!Status
<1> QED
  BY <1>1, <1>2, QueueStays

(* A task is done.                                                         *)
LEMMA SettleFacts ==
  ASSUME PoolInv, NEW t \in Tasks, Pool!Settle(t)
  PROVE  PoolInv' /\ status[t] = "running" /\ status' = [status EXCEPT ![t] = "settled"]
<1>1. /\ status[t] = "running" /\ status' = [status EXCEPT ![t] = "settled"]
      /\ UNCHANGED <<accepting, queue, retired>>
  BY DEF Pool!Settle
<1>2. "settled" \in Pool!Status /\ accepting \in BOOLEAN /\ retired \in BOOLEAN
  BY DEF PoolInv, Pool!TypeOK, Pool!Status
<1> QED
  BY <1>1, <1>2, QueueStays

-----------------------------------------------------------------------------
(* Facts about states that satisfy the invariant                           *)

(* The values of at and due.                                               *)
LEMMA Places ==
  ASSUME Inv
  PROVE  /\ \A x \in Threads : pc[x] \in inPC => at[x] = On(x) /\ at[x] \in Coros
         /\ \A x \in Threads : pc[x] \notin inPC => at[x] = NoCoro
         /\ \A o \in Objects : pc[o] \in inPC => at[o] = handle_[o]
         /\ \A t \in Tasks : pc[t] \in inPC => at[t] = resumes[t]
         /\ \A c \in Coros : pc[c] \in inPC => at[c] = c
         /\ \A y \in Tasks \cup Coros : due[y] \in Coros \cup {NoCoro}
<1>1. \A x \in Threads : InFrame(x) <=> pc[x] \in inPC
  BY DEF InFrame, inPC
<1>2. \A x \in Threads : pc[x] \in inPC => On(x) \in Coros
  BY DEF Inv, ThreadInv, On, Threads, inPC
<1>3. \A y \in Tasks \cup Coros : due[y] \in Coros \cup {NoCoro}
  BY DEF Inv, Types, due
<1> QED
  BY <1>1, <1>2, <1>3 DEF at, On, Threads

(* A coroutine that is not away is its owner's: nobody else is in its      *)
(* frame, or about to be.                                                  *)
LEMMA NobodyElse ==
  ASSUME Inv, NEW o \in Objects, pc[o] \notin inPC, handle_[o] # NoCoro,
         handle_[o] \notin away
  PROVE  /\ handle_[o] \in Coros /\ frame[handle_[o]] \in {"suspended", "final"}
         /\ \A x \in Threads : at[x] # handle_[o]
         /\ \A y \in Tasks \cup Coros : due[y] # handle_[o]
<1> DEFINE c == handle_[o]
<1>1. c \in Coros /\ frame[c] \notin {"none", "destroyed"} /\ frame[c] \in FrameState
  BY DEF Inv, Types, OwnerInv
<1>2. ASSUME NEW x \in Threads, at[x] = c PROVE FALSE
  <2>1. x \in Objects
    BY <1>1, <1>2 DEF Inv, AtInv
  <2>2. pc[x] \in inPC /\ handle_[x] = c
    BY <1>1, <1>2, <2>1, Places
  <2> QED
    BY <1>1, <2>1, <2>2 DEF Inv, OwnerInv
<1>3. \A y \in Tasks \cup Coros : due[y] # c
  BY <1>1 DEF Inv, DueInv
<1>4. frame[c] # "running"
  BY <1>1, <1>2 DEF Inv, AtInv
<1> QED
  BY <1>1, <1>2, <1>3, <1>4 DEF FrameState

(* There are no coroutines at first.                                       *)
LEMMA InitInv == Init => Inv
<1> SUFFICES ASSUME Init PROVE Inv
  OBVIOUS
<1>1. PoolInv
  <2>1. queue = <<>> /\ accepting = TRUE /\ retired = FALSE
        /\ status = [t \in Tasks |-> "new"]
    BY DEF Init, Pool!Init
  <2>2. queue \in Seq(Tasks) /\ 1..Len(queue) = {}
    BY <2>1
  <2>3. status \in [Tasks -> Pool!Status]
    BY <2>1 DEF Pool!Status
  <2> QED
    BY <2>1, <2>2, <2>3 DEF PoolInv, Pool!TypeOK
<1>2. Types
  BY DEF Init, Types, FrameState, Result, PC
<1>3. ThreadInv
  BY DEF Init, Pool!Init, ThreadInv, Threads
<1>4. (\A x \in Threads : at[x] = NoCoro) /\ \A y \in Tasks \cup Coros : due[y] = NoCoro
  BY DEF Init, Pool!Init, at, due, InFrame
<1>5. OwnerInv /\ AtInv /\ DueInv
  BY <1>4 DEF Init, OwnerInv, AtInv, DueInv
<1>6. GetInv /\ SignalInv /\ ResultInv
  BY <1>4 DEF Init, GetInv, SignalInv, ResultInv, Threads
<1> QED
  BY <1>1, <1>2, <1>3, <1>5, <1>6 DEF Inv

-----------------------------------------------------------------------------
(* The steps of the objects                                                *)

(* A frame is created for an object that has none.                         *)
LEMMA CreateInv ==
  ASSUME Inv, NEW o \in Objects, NEW c \in Coros, Create(o, c)
  PROVE  Inv' /\ at' = at /\ outcome' = outcome /\ c \notin away
<1>1. /\ pc[o] = "idle" /\ handle_[o] = NoCoro /\ frame[c] = "none"
      /\ handle_' = [handle_ EXCEPT ![o] = c] /\ frame' = [frame EXCEPT ![c] = "suspended"]
      /\ UNCHANGED <<poolVars, promiseVars, pc, getting, resumes, ioVars, away, got>>
  BY DEF Create
<1>2. at' = at /\ due' = due /\ outcome' = outcome
  <2>1. \A x \in Threads : pc[x] \in inPC => On(x)' = On(x)
    BY <1>1 DEF Inv, Types, On, inPC, Threads
  <2> QED
    BY <1>1, <2>1 DEF at, due, outcome, InFrame, inPC, poolVars, promiseVars, ioVars
<1>3. /\ c \notin away /\ c \notin {at[x] : x \in Threads}
      /\ c \notin {due[y] : y \in Tasks \cup Coros} /\ result_[c] = "none" /\ got[c] = "none"
      /\ \A p \in Objects : handle_[p] # c
  BY <1>1 DEF Inv, OwnerInv, AtInv, DueInv, ResultInv
<1>4. PoolInv'
  BY <1>1 DEF Inv, PoolInv, Pool!TypeOK, poolVars
<1>5. Types'
  BY <1>1 DEF Inv, Types, FrameState, promiseVars, ioVars
<1>6. ThreadInv'
  BY <1>1, <1>5 DEF Inv, Types, ThreadInv, poolVars
<1>7. OwnerInv'
  BY <1>1, <1>3 DEF Inv, Types, OwnerInv
<1>8. AtInv'
  BY <1>1, <1>2, <1>3, Places DEF Inv, Types, AtInv
<1>9. DueInv'
  BY <1>1, <1>2, <1>3, Places DEF Inv, Types, DueInv
<1>10. GetInv'
  BY <1>1, <1>3 DEF Inv, Types, ThreadInv, GetInv, promiseVars
<1>11. SignalInv'
  <2>1. c \notin external_promise_
    BY <1>1, <1>3 DEF Inv, Types, SignalInv, GetInv
  <2>2. \A p \in getting : handle_'[p] = handle_[p]
    BY <1>1 DEF Inv, Types, GetInv
  <2> QED
    BY <1>1, <1>2, <2>1, <2>2 DEF Inv, Types, SignalInv, promiseVars
<1>12. ResultInv'
  <2>1. \A p \in getting : handle_'[p] = handle_[p]
    BY <1>1 DEF Inv, Types, GetInv
  <2> QED
    BY <1>1, <1>2, <1>3, <2>1, Places DEF Inv, Types, ResultInv, promiseVars
<1> QED
  BY <1>2, <1>3, <1>4, <1>5, <1>6, <1>7, <1>8, <1>9, <1>10, <1>11, <1>12 DEF Inv

(* A frame that nobody is in, or about to be, is destroyed, and the handle *)
(* of another object at rest may take its place.                           *)
LEMMA HandleInv ==
  ASSUME Inv, NEW o \in Objects, handle_[o] \notin away,
         Destroy(o) \/ \E other \in Objects : Move(o, other)
  PROVE  /\ Inv' /\ at' = at /\ outcome' = outcome
         /\ \A p \in getting : p \in Objects /\ handle_'[p] = handle_[p]
<1> DEFINE c == handle_[o]
<1>1. /\ pc[o] = "idle" /\ DestroyFrame(c)
      /\ UNCHANGED <<poolVars, promiseVars, pc, getting, resumes, ioVars, away, got>>
  BY DEF Destroy, Move
<1>2. \/ handle_' = [handle_ EXCEPT ![o] = NoCoro]
      \/ \E other \in Objects \ {o} :
           /\ pc[other] = "idle"
           /\ handle_' = [handle_ EXCEPT ![o] = handle_[other], ![other] = NoCoro]
  BY DEF Destroy, Move
<1>3. c # NoCoro =>
        /\ c \in Coros /\ frame[c] \in {"suspended", "final"}
        /\ \A x \in Threads : at[x] # c
        /\ \A y \in Tasks \cup Coros : due[y] # c
  BY <1>1, NobodyElse DEF inPC
<1>4. /\ \A p \in Objects : pc[p] # "idle" => handle_'[p] = handle_[p] /\ handle_[p] # NoCoro
      /\ \A p \in getting : p \in Objects /\ handle_'[p] = handle_[p]
  <2>1. \A p \in Objects : pc[p] # "idle" => handle_'[p] = handle_[p]
    BY <1>1, <1>2 DEF Inv, Types
  <2> QED
    BY <2>1 DEF Inv, Types, GetInv, ThreadInv
<1>5. at' = at /\ due' = due /\ outcome' = outcome
  <2>1. \A x \in Threads : pc[x] \in inPC => On(x)' = On(x)
    BY <1>1, <1>4 DEF On, inPC, Threads
  <2> QED
    BY <1>1, <2>1 DEF at, due, outcome, InFrame, inPC, poolVars, promiseVars, ioVars
<1>6. \A d \in Coros : frame'[d] = IF d = c THEN "destroyed" ELSE frame[d]
  BY <1>1, <1>3 DEF DestroyFrame, Inv, Types
<1>7. Types'
  <2>1. handle_' \in [Objects -> Coros \cup {NoCoro}]
    BY <1>2 DEF Inv, Types
  <2>2. frame' \in [Coros -> FrameState]
    BY <1>1, <1>3 DEF DestroyFrame, Inv, Types, FrameState
  <2> QED
    BY <1>1, <2>1, <2>2 DEF Inv, Types, promiseVars, ioVars
<1>8. PoolInv'
  BY <1>1 DEF Inv, PoolInv, Pool!TypeOK, poolVars
<1>9. ThreadInv'
  BY <1>1, <1>4 DEF Inv, ThreadInv, poolVars
<1>10. OwnerInv'
  <2>1. ASSUME NEW p \in Objects, handle_'[p] # NoCoro
        PROVE  \E q \in Objects : handle_'[p] = handle_[q] /\ handle_[q] # c
    BY <1>2, <2>1 DEF Inv, Types, OwnerInv
  <2>2. \A p \in Objects : handle_'[p] # NoCoro => frame'[handle_'[p]] \notin {"none", "destroyed"}
    BY <1>6, <2>1 DEF Inv, Types, OwnerInv
  <2>3. \A p, q \in Objects : handle_'[p] = handle_'[q] /\ p # q => handle_'[p] = NoCoro
    BY <1>2 DEF Inv, Types, OwnerInv
  <2>4. \A q \in Objects : handle_[q] # c => \E p \in Objects : handle_'[p] = handle_[q]
    BY <1>2 DEF Inv, Types
  <2>5. \A d \in Coros : frame'[d] \notin {"none", "destroyed"} =>
          \E p \in Objects : handle_'[p] = d
    BY <1>6, <2>4 DEF Inv, OwnerInv
  <2>6. \A d \in away : frame'[d] # "none"
    BY <1>6 DEF Inv, Types, OwnerInv
  <2> QED
    BY <1>1, <2>2, <2>3, <2>5, <2>6 DEF OwnerInv
<1>11. AtInv'
  BY <1>1, <1>3, <1>5, <1>6, Places DEF Inv, AtInv
<1>12. DueInv'
  BY <1>1, <1>3, <1>5, <1>6, Places DEF Inv, Types, DueInv
<1>13. GetInv'
  <2>1. \A p \in Objects : pc[p] = "attached" => handle_[p] # c
    BY <1>1 DEF Inv, ThreadInv, OwnerInv
  <2> QED
    BY <1>1, <1>4, <1>6, <2>1 DEF Inv, Types, ThreadInv, GetInv, promiseVars
<1>14. SignalInv'
  BY <1>1, <1>4, <1>5, <1>6 DEF Inv, Types, SignalInv, promiseVars
<1>15. ResultInv'
  BY <1>1, <1>3, <1>4, <1>5, <1>6 DEF Inv, ResultInv, promiseVars
<1> QED
  BY <1>4, <1>5, <1>7, <1>8, <1>9, <1>10, <1>11, <1>12, <1>13, <1>14, <1>15 DEF Inv

(* A thread enters a frame that is suspended: the owner a lazy one, a task *)
(* or a timer the one that it was to resume.                               *)
LEMMA EnterInv ==
  ASSUME Inv, NEW x \in Threads, NEW c \in Coros, On(x) = c, Enter(x, c),
         frame[c] = "suspended", pc[x] \in {"idle", "attached"},
         IF x \in Objects THEN c \notin away /\ UNCHANGED armed
         ELSE /\ due[x] = c
              /\ x \in Tasks => status[x] = "running"
              /\ armed' = armed \ {x},
         UNCHANGED <<poolVars, handle_, promiseVars, getting, resumes, io_ctx, away, got>>
  PROVE  Inv' /\ at' = [at EXCEPT ![x] = c] /\ outcome' = outcome
<1>1. /\ pc' = [pc EXCEPT ![x] = "body"] /\ frame' = [frame EXCEPT ![c] = "running"]
      /\ pc \in [Threads -> PC] /\ frame \in [Coros -> FrameState]
  BY DEF Enter, Goto, Inv, Types
<1>2. /\ UNCHANGED <<status, handle_, resumes, result_, external_promise_, signal, getting>>
      /\ UNCHANGED <<io_ctx, away, got>>
  BY DEF poolVars, promiseVars
<1>3. outcome' = outcome /\ On(x)' = c
  BY <1>2 DEF outcome, On
<1>4. at' = [at EXCEPT ![x] = c] /\ at[x] = NoCoro /\ at \in [Threads -> Coros \cup {NoCoro}]
  <2>1. \A z \in Threads : On(z)' = On(z)
    BY <1>2 DEF On
  <2>2. \A z \in Threads : at'[z] = IF z = x THEN c ELSE at[z]
    BY <1>1, <2>1 DEF at, InFrame
  <2>3. at[x] = NoCoro /\ at \in [Threads -> Coros \cup {NoCoro}]
    BY Places DEF at, inPC
  <2> QED
    BY <2>2, <2>3 DEF at
<1>5. /\ \A y \in Tasks \cup Coros : due'[y] = IF y = x THEN NoCoro ELSE due[y]
      /\ \A y \in Tasks \cup Coros : due[y] = c => y = x
      /\ x \notin Objects => c \in away
  <2>1. ASSUME NEW y \in Tasks \cup Coros PROVE due'[y] = IF y = x THEN NoCoro ELSE due[y]
    <3>1. CASE y = x
      BY <1>1, <1>2, <3>1 DEF due, Threads
    <3>2. CASE y # x
      BY <1>1, <1>2, <3>2 DEF due, Threads
    <3> QED
      BY <3>1, <3>2
  <2>2. \A y \in Tasks \cup Coros : due[y] = c => y = x
    <3>1. CASE x \in Objects
      BY <3>1 DEF Inv, DueInv
    <3>2. CASE x \notin Objects
      BY <3>2 DEF Inv, DueInv, Threads
    <3> QED
      BY <3>1, <3>2
  <2>3. x \notin Objects => c \in away
    BY DEF Inv, DueInv, Threads
  <2> QED
    BY <2>1, <2>2, <2>3
<1>6. \A z \in Threads : at[z] # c
  BY DEF Inv, AtInv
<1>7. PoolInv'
  BY DEF Inv, PoolInv, Pool!TypeOK, poolVars
<1>8. Types'
  BY <1>1, <1>2 DEF Inv, Types, FrameState, PC
<1>9. ThreadInv'
  <2>1. x \in Tasks => status[x] = "running"
    BY DEF Inv, Types, due
  <2>2. x \in Objects => handle_[x] = c
    BY DEF On
  <2> QED
    BY <1>1, <1>2, <2>1, <2>2 DEF Inv, ThreadInv, Threads, inPC
<1>10. OwnerInv'
  BY <1>1, <1>2 DEF Inv, Types, OwnerInv
<1>11. AtInv'
  BY <1>1, <1>2, <1>4, <1>5, <1>6 DEF Inv, AtInv
<1>12. DueInv'
  <2>1. ASSUME NEW d \in away, frame'[d] = "suspended"
        PROVE  \E y \in Tasks \cup Coros : due'[y] = d
    <3>1. d # c /\ frame[d] = "suspended" /\ d \in Coros
      BY <1>1, <2>1 DEF Inv, Types
    <3>2. PICK y \in Tasks \cup Coros : due[y] = d
      BY <3>1 DEF Inv, DueInv
    <3>3. y # x
      <4>1. CASE x \in Objects
        BY <3>2, <4>1
      <4>2. CASE x \notin Objects
        BY <3>1, <3>2, <4>2
      <4> QED
        BY <4>1, <4>2
    <3> QED
      BY <1>5, <3>2, <3>3
  <2> QED
    BY <1>1, <1>2, <1>5, <2>1, Places DEF Inv, DueInv
<1>13. GetInv'
  <2>1. \A o \in Objects : pc'[o] = "attached" => handle_[o] # c
    <3>1. CASE x \in Objects
      BY <1>1, <3>1 DEF Inv, ThreadInv, OwnerInv, On, Threads
    <3>2. CASE x \notin Objects
      BY <1>1, <1>5, <3>2 DEF Inv, GetInv, Threads
    <3> QED
      BY <3>1, <3>2
  <2> QED
    BY <1>1, <1>2, <2>1 DEF Inv, Types, ThreadInv, GetInv, Threads
<1>14. SignalInv'
  <2>1. c \in external_promise_ => signal[c] = "pending"
    BY DEF Inv, SignalInv
  <2> QED
    BY <1>1, <1>2, <1>3, <1>4, <2>1 DEF Inv, Types, SignalInv
<1>15. ResultInv'
  BY <1>1, <1>2, <1>4, <1>6 DEF Inv, Types, ResultInv
<1> QED
  BY <1>3, <1>4, <1>7, <1>8, <1>9, <1>10, <1>11, <1>12, <1>13, <1>14, <1>15 DEF Inv

-----------------------------------------------------------------------------
(* The steps inside a frame                                                *)

(* The thread that is inside a frame is the only one, and no resumption of *)
(* the coroutine is to come.                                               *)
LEMMA Alone ==
  ASSUME Inv, NEW x \in Threads, pc[x] \in inPC
  PROVE  /\ On(x) \in Coros /\ at[x] = On(x)
         /\ \A z \in Threads : at[z] = On(x) => z = x
         /\ \A y \in Tasks \cup Coros : due[y] # On(x)
         /\ pc[x] \in {"body", "finalSuspend"} <=> frame[On(x)] = "running"
         /\ pc[x] \in {"awaitSuspend", "signal"} <=> frame[On(x)] = "final"
         /\ On(x) \in external_promise_ => signal[On(x)] = "pending"
         /\ x \notin Objects => On(x) \in away
<1>1. On(x) \in Coros /\ at[x] = On(x)
  BY Places
<1>2. \A z \in Threads : at[z] = On(x) => z = x
  BY <1>1 DEF Inv, AtInv
<1>3. /\ frame[On(x)] = IF pc[x] \in {"body", "finalSuspend"} THEN "running" ELSE "final"
      /\ x \notin Objects => On(x) \in away
  BY <1>1 DEF Inv, AtInv
<1>4. \A y \in Tasks \cup Coros : due[y] # On(x)
  BY <1>1, <1>3 DEF Inv, DueInv
<1>5. On(x) \in external_promise_ => signal[On(x)] = "pending"
  BY <1>1 DEF Inv, SignalInv
<1> QED
  BY <1>1, <1>2, <1>3, <1>4, <1>5 DEF inPC

(* The awaiter has suspended the coroutine and handed it over: the thread  *)
(* leaves, and one resumption is to come.                                  *)
LEMMA SuspendInv ==
  ASSUME Inv, NEW x \in Threads, InBody(x), Suspend(x), away' = away \cup {On(x)},
         PoolInv', \A t \in Tasks : status[t] # "new" =>
                     status'[t] = status[t] /\ resumes'[t] = resumes[t],
         NEW y \in Tasks \cup Coros,
         \/ /\ y \in Tasks /\ status[y] = "new"
            /\ status' = [status EXCEPT ![y] = "queued"]
            /\ resumes' = [resumes EXCEPT ![y] = On(x)] /\ UNCHANGED armed
         \/ y = On(x) /\ armed' = armed \cup {y} /\ UNCHANGED <<status, resumes>>,
         UNCHANGED <<handle_, promiseVars, getting, io_ctx, got>>
  PROVE  /\ Inv' /\ outcome' = outcome
         /\ \A z \in Threads : at'[z] = IF z = x THEN NoCoro ELSE at[z]
<1> DEFINE c == On(x)
<1>1. /\ pc[x] = "body" /\ frame[c] = "running" /\ frame' = [frame EXCEPT ![c] = "suspended"]
      /\ pc' = [pc EXCEPT ![x] = IF x \in Tasks THEN "returning"
                                 ELSE IF x \in getting THEN "blocked" ELSE "idle"]
      /\ pc \in [Threads -> PC] /\ frame \in [Coros -> FrameState] /\ On(x) \in Coros
      /\ status \in [Tasks -> Pool!Status] /\ resumes \in [Tasks -> Coros \cup {NoCoro}]
  BY Alone DEF InBody, Suspend, Leave, Goto, inPC, Inv, Types, PoolInv, Pool!TypeOK
<1>2. /\ UNCHANGED <<handle_, result_, external_promise_, signal, getting, io_ctx, got>>
      /\ outcome' = outcome /\ away' = away \cup {c}
  BY DEF promiseVars, outcome
<1>3. /\ at[x] = c /\ \A z \in Threads : at[z] = c => z = x
      /\ \A z \in Tasks \cup Coros : due[z] # c
      /\ c \in external_promise_ => signal[c] = "pending"
  BY <1>1, Alone DEF inPC
<1>4. \A t \in Tasks : status[t] = "new" => pc[t] = "idle" /\ t # x
  BY <1>1 DEF Inv, ThreadInv
<1>5. \A z \in Threads : at'[z] = IF z = x THEN NoCoro ELSE at[z]
  <2>1. ASSUME NEW z \in Threads, z # x, pc[z] \in inPC PROVE On(z)' = On(z)
    BY <1>1, <1>2, <1>4, <2>1 DEF On, inPC
  <2>2. \A z \in Threads \ {x} : pc'[z] = pc[z]
    BY <1>1
  <2>3. InFrame(x)' = FALSE
    BY <1>1 DEF InFrame
  <2> QED
    BY <2>1, <2>2, <2>3 DEF at, InFrame, inPC
<1>6. \A z \in Tasks \cup Coros : due'[z] = IF z = y THEN c ELSE due[z]
  <2>1. CASE y \in Tasks
    <3>1. due'[y] = c
      BY <1>1, <1>4, <2>1 DEF due, Threads
    <3>2. ASSUME NEW z \in Tasks \cup Coros, z # y PROVE due'[z] = due[z]
      BY <1>1, <1>4, <2>1, <3>2 DEF due, Threads
    <3> QED
      BY <3>1, <3>2
  <2>2. CASE y \notin Tasks
    <3>1. y = c /\ armed' = armed \cup {c} /\ UNCHANGED <<status, resumes>>
      BY <2>2
    <3>2. due'[y] = c
      BY <2>2, <3>1 DEF due
    <3>3. ASSUME NEW z \in Tasks \cup Coros, z # y PROVE due'[z] = due[z]
      BY <1>1, <3>1, <3>3 DEF due, Threads
    <3> QED
      BY <3>2, <3>3
  <2> QED
    BY <2>1, <2>2
<1>7. Types'
  BY <1>1, <1>2 DEF Inv, Types, FrameState, PC
<1>8. ThreadInv'
  <2>1. \A t \in Tasks : status'[t] \in {"queued", "running"} => resumes'[t] \in Coros
    BY <1>1 DEF Inv, ThreadInv
  <2>2. \A t \in Tasks : /\ pc'[t] \in inPC \cup {"idle", "returning"}
                         /\ pc'[t] # "idle" => status'[t] = "running"
    BY <1>1, <1>4 DEF Inv, ThreadInv, Threads, inPC
  <2>3. \A o \in Objects : /\ pc'[o] # "returning"
                           /\ pc'[o] # "idle" => handle_'[o] \in Coros
    BY <1>1, <1>2 DEF Inv, ThreadInv, Threads, inPC
  <2>4. \A d \in Coros : pc'[d] \in inPC \cup {"idle"}
    BY <1>1 DEF Inv, Types, ThreadInv, Threads, inPC
  <2> QED
    BY <2>1, <2>2, <2>3, <2>4 DEF ThreadInv
<1>9. OwnerInv'
  BY <1>1, <1>2 DEF Inv, Types, OwnerInv
<1>10. AtInv'
  BY <1>1, <1>2, <1>3, <1>5 DEF Inv, AtInv
<1>11. DueInv'
  <2>1. due[y] = NoCoro
    <3>1. CASE y \in Tasks
      BY <1>1, <3>1 DEF due
    <3>2. CASE y \notin Tasks
      BY <1>3, <3>2 DEF due
    <3> QED
      BY <3>1, <3>2
  <2>2. \A z \in Tasks \cup Coros : due'[z] # NoCoro =>
          frame'[due'[z]] = "suspended" /\ due'[z] \in away'
    BY <1>1, <1>2, <1>3, <1>6, Places DEF Inv, DueInv
  <2>3. \A z, w \in Tasks \cup Coros : due'[z] = due'[w] /\ z # w => due'[z] = NoCoro
    BY <1>3, <1>6 DEF Inv, DueInv
  <2>4. ASSUME NEW d \in away', frame'[d] = "suspended"
        PROVE  \E z \in Tasks \cup Coros : due'[z] = d
    <3>1. CASE d = c
      BY <1>6, <3>1
    <3>2. CASE d # c
      <4>1. d \in away /\ frame[d] = "suspended" /\ d \in Coros
        BY <1>1, <1>2, <2>4, <3>2 DEF Inv, Types
      <4>2. PICK z \in Tasks \cup Coros : due[z] = d
        BY <4>1 DEF Inv, DueInv
      <4> QED
        BY <1>6, <2>1, <4>1, <4>2
    <3> QED
      BY <3>1, <3>2
  <2> QED
    BY <2>2, <2>3, <2>4 DEF DueInv
<1>12. GetInv'
  <2>1. \A o \in Objects : pc'[o] = "attached" => pc[o] = "attached" /\ handle_[o] # c
    BY <1>1 DEF Inv, GetInv
  <2> QED
    BY <1>1, <1>2, <2>1 DEF Inv, Types, ThreadInv, GetInv, Threads
<1>13. SignalInv'
  <2>1. \A z \in Threads : pc'[z] = "signal" => z # x /\ pc[z] = "signal"
    BY <1>1
  <2> QED
    BY <1>1, <1>2, <1>3, <1>5, <2>1, Places DEF Inv, Types, SignalInv
<1>14. ResultInv'
  <2>1. result_[c] = "none"
    BY <1>1, <1>3 DEF Inv, ResultInv
  <2> QED
    BY <1>1, <1>2, <1>5, <2>1, Places DEF Inv, Types, ResultInv
<1> QED
  BY <1>2, <1>5, <1>7, <1>8, <1>9, <1>10, <1>11, <1>12, <1>13, <1>14 DEF Inv

(* The body ends, the coroutine comes to its final suspension, and the     *)
(* thread tests the external promise.                                      *)
LEMMA InsideInv ==
  ASSUME Inv, NEW x \in Threads,
         BodyEnds(x) \/ FinalSuspend(x) \/ TestPromise(x), pc'[x] \in inPC
  PROVE  Inv' /\ at' = at
<1> DEFINE c == On(x)
<1>1. /\ pc[x] \in inPC /\ pc \in [Threads -> PC] /\ frame \in [Coros -> FrameState]
      /\ c \in Coros /\ result_ \in [Coros -> Result]
      /\ UNCHANGED <<poolVars, handle_, external_promise_, signal, getting, resumes>>
      /\ UNCHANGED <<ioVars, away, got>>
  BY Alone DEF BodyEnds, FinalSuspend, TestPromise, InBody, inPC, promiseVars, Inv, Types
<1>2. \/ /\ pc[x] = "body" /\ pc' = [pc EXCEPT ![x] = "finalSuspend"]
         /\ \E r \in {"value", "exception"} : result_' = [result_ EXCEPT ![c] = r]
         /\ frame' = frame
      \/ /\ pc[x] = "finalSuspend" /\ pc' = [pc EXCEPT ![x] = "awaitSuspend"]
         /\ frame' = [frame EXCEPT ![c] = "final"] /\ result_' = result_
      \/ /\ pc[x] = "awaitSuspend" /\ pc' = [pc EXCEPT ![x] = "signal"]
         /\ c \in external_promise_ /\ frame' = frame /\ result_' = result_
  <2>1. CASE BodyEnds(x)
    BY <2>1 DEF BodyEnds, InBody, Goto
  <2>2. CASE FinalSuspend(x)
    BY <2>2 DEF FinalSuspend, Goto, promiseVars
  <2>3. CASE TestPromise(x)
    BY <1>1, <2>3 DEF TestPromise, Goto, Leave, promiseVars, inPC
  <2> QED
    BY <2>1, <2>2, <2>3
<1>3. at' = at
  BY <1>1, <1>2 DEF at, InFrame, On
<1>4. due' = due
  BY <1>1, <1>2 DEF due, inPC, poolVars, ioVars, Threads
<1>5. /\ at[x] = c /\ \A z \in Threads : at[z] = c => z = x
      /\ \A y \in Tasks \cup Coros : due[y] # c
      /\ c \in external_promise_ => signal[c] = "pending"
      /\ frame[c] = IF pc[x] \in {"body", "finalSuspend"} THEN "running" ELSE "final"
  BY <1>1, Alone DEF inPC
<1>6. PoolInv'
  BY <1>1 DEF Inv, PoolInv, Pool!TypeOK, poolVars
<1>7. Types'
  BY <1>1, <1>2 DEF Inv, Types, FrameState, PC, Result, ioVars
<1>8. ThreadInv'
  BY <1>1, <1>2 DEF Inv, ThreadInv, inPC, poolVars, Threads
<1>9. /\ frame' = frame \/ (frame[c] = "running" /\ frame' = [frame EXCEPT ![c] = "final"])
      /\ \A z \in Threads \ {x} : pc'[z] = pc[z]
      /\ frame'[c] = IF pc'[x] \in {"body", "finalSuspend"} THEN "running" ELSE "final"
      /\ pc'[x] \in inPC
  <2>1. CASE pc[x] = "body"
    BY <1>1, <1>2, <1>5, <2>1 DEF inPC
  <2>2. CASE pc[x] = "finalSuspend"
    BY <1>1, <1>2, <1>5, <2>2 DEF inPC
  <2>3. CASE pc[x] = "awaitSuspend"
    BY <1>1, <1>2, <1>5, <2>3 DEF inPC
  <2> QED
    BY <1>2, <2>1, <2>2, <2>3
<1>10. OwnerInv'
  BY <1>1, <1>9 DEF Inv, Types, OwnerInv
<1>11. AtInv'
  <2>1. \A d \in Coros \ {c} : frame'[d] = frame[d]
    BY <1>1, <1>9
  <2>2. \A z \in Threads : at[z] # NoCoro => at[z] \in Coros
    BY Places
  <2> QED
    BY <1>1, <1>3, <1>5, <1>9, <2>1, <2>2 DEF Inv, AtInv
<1>12. DueInv'
  BY <1>1, <1>4, <1>5, <1>9, Places DEF Inv, Types, DueInv
<1>13. GetInv'
  <2>1. \A o \in Objects : pc'[o] = "attached" =>
          pc[o] = "attached" /\ frame'[handle_[o]] = frame[handle_[o]]
    <3>1. \A o \in Objects : pc'[o] = "attached" => pc[o] = "attached"
      BY <1>9 DEF Threads, inPC
    <3>2. \A o \in Objects : pc[o] = "attached" =>
            handle_[o] \in Coros \ {c} /\ frame[handle_[o]] = "suspended"
      BY <1>5 DEF Inv, ThreadInv, GetInv
    <3> QED
      BY <1>1, <1>9, <3>1, <3>2
  <2>2. \A o \in Objects : pc'[o] \in {"attached", "blocked"} => pc[o] \in {"attached", "blocked"}
    BY <1>9 DEF Threads, inPC
  <2>3. \A o \in Objects : pc[o] # "idle" => pc'[o] # "idle"
    BY <1>1, <1>2 DEF Threads
  <2> QED
    BY <1>1, <2>1, <2>2, <2>3 DEF Inv, Types, GetInv
<1>14. SignalInv'
  <2>1. \A d \in Coros \ {c} : outcome'[d] = outcome[d] /\ frame'[d] = frame[d]
    BY <1>1, <1>2 DEF outcome
  <2>2. \A z \in Threads : pc'[z] = "signal" => at[z] \in external_promise_
    BY <1>1, <1>2, <1>5 DEF Inv, SignalInv
  <2>3. frame[c] # "destroyed"
    BY <1>5
  <2> QED
    BY <1>1, <1>3, <1>5, <2>1, <2>2, <2>3 DEF Inv, Types, SignalInv
<1>15. ResultInv'
  <2>1. \A z \in Threads \ {x} : at[z] # c /\ pc'[z] = pc[z]
    BY <1>1, <1>2, <1>5
  <2>2. IF pc[x] = "body" THEN result_[c] = "none" ELSE result_[c] \in {"value", "exception"}
    BY <1>1, <1>5 DEF Inv, ResultInv
  <2>3. \A z \in Threads : at[z] # NoCoro => at[z] \in Coros
    BY Places
  <2>4. \A z \in Threads : at'[z] # NoCoro =>
          IF pc'[z] = "body" THEN result_'[at'[z]] = "none"
          ELSE result_'[at'[z]] \in {"value", "exception"}
    BY <1>1, <1>2, <1>3, <1>5, <2>1, <2>2, <2>3 DEF Inv, ResultInv
  <2>5. /\ \A d \in Coros \ {c} : result_'[d] = result_[d] /\ frame'[d] = frame[d]
        /\ result_'[c] \in {"value", "exception"} /\ frame'[c] \in {"running", "final"}
    BY <1>1, <1>2, <1>5, <2>2
  <2>6. got[c] # "none" => frame[c] = "final" /\ frame'[c] = "final"
    BY <1>1, <1>2, <1>5 DEF Inv, ResultInv
  <2> QED
    BY <1>1, <2>4, <2>5, <2>6 DEF Inv, ResultInv
<1> QED
  BY <1>3, <1>6, <1>7, <1>8, <1>10, <1>11, <1>12, <1>13, <1>14, <1>15 DEF Inv

(* The thread leaves the coroutine at its final suspension, having set the *)
(* promise if there is one.                                                *)
LEMMA LeaveInv ==
  ASSUME Inv, NEW x \in Threads, TestPromise(x) \/ SetPromise(x), pc'[x] \notin inPC
  PROVE  /\ Inv' /\ outcome' = outcome
         /\ \A z \in Threads : at'[z] = IF z = x THEN NoCoro ELSE at[z]
<1> DEFINE c == On(x)
<1>1. /\ pc[x] \in {"awaitSuspend", "signal"} /\ pc \in [Threads -> PC]
      /\ pc' = [pc EXCEPT ![x] = IF x \in Tasks THEN "returning"
                                 ELSE IF x \in getting THEN "blocked" ELSE "idle"]
      /\ UNCHANGED <<poolVars, handle_, frame, external_promise_, getting, resumes>>
      /\ UNCHANGED <<ioVars, away, got>>
  <2>1. CASE TestPromise(x)
    BY <2>1 DEF TestPromise, Leave, Goto, promiseVars, inPC, Inv, Types
  <2>2. CASE SetPromise(x)
    BY <2>2 DEF SetPromise, Leave, Goto, Inv, Types
  <2> QED
    BY <2>1, <2>2
<1>2. /\ c \in Coros /\ at[x] = c /\ \A z \in Threads : at[z] = c => z = x
      /\ \A y \in Tasks \cup Coros : due[y] # c
      /\ frame[c] = "final" /\ result_[c] \in {"value", "exception"}
      /\ c \in external_promise_ => signal[c] = "pending"
      /\ pc[x] = "signal" => c \in external_promise_
  <2>1. at[x] = c /\ c \in Coros
    BY <1>1, Alone DEF inPC
  <2> QED
    BY <1>1, <2>1, Alone DEF inPC, Inv, ResultInv, SignalInv
<1>3. /\ signal \in [Coros -> Result \cup {"pending"}] /\ result_ \in [Coros -> Result]
      /\ \/ c \notin external_promise_ /\ UNCHANGED <<signal, result_>>
         \/ /\ c \in external_promise_
            /\ signal' = [signal EXCEPT ![c] = result_[c]]
            /\ result_' = [result_ EXCEPT ![c] = IF @ = "value" THEN "moved" ELSE @]
  <2>1. CASE TestPromise(x)
    <3>1. c \notin external_promise_
      BY <1>1, <2>1 DEF TestPromise, Goto, inPC
    <3> QED
      BY <2>1, <3>1 DEF TestPromise, promiseVars, Inv, Types
  <2>2. CASE SetPromise(x)
    BY <1>2, <2>2 DEF SetPromise, Inv, Types
  <2> QED
    BY <2>1, <2>2
<1>4. \A d \in Coros : outcome'[d] = outcome[d] /\ outcome[c] = result_[c]
  BY <1>2, <1>3 DEF outcome, Result
<1>5. outcome' = outcome
  BY <1>4 DEF outcome
<1>6. \A z \in Threads : at'[z] = IF z = x THEN NoCoro ELSE at[z]
  <2>1. \A z \in Threads : On(z)' = On(z)
    BY <1>1 DEF On
  <2>2. InFrame(x)' = FALSE
    BY <1>1 DEF InFrame
  <2>3. \A z \in Threads \ {x} : pc'[z] = pc[z]
    BY <1>1
  <2> QED
    BY <2>1, <2>2, <2>3 DEF at, InFrame
<1>7. due' = due
  <2>1. \A t \in Tasks : pc'[t] = "idle" <=> pc[t] = "idle"
    BY <1>1 DEF Threads
  <2> QED
    BY <1>1, <2>1 DEF due, poolVars, ioVars
<1>8. PoolInv'
  BY <1>1 DEF Inv, PoolInv, Pool!TypeOK, poolVars
<1>9. Types'
  BY <1>1, <1>3 DEF Inv, Types, PC, Result, ioVars
<1>10. ThreadInv'
  <2>1. \A t \in Tasks : /\ pc'[t] \in inPC \cup {"idle", "returning"}
                         /\ pc'[t] # "idle" => status'[t] = "running"
                         /\ status'[t] \in {"queued", "running"} => resumes'[t] \in Coros
    BY <1>1 DEF Inv, ThreadInv, Threads, inPC, poolVars
  <2>2. \A o \in Objects : /\ pc'[o] # "returning"
                           /\ pc'[o] # "idle" => handle_'[o] \in Coros
    BY <1>1 DEF Inv, ThreadInv, Threads, inPC
  <2>3. \A d \in Coros : pc'[d] \in inPC \cup {"idle"}
    BY <1>1 DEF Inv, Types, ThreadInv, Threads, inPC
  <2> QED
    BY <2>1, <2>2, <2>3 DEF ThreadInv
<1>11. OwnerInv'
  BY <1>1 DEF Inv, OwnerInv
<1>12. AtInv'
  <2>1. \A z \in Threads \ {x} : pc'[z] = pc[z]
    BY <1>1
  <2>2. \A d \in Coros : frame'[d] = "running" => \E z \in Threads : z # x /\ at[z] = d
    BY <1>1, <1>2 DEF Inv, AtInv
  <2> QED
    BY <1>1, <1>6, <2>1, <2>2 DEF Inv, AtInv
<1>13. DueInv'
  BY <1>1, <1>7 DEF Inv, DueInv
<1>14. GetInv'
  <2>1. \A o \in Objects : pc[o] # "idle" /\ o \in getting => pc'[o] # "idle"
    BY <1>1
  <2>2. \A o \in Objects : pc'[o] \in {"attached", "blocked"} =>
          pc[o] \in {"attached", "blocked"} \/ o \in getting
    BY <1>1 DEF Threads
  <2>3. \A o \in Objects : pc'[o] = "attached" => pc[o] = "attached"
    BY <1>1 DEF Threads
  <2> QED
    BY <1>1, <2>1, <2>2, <2>3 DEF Inv, Types, GetInv
<1>15. SignalInv'
  <2>1. \A d \in external_promise_ : d \in Coros /\ (d # c => signal'[d] = signal[d])
    BY <1>2, <1>3 DEF Inv, Types
  <2>2. c \in external_promise_ => signal'[c] = outcome[c]
    BY <1>2, <1>3, <1>4
  <2>3. \A z \in Threads : at'[z] # c
    BY <1>2, <1>6
  <2>4. \A z \in Threads : pc'[z] = "signal" => z # x /\ pc[z] = "signal"
    BY <1>1
  <2>5. \A d \in external_promise_ : signal'[d] # "pending" =>
          /\ frame[d] \in {"final", "destroyed"} /\ \A z \in Threads : at'[z] # d
          /\ frame[d] = "final" => signal'[d] = outcome[d]
    <3> SUFFICES ASSUME NEW d \in external_promise_, signal'[d] # "pending"
                 PROVE  /\ frame[d] \in {"final", "destroyed"}
                        /\ \A z \in Threads : at'[z] # d
                        /\ frame[d] = "final" => signal'[d] = outcome[d]
      OBVIOUS
    <3>1. CASE d = c
      BY <1>2, <2>2, <2>3, <3>1
    <3>2. CASE d # c
      BY <1>6, <2>1, <3>2 DEF Inv, SignalInv, Types, Threads
    <3> QED
      BY <3>1, <3>2
  <2>6. \A z \in Threads : pc'[z] = "signal" => at'[z] \in external_promise_
    BY <1>6, <2>4 DEF Inv, SignalInv
  <2>7. \A d \in external_promise_ : got[d] = "none" /\ frame[d] # "destroyed" =>
          \E o \in getting : handle_[o] = d
    BY DEF Inv, SignalInv
  <2> QED
    BY <1>1, <1>5, <2>5, <2>6, <2>7 DEF SignalInv
<1>16. ResultInv'
  <2>1. /\ \A d \in Coros \ {c} : result_'[d] = result_[d]
        /\ result_'[c] # "none"
        /\ result_'[c] = "moved" => c \in external_promise_
    BY <1>2, <1>3
  <2>2. \A z \in Threads \ {x} : pc'[z] = pc[z] /\ at'[z] = at[z] /\ at[z] # c
    BY <1>1, <1>2, <1>6
  <2>3. \A z \in Threads : at[z] # NoCoro => at[z] \in Coros
    BY Places
  <2>4. \A z \in Threads : at'[z] # NoCoro =>
          IF pc'[z] = "body" THEN result_'[at'[z]] = "none"
          ELSE result_'[at'[z]] \in {"value", "exception"}
    BY <1>6, <2>1, <2>2, <2>3 DEF Inv, ResultInv
  <2> QED
    BY <1>1, <1>2, <2>1, <2>4 DEF Inv, ResultInv, SignalInv
<1> QED
  BY <1>5, <1>6, <1>8, <1>9, <1>10, <1>11, <1>12, <1>13, <1>14, <1>15, <1>16 DEF Inv

(* The owner's get() attaches a promise to a lazy coroutine.               *)
LEMMA AttachInv ==
  ASSUME Inv, NEW o \in Objects, handle_[o] \notin away, GetAttach(o)
  PROVE  /\ Inv' /\ at' = at /\ outcome' = outcome
         /\ handle_[o] \in Coros /\ frame[handle_[o]] = "suspended"
<1> DEFINE c == handle_[o]
<1>1. /\ pc[o] = "idle" /\ c # NoCoro /\ frame[c] # "final"
      /\ external_promise_' = external_promise_ \cup {c}
      /\ signal' = [signal EXCEPT ![c] = "pending"] /\ getting' = getting \cup {o}
      /\ pc' = [pc EXCEPT ![o] = "attached"]
      /\ UNCHANGED <<poolVars, handle_, frame, result_, resumes, ioVars, away, got>>
  BY DEF GetAttach, Goto
<1>2. /\ c \in Coros /\ frame[c] = "suspended" /\ \A x \in Threads : at[x] # c
      /\ got[c] = "none" /\ result_[c] = "none" /\ pc \in [Threads -> PC]
  BY <1>1, NobodyElse DEF inPC, Inv, Types, ResultInv
<1>3. at' = at /\ due' = due /\ outcome' = outcome
  <2>1. \A x \in Threads : On(x)' = On(x) /\ InFrame(x)' = InFrame(x)
    BY <1>1 DEF On, InFrame, Inv, Types, Threads
  <2>2. \A t \in Tasks : pc'[t] = pc[t]
    BY <1>1 DEF Inv, Types, Threads
  <2> QED
    BY <1>1, <2>1, <2>2 DEF at, due, outcome, poolVars, ioVars
<1>4. PoolInv'
  BY <1>1 DEF Inv, PoolInv, Pool!TypeOK, poolVars
<1>5. Types'
  BY <1>1, <1>2 DEF Inv, Types, PC, ioVars
<1>6. ThreadInv'
  BY <1>1, <1>2 DEF Inv, ThreadInv, inPC, poolVars, Threads
<1>7. OwnerInv' /\ DueInv'
  BY <1>1, <1>3 DEF Inv, OwnerInv, DueInv
<1>8. AtInv'
  <2>1. \A x \in Threads : at[x] # NoCoro => pc'[x] = pc[x]
    BY <1>1, Places DEF Inv, Types, inPC
  <2> QED
    BY <1>1, <1>3, <2>1 DEF Inv, AtInv
<1>9. GetInv'
  <2>1. \A p \in Objects \ {o} : pc'[p] = pc[p]
    BY <1>1, <1>2 DEF Threads
  <2>2. pc'[o] = "attached"
    BY <1>1, <1>2 DEF Threads
  <2> QED
    BY <1>1, <1>2, <2>1, <2>2 DEF Inv, Types, GetInv
<1>10. SignalInv'
  <2>1. \A x \in Threads : pc'[x] = "signal" => pc[x] = "signal"
    BY <1>1, <1>2
  <2>2. signal'[c] = "pending" /\ \A d \in Coros \ {c} : signal'[d] = signal[d]
    BY <1>1, <1>2 DEF Inv, Types
  <2> QED
    BY <1>1, <1>3, <2>1, <2>2 DEF Inv, Types, SignalInv
<1>11. ResultInv'
  <2>1. \A x \in Threads : at[x] # NoCoro => pc'[x] = pc[x]
    BY <1>1, Places DEF Inv, Types, inPC
  <2> QED
    BY <1>1, <1>3, <2>1 DEF Inv, ResultInv
<1> QED
  BY <1>2, <1>3, <1>4, <1>5, <1>6, <1>7, <1>8, <1>9, <1>10, <1>11 DEF Inv

(* The owner's get() returns: the coroutine is its own again.              *)
LEMMA ReturnsInv ==
  ASSUME Inv, NEW o \in Objects, GetReturns(o)
  PROVE  /\ Inv' /\ at' = at /\ outcome' = outcome /\ o \in getting
         /\ handle_[o] \in Coros /\ frame[handle_[o]] = "final"
         /\ signal[handle_[o]] = outcome[handle_[o]]
         /\ \A x \in Threads : at[x] # handle_[o]
<1> DEFINE c == handle_[o]
<1>1. /\ pc[o] = "blocked" /\ signal[c] # "pending" /\ got' = [got EXCEPT ![c] = signal[c]]
      /\ getting' = getting \ {o} /\ away' = away \ {c} /\ pc' = [pc EXCEPT ![o] = "idle"]
      /\ UNCHANGED <<poolVars, handle_, frame, promiseVars, resumes, ioVars>>
  BY DEF GetReturns, Goto
<1>2. /\ c \in Coros /\ c \in external_promise_ /\ frame[c] = "final" /\ o \in getting
      /\ \A x \in Threads : at[x] # c
      /\ signal[c] = outcome[c] /\ outcome[c] \in {"value", "exception"}
      /\ pc \in [Threads -> PC] /\ got \in [Coros -> Result]
  <2>1. o \in getting /\ c \in external_promise_ /\ c \in Coros
    BY <1>1 DEF Inv, Types, ThreadInv, GetInv
  <2>2. frame[c] = "final"
    BY <1>1, <2>1 DEF Inv, SignalInv, OwnerInv
  <2>3. outcome[c] \in {"value", "exception"}
    BY <2>1, <2>2 DEF Inv, Types, ResultInv, Result, outcome
  <2> QED
    BY <1>1, <2>1, <2>2, <2>3 DEF Inv, Types, SignalInv
<1>3. at' = at /\ due' = due /\ outcome' = outcome
  <2>1. \A x \in Threads : On(x)' = On(x) /\ InFrame(x)' = InFrame(x)
    BY <1>1 DEF On, InFrame, Inv, Types, Threads
  <2>2. \A t \in Tasks : pc'[t] = pc[t]
    BY <1>1, <1>2 DEF Threads
  <2> QED
    BY <1>1, <2>1, <2>2 DEF at, due, outcome, poolVars, ioVars, promiseVars
<1>4. PoolInv'
  BY <1>1 DEF Inv, PoolInv, Pool!TypeOK, poolVars
<1>5. Types'
  BY <1>1, <1>2 DEF Inv, Types, PC, Result, ioVars, promiseVars
<1>6. ThreadInv'
  BY <1>1, <1>2 DEF Inv, ThreadInv, inPC, poolVars, Threads
<1>7. OwnerInv'
  BY <1>1 DEF Inv, OwnerInv
<1>8. DueInv'
  BY <1>1, <1>2, <1>3 DEF Inv, DueInv
<1>9. \A x \in Threads \ {o} : pc'[x] = pc[x]
  BY <1>1, <1>2
<1>10. AtInv'
  <2>1. \A x \in Threads : at[x] # NoCoro => x # o
    BY <1>1, Places DEF inPC
  <2> QED
    BY <1>1, <1>2, <1>3, <1>9, <2>1 DEF Inv, AtInv
<1>11. GetInv'
  <2>1. \A p \in getting' : p \in Objects /\ p # o /\ handle_[p] # c
    BY <1>1, <1>2 DEF Inv, Types, OwnerInv
  <2>2. \A p \in getting' : got'[handle_[p]] = got[handle_[p]]
    BY <1>1, <1>2, <2>1
  <2>3. pc'[o] = "idle" /\ \A p \in Objects \ {o} : pc'[p] = pc[p]
    BY <1>1, <1>2 DEF Threads
  <2> QED
    BY <1>1, <2>1, <2>2, <2>3 DEF Inv, Types, GetInv, promiseVars
<1>12. SignalInv'
  <2>1. \A d \in external_promise_ \ {c} : got'[d] = got[d]
    BY <1>1, <1>2
  <2>2. got'[c] # "none"
    BY <1>1, <1>2
  <2>3. \A d \in Coros \ {c} : (\E p \in getting : handle_[p] = d) =>
                                  \E p \in getting' : handle_'[p] = d
    BY <1>1
  <2>4. \A x \in Threads : pc'[x] = "signal" => pc[x] = "signal"
    BY <1>1, <1>9
  <2> QED
    BY <1>1, <1>3, <2>1, <2>2, <2>3, <2>4 DEF Inv, Types, SignalInv, promiseVars
<1>13. ResultInv'
  <2>1. \A x \in Threads : at[x] # NoCoro => x # o
    BY <1>1, Places DEF inPC
  <2>2. \A d \in Coros \ {c} : got'[d] = got[d]
    BY <1>1, <1>2
  <2>3. got'[c] # "none"
    BY <1>1, <1>2
  <2>4. \A d \in Coros \ {c} : (\E p \in getting : handle_[p] = d) =>
                                  \E p \in getting' : handle_'[p] = d
    BY <1>1
  <2> QED
    BY <1>1, <1>2, <1>3, <1>9, <2>1, <2>2, <2>3, <2>4 DEF Inv, ResultInv, promiseVars
<1> QED
  BY <1>2, <1>3, <1>4, <1>5, <1>6, <1>7, <1>8, <1>10, <1>11, <1>12, <1>13 DEF Inv

(* get() of a coroutine that is done takes the result.                     *)
LEMMA DoneInv ==
  ASSUME Inv, NEW o \in Objects, handle_[o] \notin away, GetDone(o),
         got[handle_[o]] = "none"
  PROVE  /\ Inv' /\ outcome' = outcome
         /\ result_[handle_[o]] = outcome[handle_[o]]
         /\ at' = at /\ \A x \in Threads : at[x] # handle_[o]
<1> DEFINE c == handle_[o]
<1>1. /\ pc[o] = "idle" /\ c # NoCoro /\ frame[c] = "final"
      /\ got' = [got EXCEPT ![c] = result_[c]]
      /\ result_' = [result_ EXCEPT ![c] = IF @ = "value" THEN "moved" ELSE @]
      /\ UNCHANGED <<poolVars, handle_, frame, external_promise_, signal, pc, getting>>
      /\ UNCHANGED <<resumes, ioVars, away>>
  BY DEF GetDone
<1>2. /\ c \in Coros /\ \A x \in Threads : at[x] # c
      /\ result_ \in [Coros -> Result] /\ got \in [Coros -> Result]
  BY <1>1, NobodyElse DEF inPC, Inv, Types
<1>3. \A p \in getting : handle_[p] # c
  BY <1>1, <1>2 DEF Inv, Types, OwnerInv, GetInv
<1>4. result_[c] \in {"value", "exception"}
  BY <1>1, <1>2, <1>3 DEF Inv, ResultInv, Result
<1>5. outcome' = outcome /\ result_[c] = outcome[c]
  <2>1. \A d \in Coros : outcome'[d] = outcome[d]
    BY <1>1, <1>2, <1>4 DEF outcome
  <2> QED
    BY <1>2, <1>4, <2>1 DEF outcome
<1>6. at' = at /\ due' = due
  BY <1>1 DEF at, due, On, InFrame, poolVars, ioVars
<1>7. PoolInv'
  BY <1>1 DEF Inv, PoolInv, Pool!TypeOK, poolVars
<1>8. Types'
  BY <1>1, <1>2, <1>4 DEF Inv, Types, Result, ioVars
<1>9. ThreadInv' /\ OwnerInv' /\ AtInv' /\ DueInv'
  BY <1>1, <1>6 DEF Inv, ThreadInv, OwnerInv, AtInv, DueInv, poolVars
<1>10. /\ \A d \in Coros \ {c} : got'[d] = got[d] /\ result_'[d] = result_[d]
       /\ got'[c] # "none" /\ result_'[c] # "none"
  BY <1>1, <1>2, <1>4
<1>11. GetInv'
  BY <1>1, <1>3, <1>10 DEF Inv, Types, ThreadInv, GetInv
<1>12. SignalInv'
  BY <1>1, <1>5, <1>6, <1>10 DEF Inv, Types, SignalInv
<1>13. ResultInv'
  <2>1. \A x \in Threads : at[x] # NoCoro => at[x] \in Coros \ {c}
    BY <1>2, Places
  <2> QED
    BY <1>1, <1>6, <1>10, <2>1 DEF Inv, ResultInv
<1> QED
  BY <1>2, <1>5, <1>6, <1>7, <1>8, <1>9, <1>11, <1>12, <1>13 DEF Inv

-----------------------------------------------------------------------------
(* All steps                                                               *)

(* The pool takes, refuses or has done a task, the pool or the io_context  *)
(* closes: the coroutines are where they were.                             *)
LEMMA StayInv ==
  ASSUME Inv, PoolInv', pc' \in [Threads -> PC], io_ctx' \in {"running", "stopped"},
         UNCHANGED <<handle_, frame, promiseVars, getting, resumes, armed, away, got>>,
         \A x \in Threads : \/ pc'[x] = pc[x]
                            \/ x \in Tasks /\ pc[x] = "returning" /\ pc'[x] = "idle",
         \A t \in Tasks :
           \/ status'[t] = status[t] /\ pc'[t] = pc[t]
           \/ status[t] = "new" /\ status'[t] = "refused" /\ pc'[t] = pc[t]
           \/ status[t] = "queued" /\ status'[t] = "running" /\ pc'[t] = pc[t]
           \/ status'[t] = "settled" /\ pc[t] = "returning" /\ pc'[t] = "idle"
  PROVE  Inv' /\ at' = at /\ outcome' = outcome
<1>1. /\ UNCHANGED <<handle_, frame, result_, external_promise_, signal, getting>>
      /\ UNCHANGED <<resumes, armed, away, got>> /\ outcome' = outcome
  BY DEF promiseVars, outcome
<1>2. /\ \A x \in Threads : pc'[x] \in inPC \/ pc[x] \in inPC => pc'[x] = pc[x]
      /\ \A x \in Threads \ Tasks : pc'[x] = pc[x]
  BY DEF inPC
<1>3. at' = at
  BY <1>1, <1>2 DEF at, On, InFrame, inPC
<1>4. due' = due
  <2>1. ASSUME NEW y \in Tasks \cup Coros PROVE due'[y] = due[y]
    <3>1. CASE y \in Tasks
      BY <1>1, <3>1 DEF due, Inv, ThreadInv
    <3>2. CASE y \notin Tasks
      BY <1>1, <3>2 DEF due
    <3> QED
      BY <3>1, <3>2
  <2> QED
    BY <2>1 DEF due
<1>5. Types'
  BY <1>1 DEF Inv, Types
<1>6. ThreadInv'
  <2>1. \A t \in Tasks : /\ pc'[t] \in inPC \cup {"idle", "returning"}
                         /\ pc'[t] # "idle" => status'[t] = "running"
                         /\ status'[t] \in {"queued", "running"} => resumes'[t] \in Coros
    BY <1>1 DEF Inv, ThreadInv
  <2>2. \A x \in Objects \cup Coros : pc'[x] = pc[x]
    BY <1>2 DEF Threads
  <2> QED
    BY <1>1, <2>1, <2>2 DEF Inv, ThreadInv
<1>7. OwnerInv' /\ DueInv'
  BY <1>1, <1>4 DEF Inv, OwnerInv, DueInv
<1>8. AtInv' /\ ResultInv'
  <2>1. \A x \in Threads : at[x] # NoCoro => pc'[x] = pc[x]
    BY <1>2, Places
  <2> QED
    BY <1>1, <1>3, <2>1 DEF Inv, AtInv, ResultInv
<1>9. GetInv'
  <2>1. \A x \in Objects : pc'[x] = pc[x]
    BY <1>2 DEF Threads
  <2> QED
    BY <1>1, <2>1 DEF Inv, Types, GetInv
<1>10. SignalInv'
  <2>1. \A x \in Threads : pc'[x] = "signal" => pc[x] = "signal"
    BY <1>2 DEF inPC
  <2> QED
    BY <1>1, <1>3, <2>1 DEF Inv, SignalInv
<1> QED
  BY <1>1, <1>3, <1>5, <1>6, <1>7, <1>8, <1>9, <1>10 DEF Inv

(* The steps that StayInv is about.                                        *)
Rest ==
  \/ TakeNext \/ PoolCloses \/ IoStops \/ UNCHANGED vars
  \/ \E t \in Tasks : TaskReturns(t) \/ \E x \in Threads : AwaitScheduleThrows(x, t)

(* They leave the coroutines where they were.                              *)
LEMMA RestInv ==
  ASSUME Inv, Rest
  PROVE  /\ Inv' /\ at' = at /\ outcome' = outcome
         /\ UNCHANGED <<handle_, frame, getting, away, got>>
<1>1. CASE TakeNext
  <2>1. PoolInv' /\ \E t \in Tasks : status[t] = "queued" /\ status' = [status EXCEPT ![t] = "running"]
    BY <1>1, StartFacts DEF TakeNext, Inv
  <2>2. status \in [Tasks -> Pool!Status]
    BY DEF Inv, PoolInv, Pool!TypeOK
  <2>3. UNCHANGED <<handle_, frame, promiseVars, pc, getting, resumes, armed, io_ctx, away, got>>
    BY <1>1 DEF TakeNext, ioVars
  <2> QED
    BY <2>1, <2>2, <2>3, StayInv DEF Inv, Types
<1>2. CASE PoolCloses
  <2>1. UNCHANGED <<queue, status>> /\ accepting' \in BOOLEAN /\ retired' \in BOOLEAN
    BY <1>2 DEF PoolCloses, Pool!Close, Inv, PoolInv, Pool!TypeOK
  <2>2. PoolInv'
    BY <2>1, QueueStays DEF Inv
  <2>3. UNCHANGED <<handle_, frame, promiseVars, pc, getting, resumes, armed, io_ctx, away, got>>
    BY <1>2 DEF PoolCloses, ioVars
  <2> QED
    BY <2>1, <2>2, <2>3, StayInv DEF Inv, Types
<1>3. CASE IoStops
  <2>1. /\ UNCHANGED <<poolVars, handle_, frame, promiseVars, pc, getting, resumes>>
        /\ UNCHANGED <<armed, away, got>> /\ io_ctx' = "stopped"
    BY <1>3 DEF IoStops
  <2>2. PoolInv' /\ UNCHANGED status
    BY <2>1 DEF Inv, PoolInv, Pool!TypeOK, poolVars
  <2> QED
    BY <2>1, <2>2, StayInv DEF Inv, Types
<1>4. CASE UNCHANGED vars
  <2>1. /\ UNCHANGED <<poolVars, handle_, frame, promiseVars, pc, getting, resumes>>
        /\ UNCHANGED <<armed, io_ctx, away, got>>
    BY <1>4 DEF vars, ioVars
  <2>2. PoolInv' /\ UNCHANGED status
    BY <2>1 DEF Inv, PoolInv, Pool!TypeOK, poolVars
  <2> QED
    BY <2>1, <2>2, StayInv DEF Inv, Types
<1>5. ASSUME NEW t \in Tasks, TaskReturns(t) \/ \E x \in Threads : AwaitScheduleThrows(x, t)
      PROVE  /\ Inv' /\ at' = at /\ outcome' = outcome
             /\ UNCHANGED <<handle_, frame, getting, away, got>>
  <2>1. status \in [Tasks -> Pool!Status] /\ pc \in [Threads -> PC]
    BY DEF Inv, PoolInv, Pool!TypeOK, Types
  <2>2. CASE TaskReturns(t)
    <3>1. PoolInv' /\ status[t] = "running" /\ status' = [status EXCEPT ![t] = "settled"]
      BY <2>2, SettleFacts DEF TaskReturns, Inv
    <3>2. /\ UNCHANGED <<handle_, frame, promiseVars, getting, resumes, armed, io_ctx, away, got>>
          /\ pc[t] = "returning" /\ pc' = [pc EXCEPT ![t] = "idle"]
      BY <2>2 DEF TaskReturns, Goto, ioVars
    <3>3. pc' \in [Threads -> PC] /\ io_ctx' \in {"running", "stopped"}
      BY <2>1, <3>2 DEF Inv, Types, PC
    <3> QED
      BY <2>1, <3>1, <3>2, <3>3, StayInv
  <2>3. CASE \E x \in Threads : AwaitScheduleThrows(x, t)
    <3>1. /\ Pool!Refuse(t)
          /\ UNCHANGED <<handle_, frame, promiseVars, pc, getting, resumes, armed, io_ctx, away, got>>
      BY <2>3 DEF AwaitScheduleThrows, ioVars
    <3>2. PoolInv' /\ status[t] = "new" /\ status' = [status EXCEPT ![t] = "refused"]
      BY <3>1, RefuseFacts DEF Inv
    <3> QED
      BY <2>1, <3>1, <3>2, StayInv DEF Inv, Types
  <2> QED
    BY <1>5, <2>2, <2>3
<1> QED
  BY <1>1, <1>2, <1>3, <1>4, <1>5 DEF Rest

-----------------------------------------------------------------------------
(* How the steps map to those of LazyTask                                  *)

life ==
  [c \in Coros |->
    CASE frame[c] \in {"none", "destroyed"} -> frame[c]
      [] frame[c] = "suspended" /\ c \notin away -> "lazy"
      [] frame[c] = "final" /\ ~\E x \in Threads : InFrame(x) /\ On(x) = c -> "done"
      [] OTHER -> "active"]

waits == {handle_[o] : o \in getting}

(* The life of a coroutine in terms of at.                                 *)
LifeOf(c) ==
  /\ frame[c] \in {"none", "destroyed"} => life[c] = frame[c]
  /\ frame[c] = "suspended" => life[c] = IF c \in away THEN "active" ELSE "lazy"
  /\ frame[c] = "running" => life[c] = "active"
  /\ frame[c] = "final" => life[c] = IF \E x \in Threads : at[x] = c THEN "active" ELSE "done"

(* LifeOf holds before and after a step.                                   *)
LEMMA LifeIs == \A c \in Coros : LifeOf(c) /\ LifeOf(c)'
<1> SUFFICES ASSUME NEW c \in Coros PROVE LifeOf(c) /\ LifeOf(c)'
  OBVIOUS
<1>1. c # NoCoro
  OBVIOUS
<1>2. (\E x \in Threads : InFrame(x) /\ On(x) = c) <=> (\E x \in Threads : at[x] = c)
  BY <1>1 DEF at
<1>3. (\E x \in Threads : InFrame(x)' /\ On(x)' = c) <=> (\E x \in Threads : at'[x] = c)
  BY <1>1 DEF at
<1>4. LifeOf(c)
  BY <1>2 DEF LifeOf, life
<1>5. LifeOf(c)'
  BY <1>3 DEF LifeOf, life
<1> QED
  BY <1>4, <1>5

(* A step that concerns one coroutine changes the life of no other.        *)
LEMMA LifeMoves ==
  ASSUME NEW c \in Coros,
         frame \in [Coros -> FrameState],
         \A d \in Coros \ {c} :
           /\ frame'[d] = frame[d] /\ (d \in away' <=> d \in away)
           /\ (\E x \in Threads : at'[x] = d) <=> (\E x \in Threads : at[x] = d)
  PROVE  life' = [life EXCEPT ![c] = life'[c]]
<1>1. ASSUME NEW d \in Coros \ {c} PROVE life'[d] = life[d]
  <2>1. LifeOf(d) /\ LifeOf(d)' /\ frame[d] \in FrameState
    BY LifeIs
  <2> QED
    BY <2>1 DEF LifeOf, FrameState
<1>2. life = [d \in Coros |-> life[d]] /\ life' = [d \in Coros |-> life'[d]]
  BY DEF life
<1> QED
  BY <1>1, <1>2

(* Nothing that LazyTask speaks of changes.                                *)
LEMMA LazyStays ==
  ASSUME life' = life, outcome' = outcome, waits' = waits, got' = got
  PROVE  [Lazy!Next]_Lazy!lazyVars
BY DEF Lazy!lazyVars, life, outcome, waits

(* The life of one coroutine goes on.                                      *)
LEMMA LazyMoves ==
  ASSUME NEW c \in Coros, NEW s, life' = [life EXCEPT ![c] = s],
         outcome' = outcome, waits' = waits, got' = got,
         \/ life[c] = "none" /\ s = "lazy"
         \/ life[c] = "lazy" /\ s = "active"
         \/ life[c] = "active" /\ s = "done" /\ outcome[c] # "none"
         \/ life[c] \in {"lazy", "done"} /\ s = "destroyed" /\ c \notin waits
  PROVE  [Lazy!Next]_Lazy!lazyVars
<1>1. CASE life[c] = "none" /\ s = "lazy"
  <2>1. Lazy!Create(c)
    BY <1>1 DEF Lazy!Create, Lazy!Become, life, outcome, waits
  <2> QED
    BY <2>1 DEF Lazy!Next
<1>2. CASE life[c] = "lazy" /\ s = "active"
  <2>1. Lazy!Begin(c)
    BY <1>2 DEF Lazy!Begin, Lazy!Become, life, outcome, waits
  <2> QED
    BY <2>1 DEF Lazy!Next
<1>3. CASE life[c] = "active" /\ s = "done" /\ outcome[c] # "none"
  <2>1. Lazy!Leave(c)
    BY <1>3 DEF Lazy!Leave, Lazy!Become, life, outcome, waits
  <2> QED
    BY <2>1 DEF Lazy!Next
<1>4. CASE life[c] \in {"lazy", "done"} /\ s = "destroyed" /\ c \notin waits
  <2>1. Lazy!Destroy(c)
    BY <1>4 DEF Lazy!Destroy, life, outcome, waits
  <2> QED
    BY <2>1 DEF Lazy!Next
<1> QED
  BY <1>1, <1>2, <1>3, <1>4

(* A get() begins to wait for a lazy coroutine.                            *)
LEMMA LazyAwaits ==
  ASSUME NEW c \in Coros, life[c] = "lazy", c \notin waits, waits' = waits \cup {c},
         life' = life, outcome' = outcome, got' = got
  PROVE  [Lazy!Next]_Lazy!lazyVars
<1>1. Lazy!Await(c)
  BY DEF Lazy!Await, life, outcome, waits
<1> QED
  BY <1>1 DEF Lazy!Next

(* The body ends.                                                          *)
LEMMA LazyFinishes ==
  ASSUME NEW c \in Coros, NEW r \in {"value", "exception"}, life[c] = "active",
         outcome[c] = "none", outcome' = [outcome EXCEPT ![c] = r],
         life' = life, waits' = waits, got' = got
  PROVE  [Lazy!Next]_Lazy!lazyVars
<1>1. Lazy!Finish(c)
  BY DEF Lazy!Finish, life, outcome, waits
<1> QED
  BY <1>1 DEF Lazy!Next

(* A get() returns.                                                        *)
LEMMA LazyDelivers ==
  ASSUME NEW c \in Coros, life[c] = "done", got[c] = "none",
         got' = [got EXCEPT ![c] = outcome[c]], waits' = waits \ {c},
         life' = life, outcome' = outcome
  PROVE  [Lazy!Next]_Lazy!lazyVars
<1>1. Lazy!Deliver(c)
  BY DEF Lazy!Deliver, life, outcome, waits
<1> QED
  BY <1>1 DEF Lazy!Next

-----------------------------------------------------------------------------
(* Each step keeps the invariant, and is one of LazyTask or none           *)

(* A frame is created.                                                     *)
LEMMA CreateStep ==
  ASSUME Inv, NEW o \in Objects, NEW c \in Coros, Create(o, c)
  PROVE  Inv' /\ [Lazy!Next]_Lazy!lazyVars
<1>1. Inv' /\ at' = at /\ outcome' = outcome /\ c \notin away
  BY CreateInv
<1>2. /\ pc[o] = "idle" /\ frame[c] = "none" /\ handle_' = [handle_ EXCEPT ![o] = c]
      /\ frame' = [frame EXCEPT ![c] = "suspended"] /\ UNCHANGED <<getting, away, got>>
      /\ frame \in [Coros -> FrameState] /\ handle_ \in [Objects -> Coros \cup {NoCoro}]
  BY DEF Create, Inv, Types
<1>3. life' = [life EXCEPT ![c] = life'[c]]
  BY <1>1, <1>2, LifeMoves
<1>4. LifeOf(c) /\ LifeOf(c)'
  BY LifeIs
<1>5. life[c] = "none" /\ life'[c] = "lazy"
  BY <1>1, <1>2, <1>4 DEF LifeOf
<1>6. waits' = waits
  BY <1>2 DEF waits, Inv, GetInv, Types
<1> QED
  BY <1>1, <1>2, <1>3, <1>5, <1>6, LazyMoves

(* An object lets its frame go.                                            *)
LEMMA HandleStep ==
  ASSUME Inv, NEW o \in Objects, handle_[o] \notin away,
         Destroy(o) \/ \E other \in Objects : Move(o, other)
  PROVE  Inv' /\ [Lazy!Next]_Lazy!lazyVars
<1> DEFINE c == handle_[o]
<1>1. /\ Inv' /\ at' = at /\ outcome' = outcome
      /\ \A p \in getting : p \in Objects /\ handle_'[p] = handle_[p]
  BY HandleInv
<1>2. /\ pc[o] = "idle" /\ UNCHANGED <<getting, away, got>> /\ DestroyFrame(c)
      /\ frame \in [Coros -> FrameState]
  BY DEF Destroy, Move, Inv, Types
<1>3. waits' = waits
  BY <1>1, <1>2 DEF waits
<1>4. CASE c = NoCoro
  <2>1. frame' = frame
    BY <1>2, <1>4 DEF DestroyFrame
  <2>2. life' = life
    <3>1. \A d \in Coros : LifeOf(d) /\ LifeOf(d)' /\ frame[d] \in FrameState
      BY <1>2, LifeIs
    <3>2. \A d \in Coros : life'[d] = life[d]
      BY <1>1, <1>2, <2>1, <3>1 DEF LifeOf, FrameState
    <3> QED
      BY <3>2 DEF life
  <2> QED
    BY <1>1, <1>2, <1>3, <2>2, LazyStays
<1>5. CASE c # NoCoro
  <2>1. /\ c \in Coros /\ frame[c] \in {"suspended", "final"}
        /\ \A x \in Threads : at[x] # c
    BY <1>2, <1>5, NobodyElse DEF inPC
  <2>2. frame' = [frame EXCEPT ![c] = "destroyed"]
    BY <1>2, <1>5 DEF DestroyFrame
  <2>3. life' = [life EXCEPT ![c] = life'[c]]
    BY <1>1, <1>2, <2>1, <2>2, LifeMoves
  <2>4. \A d \in Coros : LifeOf(d) /\ LifeOf(d)'
    BY LifeIs
  <2>5. life[c] \in {"lazy", "done"} /\ life'[c] = "destroyed"
    BY <1>2, <2>1, <2>2, <2>4, NobodyElse DEF LifeOf, inPC
  <2>6. c \notin waits
    BY <1>2, <1>5, <1>1 DEF waits, Inv, GetInv, OwnerInv
  <2> QED
    BY <1>1, <1>2, <1>3, <2>1, <2>3, <2>5, <2>6, LazyMoves
<1> QED
  BY <1>4, <1>5

(* A thread enters a frame: the coroutine begins, or goes on.              *)
LEMMA EnterStep ==
  ASSUME Inv, NEW x \in Threads, NEW c \in Coros, On(x) = c, Enter(x, c),
         frame[c] = "suspended", pc[x] \in {"idle", "attached"},
         IF x \in Objects THEN c \notin away /\ UNCHANGED armed
         ELSE /\ due[x] = c
              /\ x \in Tasks => status[x] = "running"
              /\ armed' = armed \ {x},
         UNCHANGED <<poolVars, handle_, promiseVars, getting, resumes, io_ctx, away, got>>
  PROVE  Inv' /\ [Lazy!Next]_Lazy!lazyVars
<1>1. Inv' /\ at' = [at EXCEPT ![x] = c] /\ outcome' = outcome
  BY EnterInv
<1>2. /\ frame \in [Coros -> FrameState] /\ frame' = [frame EXCEPT ![c] = "running"]
      /\ UNCHANGED <<handle_, getting, away, got>>
  BY DEF Enter, Inv, Types
<1>3. at[x] = NoCoro /\ at \in [Threads -> Coros \cup {NoCoro}]
  BY Places DEF at, inPC
<1>4. life' = [life EXCEPT ![c] = life'[c]]
  <2>1. \A d \in Coros \ {c} : \A z \in Threads : at'[z] = d <=> at[z] = d
    BY <1>1, <1>3
  <2> QED
    BY <1>2, <2>1, LifeMoves
<1>5. LifeOf(c) /\ LifeOf(c)'
  BY LifeIs
<1>6. life[c] \in {"lazy", "active"} /\ life'[c] = "active"
  BY <1>2, <1>5 DEF LifeOf
<1>7. waits' = waits
  BY <1>2 DEF waits
<1>8. CASE life[c] = "lazy"
  BY <1>1, <1>2, <1>4, <1>6, <1>7, <1>8, LazyMoves
<1>9. CASE life[c] = "active"
  <2>1. life' = life
    BY <1>4, <1>6, <1>9 DEF life
  <2> QED
    BY <1>1, <1>2, <1>7, <2>1, LazyStays
<1> QED
  BY <1>1, <1>6, <1>8, <1>9

(* A thread hands its coroutine over and leaves it.                        *)
LEMMA SuspendStep ==
  ASSUME Inv, NEW x \in Threads, AwaitDelay(x) \/ \E t \in Tasks : AwaitSchedule(x, t)
  PROVE  Inv' /\ [Lazy!Next]_Lazy!lazyVars
<1> DEFINE c == On(x)
<1>1. /\ InBody(x) /\ Suspend(x) /\ away' = away \cup {c}
      /\ UNCHANGED <<handle_, promiseVars, getting, io_ctx, got>>
  BY DEF AwaitDelay, AwaitSchedule, ioVars
<1>2. /\ pc[x] = "body" /\ c \in Coros /\ at[x] = c /\ \A z \in Threads : at[z] = c => z = x
      /\ frame[c] = "running" /\ frame \in [Coros -> FrameState]
      /\ frame' = [frame EXCEPT ![c] = "suspended"]
  BY <1>1, Alone DEF InBody, inPC, Suspend, Inv, Types
<1>3. /\ Inv' /\ outcome' = outcome
      /\ \A z \in Threads : at'[z] = IF z = x THEN NoCoro ELSE at[z]
  <2>1. CASE AwaitDelay(x)
    <3>1. armed' = armed \cup {c} /\ UNCHANGED <<poolVars, resumes>>
      BY <2>1 DEF AwaitDelay
    <3>2. PoolInv' /\ UNCHANGED status
      BY <3>1 DEF Inv, PoolInv, Pool!TypeOK, poolVars
    <3>3. \A t \in Tasks : status[t] # "new" => status'[t] = status[t] /\ resumes'[t] = resumes[t]
      BY <3>1, <3>2
    <3>4. c \in Tasks \cup Coros
      BY <1>2
    <3> HIDE DEF c
    <3> QED
      BY <1>1, <3>1, <3>2, <3>3, <3>4, SuspendInv DEF c
  <2>2. ASSUME NEW t \in Tasks, AwaitSchedule(x, t)
        PROVE  /\ Inv' /\ outcome' = outcome
               /\ \A z \in Threads : at'[z] = IF z = x THEN NoCoro ELSE at[z]
    <3>1. Pool!Accept(t) /\ resumes' = [resumes EXCEPT ![t] = c] /\ UNCHANGED armed
      BY <2>2 DEF AwaitSchedule, ioVars
    <3>2. PoolInv' /\ status[t] = "new" /\ status' = [status EXCEPT ![t] = "queued"]
      BY <3>1, AcceptFacts DEF Inv
    <3>3. \A u \in Tasks : status[u] # "new" => status'[u] = status[u] /\ resumes'[u] = resumes[u]
      BY <3>1, <3>2 DEF Inv, Types, PoolInv, Pool!TypeOK
    <3> QED
      BY <1>1, <3>1, <3>2, <3>3, SuspendInv
  <2> QED
    BY <2>1, <2>2
<1>4. life' = [life EXCEPT ![c] = life'[c]]
  <2>1. \A d \in Coros \ {c} : \A z \in Threads : at'[z] = d <=> at[z] = d
    BY <1>2, <1>3
  <2>2. \A d \in Coros \ {c} : d \in away' <=> d \in away
    BY <1>1
  <2> QED
    BY <1>2, <2>1, <2>2, LifeMoves
<1>5. \A d \in Coros : LifeOf(d) /\ LifeOf(d)'
  BY LifeIs
<1>6. life[c] = "active" /\ life'[c] = "active"
  BY <1>1, <1>2, <1>5 DEF LifeOf
<1>7. life' = life
  BY <1>4, <1>6 DEF life
<1>8. waits' = waits
  BY <1>1 DEF waits
<1> QED
  BY <1>1, <1>3, <1>7, <1>8, LazyStays

(* The body ends.                                                          *)
LEMMA EndStep ==
  ASSUME Inv, NEW x \in Threads, BodyEnds(x)
  PROVE  Inv' /\ [Lazy!Next]_Lazy!lazyVars
<1> DEFINE c == On(x)
<1>1. /\ pc[x] = "body" /\ pc' = [pc EXCEPT ![x] = "finalSuspend"] /\ pc \in [Threads -> PC]
      /\ UNCHANGED <<handle_, frame, getting, away, got>> /\ result_ \in [Coros -> Result]
      /\ frame \in [Coros -> FrameState]
  BY DEF BodyEnds, InBody, Goto, Inv, Types
<1>2. pc'[x] \in inPC
  BY <1>1 DEF inPC
<1>3. Inv' /\ at' = at
  BY <1>2, InsideInv
<1>4. c \in Coros /\ at[x] = c /\ frame[c] = "running" /\ result_[c] = "none"
  BY <1>1, Alone DEF inPC, Inv, ResultInv
<1>5. PICK r \in {"value", "exception"} : result_' = [result_ EXCEPT ![c] = r]
  BY DEF BodyEnds
<1>6. outcome[c] = "none" /\ outcome' = [outcome EXCEPT ![c] = r]
  <2>1. \A d \in Coros : outcome'[d] = IF d = c THEN r ELSE outcome[d]
    BY <1>1, <1>4, <1>5 DEF outcome
  <2> QED
    BY <1>4, <2>1 DEF outcome
<1>7. life' = life
  <2>1. \A d \in Coros : LifeOf(d) /\ LifeOf(d)' /\ frame[d] \in FrameState
    BY <1>1, LifeIs
  <2>2. \A d \in Coros : life'[d] = life[d]
    BY <1>1, <1>3, <2>1 DEF LifeOf, FrameState
  <2> QED
    BY <2>2 DEF life
<1>8. life[c] = "active" /\ waits' = waits
  <2>1. LifeOf(c)
    BY <1>4, LifeIs
  <2> QED
    BY <1>1, <1>4, <2>1 DEF LifeOf, waits
<1> QED
  BY <1>1, <1>3, <1>4, <1>6, <1>7, <1>8, LazyFinishes

(* The coroutine is at its final suspension, and the thread leaves it.     *)
LEMMA FinalStep ==
  ASSUME Inv, NEW x \in Threads, Final(x)
  PROVE  Inv' /\ [Lazy!Next]_Lazy!lazyVars
<1> DEFINE c == On(x)
<1>1. /\ pc[x] \in {"finalSuspend", "awaitSuspend", "signal"} /\ pc \in [Threads -> PC]
      /\ UNCHANGED <<handle_, getting, away, got>> /\ frame \in [Coros -> FrameState]
  BY DEF Final, FinalSuspend, TestPromise, SetPromise, Inv, Types
<1>2. /\ c \in Coros /\ at[x] = c /\ \A z \in Threads : at[z] = c => z = x
      /\ frame[c] = IF pc[x] = "finalSuspend" THEN "running" ELSE "final"
      /\ result_[c] # "none"
  BY <1>1, Alone DEF inPC, Inv, ResultInv, AtInv
<1>3. \A d \in Coros : LifeOf(d) /\ LifeOf(d)'
  BY LifeIs
<1>4. life[c] = "active"
  BY <1>2, <1>3 DEF LifeOf
<1>5. waits' = waits
  BY <1>1 DEF waits
<1>6. CASE pc'[x] \in inPC
  <2>1. FinalSuspend(x) \/ TestPromise(x)
    BY <1>1, <1>6 DEF Final, SetPromise, Leave, Goto, inPC
  <2>2. Inv' /\ at' = at
    BY <1>6, <2>1, InsideInv
  <2>3. /\ result_' = result_
        /\ frame' = frame \/ frame' = [frame EXCEPT ![c] = "final"]
    BY <2>1 DEF FinalSuspend, TestPromise, promiseVars
  <2>4. life' = [life EXCEPT ![c] = life'[c]]
    BY <1>1, <1>2, <2>2, <2>3, LifeMoves
  <2>5. life'[c] = "active"
    BY <1>1, <1>2, <1>3, <2>2, <2>3 DEF LifeOf
  <2>6. life' = life /\ outcome' = outcome
    BY <1>4, <2>3, <2>4, <2>5 DEF life, outcome
  <2> QED
    BY <1>1, <1>5, <2>2, <2>6, LazyStays
<1>7. CASE pc'[x] \notin inPC
  <2>1. TestPromise(x) \/ SetPromise(x)
    BY <1>1, <1>7 DEF Final, FinalSuspend, Goto, inPC
  <2>2. /\ Inv' /\ outcome' = outcome
        /\ \A z \in Threads : at'[z] = IF z = x THEN NoCoro ELSE at[z]
    BY <1>7, <2>1, LeaveInv
  <2>3. frame' = frame /\ frame[c] = "final"
    BY <1>2, <2>1 DEF TestPromise, SetPromise
  <2>4. life' = [life EXCEPT ![c] = life'[c]]
    <3>1. \A d \in Coros \ {c} : \A z \in Threads : at'[z] = d <=> at[z] = d
      BY <1>2, <2>2
    <3> QED
      BY <1>1, <1>2, <2>3, <3>1, LifeMoves
  <2>5. life'[c] = "done"
    BY <1>2, <1>3, <2>2, <2>3 DEF LifeOf
  <2>6. outcome[c] # "none"
    BY <1>2 DEF outcome
  <2> QED
    BY <1>1, <1>2, <1>4, <1>5, <2>2, <2>4, <2>5, <2>6, LazyMoves
<1> QED
  BY <1>6, <1>7

(* get() attaches its promise.                                             *)
LEMMA AttachStep ==
  ASSUME Inv, NEW o \in Objects, handle_[o] \notin away, GetAttach(o)
  PROVE  Inv' /\ [Lazy!Next]_Lazy!lazyVars
<1> DEFINE c == handle_[o]
<1>1. /\ Inv' /\ at' = at /\ outcome' = outcome /\ c \in Coros /\ frame[c] = "suspended"
  BY AttachInv
<1>2. /\ pc[o] = "idle" /\ getting' = getting \cup {o} /\ UNCHANGED <<handle_, frame, away, got>>
      /\ frame \in [Coros -> FrameState]
  BY DEF GetAttach, Inv, Types
<1>3. life' = life
  <2>1. \A d \in Coros : LifeOf(d) /\ LifeOf(d)' /\ frame[d] \in FrameState
    BY <1>2, LifeIs
  <2>2. \A d \in Coros : life'[d] = life[d]
    BY <1>1, <1>2, <2>1 DEF LifeOf, FrameState
  <2> QED
    BY <2>2 DEF life
<1>4. life[c] = "lazy"
  <2>1. LifeOf(c)
    BY <1>1, LifeIs
  <2> QED
    BY <1>1, <2>1 DEF LifeOf
<1>5. c \notin waits /\ waits' = waits \cup {c}
  BY <1>1, <1>2 DEF waits, Inv, Types, GetInv, OwnerInv
<1> QED
  BY <1>1, <1>2, <1>3, <1>4, <1>5, LazyAwaits

(* get() returns, after it has waited or at once.                          *)
LEMMA DeliverStep ==
  ASSUME Inv, NEW o \in Objects,
         \/ GetReturns(o)
         \/ GetDone(o) /\ handle_[o] \notin away /\ got[handle_[o]] = "none"
  PROVE  Inv' /\ [Lazy!Next]_Lazy!lazyVars
<1> DEFINE c == handle_[o]
<1>1. /\ Inv' /\ at' = at /\ outcome' = outcome /\ c \in Coros /\ frame[c] = "final"
      /\ \A x \in Threads : at[x] # c
      /\ got' = [got EXCEPT ![c] = outcome[c]] /\ got[c] = "none"
      /\ UNCHANGED <<handle_, frame>> /\ \A d \in Coros \ {c} : d \in away' <=> d \in away
      /\ waits' = waits \ {c}
  <2>1. CASE GetReturns(o)
    <3>1. /\ Inv' /\ at' = at /\ outcome' = outcome /\ o \in getting /\ c \in Coros
          /\ frame[c] = "final" /\ signal[c] = outcome[c] /\ \A x \in Threads : at[x] # c
      BY <2>1, ReturnsInv
    <3>2. /\ got' = [got EXCEPT ![c] = signal[c]] /\ UNCHANGED <<handle_, frame>>
          /\ getting' = getting \ {o} /\ away' = away \ {c}
      BY <2>1 DEF GetReturns
    <3>3. waits' = waits \ {c}
      BY <3>1, <3>2 DEF waits, Inv, Types, OwnerInv
    <3>4. got[c] = "none"
      BY <3>1 DEF Inv, GetInv
    <3> QED
      BY <3>1, <3>2, <3>3, <3>4
  <2>2. CASE GetDone(o) /\ c \notin away /\ got[c] = "none"
    <3>1. /\ Inv' /\ outcome' = outcome /\ result_[c] = outcome[c] /\ at' = at
          /\ \A x \in Threads : at[x] # c
      BY <2>2, DoneInv
    <3>2. /\ pc[o] = "idle" /\ c # NoCoro /\ frame[c] = "final"
          /\ got' = [got EXCEPT ![c] = result_[c]]
          /\ UNCHANGED <<handle_, frame, away, getting>>
      BY <2>2 DEF GetDone
    <3>3. c \in Coros
      BY <3>2 DEF Inv, Types
    <3>4. c \notin waits
      BY <3>2, <3>3 DEF waits, Inv, Types, GetInv, OwnerInv
    <3>5. waits' = waits
      BY <3>2 DEF waits
    <3> QED
      BY <2>2, <3>1, <3>2, <3>3, <3>4, <3>5
  <2> QED
    BY <2>1, <2>2
<1>2. frame \in [Coros -> FrameState]
  BY DEF Inv, Types
<1>3. LifeOf(c) /\ LifeOf(c)'
  BY <1>1, LifeIs
<1>4. life' = [life EXCEPT ![c] = life'[c]]
  BY <1>1, <1>2, LifeMoves
<1>5. life[c] = "done" /\ life'[c] = "done"
  BY <1>1, <1>3 DEF LifeOf
<1>6. life' = life
  BY <1>4, <1>5 DEF life
<1> QED
  BY <1>1, <1>5, <1>6, LazyDelivers

(* A task or a timer resumes the coroutine that it was to resume, get() or *)
(* resume() a lazy one.                                                    *)
LEMMA ResumptionStep ==
  ASSUME Inv,
         \/ \E o \in Objects : GetResumes(o) \/ (Resume(o) /\ handle_[o] \notin away)
         \/ \E t \in Tasks : TaskResumes(t)
         \/ \E c \in Coros : TimerFires(c)
  PROVE  Inv' /\ [Lazy!Next]_Lazy!lazyVars
<1>1. ASSUME NEW o \in Objects, GetResumes(o) \/ (Resume(o) /\ handle_[o] \notin away)
      PROVE  Inv' /\ [Lazy!Next]_Lazy!lazyVars
  <2> DEFINE c == handle_[o]
  <2>1. c \in Coros /\ frame[c] = "suspended" /\ c \notin away /\ pc[o] \in {"idle", "attached"}
    <3>1. CASE GetResumes(o)
      BY <3>1 DEF GetResumes, Inv, ThreadInv, GetInv
    <3>2. CASE Resume(o) /\ c \notin away
      BY <3>2, NobodyElse DEF Resume, inPC
    <3> QED
      BY <1>1, <3>1, <3>2
  <2>2. /\ Enter(o, c)
        /\ UNCHANGED <<poolVars, handle_, promiseVars, getting, resumes, ioVars, away, got>>
    BY <1>1, <2>1 DEF GetResumes, Resume
  <2>3. o \in Threads /\ On(o) = c /\ UNCHANGED <<armed, io_ctx>>
    BY <2>2 DEF Threads, On, ioVars
  <2> HIDE DEF c
  <2> QED
    BY <2>1, <2>2, <2>3, EnterStep
<1>2. ASSUME NEW t \in Tasks, TaskResumes(t) PROVE Inv' /\ [Lazy!Next]_Lazy!lazyVars
  <2> DEFINE c == resumes[t]
  <2>1. /\ status[t] = "running" /\ pc[t] = "idle" /\ Enter(t, c)
        /\ UNCHANGED <<poolVars, handle_, promiseVars, getting, resumes, ioVars, away, got>>
    BY <1>2 DEF TaskResumes
  <2>2. c \in Coros /\ due[t] = c /\ t \notin armed
    BY <2>1 DEF Inv, Types, ThreadInv, due
  <2>3. frame[c] = "suspended"
    BY <2>2 DEF Inv, DueInv
  <2>4. t \in Threads /\ t \notin Objects /\ On(t) = c
    BY DEF Threads, On
  <2>5. armed' = armed \ {t} /\ UNCHANGED io_ctx
    BY <2>1, <2>2 DEF ioVars
  <2> HIDE DEF c
  <2> QED
    BY <2>1, <2>2, <2>3, <2>4, <2>5, EnterStep
<1>3. ASSUME NEW c \in Coros, TimerFires(c) PROVE Inv' /\ [Lazy!Next]_Lazy!lazyVars
  <2>1. /\ c \in armed /\ armed' = armed \ {c} /\ Enter(c, c)
        /\ UNCHANGED <<poolVars, handle_, promiseVars, getting, resumes, io_ctx, away, got>>
    BY <1>3 DEF TimerFires
  <2>2. due[c] = c
    BY <2>1 DEF due
  <2>3. frame[c] = "suspended"
    BY <2>2 DEF Inv, DueInv
  <2>4. c \in Threads /\ c \notin Objects /\ c \notin Tasks /\ On(c) = c
    BY DEF Threads, On
  <2>5. pc[c] = "idle"
    <3>1. pc[c] \in inPC => at[c] = c
      BY Places
    <3>2. at[c] = c => frame[c] # "suspended"
      BY <2>4 DEF Inv, AtInv
    <3> QED
      BY <2>3, <3>1, <3>2 DEF Inv, ThreadInv
  <2> QED
    BY <2>1, <2>2, <2>3, <2>4, <2>5, EnterStep
<1> QED
  BY <1>1, <1>2, <1>3

(* Every step keeps the invariant and is one of LazyTask or none.          *)
LEMMA NextInv == Inv /\ [Next]_vars => Inv' /\ [Lazy!Next]_Lazy!lazyVars
<1> SUFFICES ASSUME Inv, [Next]_vars PROVE Inv' /\ [Lazy!Next]_Lazy!lazyVars
  OBVIOUS
<1>1. CASE Rest
  <2>1. /\ Inv' /\ at' = at /\ outcome' = outcome
        /\ UNCHANGED <<handle_, frame, getting, away, got>>
    BY <1>1, RestInv
  <2>2. frame \in [Coros -> FrameState]
    BY DEF Inv, Types
  <2>3. life' = life
    <3>1. \A d \in Coros : LifeOf(d) /\ LifeOf(d)' /\ frame[d] \in FrameState
      BY <2>2, LifeIs
    <3>2. \A d \in Coros : life'[d] = life[d]
      BY <2>1, <3>1 DEF LifeOf, FrameState
    <3> QED
      BY <3>2 DEF life
  <2>4. waits' = waits
    BY <2>1 DEF waits
  <2> QED
    BY <2>1, <2>3, <2>4, LazyStays
<1>2. ASSUME NEW o \in Objects, \E c \in Coros : Create(o, c)
      PROVE  Inv' /\ [Lazy!Next]_Lazy!lazyVars
  BY <1>2, CreateStep
<1>3. ASSUME NEW o \in Objects, InGet(o) PROVE Inv' /\ [Lazy!Next]_Lazy!lazyVars
  BY <1>3, ResumptionStep, DeliverStep DEF InGet
<1>4. ASSUME NEW o \in Objects, handle_[o] \notin away, Use(o)
      PROVE  Inv' /\ [Lazy!Next]_Lazy!lazyVars
  BY <1>4, ResumptionStep, DeliverStep, HandleStep, AttachStep DEF Use
<1>5. ASSUME NEW x \in Threads, Body(x) \/ Final(x)
      PROVE  Rest \/ (Inv' /\ [Lazy!Next]_Lazy!lazyVars)
  <2>1. CASE Final(x)
    BY <2>1, FinalStep
  <2>2. CASE Body(x)
    <3>1. CASE AwaitDelay(x) \/ \E t \in Tasks : AwaitSchedule(x, t)
      BY <3>1, SuspendStep
    <3>2. CASE BodyEnds(x)
      BY <3>2, EndStep
    <3>3. ASSUME NEW t \in Tasks, AwaitScheduleThrows(x, t) PROVE Rest
      BY <3>3, Zenon DEF Rest
    <3> QED
      BY <2>2, <3>1, <3>2, <3>3 DEF Body
  <2> QED
    BY <1>5, <2>1, <2>2
<1>6. ASSUME NEW t \in Tasks, TaskResumes(t) \/ TaskReturns(t)
      PROVE  Rest \/ (Inv' /\ [Lazy!Next]_Lazy!lazyVars)
  <2>1. CASE TaskResumes(t)
    BY <2>1, ResumptionStep
  <2>2. CASE TaskReturns(t)
    BY <2>2, Zenon DEF Rest
  <2> QED
    BY <1>6, <2>1, <2>2
<1>7. ASSUME NEW c \in Coros, TimerFires(c) PROVE Inv' /\ [Lazy!Next]_Lazy!lazyVars
  BY <1>7, ResumptionStep
<1>8. CASE TakeNext \/ PoolCloses \/ IoStops \/ Terminated \/ UNCHANGED vars
  BY <1>1, <1>8 DEF Rest, Terminated
<1> QED
  BY <1>1, <1>2, <1>3, <1>4, <1>5, <1>6, <1>7, <1>8 DEF Next, System

(* Every state satisfies the inductive invariant.                          *)
THEOREM Invariance == SafeSpec => []Inv
<1>1. Inv /\ [Next]_vars => Inv'
  BY NextInv
<1> QED
  BY <1>1, InitInv, PTL DEF SafeSpec

-----------------------------------------------------------------------------
(* What follows                                                            *)

(* A coroutine runs as LazyTask says: it begins when its owner says so,    *)
(* ends once, and get() returns what it ended with when no thread is in    *)
(* the frame any more; nobody destroys a frame that is active or awaited.  *)
THEOREM ImplementsLazy == SafeSpec => LazySpec
<1>1. Init => Lazy!Init
  <2> SUFFICES ASSUME Init PROVE Lazy!Init
    OBVIOUS
  <2>1. \A c \in Coros : life[c] = "none" /\ outcome[c] = "none"
    BY DEF Init, life, outcome
  <2>2. life = [c \in Coros |-> "none"] /\ outcome = [c \in Coros |-> "none"]
    BY <2>1 DEF life, outcome
  <2>3. waits = {} /\ got = [c \in Coros |-> "none"]
    BY DEF Init, waits
  <2> QED
    BY <2>2, <2>3 DEF Lazy!Init, life, outcome, waits
<1>2. Inv /\ [Next]_vars => [Lazy!Next]_Lazy!lazyVars
  BY NextInv
<1> QED
  BY <1>1, <1>2, Invariance, PTL DEF SafeSpec, LazySpec, Lazy!SafeSpec

(* A set with at most one element.                                         *)
LEMMA AtMostOne ==
  ASSUME NEW S, \A x, y \in S : x = y
  PROVE  IsFiniteSet(S) /\ Cardinality(S) = (IF S = {} THEN 0 ELSE 1)
<1>1. CASE S = {}
  BY <1>1, FS_EmptySet
<1>2. CASE S # {}
  <2>1. PICK x \in S : TRUE
    BY <1>2
  <2>2. S = {x}
    BY <2>1
  <2> QED
    BY <1>2, <2>2, FS_Singleton
<1> QED
  BY <1>1, <1>2

(* The variables keep their types, and a live frame has one owner.         *)
THEOREM TypeCorrect == SafeSpec => []TypeOK
<1>1. Inv => TypeOK
  <2> SUFFICES ASSUME Inv PROVE TypeOK
    OBVIOUS
  <2>1. ASSUME NEW c \in Coros
        PROVE  Cardinality({o \in Objects : handle_[o] = c}) =
                 IF frame[c] \in {"none", "destroyed"} THEN 0 ELSE 1
    <3> DEFINE S == {o \in Objects : handle_[o] = c}
    <3>1. \A o, p \in S : o = p
      BY DEF Inv, OwnerInv
    <3>2. S = {} <=> frame[c] \in {"none", "destroyed"}
      BY DEF Inv, OwnerInv
    <3>3. Cardinality(S) = IF S = {} THEN 0 ELSE 1
      BY <3>1, AtMostOne
    <3> QED
      BY <3>2, <3>3
  <2> QED
    BY <2>1 DEF TypeOK, Inv, Types, PoolInv
<1> QED
  BY <1>1, Invariance, PTL

(* Two threads are never in one frame, and none is in a destroyed one: the *)
(* thread that signals has made its last access when get() returns.        *)
THEOREM OneThread == SafeSpec => []OneThreadInFrame
<1>1. Inv => OneThreadInFrame
  <2> SUFFICES ASSUME Inv, NEW c \in Coros
               PROVE  Cardinality({x \in Threads : InFrame(x) /\ On(x) = c}) <=
                        IF frame[c] = "destroyed" THEN 0 ELSE 1
    BY DEF OneThreadInFrame
  <2> DEFINE S == {x \in Threads : InFrame(x) /\ On(x) = c}
  <2>1. \A x \in S : at[x] = c
    BY DEF at
  <2>2. \A x, y \in S : x = y
    BY <2>1 DEF Inv, AtInv
  <2>3. frame[c] = "destroyed" => S = {}
    BY <2>1 DEF Inv, AtInv
  <2>4. Cardinality(S) = IF S = {} THEN 0 ELSE 1
    BY <2>2, AtMostOne
  <2> QED
    BY <2>3, <2>4
<1> QED
  BY <1>1, Invariance, PTL

(* Whoever gives a coroutine away makes for one resumption: it is neither  *)
(* forgotten nor resumed twice.  A timer counts after its io_context has   *)
(* stopped too, although nobody will handle it any more.                   *)
THEOREM OneToResume == SafeSpec => []OneResumption
<1>1. Inv => OneResumption
  <2> SUFFICES ASSUME Inv, NEW c \in Coros
               PROVE  Cardinality({t \in Tasks : resumes[t] = c /\ pc[t] = "idle" /\
                                     status[t] \in {"queued", "running"}})
                      + Cardinality({c} \cap armed)
                        = IF frame[c] = "suspended" /\ c \in away THEN 1 ELSE 0
    BY DEF OneResumption
  <2> DEFINE S == {t \in Tasks : resumes[t] = c /\ pc[t] = "idle" /\
                                 status[t] \in {"queued", "running"}}
             A == {c} \cap armed
  <2>1. \A t \in Tasks : t \in S <=> due[t] = c
    BY DEF due
  <2>2. c \in armed <=> due[c] = c
    BY DEF due
  <2>3. \A y \in Coros : due[y] = c => y = c
    BY DEF due
  <2>4. \A x, y \in Tasks \cup Coros : due[x] = c /\ due[y] = c => x = y
    BY DEF Inv, DueInv
  <2>5. (\E y \in Tasks \cup Coros : due[y] = c) <=> (frame[c] = "suspended" /\ c \in away)
    BY DEF Inv, DueInv
  <2>6. Cardinality(S) = IF S = {} THEN 0 ELSE 1
    <3>1. \A x, y \in S : x = y
      BY <2>1, <2>4
    <3> QED
      BY <3>1, AtMostOne
  <2>7. Cardinality(A) = IF c \in armed THEN 1 ELSE 0
    <3>1. \A x, y \in A : x = y
      OBVIOUS
    <3>2. A = {} <=> c \notin armed
      OBVIOUS
    <3> QED
      BY <3>1, <3>2, AtMostOne
  <2>8. ~(S # {} /\ c \in armed)
    BY <2>1, <2>2, <2>4
  <2>9. (S # {} \/ c \in armed) <=> (frame[c] = "suspended" /\ c \in away)
    BY <2>1, <2>2, <2>3, <2>5
  <2> HIDE DEF S, A
  <2>10. Cardinality(S) + Cardinality(A) =
           IF frame[c] = "suspended" /\ c \in away THEN 1 ELSE 0
    BY <2>6, <2>7, <2>8, <2>9
  <2> QED
    BY <2>10 DEF S, A
<1> QED
  BY <1>1, Invariance, PTL

-----------------------------------------------------------------------------
(* Nobody waits for nothing                                                *)

(* Somebody is in the frame of c, or its resumption is to come.            *)
Held(c) ==
  \/ frame[c] = "suspended" /\ c \in away
  \/ \E x \in Threads : pc[x] \in inPC /\ On(x) = c

(* The coroutine of a get() that is blocked is held, and nobody has been   *)
(* given the result of one that is still to be signalled.                  *)
WaitInv ==
  /\ \A o \in Objects : pc[o] = "blocked" /\ signal[handle_[o]] = "pending" =>
       Held(handle_[o])
  /\ \A x \in Threads : pc[x] \in {"awaitSuspend", "signal"} => got[On(x)] = "none"

(* A step in which nobody leaves a frame.                                  *)
LEMMA NobodyLeaves ==
  ASSUME Inv, Inv', WaitInv,
         \A x \in Threads : pc[x] \in inPC => pc'[x] \in inPC /\ On(x)' = On(x),
         \A x \in Threads : pc'[x] \in {"awaitSuspend", "signal"} => pc[x] \in inPC,
         \A c \in Coros : got'[c] = got[c] \/ \A x \in Threads : at[x] # c,
         \A o \in Objects : pc'[o] = "blocked" =>
           /\ pc[o] = "blocked" /\ handle_'[o] = handle_[o]
           /\ signal'[handle_[o]] = signal[handle_[o]]
           /\ handle_[o] \in away => handle_[o] \in away'
           /\ frame[handle_[o]] = "suspended" =>
                frame'[handle_[o]] \in {"suspended", "running"}
  PROVE  WaitInv'
<1>1. ASSUME NEW o \in Objects, pc'[o] = "blocked", signal'[handle_'[o]] = "pending"
      PROVE  Held(handle_[o])'
  <2> DEFINE c == handle_[o]
  <2>1. /\ pc[o] = "blocked" /\ handle_'[o] = c /\ signal[c] = "pending" /\ c \in Coros
        /\ c \in away => c \in away'
        /\ frame[c] = "suspended" => frame'[c] \in {"suspended", "running"}
    BY <1>1 DEF Inv, ThreadInv
  <2>2. Held(c)
    BY <2>1 DEF WaitInv
  <2> HIDE DEF c
  <2>3. CASE \E x \in Threads : pc[x] \in inPC /\ On(x) = c
    <3>1. \E x \in Threads : pc'[x] \in inPC /\ On(x)' = c
      BY <2>3
    <3> QED
      BY <2>1, <3>1 DEF Held, c
  <2>4. CASE frame[c] = "suspended" /\ c \in away
    <3>1. CASE frame'[c] = "running"
      <4>1. PICK x \in Threads : at'[x] = c
        BY <2>1, <3>1 DEF Inv, AtInv
      <4>2. pc'[x] \in inPC /\ On(x)' = c
        BY <2>1, <4>1 DEF at, InFrame, inPC
      <4> QED
        BY <2>1, <4>2 DEF Held, c
    <3>2. CASE frame'[c] = "suspended"
      BY <2>1, <2>4, <3>2 DEF Held, c
    <3> QED
      BY <2>1, <2>4, <3>1, <3>2
  <2> QED
    BY <2>2, <2>3, <2>4 DEF Held
<1>2. ASSUME NEW x \in Threads, pc'[x] \in {"awaitSuspend", "signal"}
      PROVE  got'[On(x)'] = "none"
  <2>1. pc[x] \in inPC /\ On(x)' = On(x)
    BY <1>2
  <2>2. /\ On(x) \in Coros /\ at[x] = On(x)
        /\ pc[x] \in {"body", "finalSuspend"} => frame[On(x)] = "running"
    BY <2>1, Alone
  <2>3. got'[On(x)] = got[On(x)]
    BY <2>2
  <2>4. got[On(x)] = "none"
    BY <2>1, <2>2 DEF WaitInv, Inv, ResultInv, inPC
  <2> QED
    BY <2>1, <2>3, <2>4
<1>3. \A o \in Objects : pc'[o] = "blocked" => handle_'[o] = handle_[o]
  OBVIOUS
<1> QED
  BY <1>1, <1>2, <1>3 DEF WaitInv

(* A step in which one thread leaves a frame.                              *)
LEMMA OneLeaves ==
  ASSUME Inv, Inv', WaitInv, NEW x \in Threads, pc[x] \in inPC,
         pc'[x] \in {"returning", "blocked", "idle"},
         \A z \in Threads \ {x} :
           pc'[z] = pc[z] /\ (pc[z] # "idle" => On(z)' = On(z)),
         UNCHANGED <<handle_, got, external_promise_>>,
         \A c \in Coros \ {On(x)} :
           /\ frame'[c] = frame[c] /\ signal'[c] = signal[c]
           /\ c \in away => c \in away',
         \/ frame'[On(x)] = "suspended" /\ On(x) \in away'
         \/ On(x) \notin external_promise_
         \/ signal'[On(x)] # "pending"
  PROVE  WaitInv'
<1>1. On(x) \in Coros /\ at[x] = On(x) /\ \A z \in Threads : at[z] = On(x) => z = x
  BY Alone
<1>2. ASSUME NEW o \in Objects, pc'[o] = "blocked", signal'[handle_[o]] = "pending"
      PROVE  Held(handle_[o])'
  <2> DEFINE c == handle_[o]
  <2>1. c \in external_promise_ /\ c \in Coros
    BY <1>2 DEF Inv, ThreadInv, GetInv
  <2>2. CASE c = On(x)
    BY <1>2, <2>1, <2>2 DEF Held
  <2>3. CASE c # On(x)
    <3>1. o # x /\ pc[o] = "blocked"
      BY <1>2, <2>3 DEF On, Threads
    <3>2. Held(c)
      BY <1>2, <2>1, <2>3, <3>1 DEF WaitInv
    <3>3. ASSUME NEW z \in Threads, pc[z] \in inPC, On(z) = c
          PROVE  pc'[z] \in inPC /\ On(z)' = c
      BY <2>3, <3>3 DEF inPC
    <3> HIDE DEF c
    <3> QED
      BY <2>1, <2>3, <3>2, <3>3 DEF Held, c
  <2> QED
    BY <2>2, <2>3
<1>3. ASSUME NEW z \in Threads, pc'[z] \in {"awaitSuspend", "signal"}
      PROVE  got'[On(z)'] = "none"
  BY <1>3 DEF WaitInv
<1> QED
  BY <1>2, <1>3 DEF WaitInv

(* Every step keeps it.                                                    *)
LEMMA NextWaitInv == Inv /\ Inv' /\ WaitInv /\ [Next]_vars => WaitInv'
<1> SUFFICES ASSUME Inv, Inv', WaitInv, [Next]_vars PROVE WaitInv'
  OBVIOUS
<1> USE DEF promiseVars, ioVars, poolVars
<1>1. /\ pc \in [Threads -> PC] /\ frame \in [Coros -> FrameState]
      /\ handle_ \in [Objects -> Coros \cup {NoCoro}] /\ getting \subseteq Objects
      /\ signal \in [Coros -> Result \cup {"pending"}] /\ got \in [Coros -> Result]
      /\ resumes \in [Tasks -> Coros \cup {NoCoro}] /\ result_ \in [Coros -> Result]
  BY DEF Inv, Types
<1>2. \A o, p \in Objects : pc[o] # "idle" /\ handle_[o] = handle_[p] => o = p
  BY DEF Inv, ThreadInv, OwnerInv
<1>3. \A o \in Objects : pc[o] # "idle" =>
        handle_[o] \in Coros /\ frame[handle_[o]] \notin {"none", "destroyed"}
  BY DEF Inv, ThreadInv, OwnerInv
<1>4. ASSUME NEW o \in Objects, \E c \in Coros : Create(o, c) PROVE WaitInv'
  <2>1. PICK c \in Coros : Create(o, c)
    BY <1>4
  <2>2. \A z \in Threads : pc[z] # "idle" => On(z)' = On(z)
    BY <1>1, <2>1 DEF Create, On, Threads
  <2>3. \A p \in Objects : pc[p] = "blocked" =>
          handle_'[p] = handle_[p] /\ frame'[handle_[p]] = frame[handle_[p]]
    BY <1>1, <1>3, <2>1 DEF Create
  <2> QED
    BY <2>1, <2>2, <2>3, NobodyLeaves DEF Create, inPC
<1>5. ASSUME NEW o \in Objects, handle_[o] \notin away,
             Destroy(o) \/ \E other \in Objects : Move(o, other)
      PROVE  WaitInv'
  <2>1. /\ pc[o] = "idle" /\ DestroyFrame(handle_[o])
        /\ UNCHANGED <<promiseVars, pc, resumes, away, got>>
    BY <1>5 DEF Destroy, Move
  <2>2. \A p \in Objects : pc[p] # "idle" => handle_'[p] = handle_[p]
    BY <1>1, <1>5 DEF Destroy, Move
  <2>3. \A z \in Threads : pc[z] # "idle" => On(z)' = On(z)
    BY <2>1, <2>2 DEF On, Threads
  <2>4. \A p \in Objects : pc[p] = "blocked" => frame'[handle_[p]] = frame[handle_[p]]
    BY <1>1, <1>2, <1>3, <2>1 DEF DestroyFrame
  <2> QED
    BY <2>1, <2>2, <2>3, <2>4, NobodyLeaves DEF inPC
<1>6. ASSUME NEW x \in Threads, NEW c \in Coros, Enter(x, c), frame[c] # "destroyed",
             UNCHANGED <<handle_, resumes, promiseVars, away, got>>
      PROVE  WaitInv'
  <2>1. pc' = [pc EXCEPT ![x] = "body"] /\ frame' = [frame EXCEPT ![c] = "running"]
    BY <1>1, <1>6 DEF Enter, Goto
  <2>2. \A z \in Threads : On(z)' = On(z)
    BY <1>6 DEF On
  <2>3. \A p \in Objects : pc'[p] = "blocked" => pc[p] = "blocked" /\ handle_[p] \in Coros
    BY <1>1, <1>3, <2>1 DEF Threads
  <2> QED
    BY <1>1, <1>6, <2>1, <2>2, <2>3, NobodyLeaves DEF inPC
<1>7. ASSUME NEW x \in Threads, AwaitDelay(x) \/ \E t \in Tasks : AwaitSchedule(x, t)
      PROVE  WaitInv'
  <2>1. /\ pc[x] = "body" /\ Suspend(x) /\ away' = away \cup {On(x)}
        /\ UNCHANGED <<handle_, promiseVars, got>>
    BY <1>7 DEF AwaitDelay, AwaitSchedule, InBody
  <2>2. \A t \in Tasks : pc[t] # "idle" => resumes'[t] = resumes[t]
    <3>1. CASE AwaitDelay(x)
      BY <3>1 DEF AwaitDelay
    <3>2. ASSUME NEW t \in Tasks, AwaitSchedule(x, t)
          PROVE  \A u \in Tasks : pc[u] # "idle" => resumes'[u] = resumes[u]
      <4>1. status[t] = "new" /\ resumes' = [resumes EXCEPT ![t] = On(x)]
        BY <3>2, AcceptFacts DEF AwaitSchedule, Inv
      <4> QED
        BY <1>1, <4>1 DEF Inv, ThreadInv
    <3> QED
      BY <1>7, <3>1, <3>2
  <2>3. \A z \in Threads \ {x} : pc'[z] = pc[z] /\ (pc[z] # "idle" => On(z)' = On(z))
    BY <1>1, <2>1, <2>2 DEF Suspend, Leave, Goto, On, Threads
  <2>4. pc'[x] \in {"returning", "blocked", "idle"} /\ pc[x] \in inPC /\ On(x) \in Coros
    BY <1>1, <2>1, Alone DEF Suspend, Leave, Goto, inPC
  <2>5. frame' = [frame EXCEPT ![On(x)] = "suspended"]
    BY <2>1 DEF Suspend
  <2> QED
    BY <1>1, <2>1, <2>3, <2>4, <2>5, OneLeaves
<1>8. ASSUME NEW x \in Threads, BodyEnds(x) \/ FinalSuspend(x) \/ TestPromise(x),
             pc'[x] \in inPC
      PROVE  WaitInv'
  <2>1. /\ pc[x] \in inPC /\ UNCHANGED <<handle_, resumes, signal, away, got>>
        /\ frame' = frame \/ frame' = [frame EXCEPT ![On(x)] = "final"]
        /\ \A z \in Threads \ {x} : pc'[z] = pc[z]
        /\ frame' # frame => frame[On(x)] = "running"
    BY <1>1, <1>8, Alone
       DEF BodyEnds, FinalSuspend, TestPromise, InBody, Goto, Leave, inPC
  <2>2. \A z \in Threads : On(z)' = On(z)
    BY <2>1 DEF On
  <2>3. \A p \in Objects : pc'[p] = "blocked" => pc[p] = "blocked"
    BY <1>8, <2>1 DEF inPC, Threads
  <2>4. \A c \in Coros : frame[c] = "suspended" => frame'[c] = "suspended"
    BY <1>1, <2>1
  <2>5. /\ \A z \in Threads : pc[z] \in inPC => pc'[z] \in inPC
        /\ \A z \in Threads : pc'[z] \in {"awaitSuspend", "signal"} => pc[z] \in inPC
    BY <1>8, <2>1 DEF inPC
  <2> QED
    BY <1>3, <2>1, <2>2, <2>3, <2>4, <2>5, NobodyLeaves
<1>9. ASSUME NEW x \in Threads, TestPromise(x) \/ SetPromise(x), pc'[x] \notin inPC
      PROVE  WaitInv'
  <2>1. /\ pc[x] \in inPC /\ UNCHANGED <<handle_, frame, resumes, external_promise_, away, got>>
        /\ pc'[x] \in {"returning", "blocked", "idle"}
        /\ \A z \in Threads \ {x} : pc'[z] = pc[z]
    BY <1>1, <1>9 DEF TestPromise, SetPromise, Leave, Goto, inPC
  <2>2. \A z \in Threads : On(z)' = On(z)
    BY <2>1 DEF On
  <2>3. /\ \A c \in Coros \ {On(x)} : signal'[c] = signal[c]
        /\ On(x) \notin external_promise_ \/ signal'[On(x)] # "pending"
    <3>1. CASE TestPromise(x)
      BY <1>1, <1>9, <3>1 DEF TestPromise, Goto, inPC
    <3>2. CASE SetPromise(x)
      BY <1>1, <2>1, <3>2, Alone DEF SetPromise, Result
    <3> QED
      BY <1>9, <3>1, <3>2
  <2> QED
    BY <2>1, <2>2, <2>3, OneLeaves
<1>10. ASSUME NEW o \in Objects, handle_[o] \notin away, GetAttach(o) PROVE WaitInv'
  <2>1. /\ pc[o] = "idle" /\ pc' = [pc EXCEPT ![o] = "attached"]
        /\ signal' = [signal EXCEPT ![handle_[o]] = "pending"]
        /\ UNCHANGED <<handle_, resumes, frame, away, got>>
    BY <1>10 DEF GetAttach, Goto
  <2>2. \A z \in Threads : On(z)' = On(z)
    BY <2>1 DEF On
  <2>3. /\ \A z \in Threads : pc[z] \in inPC => pc'[z] \in inPC
        /\ \A z \in Threads : pc'[z] \in {"awaitSuspend", "signal"} => pc[z] \in inPC
        /\ \A p \in Objects : pc'[p] = "blocked" => pc[p] = "blocked" /\ p # o
    BY <1>1, <2>1 DEF inPC, Threads
  <2>4. \A p \in Objects : pc'[p] = "blocked" => signal'[handle_[p]] = signal[handle_[p]]
    BY <1>1, <1>2, <1>3, <2>1, <2>3
  <2> QED
    BY <2>1, <2>2, <2>3, <2>4, NobodyLeaves
<1>11. ASSUME NEW o \in Objects, GetReturns(o) PROVE WaitInv'
  <2>1. /\ pc[o] = "blocked" /\ pc' = [pc EXCEPT ![o] = "idle"]
        /\ away' = away \ {handle_[o]} /\ UNCHANGED <<handle_, resumes, frame, signal>>
        /\ got' = [got EXCEPT ![handle_[o]] = signal[handle_[o]]]
    BY <1>11 DEF GetReturns, Goto
  <2>2. \A z \in Threads : On(z)' = On(z)
    BY <2>1 DEF On
  <2>3. /\ \A z \in Threads : pc[z] \in inPC => pc'[z] \in inPC
        /\ \A z \in Threads : pc'[z] \in {"awaitSuspend", "signal"} => pc[z] \in inPC
        /\ \A p \in Objects : pc'[p] = "blocked" => pc[p] = "blocked" /\ p # o
    BY <1>1, <2>1 DEF inPC, Threads
  <2>4. \A p \in Objects : pc'[p] = "blocked" /\ handle_[p] \in away => handle_[p] \in away'
    BY <1>2, <2>1, <2>3
  <2>5. \A c \in Coros : got'[c] = got[c] \/ \A x \in Threads : at[x] # c
    BY <1>1, <1>11, <2>1, ReturnsInv
  <2> QED
    BY <2>1, <2>2, <2>3, <2>4, <2>5, NobodyLeaves
<1>12. ASSUME NEW o \in Objects, handle_[o] \notin away, GetDone(o), got[handle_[o]] = "none"
       PROVE  WaitInv'
  <2>1. /\ UNCHANGED <<handle_, resumes, frame, signal, away, pc>>
        /\ got' = [got EXCEPT ![handle_[o]] = result_[handle_[o]]]
    BY <1>12 DEF GetDone
  <2>2. \A z \in Threads : On(z)' = On(z)
    BY <2>1 DEF On
  <2>3. \A c \in Coros : got'[c] = got[c] \/ \A x \in Threads : at[x] # c
    BY <1>1, <1>12, <2>1, DoneInv
  <2> QED
    BY <2>1, <2>2, <2>3, NobodyLeaves DEF inPC
<1>13. CASE Rest
  <2>1. UNCHANGED <<handle_, frame, signal, away, got>>
    BY <1>13 DEF Rest, TakeNext, PoolCloses, IoStops, TaskReturns, AwaitScheduleThrows, vars
  <2>2. UNCHANGED resumes
    BY <1>13 DEF Rest, TakeNext, PoolCloses, IoStops, TaskReturns, AwaitScheduleThrows, vars
  <2>3. \A z \in Threads : pc'[z] = pc[z] \/ (pc[z] = "returning" /\ pc'[z] = "idle")
    BY <1>1, <1>13
       DEF Rest, TakeNext, PoolCloses, IoStops, TaskReturns, AwaitScheduleThrows, vars, Goto
  <2>4. \A z \in Threads : On(z)' = On(z)
    BY <2>1, <2>2 DEF On
  <2>5. /\ \A z \in Threads : pc[z] \in inPC => pc'[z] \in inPC
        /\ \A z \in Threads : pc'[z] \in {"awaitSuspend", "signal"} => pc[z] \in inPC
        /\ \A p \in Objects : pc'[p] = "blocked" => pc[p] = "blocked"
    BY <2>3 DEF inPC, Threads
  <2> QED
    BY <2>1, <2>4, <2>5, NobodyLeaves
<1>14. ASSUME NEW o \in Objects, GetResumes(o) \/ (Resume(o) /\ handle_[o] \notin away)
       PROVE  WaitInv'
  <2>1. handle_[o] \in Coros /\ frame[handle_[o]] = "suspended"
    <3>1. CASE GetResumes(o)
      BY <3>1 DEF GetResumes, Inv, ThreadInv, GetInv
    <3>2. CASE Resume(o) /\ handle_[o] \notin away
      BY <3>2, NobodyElse DEF Resume, inPC
    <3> QED
      BY <1>14, <3>1, <3>2
  <2>2. /\ Enter(o, handle_[o]) /\ o \in Threads
        /\ UNCHANGED <<handle_, resumes, promiseVars, away, got>>
    BY <1>14, <2>1 DEF GetResumes, Resume, Threads
  <2> QED
    BY <1>6, <2>1, <2>2
<1>15. ASSUME NEW t \in Tasks, TaskResumes(t) PROVE WaitInv'
  <2>1. due[t] = resumes[t] /\ resumes[t] \in Coros
    BY <1>15 DEF TaskResumes, due, Inv, ThreadInv
  <2>2. frame[resumes[t]] = "suspended" /\ t \in Threads
    BY <2>1 DEF Inv, DueInv, Threads
  <2> QED
    BY <1>6, <1>15, <2>1, <2>2 DEF TaskResumes
<1>16. ASSUME NEW c \in Coros, TimerFires(c) PROVE WaitInv'
  <2>1. due[c] = c
    BY <1>16 DEF TimerFires, due
  <2>2. frame[c] = "suspended" /\ c \in Threads
    BY <2>1 DEF Inv, DueInv, Threads
  <2> QED
    BY <1>6, <1>16, <2>2 DEF TimerFires
<1>17. ASSUME NEW x \in Threads, Body(x) \/ Final(x) PROVE WaitInv'
  <2>1. BodyEnds(x) \/ FinalSuspend(x) => pc'[x] \in inPC
    BY <1>1 DEF BodyEnds, FinalSuspend, Goto, inPC
  <2>2. SetPromise(x) => pc'[x] \notin inPC
    BY <1>1 DEF SetPromise, Leave, Goto, inPC
  <2>3. ASSUME NEW t \in Tasks, AwaitScheduleThrows(x, t) PROVE Rest
    BY <2>3, Zenon DEF Rest
  <2> QED
    BY <1>7, <1>8, <1>9, <1>13, <1>17, <2>1, <2>2, <2>3 DEF Body, Final
<1>18. ASSUME NEW t \in Tasks, TaskReturns(t) PROVE Rest
  BY <1>18, Zenon DEF Rest
<1>19. CASE TakeNext \/ PoolCloses \/ IoStops \/ Terminated \/ UNCHANGED vars
  BY <1>13, <1>19 DEF Rest, Terminated
<1>20. ASSUME NEW o \in Objects, InGet(o) \/ (handle_[o] \notin away /\ Use(o)) PROVE WaitInv'
  BY <1>5, <1>10, <1>11, <1>12, <1>14, <1>20 DEF InGet, Use
<1> QED
  BY <1>4, <1>13, <1>15, <1>16, <1>17, <1>18, <1>19, <1>20 DEF Next, System

(* Every state satisfies it.                                               *)
THEOREM WaitInvariance == SafeSpec => []WaitInv
<1>1. Init => WaitInv
  BY DEF Init, WaitInv, Threads
<1> QED
  BY <1>1, InitInv, NextInv, NextWaitInv, PTL DEF SafeSpec

(* A thread that blocks in get() waits for somebody: for a thread that is  *)
(* in the frame, for a task of the pool or for a timer of a running        *)
(* io_context.  The exception is the timer that went with its io_context.  *)
GetServed ==
  \A o \in Objects : pc[o] = "blocked" /\ signal[handle_[o]] = "pending" =>
    \/ \E x \in Threads : InFrame(x) /\ On(x) = handle_[o]
    \/ \E t \in Tasks : /\ resumes[t] = handle_[o] /\ pc[t] = "idle"
                        /\ status[t] \in {"queued", "running"}
    \/ handle_[o] \in armed /\ io_ctx = "running"
    \/ Stranded(handle_[o])

(* A get() is never left waiting for a wakeup that nobody can give, unless *)
(* the coroutine sleeps in a delay whose AsioContext has been destroyed.   *)
THEOREM GetNeverForgotten == SafeSpec => []GetServed
<1>1. Inv /\ WaitInv => GetServed
  <2> SUFFICES ASSUME Inv, WaitInv, NEW o \in Objects,
                      pc[o] = "blocked", signal[handle_[o]] = "pending"
               PROVE  \/ \E x \in Threads : InFrame(x) /\ On(x) = handle_[o]
                      \/ \E t \in Tasks : /\ resumes[t] = handle_[o] /\ pc[t] = "idle"
                                          /\ status[t] \in {"queued", "running"}
                      \/ handle_[o] \in armed
    BY DEF GetServed, Stranded, Inv, Types
  <2>1. Held(handle_[o]) /\ handle_[o] \in Coros
    BY DEF WaitInv, Inv, ThreadInv
  <2>2. CASE \E x \in Threads : pc[x] \in inPC /\ On(x) = handle_[o]
    BY <2>2 DEF InFrame, inPC
  <2>3. CASE frame[handle_[o]] = "suspended" /\ handle_[o] \in away
    <3>1. PICK y \in Tasks \cup Coros : due[y] = handle_[o]
      BY <2>3 DEF Inv, DueInv
    <3> QED
      BY <2>1, <3>1 DEF due
  <2> QED
    BY <2>1, <2>2, <2>3 DEF Held
<1> QED
  BY <1>1, Invariance, WaitInvariance, PTL

(* Set once: when await_suspend() calls set_value() or set_exception(), no *)
(* earlier call has satisfied that promise, and its get() has not returned *)
(* or been given up.                                                       *)
SignalledOnce ==
  \A x \in Threads : pc[x] = "signal" =>
    /\ signal[On(x)] = "pending"
    /\ \E o \in getting : handle_[o] = On(x)

(* The std::promise of a get() is satisfied at most once, while the get()  *)
(* waits for it.                                                           *)
THEOREM PromiseSetOnce == SafeSpec => []SignalledOnce
<1>1. Inv /\ WaitInv => SignalledOnce
  <2> SUFFICES ASSUME Inv, WaitInv, NEW x \in Threads, pc[x] = "signal"
               PROVE  /\ signal[On(x)] = "pending"
                      /\ \E o \in getting : handle_[o] = On(x)
    BY DEF SignalledOnce
  <2>1. /\ at[x] = On(x) /\ frame[On(x)] = "final"
        /\ On(x) \in external_promise_ => signal[On(x)] = "pending"
    BY Alone DEF inPC
  <2>2. On(x) \in external_promise_ /\ got[On(x)] = "none"
    BY <2>1 DEF Inv, SignalInv, WaitInv
  <2> QED
    BY <2>1, <2>2 DEF Inv, SignalInv
<1> QED
  BY <1>1, Invariance, WaitInvariance, PTL

-----------------------------------------------------------------------------
(* What a coroutine_handle asks of its user                                *)

(* resume() enters a frame that is suspended, which no thread is in, and   *)
(* not at its final suspension point; destroy() takes one that no thread   *)
(* is in and no task or timer is about to resume.                          *)
HandlesUsedRightly ==
  [][/\ \A x \in Threads : pc[x] # "body" /\ pc'[x] = "body" =>
          /\ frame[On(x)] = "suspended"
          /\ \A y \in Threads : InFrame(y) => On(y) # On(x)
     /\ \A c \in Coros : frame[c] # "destroyed" /\ frame'[c] = "destroyed" =>
          /\ frame[c] \in {"suspended", "final"}
          /\ \A x \in Threads : InFrame(x) => On(x) # c
          /\ \A t \in Tasks : pc[t] = "idle" /\ status[t] \in {"queued", "running"} =>
               resumes[t] # c
          /\ c \notin armed]_vars

(* The threads that resume a frame.                                        *)
LEMMA ResumesSuspended ==
  ASSUME Inv, [Next]_vars, NEW x \in Threads, pc[x] # "body", pc'[x] = "body"
  PROVE  On(x) \in Coros /\ frame[On(x)] = "suspended"
<1>0. pc \in [Threads -> PC]
  BY DEF Inv, Types
<1>1. ASSUME NEW z \in Threads, NEW l, l # "body", Goto(z, l) PROVE FALSE
  BY <1>0, <1>1 DEF Goto
<1>2. ASSUME NEW z \in Threads, Leave(z) PROVE FALSE
  BY <1>1, <1>2 DEF Leave
<1>3. pc' # pc
  OBVIOUS
<1>4. ASSUME NEW z \in Threads, NEW c \in Coros, Enter(z, c) PROVE z = x
  BY <1>0, <1>4 DEF Enter, Goto
<1>5. ASSUME NEW o \in Objects,
             InGet(o) \/ (handle_[o] \notin away /\ Use(o)) \/ \E c \in Coros : Create(o, c)
      PROVE  On(x) \in Coros /\ frame[On(x)] = "suspended"
  <2>1. o \in Threads /\ On(o) = handle_[o]
    BY DEF Threads, On
  <2>2. CASE Resume(o) /\ handle_[o] \notin away
    <3>1. handle_[o] \in Coros /\ frame[handle_[o]] = "suspended"
      BY <2>2, NobodyElse DEF Resume, inPC
    <3> QED
      BY <1>4, <2>1, <2>2, <3>1 DEF Resume
  <2>3. CASE GetResumes(o)
    <3>1. handle_[o] \in Coros /\ frame[handle_[o]] = "suspended"
      BY <2>3 DEF GetResumes, Inv, ThreadInv, GetInv
    <3> QED
      BY <1>4, <2>1, <2>3, <3>1 DEF GetResumes
  <2>4. CASE Destroy(o) \/ GetDone(o) \/ (\E other \in Objects : Move(o, other))
             \/ \E c \in Coros : Create(o, c)
    BY <1>3, <2>4 DEF Destroy, GetDone, Move, Create
  <2>5. CASE GetAttach(o) \/ GetReturns(o)
    BY <1>1, <2>1, <2>5 DEF GetAttach, GetReturns
  <2> QED
    BY <1>5, <2>2, <2>3, <2>4, <2>5 DEF InGet, Use
<1>6. ASSUME NEW z \in Threads, Body(z) \/ Final(z) PROVE FALSE
  <2>1. CASE \E t \in Tasks : AwaitScheduleThrows(z, t)
    BY <1>3, <2>1 DEF AwaitScheduleThrows
  <2>2. CASE AwaitDelay(z) \/ (\E t \in Tasks : AwaitSchedule(z, t)) \/ SetPromise(z)
    BY <1>2, <2>2 DEF AwaitDelay, AwaitSchedule, Suspend, SetPromise
  <2>3. CASE BodyEnds(z) \/ FinalSuspend(z) \/ TestPromise(z)
    BY <1>1, <1>2, <2>3 DEF BodyEnds, FinalSuspend, TestPromise
  <2> QED
    BY <1>6, <2>1, <2>2, <2>3 DEF Body, Final
<1>7. ASSUME NEW t \in Tasks, TaskResumes(t) \/ TaskReturns(t)
      PROVE  On(x) \in Coros /\ frame[On(x)] = "suspended"
  <2>1. t \in Threads /\ On(t) = resumes[t]
    BY DEF Threads, On
  <2>2. CASE TaskReturns(t)
    BY <1>1, <2>1, <2>2 DEF TaskReturns
  <2>3. CASE TaskResumes(t)
    <3>1. resumes[t] \in Coros /\ due[t] = resumes[t]
      BY <2>3 DEF TaskResumes, Inv, Types, ThreadInv, due
    <3>2. frame[resumes[t]] = "suspended"
      BY <3>1 DEF Inv, DueInv
    <3> QED
      BY <1>4, <2>1, <2>3, <3>1, <3>2 DEF TaskResumes
  <2> QED
    BY <1>7, <2>2, <2>3
<1>8. ASSUME NEW c \in Coros, TimerFires(c)
      PROVE  On(x) \in Coros /\ frame[On(x)] = "suspended"
  <2>1. c \in Threads /\ On(c) = c
    BY DEF Threads, On
  <2>2. due[c] = c
    BY <1>8 DEF TimerFires, due
  <2>3. frame[c] = "suspended"
    BY <2>2 DEF Inv, DueInv
  <2> QED
    BY <1>4, <1>8, <2>1, <2>3 DEF TimerFires
<1>9. CASE TakeNext \/ PoolCloses \/ IoStops \/ Terminated \/ UNCHANGED vars
  BY <1>3, <1>9 DEF TakeNext, PoolCloses, IoStops, Terminated, vars
<1> QED
  BY <1>5, <1>6, <1>7, <1>8, <1>9 DEF Next, System

(* The calls that destroy a frame.                                         *)
LEMMA DestroysUnused ==
  ASSUME Inv, [Next]_vars, NEW c \in Coros, frame[c] # "destroyed", frame'[c] = "destroyed"
  PROVE  \E o \in Objects : pc[o] = "idle" /\ handle_[o] = c /\ c \notin away
<1>0. frame \in [Coros -> FrameState]
  BY DEF Inv, Types
<1>1. ASSUME NEW d, NEW l, l # "destroyed", frame' = [frame EXCEPT ![d] = l] PROVE FALSE
  BY <1>0, <1>1
<1>2. frame' # frame
  OBVIOUS
<1>3. ASSUME NEW z, NEW d, Enter(z, d) PROVE FALSE
  BY <1>0, <1>3 DEF Enter
<1>4. ASSUME NEW o \in Objects,
             InGet(o) \/ (handle_[o] \notin away /\ Use(o)) \/ \E d \in Coros : Create(o, d)
      PROVE  pc[o] = "idle" /\ handle_[o] = c /\ c \notin away
  <2>1. CASE /\ handle_[o] \notin away
             /\ Destroy(o) \/ \E other \in Objects : Move(o, other)
    BY <1>0, <2>1 DEF Destroy, Move, DestroyFrame
  <2>2. CASE Resume(o) \/ GetResumes(o)
    BY <1>2, <1>3, <2>2 DEF Resume, GetResumes
  <2>3. CASE GetDone(o) \/ GetAttach(o) \/ GetReturns(o)
    BY <1>2, <2>3 DEF GetDone, GetAttach, GetReturns
  <2>4. CASE \E d \in Coros : Create(o, d)
    BY <1>1, <2>4 DEF Create
  <2> QED
    BY <1>4, <2>1, <2>2, <2>3, <2>4 DEF InGet, Use
<1>5. ASSUME NEW z \in Threads, Body(z) \/ Final(z) PROVE FALSE
  <2>1. CASE AwaitDelay(z) \/ (\E t \in Tasks : AwaitSchedule(z, t)) \/ FinalSuspend(z)
    BY <1>1, <2>1 DEF AwaitDelay, AwaitSchedule, Suspend, FinalSuspend
  <2>2. CASE \/ \E t \in Tasks : AwaitScheduleThrows(z, t)
             \/ BodyEnds(z) \/ TestPromise(z) \/ SetPromise(z)
    BY <1>2, <2>2 DEF AwaitScheduleThrows, BodyEnds, TestPromise, SetPromise
  <2> QED
    BY <1>5, <2>1, <2>2 DEF Body, Final
<1>6. ASSUME \/ \E t \in Tasks : TaskResumes(t) \/ TaskReturns(t)
             \/ \E d \in Coros : TimerFires(d)
      PROVE  FALSE
  BY <1>2, <1>3, <1>6 DEF TaskResumes, TaskReturns, TimerFires
<1>7. CASE TakeNext \/ PoolCloses \/ IoStops \/ Terminated \/ UNCHANGED vars
  BY <1>2, <1>7 DEF TakeNext, PoolCloses, IoStops, Terminated, vars
<1> QED
  BY <1>4, <1>5, <1>6, <1>7 DEF Next, System

(* Every resume() and every destroy() of a handle is one that the language *)
(* allows, as long as nobody uses the object of a coroutine that has been  *)
(* handed over: two threads never resume one frame, a task that is still   *)
(* in the queue never resumes one that is gone.                            *)
THEOREM HandlesLegal == SafeSpec => HandlesUsedRightly
<1>1. ASSUME Inv, [Next]_vars, NEW x \in Threads, pc[x] # "body", pc'[x] = "body"
      PROVE  frame[On(x)] = "suspended" /\ \A y \in Threads : InFrame(y) => On(y) # On(x)
  <2>1. On(x) \in Coros /\ frame[On(x)] = "suspended"
    BY <1>1, ResumesSuspended
  <2>2. \A y \in Threads : InFrame(y) => frame[On(y)] # "suspended"
    BY <1>1, Alone DEF InFrame, inPC
  <2> QED
    BY <2>1, <2>2
<1>2. ASSUME Inv, [Next]_vars,
             NEW c \in Coros, frame[c] # "destroyed", frame'[c] = "destroyed"
      PROVE  /\ frame[c] \in {"suspended", "final"}
             /\ \A x \in Threads : InFrame(x) => On(x) # c
             /\ \A t \in Tasks : pc[t] = "idle" /\ status[t] \in {"queued", "running"} =>
                  resumes[t] # c
             /\ c \notin armed
  <2>1. PICK o \in Objects : pc[o] = "idle" /\ handle_[o] = c /\ c \notin away
    BY <1>2, DestroysUnused
  <2>2. c # NoCoro /\ pc[o] \notin inPC
    BY <2>1, <1>2 DEF inPC, Inv, OwnerInv, AtInv
  <2>3. /\ frame[c] \in {"suspended", "final"}
        /\ \A x \in Threads : at[x] # c
        /\ \A y \in Tasks \cup Coros : due[y] # c
    BY <1>2, <2>1, <2>2, NobodyElse
  <2>4. \A x \in Threads : InFrame(x) => at[x] = On(x)
    BY DEF at
  <2>5. \A t \in Tasks : pc[t] = "idle" /\ status[t] \in {"queued", "running"} =>
          due[t] = resumes[t]
    BY DEF due
  <2>6. c \in armed => due[c] = c
    BY DEF due
  <2> QED
    BY <2>3, <2>4, <2>5, <2>6
<1>3. Inv /\ [Next]_vars =>
        [/\ \A x \in Threads : pc[x] # "body" /\ pc'[x] = "body" =>
              /\ frame[On(x)] = "suspended"
              /\ \A y \in Threads : InFrame(y) => On(y) # On(x)
         /\ \A c \in Coros : frame[c] # "destroyed" /\ frame'[c] = "destroyed" =>
              /\ frame[c] \in {"suspended", "final"}
              /\ \A x \in Threads : InFrame(x) => On(x) # c
              /\ \A t \in Tasks : pc[t] = "idle" /\ status[t] \in {"queued", "running"} =>
                   resumes[t] # c
              /\ c \notin armed]_vars
  BY <1>1, <1>2
<1> QED
  BY <1>3, Invariance, PTL DEF SafeSpec, HandlesUsedRightly

=============================================================================
