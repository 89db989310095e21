--------------------------- MODULE LockFreeQueue ----------------------------
(***************************************************************************)
(* ate::LockFreeQueue (include/ate/lockfree_queue.hpp): a ring of slots,   *)
(* each with a sequence number that says whether it may be written for the *)
(* position pos (sequence = pos) or read (sequence = pos + 1).             *)
(*                                                                         *)
(* Every access to a shared location is one action: the load of a          *)
(* position, the load of a slot's sequence with the branch it decides, the *)
(* compare_exchange_weak (which may fail spuriously), the access to the    *)
(* slot's data, the store of its sequence.  The atomics are interleaved;   *)
(* what memory_order_acquire and _release add is represented by ver, rel   *)
(* and seen, from which NoDataRace is stated.  Where a thread loads both   *)
(* positions, nothing orders the two loads and the model takes either      *)
(* first.                                                                  *)
(*                                                                         *)
(* Positions are unbounded here; in the code they are std::size_t words,   *)
(* compared after a cast to std::ptrdiff_t: see WordArithmetic.            *)
(* An operator named ...Mutant is a wrong variant of a later definition    *)
(* and not part of the model.                                              *)
(***************************************************************************)
EXTENDS Integers, Sequences, FiniteSets

CONSTANTS
  Threads,   \* each may push, pop and ask for the size
  Values,    \* the elements, each pushed successfully at most once
  Capacity,  \* capacity_
  NoValue    \* a moved-from or never written element

(* The assertion of the constructor; with one slot, "written for pos" and  *)
(* "free for pos + 1" would be the same sequence number.                   *)
ASSUME CapacityAssumption == Capacity \in Nat /\ Capacity >= 2

ASSUME ValuesAssumption == NoValue \notin Values

VARIABLES
  enqueue_pos_, dequeue_pos_,
  sequence,  \* [Slots -> Nat]
  data,      \* [Slots -> Values \cup {NoValue}]
  pc,        \* [Threads -> PC]
  pos,       \* [Threads -> Nat]: the local pos (in size_approx: below)
  val,       \* [Threads -> ...]: the argument of a push, the result of a pop
  log,       \* history: the pushed elements; position n is log[n + 1]
  ver,       \* [Slots -> Nat]: accesses to the slot's data so far
  rel,       \* [Slots -> Nat]: those that the last release of it publishes
  seen       \* [Threads -> [Slots -> Nat]]: those that happened before

shared == <<enqueue_pos_, dequeue_pos_, sequence, data>>
ghosts == <<log, ver, rel, seen>>
vars == <<shared, pc, pos, val, ghosts>>

Slots == 0..(Capacity - 1)
SlotOf(n) == n % Capacity    \* buffer_[pos & mask_]

PC == {"idle", "pushReload", "pushSeq", "pushCas", "pushWrite", "pushPublish",
       "popReload", "popSeq", "popCas", "popMove", "popPublish",
       "sizeDeq", "sizeEnq"}

Init ==
  /\ enqueue_pos_ = 0 /\ dequeue_pos_ = 0
  /\ sequence = [i \in Slots |-> i]
  /\ data = [i \in Slots |-> NoValue]
  /\ pc = [p \in Threads |-> "idle"]
  /\ pos = [p \in Threads |-> 0]
  /\ val = [p \in Threads |-> NoValue]
  /\ log = <<>>
  /\ ver = [i \in Slots |-> 0]
  /\ rel = [i \in Slots |-> 0]
  /\ seen = [p \in Threads |-> [i \in Slots |-> 0]]

Goto(p, l) == pc' = [pc EXCEPT ![p] = l]

Leave(p) == Goto(p, "idle") /\ pos' = [pos EXCEPT ![p] = 0]

Slot(p) == SlotOf(pos[p])

-----------------------------------------------------------------------------
(* Memory order: an acquire load of the slot's sequence makes visible what *)
(* the release store that wrote it published.                              *)

AcquireSequence(p) ==
  /\ seen' = [seen EXCEPT ![p][Slot(p)] =
                IF @ < rel[Slot(p)] THEN rel[Slot(p)] ELSE @]
  /\ UNCHANGED <<log, ver, rel>>

AccessData(p) ==
  /\ ver' = [ver EXCEPT ![Slot(p)] = @ + 1]
  /\ seen' = [seen EXCEPT ![p][Slot(p)] = ver[Slot(p)] + 1]
  /\ UNCHANGED <<log, rel>>

(* Wrong: a relaxed store.                                                 *)
StoreSequenceMutant(p, n) ==
  /\ sequence' = [sequence EXCEPT ![Slot(p)] = n]
  /\ rel' = [rel EXCEPT ![Slot(p)] = 0]
  /\ UNCHANGED <<enqueue_pos_, dequeue_pos_, data, log, ver, seen>>

StoreSequence(p, n) ==
  /\ sequence' = [sequence EXCEPT ![Slot(p)] = n]
  /\ rel' = [rel EXCEPT ![Slot(p)] = seen[p][Slot(p)]]
  /\ UNCHANGED <<enqueue_pos_, dequeue_pos_, data, log, ver, seen>>

-----------------------------------------------------------------------------
(* try_push                                                                *)

Unpushed(v) == v \notin {log[n] : n \in DOMAIN log} \cup {val[p] : p \in Threads}

TryPush(p, v) ==
  /\ pc[p] = "idle" /\ Unpushed(v)
  /\ pos' = [pos EXCEPT ![p] = enqueue_pos_]
  /\ val' = [val EXCEPT ![p] = v]
  /\ Goto(p, "pushSeq")
  /\ UNCHANGED <<shared, ghosts>>

PushReload(p) ==
  /\ pc[p] = "pushReload"
  /\ pos' = [pos EXCEPT ![p] = enqueue_pos_]
  /\ Goto(p, "pushSeq")
  /\ UNCHANGED <<shared, val, ghosts>>

(* The load of slot.sequence when diff is not negative.                    *)
PushCheck(p) ==
  /\ pc[p] = "pushSeq" /\ sequence[Slot(p)] >= pos[p]
  /\ AcquireSequence(p)
  /\ Goto(p, IF sequence[Slot(p)] = pos[p] THEN "pushCas" ELSE "pushReload")
  /\ UNCHANGED <<shared, pos, val>>

(* diff < 0: return false; the caller keeps the element.                   *)
PushFull(p) ==
  /\ pc[p] = "pushSeq" /\ sequence[Slot(p)] < pos[p]
  /\ AcquireSequence(p)
  /\ val' = [val EXCEPT ![p] = NoValue]
  /\ Leave(p)
  /\ UNCHANGED shared

PushCas(p) ==
  /\ pc[p] = "pushCas"
  /\ \/ /\ enqueue_pos_ = pos[p]
        /\ enqueue_pos_' = pos[p] + 1
        /\ log' = Append(log, val[p])
        /\ Goto(p, "pushWrite")
        /\ UNCHANGED pos
     \/ /\ pos' = [pos EXCEPT ![p] = enqueue_pos_]
        /\ Goto(p, "pushSeq")
        /\ UNCHANGED <<enqueue_pos_, log>>
  /\ UNCHANGED <<dequeue_pos_, sequence, data, val, ver, rel, seen>>

PushWrite(p) ==
  /\ pc[p] = "pushWrite"
  /\ data' = [data EXCEPT ![Slot(p)] = val[p]]
  /\ AccessData(p)
  /\ Goto(p, "pushPublish")
  /\ UNCHANGED <<enqueue_pos_, dequeue_pos_, sequence, pos, val>>

PushPublish(p) ==
  /\ pc[p] = "pushPublish"
  /\ StoreSequence(p, pos[p] + 1)
  /\ val' = [val EXCEPT ![p] = NoValue]
  /\ Leave(p)

-----------------------------------------------------------------------------
(* try_pop                                                                 *)

TryPop(p) ==
  /\ pc[p] = "idle"
  /\ pos' = [pos EXCEPT ![p] = dequeue_pos_]
  /\ Goto(p, "popSeq")
  /\ UNCHANGED <<shared, val, ghosts>>

PopReload(p) ==
  /\ pc[p] = "popReload"
  /\ pos' = [pos EXCEPT ![p] = dequeue_pos_]
  /\ Goto(p, "popSeq")
  /\ UNCHANGED <<shared, val, ghosts>>

(* Wrong: compares with pos instead of pos + 1.                            *)
PopCheckMutant(p) ==
  /\ pc[p] = "popSeq" /\ sequence[Slot(p)] >= pos[p]
  /\ AcquireSequence(p)
  /\ Goto(p, IF sequence[Slot(p)] = pos[p] THEN "popCas" ELSE "popReload")
  /\ UNCHANGED <<shared, pos, val>>

PopCheck(p) ==
  /\ pc[p] = "popSeq" /\ sequence[Slot(p)] >= pos[p] + 1
  /\ AcquireSequence(p)
  /\ Goto(p, IF sequence[Slot(p)] = pos[p] + 1 THEN "popCas" ELSE "popReload")
  /\ UNCHANGED <<shared, pos, val>>

(* Wrong: calls a stale position an empty queue.                           *)
PopEmptyMutant(p) ==
  /\ pc[p] = "popSeq" /\ sequence[Slot(p)] # pos[p] + 1
  /\ AcquireSequence(p)
  /\ Leave(p)
  /\ UNCHANGED <<shared, val>>

(* diff < 0: return std::nullopt.                                          *)
PopEmpty(p) ==
  /\ pc[p] = "popSeq" /\ sequence[Slot(p)] < pos[p] + 1
  /\ AcquireSequence(p)
  /\ Leave(p)
  /\ UNCHANGED <<shared, val>>

(* Wrong: a plain store instead of the compare-exchange.                   *)
PopCasMutant(p) ==
  /\ pc[p] = "popCas"
  /\ dequeue_pos_' = pos[p] + 1
  /\ Goto(p, "popMove")
  /\ UNCHANGED <<enqueue_pos_, sequence, data, pos, val, ghosts>>

PopCas(p) ==
  /\ pc[p] = "popCas"
  /\ \/ /\ dequeue_pos_ = pos[p]
        /\ dequeue_pos_' = pos[p] + 1
        /\ Goto(p, "popMove")
        /\ UNCHANGED pos
     \/ /\ pos' = [pos EXCEPT ![p] = dequeue_pos_]
        /\ Goto(p, "popSeq")
        /\ UNCHANGED dequeue_pos_
  /\ UNCHANGED <<enqueue_pos_, sequence, data, val, ghosts>>

(* T result = std::move(slot.data) leaves a moved-from element behind.     *)
PopMove(p) ==
  /\ pc[p] = "popMove"
  /\ val' = [val EXCEPT ![p] = data[Slot(p)]]
  /\ data' = [data EXCEPT ![Slot(p)] = NoValue]
  /\ AccessData(p)
  /\ Goto(p, "popPublish")
  /\ UNCHANGED <<enqueue_pos_, dequeue_pos_, sequence, pos>>

PopPublish(p) ==
  /\ pc[p] = "popPublish"
  /\ StoreSequence(p, pos[p] + Capacity)
  /\ val' = [val EXCEPT ![p] = NoValue]
  /\ Leave(p)

-----------------------------------------------------------------------------
(* size_approx: two relaxed loads, which the compiler and the processor    *)
(* may perform in either order.  pos[p] holds what the first one found     *)
(* while the other, of dequeue_pos_ (at "sizeDeq") or of enqueue_pos_ (at  *)
(* "sizeEnq"), is to come; then it holds the result.                       *)

(* Wrong: subtracts whatever the loads have found.                         *)
DifferenceMutant(enq, deq) == enq - deq

Difference(enq, deq) == IF enq >= deq THEN enq - deq ELSE 0

SizeApprox(p) ==
  /\ \/ /\ pc[p] = "idle"
        /\ pos' = [pos EXCEPT ![p] = enqueue_pos_]
        /\ Goto(p, "sizeDeq")
     \/ /\ pc[p] = "idle"
        /\ pos' = [pos EXCEPT ![p] = dequeue_pos_]
        /\ Goto(p, "sizeEnq")
     \/ /\ pc[p] = "sizeDeq"
        /\ pos' = [pos EXCEPT ![p] = Difference(@, dequeue_pos_)]
        /\ Goto(p, "idle")
     \/ /\ pc[p] = "sizeEnq"
        /\ pos' = [pos EXCEPT ![p] = Difference(enqueue_pos_, @)]
        /\ Goto(p, "idle")
  /\ UNCHANGED <<shared, val, ghosts>>

-----------------------------------------------------------------------------

PushStep(p) ==
  \/ PushReload(p) \/ PushCheck(p) \/ PushFull(p) \/ PushCas(p)
  \/ PushWrite(p) \/ PushPublish(p)

PopStep(p) ==
  \/ PopReload(p) \/ PopCheck(p) \/ PopEmpty(p) \/ PopCas(p)
  \/ PopMove(p) \/ PopPublish(p)

Next ==
  \E p \in Threads :
    \/ \E v \in Values : TryPush(p, v)
    \/ TryPop(p) \/ PushStep(p) \/ PopStep(p) \/ SizeApprox(p)

Spec == Init /\ [][Next]_vars

-----------------------------------------------------------------------------
(* Properties                                                              *)

(* Every variable holds a value of its kind, and the positions never drift *)
(* apart by more than the ring holds.                                      *)
TypeOK ==
  /\ enqueue_pos_ \in Nat /\ dequeue_pos_ \in Nat
  /\ enqueue_pos_ - dequeue_pos_ \in 0..Capacity
  /\ sequence \in [Slots -> Nat]
  /\ data \in [Slots -> Values \cup {NoValue}]
  /\ pc \in [Threads -> PC]
  /\ pos \in [Threads -> Nat]
  /\ val \in [Threads -> Values \cup {NoValue}]
  /\ log \in Seq(Values)
  /\ ver \in [Slots -> Nat] /\ rel \in [Slots -> Nat]
  /\ seen \in [Threads -> [Slots -> Nat]]

(* Whoever touches a slot's data has, through the acquire load of its      *)
(* sequence, seen every access to it so far: the accesses of producers and *)
(* consumers never race, although the compare-exchanges are relaxed.       *)
NoDataRace ==
  \A p \in Threads :
    pc[p] \in {"pushWrite", "popMove"} => seen[p][Slot(p)] = ver[Slot(p)]

(* A refusal has a reason.  try_push returns false only if the ring holds  *)
(* Capacity elements or the pop that frees the slot is still in progress;  *)
(* try_pop returns nullopt only if the queue is empty or the oldest push   *)
(* is still in progress.  In particular no stale position causes one.      *)
(* And so has another turn of the loop: a thread loads the position again  *)
(* only if somebody has claimed the one it had (or if the compare-exchange *)
(* fails), so that, whoever is suspended, nobody retries for nothing.      *)
Pushing(n) ==
  \E p \in Threads : pc[p] \in {"pushWrite", "pushPublish"} /\ pos[p] = n
Popping(n) ==
  \E p \in Threads : pc[p] \in {"popMove", "popPublish"} /\ pos[p] = n

OutcomesHaveReasons ==
  [][\A p \in Threads :
       /\ PushFull(p) => \/ enqueue_pos_ - dequeue_pos_ = Capacity
                         \/ Popping(enqueue_pos_ - Capacity)
       /\ PopEmpty(p) => \/ enqueue_pos_ = dequeue_pos_
                         \/ Pushing(dequeue_pos_)
       /\ PushReload(p) => pos[p] < enqueue_pos_
       /\ PopReload(p) => pos[p] < dequeue_pos_]_vars

Size == enqueue_pos_ - dequeue_pos_

(* size_approx() is as wrong as the call is overtaken: too small by the    *)
(* elements pushed, or too large by those popped, between its two loads,   *)
(* whichever comes first.  So it is exact where nothing overlaps the call, *)
(* and the words never wrap in the subtraction, but it may exceed the      *)
(* capacity: by a round of the ring, or by many.                           *)
SizeWithinOverlap ==
  [][\A p \in Threads : pc'[p] = "idle" =>
       /\ pc[p] = "sizeDeq" =>
            pos'[p] \in 0..Size /\ Size - pos'[p] <= enqueue_pos_ - pos[p]
       /\ pc[p] = "sizeEnq" =>
            pos'[p] >= Size /\ pos'[p] - Size <= dequeue_pos_ - pos[p]]_vars

(* Every successful push and pop takes effect at its compare-exchange: the *)
(* ring is a FIFO of at most Capacity elements, and what a pop moves out   *)
(* of its slot is the element it claimed.                                  *)
Fifo == INSTANCE BoundedFifo WITH
  items <- SubSeq(log, dequeue_pos_ + 1, enqueue_pos_),
  holding <- [p \in Threads |->
                CASE pc[p] = "popMove" -> data[Slot(p)]
                  [] pc[p] = "popPublish" -> val[p]
                  [] OTHER -> NoValue]

FifoSpec == Fifo!Spec

(* The comment at line 197 of lockfree_queue.hpp: the branch that returns  *)
(* nullopt is taken when "no data available -> queue is EMPTY".            *)
NulloptMeansEmpty ==
  [][\A p \in Threads : PopEmpty(p) =>
       ~\E n \in dequeue_pos_ .. enqueue_pos_ - 1 :
            sequence[SlotOf(n)] = n + 1]_vars

=============================================================================
