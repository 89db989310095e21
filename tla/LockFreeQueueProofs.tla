------------------------ MODULE LockFreeQueueProofs -------------------------
(***************************************************************************)
(* Proofs about LockFreeQueue, for every capacity of two or more and every *)
(* set of threads and values, and about its arithmetic, for every width of *)
(* the words.  Inv says what the sequence number of a slot means: for      *)
(* which position it is free or full, and who owns it.                     *)
(***************************************************************************)
EXTENDS RingArithmetic, FiniteSetTheorems, TLAPS

(* The threads between the compare-exchange and the store of the sequence. *)
pushing == {p \in Threads : pc[p] \in {"pushWrite", "pushPublish"}}

popping == {p \in Threads : pc[p] \in {"popMove", "popPublish"}}

slot == [p \in Threads |-> Slot(p)]

Types ==
  /\ enqueue_pos_ \in Nat /\ dequeue_pos_ \in Nat
  /\ sequence \in [Slots -> Nat]
  /\ data \in [Slots -> Values \cup {NoValue}]
  /\ pc \in [Threads -> PC]
  /\ pos \in [Threads -> Nat]
  /\ val \in [Threads -> Values \cup {NoValue}]
  /\ log \in Seq(Values)
  /\ ver \in [Slots -> Nat] /\ rel \in [Slots -> Nat]
  /\ seen \in [Threads -> [Slots -> Nat]]

(* A position that a thread has loaded is not ahead of the shared one.     *)
BoundsInv ==
  /\ dequeue_pos_ <= enqueue_pos_ /\ enqueue_pos_ <= dequeue_pos_ + Capacity
  /\ \A p \in Threads :
       /\ pc[p] \in {"pushSeq", "pushCas", "sizeDeq"} => pos[p] <= enqueue_pos_
       /\ pc[p] \in {"popSeq", "popCas", "sizeEnq"} => pos[p] <= dequeue_pos_

(* A claimed position has one owner, and its slot waits for the owner.     *)
OwnerInv ==
  /\ \A p \in pushing :
       /\ dequeue_pos_ <= pos[p] /\ pos[p] < enqueue_pos_
       /\ sequence[slot[p]] = pos[p]
       /\ \A q \in pushing : pos[p] = pos[q] => p = q
  /\ \A p \in popping :
       /\ pos[p] < dequeue_pos_
       /\ sequence[slot[p]] = pos[p] + 1
       /\ \A q \in popping : pos[p] = pos[q] => p = q

(* A compare-exchange that can succeed has checked the slot as it is now.  *)
CasInv ==
  \A p \in Threads :
    /\ pc[p] = "pushCas" /\ pos[p] = enqueue_pos_ =>
         /\ sequence[slot[p]] = enqueue_pos_
         /\ seen[p][slot[p]] = ver[slot[p]]
    /\ pc[p] = "popCas" /\ pos[p] = dequeue_pos_ =>
         /\ sequence[slot[p]] = dequeue_pos_ + 1
         /\ seen[p][slot[p]] = ver[slot[p]]

(* The slot is free for the position n, if not already claimed.            *)
FreeFor(i, n) ==
  /\ sequence[i] = n /\ SlotOf(n) = i
  /\ dequeue_pos_ <= n /\ n < dequeue_pos_ + Capacity
  /\ n < enqueue_pos_ => \E p \in pushing : pos[p] = n

(* The slot holds the element of position n, if not already claimed.       *)
FullWith(i, n) ==
  /\ sequence[i] = n + 1 /\ SlotOf(n) = i
  /\ n < enqueue_pos_ /\ enqueue_pos_ <= n + Capacity
  /\ IF n < dequeue_pos_ THEN \E p \in popping : pos[p] = n
     ELSE data[i] = log[n + 1]

SlotInv == \A i \in Slots : \E n \in Nat : FreeFor(i, n) \/ FullWith(i, n)

(* The elements on their way through the slots are those of the log.       *)
DataInv ==
  /\ Len(log) = enqueue_pos_
  /\ \A p \in Threads :
       /\ pc[p] \in {"pushReload", "pushSeq", "pushCas"} => val[p] \in Values
       /\ pc[p] \in {"pushWrite", "pushPublish"} => val[p] = log[pos[p] + 1]
       /\ pc[p] \in {"pushPublish", "popMove"} => data[slot[p]] = log[pos[p] + 1]
       /\ pc[p] = "popPublish" => val[p] = log[pos[p] + 1]

(* Only owners have accessed a slot since it was released.                 *)
RaceInv ==
  /\ \A i \in Slots : rel[i] <= ver[i] /\ \A p \in Threads : seen[p][i] <= ver[i]
  /\ \A p \in pushing \cup popping : seen[p][slot[p]] = ver[slot[p]]
  /\ \A i \in Slots : (\A p \in pushing \cup popping : slot[p] # i) => rel[i] = ver[i]

Inv ==
  Types /\ BoundsInv /\ OwnerInv /\ CasInv /\ SlotInv /\ DataInv /\ RaceInv

USE CapacityAssumption, ValuesAssumption

-----------------------------------------------------------------------------
(* Positions and slots                                                     *)

(* Division with remainder.                                                *)
LEMMA DivMod ==
  ASSUME NEW n \in Nat
  PROVE  /\ n = Capacity * (n \div Capacity) + (n % Capacity)
         /\ n \div Capacity \in Nat /\ n % Capacity \in 0..(Capacity - 1)
OBVIOUS

(* The remainder is the only number with which the division comes out.     *)
LEMMA ModUnique ==
  ASSUME NEW k \in Nat, NEW r \in 0..(Capacity - 1)
  PROVE  (Capacity * k + r) % Capacity = r
OBVIOUS

(* A greater quotient means at least one round more.                       *)
LEMMA Rounds ==
  ASSUME NEW k \in Nat, NEW l \in Nat, k < l
  PROVE  Capacity * k + Capacity <= Capacity * l
OBVIOUS

(* Every position has a slot.                                              *)
LEMMA SlotExists ==
  ASSUME NEW n \in Nat
  PROVE  SlotOf(n) \in Slots
BY DivMod DEF SlotOf, Slots

(* In the first round the positions are the slots.                         *)
LEMMA FirstRound ==
  ASSUME NEW i \in Slots
  PROVE  i \in Nat /\ i < Capacity /\ SlotOf(i) = i
<1>1. (Capacity * 0 + i) % Capacity = i
  BY ModUnique DEF Slots
<1>2. i \in Nat /\ i < Capacity /\ Capacity * 0 + i = i
  BY DEF Slots
<1> QED
  BY <1>1, <1>2 DEF SlotOf

(* Two positions with the same slot are a round apart.                     *)
LEMMA RoundApart ==
  ASSUME NEW m \in Nat, NEW n \in Nat, m < n, SlotOf(m) = SlotOf(n)
  PROVE  m + Capacity <= n
<1> DEFINE k == m \div Capacity
           l == n \div Capacity
           r == m % Capacity
<1>1. /\ m = Capacity * k + r /\ n = Capacity * l + r
      /\ k \in Nat /\ l \in Nat /\ r \in 0..(Capacity - 1)
  BY DivMod DEF SlotOf
<1> HIDE DEF k, l, r
<1>2. CASE k < l
  BY <1>1, <1>2, Rounds
<1>3. CASE l <= k
  <2>1. Capacity * l <= Capacity * k
    BY <1>1, <1>3
  <2> QED
    BY <1>1, <2>1
<1> QED
  BY <1>1, <1>2, <1>3

(* The next position has another slot, and the same again a round later.   *)
LEMMA SlotSteps ==
  ASSUME NEW n \in Nat
  PROVE  SlotOf(n + 1) # SlotOf(n) /\ SlotOf(n + Capacity) = SlotOf(n)
<1>1. n + 1 \in Nat /\ n < n + 1 /\ ~(n + Capacity <= n + 1)
  OBVIOUS
<1>2. SlotOf(n + 1) # SlotOf(n)
  BY <1>1, RoundApart
<1> DEFINE k == n \div Capacity
           r == n % Capacity
<1>3. n = Capacity * k + r /\ k \in Nat /\ r \in 0..(Capacity - 1)
  BY DivMod
<1> HIDE DEF k, r
<1>4. n + Capacity = Capacity * (k + 1) + r
  BY <1>3
<1>5. (n + Capacity) % Capacity = r
  BY <1>3, <1>4, ModUnique
<1> QED
  BY <1>2, <1>5 DEF SlotOf, r

-----------------------------------------------------------------------------
(* The invariant                                                           *)

(* At first every slot is free for the position of its number.             *)
LEMMA InitInv == Init => Inv
<1> SUFFICES ASSUME Init PROVE Inv
  OBVIOUS
<1>1. Types
  BY FirstRound DEF Init, Types, PC, Slots
<1>2. pushing = {} /\ popping = {} /\ enqueue_pos_ = 0 /\ dequeue_pos_ = 0
  BY DEF Init, pushing, popping
<1>3. SlotInv
  <2>1. ASSUME NEW i \in Slots PROVE i \in Nat /\ FreeFor(i, i)
    BY <1>2, FirstRound DEF Init, FreeFor
  <2> QED
    BY <2>1 DEF SlotInv
<1>4. BoundsInv /\ OwnerInv /\ CasInv
  BY <1>2 DEF Init, BoundsInv, OwnerInv, CasInv
<1>5. DataInv /\ RaceInv
  BY <1>2 DEF Init, DataInv, RaceInv
<1> QED
  BY <1>1, <1>3, <1>4, <1>5 DEF Inv

(* What the slot of a thread is.                                           *)
LEMMA SlotFacts ==
  ASSUME Types, NEW p \in Threads
  PROVE  /\ slot[p] = Slot(p) /\ slot[p] = SlotOf(pos[p]) /\ slot[p] \in Slots
         /\ pos[p] \in Nat /\ sequence[slot[p]] \in Nat
         /\ ver[slot[p]] \in Nat /\ rel[slot[p]] \in Nat /\ seen[p][slot[p]] \in Nat
<1>1. pos[p] \in Nat
  BY DEF Types
<1>2. slot[p] = SlotOf(pos[p]) /\ slot[p] = Slot(p)
  BY DEF slot, Slot
<1>3. slot[p] \in Slots
  BY <1>1, <1>2, SlotExists
<1> QED
  BY <1>1, <1>2, <1>3 DEF Types

(* A slot has one owner.                                                   *)
LEMMA Exclusive ==
  ASSUME Inv, NEW p \in pushing \cup popping, NEW q \in pushing \cup popping,
         slot[p] = slot[q]
  PROVE  p = q
<1>1. p \in Threads /\ q \in Threads /\ Types
  BY DEF pushing, popping, Inv
<1>2. /\ pos[p] \in Nat /\ pos[q] \in Nat
      /\ slot[p] = SlotOf(pos[p]) /\ slot[q] = SlotOf(pos[q])
  BY <1>1, SlotFacts
<1>3. SlotOf(pos[p] + 1) # SlotOf(pos[p]) /\ SlotOf(pos[q] + 1) # SlotOf(pos[q])
  BY <1>2, SlotSteps
<1>4. CASE p \in pushing /\ q \in pushing
  BY <1>4 DEF Inv, OwnerInv
<1>5. CASE p \in popping /\ q \in popping
  <2>1. pos[p] + 1 = pos[q] + 1
    BY <1>5 DEF Inv, OwnerInv
  <2>2. pos[p] = pos[q]
    BY <1>2, <2>1
  <2> QED
    BY <1>5, <2>2 DEF Inv, OwnerInv
<1>6. CASE p \in pushing /\ q \in popping
  BY <1>2, <1>3, <1>6 DEF Inv, OwnerInv
<1>7. CASE p \in popping /\ q \in pushing
  BY <1>2, <1>3, <1>7 DEF Inv, OwnerInv
<1> QED
  BY <1>4, <1>5, <1>6, <1>7

(* The slot that a compare-exchange is about to claim has no owner.        *)
LEMMA Unowned ==
  ASSUME Inv, NEW n \in Nat,
         \/ n = enqueue_pos_ /\ sequence[SlotOf(n)] = n
         \/ n = dequeue_pos_ /\ sequence[SlotOf(n)] = n + 1
  PROVE  /\ \A p \in pushing \cup popping : slot[p] # SlotOf(n)
         /\ rel[SlotOf(n)] = ver[SlotOf(n)]
<1>1. ASSUME NEW p \in pushing \cup popping, slot[p] = SlotOf(n) PROVE FALSE
  <2>1. p \in Threads /\ Types
    BY DEF pushing, popping, Inv
  <2>2. /\ pos[p] \in Nat /\ SlotOf(pos[p]) = SlotOf(n)
        /\ sequence[slot[p]] = sequence[SlotOf(n)]
    BY <1>1, <2>1, SlotFacts
  <2>3. SlotOf(pos[p] + 1) # SlotOf(pos[p]) /\ SlotOf(n + 1) # SlotOf(n)
    BY <2>2, SlotSteps
  <2>4. CASE p \in pushing
    BY <1>1, <2>2, <2>3, <2>4 DEF Inv, OwnerInv
  <2>5. CASE p \in popping
    BY <1>1, <2>2, <2>3, <2>5 DEF Inv, OwnerInv
  <2> QED
    BY <2>4, <2>5
<1>2. SlotOf(n) \in Slots
  BY SlotExists
<1> QED
  BY <1>1, <1>2 DEF Inv, RaceInv

(* A position can be claimed only where the queue has room or an element.  *)
LEMMA ClaimBounds ==
  ASSUME Inv
  PROVE  /\ sequence[SlotOf(enqueue_pos_)] = enqueue_pos_ =>
              enqueue_pos_ < dequeue_pos_ + Capacity
         /\ sequence[SlotOf(dequeue_pos_)] = dequeue_pos_ + 1 =>
              /\ dequeue_pos_ < enqueue_pos_
              /\ data[SlotOf(dequeue_pos_)] = log[dequeue_pos_ + 1]
<1> DEFINE E == enqueue_pos_
           D == dequeue_pos_
<1>1. E \in Nat /\ D \in Nat /\ SlotOf(E) \in Slots /\ SlotOf(D) \in Slots
  BY SlotExists DEF Inv, Types
<1>2. ASSUME sequence[SlotOf(E)] = E PROVE E < D + Capacity
  <2>1. PICK n \in Nat : FreeFor(SlotOf(E), n) \/ FullWith(SlotOf(E), n)
    BY <1>1 DEF Inv, SlotInv
  <2>2. CASE FreeFor(SlotOf(E), n)
    BY <1>2, <2>2 DEF FreeFor
  <2>3. CASE FullWith(SlotOf(E), n)
    <3>1. SlotOf(n + 1) # SlotOf(n) /\ n + 1 = E /\ SlotOf(n) = SlotOf(E)
      BY <1>2, <2>3, SlotSteps DEF FullWith
    <3> QED
      BY <3>1
  <2> QED
    BY <2>1, <2>2, <2>3
<1>3. ASSUME sequence[SlotOf(D)] = D + 1
      PROVE  D < E /\ data[SlotOf(D)] = log[D + 1]
  <2>1. PICK n \in Nat : FreeFor(SlotOf(D), n) \/ FullWith(SlotOf(D), n)
    BY <1>1 DEF Inv, SlotInv
  <2>2. CASE FreeFor(SlotOf(D), n)
    <3>1. SlotOf(D + 1) # SlotOf(D) /\ n = D + 1 /\ SlotOf(n) = SlotOf(D)
      BY <1>1, <1>3, <2>2, SlotSteps DEF FreeFor
    <3> QED
      BY <3>1
  <2>3. CASE FullWith(SlotOf(D), n)
    BY <1>1, <1>3, <2>3 DEF FullWith
  <2> QED
    BY <2>1, <2>2, <2>3
<1> QED
  BY <1>2, <1>3

-----------------------------------------------------------------------------
(* The steps of a thread that owns no slot and gets none                   *)

owning == {"pushWrite", "pushPublish", "popMove", "popPublish"}

(* What a thread that owns no slot may know.                               *)
Outside(p) ==
  /\ pc[p] \notin owning
  /\ pc[p] \in {"pushSeq", "pushCas", "sizeDeq"} => pos[p] <= enqueue_pos_
  /\ pc[p] \in {"popSeq", "popCas", "sizeEnq"} => pos[p] <= dequeue_pos_
  /\ pc[p] \in {"pushReload", "pushSeq", "pushCas"} => val[p] \in Values
  /\ pc[p] = "pushCas" /\ pos[p] = enqueue_pos_ =>
       /\ sequence[slot[p]] = enqueue_pos_
       /\ seen[p][slot[p]] = ver[slot[p]]
  /\ pc[p] = "popCas" /\ pos[p] = dequeue_pos_ =>
       /\ sequence[slot[p]] = dequeue_pos_ + 1
       /\ seen[p][slot[p]] = ver[slot[p]]
  /\ \A i \in Slots : seen[p][i] <= ver[i]

(* A step that leaves the ring and the other threads alone.                *)
LEMMA QuietStep ==
  ASSUME Inv, Types', NEW p \in Threads, pc[p] \notin owning, Outside(p)',
         UNCHANGED <<shared, log, ver, rel>>,
         \A q \in Threads \ {p} : /\ pc'[q] = pc[q] /\ pos'[q] = pos[q]
                                  /\ val'[q] = val[q] /\ seen'[q] = seen[q]
  PROVE  Inv'
<1>1. pushing' = pushing /\ popping' = popping /\ p \notin pushing \cup popping
  BY DEF pushing, popping, owning, Outside
<1>2. \A q \in Threads \ {p} : slot'[q] = slot[q]
  BY DEF slot, Slot
<1>3. \A q \in pushing \cup popping : q \in Threads \ {p}
  BY <1>1 DEF pushing, popping
<1>4. UNCHANGED <<enqueue_pos_, dequeue_pos_, sequence, data>>
  BY DEF shared
<1>5. BoundsInv'
  BY <1>4 DEF BoundsInv, Inv, Outside
<1>6. OwnerInv'
  BY <1>1, <1>2, <1>3, <1>4 DEF OwnerInv, Inv
<1>7. CasInv'
  BY <1>2, <1>4 DEF CasInv, Inv, Outside
<1>8. SlotInv'
  <2>1. ASSUME NEW i \in Slots, NEW n \in Nat, FreeFor(i, n) PROVE FreeFor(i, n)'
    BY <1>1, <1>3, <1>4, <2>1 DEF FreeFor
  <2>2. ASSUME NEW i \in Slots, NEW n \in Nat, FullWith(i, n) PROVE FullWith(i, n)'
    BY <1>1, <1>3, <1>4, <2>2 DEF FullWith
  <2> QED
    BY <2>1, <2>2 DEF SlotInv, Inv
<1>9. DataInv'
  BY <1>2, <1>4 DEF DataInv, Inv, Outside, owning
<1>10. RaceInv'
  <2>1. \A i \in Slots : rel'[i] <= ver'[i] /\ \A q \in Threads : seen'[q][i] <= ver'[i]
    BY DEF RaceInv, Inv, Outside
  <2> QED
    BY <1>1, <1>2, <1>3, <2>1 DEF RaceInv, Inv
<1> QED
  BY <1>5, <1>6, <1>7, <1>8, <1>9, <1>10 DEF Inv

(* What an acquire load of the slot's sequence does.                       *)
LEMMA Acquired ==
  ASSUME Inv, NEW p \in Threads, AcquireSequence(p)
  PROVE  /\ seen' \in [Threads -> [Slots -> Nat]] /\ UNCHANGED <<log, ver, rel>>
         /\ \A q \in Threads \ {p} : seen'[q] = seen[q]
         /\ \A i \in Slots : seen'[p][i] <= ver[i]
         /\ rel[slot[p]] = ver[slot[p]] => seen'[p][slot[p]] = ver[slot[p]]
<1> DEFINE i == slot[p]
           m == IF seen[p][i] < rel[i] THEN rel[i] ELSE seen[p][i]
<1>1. Types /\ i = Slot(p) /\ i \in Slots
  BY SlotFacts DEF Inv
<1>2. UNCHANGED <<log, ver, rel>> /\ seen' = [seen EXCEPT ![p][i] = m]
  BY <1>1 DEF AcquireSequence
<1>3. \A j \in Slots : seen[p][j] \in Nat /\ seen[p][j] <= ver[j]
  BY <1>1 DEF Inv, RaceInv, Types
<1>4. rel[i] \in Nat /\ ver[i] \in Nat /\ rel[i] <= ver[i]
  BY <1>1 DEF Inv, RaceInv, Types
<1>5. m \in Nat /\ m <= ver[i] /\ (rel[i] = ver[i] => m = ver[i])
  BY <1>1, <1>3, <1>4
<1>6. seen \in [Threads -> [Slots -> Nat]]
  BY <1>1 DEF Types
<1> HIDE DEF m, i
<1>7. seen' \in [Threads -> [Slots -> Nat]]
  BY <1>1, <1>2, <1>5, <1>6
<1>8. \A q \in Threads \ {p} : seen'[q] = seen[q]
  BY <1>2, <1>6
<1>9. seen'[p][i] = m /\ \A j \in Slots \ {i} : seen'[p][j] = seen[p][j]
  BY <1>1, <1>2, <1>6
<1> QED
  BY <1>1, <1>2, <1>3, <1>5, <1>7, <1>8, <1>9 DEF i

(* A thread begins a call, or begins again with a fresh position.          *)
LEMMA LoadInv ==
  ASSUME Inv, NEW p \in Threads,
         \/ \E v \in Values : TryPush(p, v)
         \/ PushReload(p) \/ TryPop(p) \/ PopReload(p) \/ SizeApprox(p)
  PROVE  Inv'
<1>1. /\ UNCHANGED <<shared, ghosts>>
      /\ pc[p] \in {"idle", "pushReload", "popReload", "sizeDeq", "sizeEnq"}
  BY DEF TryPush, PushReload, TryPop, PopReload, SizeApprox
<1>2. /\ \E l \in PC \ owning : pc' = [pc EXCEPT ![p] = l]
      /\ \E n \in Nat : pos' = [pos EXCEPT ![p] = n]
      /\ val' = val \/ \E v \in Values : val' = [val EXCEPT ![p] = v]
  BY DEF TryPush, PushReload, TryPop, PopReload, SizeApprox, Goto, PC, owning, Inv, Types,
         Difference
<1>3. /\ pc'[p] \notin owning
      /\ pc' \in [Threads -> PC] /\ pos' \in [Threads -> Nat]
      /\ val' \in [Threads -> Values \cup {NoValue}]
      /\ \A q \in Threads \ {p} : pc'[q] = pc[q] /\ pos'[q] = pos[q] /\ val'[q] = val[q]
  BY <1>2 DEF Inv, Types
<1>4. Types'
  BY <1>1, <1>3 DEF Inv, Types, shared, ghosts
<1>5. \/ pc'[p] = "pushSeq" /\ pos'[p] = enqueue_pos_ /\ val'[p] \in Values
      \/ pc'[p] = "popSeq" /\ pos'[p] = dequeue_pos_
      \/ pc'[p] = "sizeDeq" /\ pos'[p] = enqueue_pos_
      \/ pc'[p] = "sizeEnq" /\ pos'[p] = dequeue_pos_
      \/ pc'[p] = "idle"
  BY DEF TryPush, PushReload, TryPop, PopReload, SizeApprox, Goto, Inv, Types, DataInv
<1>6. Outside(p)'
  BY <1>1, <1>3, <1>5 DEF Outside, Inv, Types, BoundsInv, RaceInv, shared, ghosts
<1> QED
  BY <1>1, <1>3, <1>4, <1>6, QuietStep DEF owning, ghosts

(* A thread loads the sequence and goes on, starts over or gives up.       *)
LEMMA CheckInv ==
  ASSUME Inv, NEW p \in Threads,
         PushCheck(p) \/ PushFull(p) \/ PopCheck(p) \/ PopEmpty(p)
  PROVE  Inv'
<1>1. /\ UNCHANGED shared /\ pc[p] \in {"pushSeq", "popSeq"} /\ AcquireSequence(p)
  BY DEF PushCheck, PushFull, PopCheck, PopEmpty
<1>2. /\ seen' \in [Threads -> [Slots -> Nat]] /\ UNCHANGED <<log, ver, rel>>
      /\ \A q \in Threads \ {p} : seen'[q] = seen[q]
      /\ \A i \in Slots : seen'[p][i] <= ver[i]
      /\ rel[slot[p]] = ver[slot[p]] => seen'[p][slot[p]] = ver[slot[p]]
  BY <1>1, Acquired
<1>3. /\ \E l \in PC \ owning : pc' = [pc EXCEPT ![p] = l]
      /\ pos' = pos \/ pos' = [pos EXCEPT ![p] = 0]
      /\ val' = val \/ val' = [val EXCEPT ![p] = NoValue]
  BY DEF PushCheck, PushFull, PopCheck, PopEmpty, Goto, Leave, PC, owning
<1>4. /\ pc'[p] \notin owning
      /\ pc' \in [Threads -> PC] /\ pos' \in [Threads -> Nat]
      /\ val' \in [Threads -> Values \cup {NoValue}]
      /\ \A q \in Threads \ {p} : pc'[q] = pc[q] /\ pos'[q] = pos[q] /\ val'[q] = val[q]
  <2>1. /\ pc'[p] \notin owning /\ pc' \in [Threads -> PC]
        /\ \A q \in Threads \ {p} : pc'[q] = pc[q]
    BY <1>3 DEF Inv, Types
  <2>2. /\ pos' \in [Threads -> Nat]
        /\ \A q \in Threads \ {p} : pos'[q] = pos[q]
    <3>1. pos' = pos \/ pos' = [pos EXCEPT ![p] = 0]
      BY <1>3
    <3>2. pos \in [Threads -> Nat]
      BY DEF Inv, Types
    <3> QED
      BY <3>1, <3>2
  <2>3. /\ val' \in [Threads -> Values \cup {NoValue}]
        /\ \A q \in Threads \ {p} : val'[q] = val[q]
    BY <1>3 DEF Inv, Types
  <2> QED
    BY <2>1, <2>2, <2>3
<1>5. Types'
  BY <1>1, <1>2, <1>4 DEF Inv, Types, shared
<1>6. Slot(p) = slot[p] /\ slot[p] = SlotOf(pos[p]) /\ pos[p] \in Nat
  BY SlotFacts DEF Inv
<1>7. \/ /\ pc[p] = "pushSeq" /\ pos' = pos /\ val'[p] = val[p]
         /\ \/ pc'[p] = "pushCas" /\ sequence[slot[p]] = pos[p]
            \/ pc'[p] = "pushReload"
      \/ /\ pc[p] = "popSeq" /\ pos' = pos
         /\ \/ pc'[p] = "popCas" /\ sequence[slot[p]] = pos[p] + 1
            \/ pc'[p] = "popReload"
      \/ pc'[p] = "idle"
  BY <1>6 DEF PushCheck, PushFull, PopCheck, PopEmpty, Goto, Leave, Inv, Types
<1>8. UNCHANGED <<enqueue_pos_, dequeue_pos_, sequence>>
  BY <1>1 DEF shared
<1>9. pc[p] = "pushSeq" => val[p] \in Values /\ pos[p] <= enqueue_pos_
  BY DEF Inv, DataInv, BoundsInv
<1>10. pc[p] = "popSeq" => pos[p] <= dequeue_pos_
  BY DEF Inv, BoundsInv
<1>11. (\/ sequence[slot[p]] = pos[p] /\ pos[p] = enqueue_pos_
        \/ sequence[slot[p]] = pos[p] + 1 /\ pos[p] = dequeue_pos_)
       => seen'[p][slot[p]] = ver[slot[p]]
  BY <1>2, <1>6, Unowned
<1>12. Outside(p)'
  <2>1. pos' = pos => slot'[p] = slot[p]
    BY DEF slot, Slot
  <2> QED
    BY <1>2, <1>4, <1>7, <1>8, <1>9, <1>10, <1>11, <2>1 DEF Outside
<1> QED
  BY <1>1, <1>2, <1>4, <1>5, <1>12, QuietStep DEF owning

(* A compare-exchange fails and loads the position anew.                   *)
LEMMA CasFailsInv ==
  ASSUME Inv, NEW p \in Threads,
         \/ /\ pc[p] = "pushCas" /\ pos' = [pos EXCEPT ![p] = enqueue_pos_]
            /\ Goto(p, "pushSeq")
         \/ /\ pc[p] = "popCas" /\ pos' = [pos EXCEPT ![p] = dequeue_pos_]
            /\ Goto(p, "popSeq"),
         UNCHANGED <<shared, val, ghosts>>
  PROVE  Inv'
<1>1. /\ pc[p] \in {"pushCas", "popCas"}
      /\ \E l \in PC \ owning : pc' = [pc EXCEPT ![p] = l]
      /\ \E n \in Nat : pos' = [pos EXCEPT ![p] = n]
  BY DEF Goto, PC, owning, Inv, Types
<1>2. /\ pc'[p] \notin owning
      /\ pc' \in [Threads -> PC] /\ pos' \in [Threads -> Nat]
      /\ \A q \in Threads \ {p} : pc'[q] = pc[q] /\ pos'[q] = pos[q]
  BY <1>1 DEF Inv, Types
<1>3. Types'
  BY <1>2 DEF Inv, Types, shared, ghosts
<1>4. \/ pc'[p] = "pushSeq" /\ pos'[p] = enqueue_pos_ /\ val[p] \in Values
      \/ pc'[p] = "popSeq" /\ pos'[p] = dequeue_pos_
  BY DEF Goto, Inv, Types, DataInv
<1>5. Outside(p)'
  BY <1>2, <1>4 DEF Outside, Inv, Types, RaceInv, shared, ghosts
<1> QED
  BY <1>1, <1>2, <1>3, <1>5, QuietStep DEF owning, ghosts

-----------------------------------------------------------------------------
(* The steps of the owners                                                 *)

(* A push claims the position enqueue_pos_ and becomes the owner of its    *)
(* slot, which was free.                                                   *)
LEMMA PushClaimsInv ==
  ASSUME Inv, NEW p \in Threads, PushCas(p), Goto(p, "pushWrite"),
         enqueue_pos_ = pos[p], enqueue_pos_' = pos[p] + 1,
         log' = Append(log, val[p]), pos' = pos
  PROVE  Inv'
<1>0. PICK E, D, i : E = enqueue_pos_ /\ D = dequeue_pos_ /\ i = slot[p]
  OBVIOUS
<1>1. /\ pc[p] = "pushCas" /\ pc' = [pc EXCEPT ![p] = "pushWrite"]
      /\ UNCHANGED <<dequeue_pos_, sequence, data, val, ver, rel, seen>>
  BY DEF PushCas, Goto
<1>2. /\ Types /\ E \in Nat /\ D \in Nat /\ enqueue_pos_ = E /\ dequeue_pos_ = D
      /\ pos[p] = E /\ enqueue_pos_' = E + 1 /\ dequeue_pos_' = D
      /\ slot[p] = i /\ i = SlotOf(E) /\ i \in Slots
      /\ D <= E /\ E <= D + Capacity
  <2>1. Types /\ D <= E /\ E <= D + Capacity
    BY <1>0 DEF Inv, BoundsInv
  <2>2. i = SlotOf(pos[p]) /\ i \in Slots
    BY <1>0, <2>1, SlotFacts
  <2> QED
    BY <1>0, <1>1, <2>1, <2>2 DEF Types
<1>3. sequence[i] = E /\ seen[p][i] = ver[i] /\ val[p] \in Values
  BY <1>1, <1>2 DEF Inv, CasInv, DataInv
<1>4. E < D + Capacity
  BY <1>2, <1>3, ClaimBounds
<1>5. /\ Len(log) = E /\ Len(log') = E + 1 /\ log' \in Seq(Values) /\ log'[E + 1] = val[p]
      /\ \A n \in Nat : n < E => log'[n + 1] = log[n + 1]
  BY <1>2, <1>3 DEF Inv, DataInv, Types
<1>6. Types'
  BY <1>1, <1>2, <1>5 DEF Types, PC
<1>7. /\ pushing' = pushing \cup {p} /\ popping' = popping
      /\ slot' = slot /\ p \notin pushing \cup popping
      /\ pc'[p] = "pushWrite" /\ \A q \in Threads \ {p} : pc'[q] = pc[q]
  BY <1>1, <1>2 DEF pushing, popping, slot, Slot, Types
<1>8. \A q \in pushing \cup popping : slot[q] # i
  BY <1>2, <1>3, Unowned
<1>9. BoundsInv'
  BY <1>1, <1>2, <1>4, <1>7 DEF Inv, BoundsInv, Types
<1>10. OwnerInv'
  <2>1. \A q \in pushing : pos[q] < E /\ pos[q] \in Nat
    BY <1>2 DEF Inv, OwnerInv, pushing, Types
  <2>2. \A q \in pushing' :
          /\ D <= pos[q] /\ pos[q] < E + 1 /\ sequence[slot[q]] = pos[q]
          /\ \A r \in pushing' : pos[q] = pos[r] => q = r
    BY <1>2, <1>3, <1>7, <2>1 DEF Inv, OwnerInv
  <2> QED
    BY <1>1, <1>2, <1>7, <2>2 DEF Inv, OwnerInv
<1>11. CasInv'
  BY <1>1, <1>2, <1>7 DEF Inv, CasInv, BoundsInv
<1>12. SlotInv'
  <2>1. FreeFor(i, E)'
    BY <1>1, <1>2, <1>3, <1>4, <1>7 DEF FreeFor
  <2>2. ASSUME NEW j \in Slots, NEW n \in Nat, j # i, FreeFor(j, n) PROVE FreeFor(j, n)'
    <3>1. n # E
      BY <1>2, <2>2 DEF FreeFor
    <3> QED
      BY <1>1, <1>2, <1>7, <2>2, <3>1 DEF FreeFor
  <2>3. ASSUME NEW j \in Slots, NEW n \in Nat, j # i, FullWith(j, n) PROVE FullWith(j, n)'
    <3>1. E # n + Capacity
      BY <1>2, <2>3, SlotSteps DEF FullWith
    <3>2. /\ sequence[j] = n + 1 /\ SlotOf(n) = j /\ n < E /\ E <= n + Capacity
          /\ IF n < D THEN \E q \in popping : pos[q] = n ELSE data[j] = log[n + 1]
      BY <1>2, <2>3 DEF FullWith
    <3>3. n < E + 1 /\ E + 1 <= n + Capacity
      <4>1. E \in Nat /\ n < E /\ E <= n + Capacity
        BY <1>2, <3>2
      <4> QED
        BY <3>1, <4>1
    <3>4. log'[n + 1] = log[n + 1] /\ popping' = popping /\ pos' = pos
      BY <1>5, <1>7, <3>2
    <3>5. UNCHANGED <<sequence, data>>
      BY <1>1
    <3>6. IF n < D THEN \E q \in popping' : pos'[q] = n ELSE data'[j] = log'[n + 1]
      BY <3>2, <3>4, <3>5
    <3> QED
      BY <1>2, <3>2, <3>3, <3>5, <3>6 DEF FullWith
  <2> QED
    BY <1>2, <2>1, <2>2, <2>3 DEF Inv, SlotInv
<1>13. DataInv'
  <2>1. \A q \in Threads : pc[q] \in owning => pos[q] \in Nat /\ pos[q] < E
    BY <1>2 DEF Inv, OwnerInv, owning, pushing, popping, Types
  <2> QED
    BY <1>1, <1>2, <1>3, <1>5, <1>7, <2>1 DEF Inv, DataInv, owning
<1>14. RaceInv'
  <2>1. \A j \in Slots : (\A q \in pushing' \cup popping' : slot[q] # j) => rel[j] = ver[j]
    BY <1>7 DEF Inv, RaceInv
  <2> QED
    BY <1>1, <1>2, <1>3, <1>7, <2>1 DEF Inv, RaceInv
<1> QED
  BY <1>6, <1>9, <1>10, <1>11, <1>12, <1>13, <1>14 DEF Inv

(* A pop claims the position dequeue_pos_, whose slot is full.             *)
LEMMA PopClaimsInv ==
  ASSUME Inv, NEW p \in Threads, PopCas(p), Goto(p, "popMove"),
         dequeue_pos_ = pos[p], dequeue_pos_' = pos[p] + 1, pos' = pos
  PROVE  Inv'
<1>0. PICK E, D, i : E = enqueue_pos_ /\ D = dequeue_pos_ /\ i = slot[p]
  OBVIOUS
<1>1. /\ pc[p] = "popCas" /\ pc' = [pc EXCEPT ![p] = "popMove"]
      /\ UNCHANGED <<enqueue_pos_, sequence, data, val, log, ver, rel, seen>>
  BY DEF PopCas, Goto, ghosts
<1>2. /\ Types /\ E \in Nat /\ D \in Nat /\ enqueue_pos_ = E /\ dequeue_pos_ = D
      /\ pos[p] = D /\ dequeue_pos_' = D + 1 /\ enqueue_pos_' = E
      /\ slot[p] = i /\ i = SlotOf(D) /\ i \in Slots
      /\ D <= E /\ E <= D + Capacity
  <2>1. Types /\ D <= E /\ E <= D + Capacity
    BY <1>0 DEF Inv, BoundsInv
  <2>2. i = SlotOf(pos[p]) /\ i \in Slots
    BY <1>0, <2>1, SlotFacts
  <2> QED
    BY <1>0, <1>1, <2>1, <2>2 DEF Types
<1>3. sequence[i] = D + 1 /\ seen[p][i] = ver[i]
  BY <1>1, <1>2 DEF Inv, CasInv
<1>4. D < E /\ data[i] = log[D + 1]
  BY <1>2, <1>3, ClaimBounds
<1>5. Types'
  BY <1>1, <1>2 DEF Types, PC
<1>6. /\ popping' = popping \cup {p} /\ pushing' = pushing
      /\ slot' = slot /\ p \notin pushing \cup popping
      /\ pc'[p] = "popMove" /\ \A q \in Threads \ {p} : pc'[q] = pc[q]
  BY <1>1, <1>2 DEF pushing, popping, slot, Slot, Types
<1>7. \A q \in pushing \cup popping : slot[q] # i
  BY <1>2, <1>3, Unowned
<1>8. BoundsInv'
  BY <1>1, <1>2, <1>4, <1>6 DEF Inv, BoundsInv, Types
<1>9. OwnerInv'
  <2>1. \A q \in popping : pos[q] < D /\ pos[q] \in Nat
    BY <1>2 DEF Inv, OwnerInv, popping, Types
  <2>2. \A q \in popping' :
          /\ pos[q] < D + 1 /\ sequence[slot[q]] = pos[q] + 1
          /\ \A r \in popping' : pos[q] = pos[r] => q = r
    BY <1>2, <1>3, <1>6, <2>1 DEF Inv, OwnerInv
  <2>3. \A q \in pushing : D + 1 <= pos[q]
    <3>1. ASSUME NEW q \in pushing, pos[q] = D PROVE FALSE
      <4>1. slot[q] = i
        BY <1>2, <3>1, SlotFacts DEF pushing
      <4> QED
        BY <1>7, <4>1
    <3> QED
      BY <1>2, <3>1 DEF Inv, OwnerInv, pushing, Types
  <2> QED
    BY <1>1, <1>2, <1>6, <2>2, <2>3 DEF Inv, OwnerInv
<1>10. CasInv'
  BY <1>1, <1>2, <1>6 DEF Inv, CasInv, BoundsInv
<1>11. SlotInv'
  <2>1. FullWith(i, D)'
    BY <1>1, <1>2, <1>3, <1>4, <1>6 DEF FullWith
  <2>2. ASSUME NEW j \in Slots, NEW n \in Nat, j # i, FreeFor(j, n) PROVE FreeFor(j, n)'
    <3>1. n # D
      BY <1>2, <2>2 DEF FreeFor
    <3> QED
      BY <1>1, <1>2, <1>6, <2>2, <3>1 DEF FreeFor
  <2>3. ASSUME NEW j \in Slots, NEW n \in Nat, j # i, FullWith(j, n) PROVE FullWith(j, n)'
    <3>1. n # D
      BY <1>2, <2>3 DEF FullWith
    <3> QED
      BY <1>1, <1>2, <1>6, <2>3, <3>1 DEF FullWith
  <2> QED
    BY <1>2, <2>1, <2>2, <2>3 DEF Inv, SlotInv
<1>12. DataInv'
  BY <1>1, <1>2, <1>4, <1>6 DEF Inv, DataInv
<1>13. RaceInv'
  <2>1. \A j \in Slots : (\A q \in pushing' \cup popping' : slot[q] # j) => rel[j] = ver[j]
    BY <1>6 DEF Inv, RaceInv
  <2> QED
    BY <1>1, <1>2, <1>3, <1>6, <2>1 DEF Inv, RaceInv
<1> QED
  BY <1>5, <1>8, <1>9, <1>10, <1>11, <1>12, <1>13 DEF Inv

(* The owner of a slot writes or moves its data.                           *)
LEMMA AccessInv ==
  ASSUME Inv, NEW p \in Threads, PushWrite(p) \/ PopMove(p)
  PROVE  Inv'
<1>0. PICK i : i = slot[p]
  OBVIOUS
<1>1. /\ Types /\ i = Slot(p) /\ slot[p] = i /\ i = SlotOf(pos[p]) /\ i \in Slots
      /\ pos[p] \in Nat /\ SlotOf(pos[p] + 1) # SlotOf(pos[p])
  BY <1>0, SlotFacts, SlotSteps DEF Inv
<1>2. /\ UNCHANGED <<enqueue_pos_, dequeue_pos_, sequence, pos, log, rel>>
      /\ ver' = [ver EXCEPT ![i] = @ + 1] /\ seen' = [seen EXCEPT ![p][i] = ver[i] + 1]
  BY <1>1 DEF PushWrite, PopMove, AccessData
<1>3. \/ /\ pc[p] = "pushWrite" /\ pc' = [pc EXCEPT ![p] = "pushPublish"]
         /\ data' = [data EXCEPT ![i] = val[p]] /\ val' = val
      \/ /\ pc[p] = "popMove" /\ pc' = [pc EXCEPT ![p] = "popPublish"]
         /\ val' = [val EXCEPT ![p] = data[i]] /\ data' = [data EXCEPT ![i] = NoValue]
  BY <1>1 DEF PushWrite, PopMove, Goto
<1>4. /\ p \in pushing \cup popping
      /\ pc' \in [Threads -> PC] /\ \A q \in Threads \ {p} : pc'[q] = pc[q]
      /\ \/ pc[p] = "pushWrite" /\ pc'[p] = "pushPublish"
         \/ pc[p] = "popMove" /\ pc'[p] = "popPublish"
  <2>1. pc \in [Threads -> PC] /\ {"pushPublish", "popPublish"} \subseteq PC
    BY <1>1 DEF Types, PC
  <2>2. \/ pc[p] = "pushWrite" /\ pc' = [pc EXCEPT ![p] = "pushPublish"]
        \/ pc[p] = "popMove" /\ pc' = [pc EXCEPT ![p] = "popPublish"]
    BY <1>3
  <2> QED
    BY <2>1, <2>2 DEF pushing, popping
<1>5. pushing' = pushing /\ popping' = popping /\ slot' = slot
  BY <1>2, <1>4 DEF pushing, popping, slot, Slot
<1>6. /\ data' \in [Slots -> Values \cup {NoValue}]
      /\ val' \in [Threads -> Values \cup {NoValue}]
      /\ \A j \in Slots \ {i} : data'[j] = data[j]
      /\ \A q \in Threads \ {p} : val'[q] = val[q]
  BY <1>1, <1>3 DEF Types
<1>7. /\ ver' \in [Slots -> Nat] /\ seen' \in [Threads -> [Slots -> Nat]]
      /\ ver'[i] = ver[i] + 1 /\ seen'[p][i] = ver[i] + 1 /\ ver[i] \in Nat
      /\ \A j \in Slots \ {i} : ver'[j] = ver[j] /\ seen'[p][j] = seen[p][j]
      /\ \A q \in Threads \ {p} : seen'[q] = seen[q]
  <2>1. ver \in [Slots -> Nat] /\ seen \in [Threads -> [Slots -> Nat]]
    BY <1>1 DEF Types
  <2> QED
    BY <1>1, <1>2, <2>1
<1>8. Types'
  BY <1>1, <1>2, <1>4, <1>6, <1>7 DEF Types
<1>9. \A q \in pushing \cup popping : q \in Threads /\ (q # p => slot[q] # i)
  BY <1>1, <1>4, Exclusive DEF pushing, popping
<1>10. BoundsInv' /\ OwnerInv'
  <2>1. BoundsInv'
    BY <1>2, <1>4 DEF Inv, BoundsInv
  <2> QED
    BY <1>2, <1>5, <2>1 DEF Inv, OwnerInv
<1>11. CasInv'
  <2>1. ASSUME NEW q \in Threads,
               \/ pc[q] = "pushCas" /\ pos[q] = enqueue_pos_
               \/ pc[q] = "popCas" /\ pos[q] = dequeue_pos_
        PROVE  slot[q] # i /\ slot[q] \in Slots
    <3>1. slot[q] = SlotOf(pos[q]) /\ slot[q] \in Slots /\ pos[q] \in Nat
      BY <1>1, SlotFacts
    <3>2. \/ pos[q] = enqueue_pos_ /\ sequence[SlotOf(pos[q])] = pos[q]
          \/ pos[q] = dequeue_pos_ /\ sequence[SlotOf(pos[q])] = pos[q] + 1
      BY <2>1, <3>1 DEF Inv, CasInv
    <3>3. slot[p] # SlotOf(pos[q])
      BY <1>4, <3>1, <3>2, Unowned
    <3> QED
      BY <1>1, <3>1, <3>3
  <2> QED
    BY <1>2, <1>4, <1>5, <1>7, <2>1 DEF Inv, CasInv
<1>12. SlotInv'
  <2>1. ASSUME NEW j \in Slots, NEW n \in Nat, FreeFor(j, n) PROVE FreeFor(j, n)'
    BY <1>2, <1>5, <2>1 DEF FreeFor
  <2>2. ASSUME NEW j \in Slots, NEW n \in Nat, FullWith(j, n) PROVE FullWith(j, n)'
    <3>1. CASE j # i
      BY <1>2, <1>5, <1>6, <2>2, <3>1 DEF FullWith
    <3>2. CASE j = i
      <4>1. p \in popping
        <5>1. p \notin pushing
          BY <1>1, <2>2, <3>2, SlotSteps DEF FullWith, Inv, OwnerInv
        <5> QED
          BY <1>4, <5>1
      <4>2. pos[p] + 1 = n + 1 /\ pos[p] < dequeue_pos_
        BY <1>1, <2>2, <3>2, <4>1 DEF FullWith, Inv, OwnerInv
      <4>3. n = pos[p]
        BY <1>1, <4>2
      <4> QED
        BY <1>2, <1>5, <2>2, <4>1, <4>2, <4>3 DEF FullWith
    <3> QED
      BY <3>1, <3>2
  <2> QED
    BY <2>1, <2>2 DEF Inv, SlotInv
<1>13. DataInv'
  <2>1. \A q \in Threads \ {p} :
          pc[q] \in owning => slot[q] \in Slots /\ data'[slot[q]] = data[slot[q]]
    <3>1. \A q \in Threads : slot[q] \in Slots
      BY <1>1, SlotFacts
    <3> QED
      BY <1>6, <1>9, <3>1 DEF owning, pushing, popping
  <2>2. ASSUME NEW q \in Threads \ {p}
        PROVE  /\ pc'[q] \in {"pushReload", "pushSeq", "pushCas"} => val'[q] \in Values
               /\ pc'[q] \in {"pushWrite", "pushPublish"} => val'[q] = log'[pos'[q] + 1]
               /\ pc'[q] \in {"pushPublish", "popMove"} =>
                    data'[slot'[q]] = log'[pos'[q] + 1]
               /\ pc'[q] = "popPublish" => val'[q] = log'[pos'[q] + 1]
    BY <1>2, <1>4, <1>5, <1>6, <2>1 DEF Inv, DataInv, owning
  <2>3. /\ pc'[p] = "pushPublish" =>
             val'[p] = log[pos[p] + 1] /\ data'[i] = log[pos[p] + 1]
        /\ pc'[p] = "popPublish" => val'[p] = log[pos[p] + 1]
    BY <1>1, <1>3 DEF Inv, DataInv, Types
  <2>4. Len(log') = enqueue_pos_'
    BY <1>2 DEF Inv, DataInv
  <2> QED
    BY <1>1, <1>2, <1>4, <1>5, <2>2, <2>3, <2>4 DEF DataInv
<1>14. RaceInv'
  <2>1. \A j \in Slots : rel[j] <= ver[j] /\ rel[j] \in Nat /\ ver[j] \in Nat
    BY <1>1 DEF Inv, RaceInv, Types
  <2>2. \A j \in Slots, q \in Threads : seen[q][j] <= ver[j] /\ seen[q][j] \in Nat
    BY <1>1 DEF Inv, RaceInv, Types
  <2>3. \A j \in Slots : rel'[j] <= ver'[j] /\ \A q \in Threads : seen'[q][j] <= ver'[j]
    BY <1>1, <1>2, <1>7, <2>1, <2>2
  <2>4. \A q \in pushing \cup popping : seen'[q][slot[q]] = ver'[slot[q]]
    <3>1. \A q \in pushing \cup popping : slot[q] \in Slots
      BY <1>1, <1>9, SlotFacts
    <3> QED
      BY <1>1, <1>7, <1>9, <3>1 DEF Inv, RaceInv
  <2>5. \A j \in Slots : (\A q \in pushing \cup popping : slot[q] # j) => rel'[j] = ver'[j]
    BY <1>1, <1>2, <1>4, <1>7 DEF Inv, RaceInv
  <2> QED
    BY <1>5, <2>3, <2>4, <2>5 DEF RaceInv
<1> QED
  BY <1>8, <1>10, <1>11, <1>12, <1>13, <1>14 DEF Inv

(* The owner stores the next sequence and leaves: what it wrote is full,   *)
(* what it moved out is free for the next round.                           *)
LEMMA PublishInv ==
  ASSUME Inv, NEW p \in Threads, PushPublish(p) \/ PopPublish(p)
  PROVE  Inv'
<1>0. PICK i, n : i = slot[p] /\ n = pos[p]
  OBVIOUS
<1>1. /\ Types /\ i = Slot(p) /\ slot[p] = i /\ i = SlotOf(n) /\ i \in Slots
      /\ pos[p] = n /\ n \in Nat
  BY <1>0, SlotFacts DEF Inv
<1>2. /\ UNCHANGED <<enqueue_pos_, dequeue_pos_, data, log, ver, seen>>
      /\ rel' = [rel EXCEPT ![i] = seen[p][i]]
      /\ pc' = [pc EXCEPT ![p] = "idle"] /\ pos' = [pos EXCEPT ![p] = 0]
      /\ val' = [val EXCEPT ![p] = NoValue]
  BY <1>1 DEF PushPublish, PopPublish, StoreSequence, Leave, Goto
<1>3. \/ pc[p] = "pushPublish" /\ sequence' = [sequence EXCEPT ![i] = n + 1]
      \/ pc[p] = "popPublish" /\ sequence' = [sequence EXCEPT ![i] = n + Capacity]
  BY <1>1 DEF PushPublish, PopPublish, StoreSequence
<1>4. /\ p \in pushing \cup popping
      /\ pushing' = pushing \ {p} /\ popping' = popping \ {p}
      /\ pc'[p] = "idle" /\ pc' \in [Threads -> PC] /\ pos' \in [Threads -> Nat]
      /\ \A q \in Threads \ {p} :
           pc'[q] = pc[q] /\ pos'[q] = pos[q] /\ val'[q] = val[q] /\ slot'[q] = slot[q]
  BY <1>1, <1>2, <1>3 DEF pushing, popping, Types, PC, slot, Slot
<1>5. sequence' \in [Slots -> Nat] /\ \A j \in Slots \ {i} : sequence'[j] = sequence[j]
  <2>1. n + 1 \in Nat /\ n + Capacity \in Nat /\ sequence \in [Slots -> Nat]
    BY <1>1 DEF Types
  <2> QED
    BY <1>3, <2>1
<1>6. /\ rel' \in [Slots -> Nat] /\ rel'[i] = ver[i]
      /\ \A j \in Slots \ {i} : rel'[j] = rel[j]
  <2>1. seen[p][i] = ver[i] /\ ver[i] \in Nat /\ rel \in [Slots -> Nat]
    BY <1>1, <1>4 DEF Inv, RaceInv, Types
  <2> QED
    BY <1>1, <1>2, <2>1
<1>7. Types'
  BY <1>1, <1>2, <1>4, <1>5, <1>6 DEF Types
<1>8. \A q \in pushing' \cup popping' :
        /\ q \in Threads \ {p} /\ q \in pushing \cup popping
        /\ slot[q] # i /\ slot[q] \in Slots
  BY <1>1, <1>4, Exclusive, SlotFacts DEF pushing, popping
<1>9. BoundsInv'
  BY <1>2, <1>4 DEF Inv, BoundsInv
<1>10. OwnerInv'
  BY <1>2, <1>4, <1>5, <1>8 DEF Inv, OwnerInv
<1>11. CasInv'
  <2>1. ASSUME NEW q \in Threads,
               \/ pc[q] = "pushCas" /\ pos[q] = enqueue_pos_
               \/ pc[q] = "popCas" /\ pos[q] = dequeue_pos_
        PROVE  slot[q] # i /\ slot[q] \in Slots
    <3>1. slot[q] = SlotOf(pos[q]) /\ slot[q] \in Slots /\ pos[q] \in Nat
      BY <1>1, SlotFacts
    <3>2. \/ pos[q] = enqueue_pos_ /\ sequence[SlotOf(pos[q])] = pos[q]
          \/ pos[q] = dequeue_pos_ /\ sequence[SlotOf(pos[q])] = pos[q] + 1
      BY <2>1, <3>1 DEF Inv, CasInv
    <3>3. slot[p] # SlotOf(pos[q])
      BY <1>4, <3>1, <3>2, Unowned
    <3> QED
      BY <1>1, <3>1, <3>3
  <2> QED
    BY <1>2, <1>4, <1>5, <2>1 DEF Inv, CasInv
<1>12. SlotInv'
  <2>1. ASSUME NEW j \in Slots, NEW m \in Nat, j # i, FreeFor(j, m) PROVE FreeFor(j, m)'
    <3>1. \A q \in pushing : pos[q] = m => q \in pushing' /\ pos'[q] = m
      BY <1>1, <1>4, <2>1 DEF FreeFor, pushing
    <3> QED
      BY <1>2, <1>5, <2>1, <3>1 DEF FreeFor
  <2>2. ASSUME NEW j \in Slots, NEW m \in Nat, j # i, FullWith(j, m) PROVE FullWith(j, m)'
    <3>1. \A q \in popping : pos[q] = m => q \in popping' /\ pos'[q] = m
      BY <1>1, <1>4, <2>2 DEF FullWith, popping
    <3> QED
      BY <1>2, <1>5, <2>2, <3>1 DEF FullWith
  <2>3. enqueue_pos_ \in Nat /\ dequeue_pos_ \in Nat /\ enqueue_pos_ <= dequeue_pos_ + Capacity
    BY <1>1 DEF Inv, BoundsInv, Types
  <2>4. CASE pc[p] = "pushPublish"
    <3>1. p \in pushing /\ sequence'[i] = n + 1
      BY <1>1, <1>3, <2>4 DEF pushing, Types
    <3>2. dequeue_pos_ <= n /\ n < enqueue_pos_ /\ data[i] = log[n + 1]
      BY <1>1, <2>4, <3>1 DEF Inv, OwnerInv, DataInv
    <3>3. FullWith(i, n)'
      BY <1>1, <1>2, <2>3, <3>1, <3>2 DEF FullWith
    <3> QED
      BY <1>1, <2>1, <2>2, <3>3 DEF Inv, SlotInv
  <2>5. CASE pc[p] = "popPublish"
    <3>1. p \in popping /\ sequence'[i] = n + Capacity
      BY <1>1, <1>3, <2>5 DEF popping, Types
    <3>2. n < dequeue_pos_ /\ sequence[i] = n + 1
      BY <1>1, <3>1 DEF Inv, OwnerInv
    <3>3. enqueue_pos_ <= n + Capacity /\ dequeue_pos_ <= enqueue_pos_
      <4>1. PICK m \in Nat : FreeFor(i, m) \/ FullWith(i, m)
        BY <1>1 DEF Inv, SlotInv
      <4>2. ~FreeFor(i, m)
        BY <1>1, <3>2, SlotSteps DEF FreeFor
      <4>3. m = n /\ enqueue_pos_ <= m + Capacity
        BY <1>1, <3>2, <4>1, <4>2 DEF FullWith
      <4> QED
        BY <4>3 DEF Inv, BoundsInv
    <3>4. SlotOf(n + Capacity) = i /\ n + Capacity \in Nat
      BY <1>1, SlotSteps
    <3>5. FreeFor(i, n + Capacity)'
      BY <1>1, <1>2, <2>3, <3>1, <3>2, <3>3, <3>4 DEF FreeFor
    <3> QED
      BY <1>1, <2>1, <2>2, <3>4, <3>5 DEF Inv, SlotInv
  <2> QED
    BY <1>3, <2>4, <2>5
<1>13. DataInv'
  BY <1>2, <1>4 DEF Inv, DataInv
<1>14. RaceInv'
  <2>1. \A j \in Slots : rel'[j] <= ver'[j] /\ \A q \in Threads : seen'[q][j] <= ver'[j]
    BY <1>1, <1>2, <1>6 DEF Inv, RaceInv, Types
  <2>2. \A q \in pushing' \cup popping' : seen'[q][slot'[q]] = ver'[slot'[q]]
    BY <1>2, <1>4, <1>8 DEF Inv, RaceInv
  <2>3. ASSUME NEW j \in Slots, \A q \in pushing' \cup popping' : slot'[q] # j
        PROVE  rel'[j] = ver'[j]
    <3>1. CASE j = i
      BY <1>2, <1>6, <3>1
    <3>2. CASE j # i
      <4>1. \A q \in pushing \cup popping : slot[q] # j
        BY <1>1, <1>4, <2>3, <3>2 DEF pushing, popping
      <4> QED
        BY <1>2, <1>6, <3>2, <4>1 DEF Inv, RaceInv
    <3> QED
      BY <3>1, <3>2
  <2> QED
    BY <2>1, <2>2, <2>3 DEF RaceInv
<1> QED
  BY <1>7, <1>9, <1>10, <1>11, <1>12, <1>13, <1>14 DEF Inv

(* Every step preserves the invariant.                                     *)
LEMMA NextInv == Inv /\ [Next]_vars => Inv'
<1> SUFFICES ASSUME Inv, [Next]_vars PROVE Inv'
  OBVIOUS
<1>1. ASSUME NEW p \in Threads, PushCas(p) PROVE Inv'
  <2>1. CASE /\ enqueue_pos_ = pos[p] /\ enqueue_pos_' = pos[p] + 1
             /\ log' = Append(log, val[p]) /\ Goto(p, "pushWrite") /\ UNCHANGED pos
    BY <1>1, <2>1, PushClaimsInv
  <2>2. CASE /\ pos' = [pos EXCEPT ![p] = enqueue_pos_] /\ Goto(p, "pushSeq")
             /\ UNCHANGED <<enqueue_pos_, log>>
    BY <1>1, <2>2, CasFailsInv DEF PushCas, shared, ghosts
  <2> QED
    BY <1>1, <2>1, <2>2 DEF PushCas
<1>2. ASSUME NEW p \in Threads, PopCas(p) PROVE Inv'
  <2>1. CASE /\ dequeue_pos_ = pos[p] /\ dequeue_pos_' = pos[p] + 1
             /\ Goto(p, "popMove") /\ UNCHANGED pos
    BY <1>2, <2>1, PopClaimsInv
  <2>2. CASE /\ pos' = [pos EXCEPT ![p] = dequeue_pos_] /\ Goto(p, "popSeq")
             /\ UNCHANGED dequeue_pos_
    BY <1>2, <2>2, CasFailsInv DEF PopCas, shared, ghosts
  <2> QED
    BY <1>2, <2>1, <2>2 DEF PopCas
<1>3. ASSUME NEW p \in Threads,
             \/ \E v \in Values : TryPush(p, v)
             \/ PushReload(p) \/ TryPop(p) \/ PopReload(p) \/ SizeApprox(p)
      PROVE  Inv'
  BY <1>3, LoadInv
<1>4. ASSUME NEW p \in Threads, PushCheck(p) \/ PushFull(p) \/ PopCheck(p) \/ PopEmpty(p)
      PROVE  Inv'
  BY <1>4, CheckInv
<1>5. ASSUME NEW p \in Threads, PushWrite(p) \/ PopMove(p) PROVE Inv'
  BY <1>5, AccessInv
<1>6. ASSUME NEW p \in Threads, PushPublish(p) \/ PopPublish(p) PROVE Inv'
  BY <1>6, PublishInv
<1>7. CASE UNCHANGED vars
  <2>1. /\ UNCHANGED <<enqueue_pos_, dequeue_pos_, sequence, data, pc, pos, val>>
        /\ UNCHANGED <<log, ver, rel, seen>>
    BY <1>7 DEF vars, shared, ghosts
  <2>2. pushing' = pushing /\ popping' = popping /\ slot' = slot
    BY <2>1 DEF pushing, popping, slot, Slot
  <2>3. Types' /\ BoundsInv' /\ OwnerInv' /\ CasInv'
    BY <2>1, <2>2 DEF Inv, Types, BoundsInv, OwnerInv, CasInv
  <2>4. SlotInv' /\ DataInv' /\ RaceInv'
    BY <2>1, <2>2 DEF Inv, SlotInv, FreeFor, FullWith, DataInv, RaceInv
  <2> QED
    BY <2>3, <2>4 DEF Inv
<1> QED
  BY <1>1, <1>2, <1>3, <1>4, <1>5, <1>6, <1>7 DEF Next, PushStep, PopStep

(* In every behaviour each slot is free or full for one position, with one *)
(* owner at most.                                                          *)
THEOREM Invariance == Spec => []Inv
<1> QED
  BY InitInv, NextInv, PTL DEF Spec

-----------------------------------------------------------------------------
(* The properties of the runs                                              *)

(* Every variable keeps its type; the positions stay within a round.       *)
THEOREM TypeCorrect == Spec => []TypeOK
<1>1. Inv => TypeOK
  BY DEF Inv, Types, BoundsInv, TypeOK
<1> QED
  BY <1>1, Invariance, PTL

(* Whoever accesses the data of a slot has seen all accesses before.       *)
THEOREM NoRace == Spec => []NoDataRace
<1>1. Inv => NoDataRace
  BY DEF Inv, RaceInv, NoDataRace, pushing, popping, slot
<1> QED
  BY <1>1, Invariance, PTL

(* size_approx() is off by no more than others claim between its loads.    *)
THEOREM SizeOffByOverlap == Spec => SizeWithinOverlap
<1>1. ASSUME Inv, [Next]_vars, NEW p \in Threads, pc[p] \in {"sizeDeq", "sizeEnq"},
             pc'[p] = "idle"
      PROVE  /\ pc[p] = "sizeDeq" =>
                  pos'[p] \in 0..Size /\ Size - pos'[p] <= enqueue_pos_ - pos[p]
             /\ pc[p] = "sizeEnq" =>
                  pos'[p] >= Size /\ pos'[p] - Size <= dequeue_pos_ - pos[p]
  <2>1. /\ enqueue_pos_ \in Nat /\ dequeue_pos_ \in Nat /\ dequeue_pos_ <= enqueue_pos_
        /\ pos \in [Threads -> Nat] /\ pc \in [Threads -> PC]
        /\ pc[p] = "sizeDeq" => pos[p] <= enqueue_pos_
        /\ pc[p] = "sizeEnq" => pos[p] <= dequeue_pos_
    BY <1>1 DEF Inv, Types, BoundsInv
  <2>2. SizeApprox(p)
    BY <1>1, <2>1 DEF Next, vars, TryPush, TryPop, PushStep, PopStep, PushReload, PushCheck,
       PushFull, PushCas, PushWrite, PushPublish, PopReload, PopCheck, PopEmpty, PopCas,
       PopMove, PopPublish, SizeApprox, Goto, Leave
  <2>3. CASE pc[p] = "sizeDeq"
    <3>1. pos'[p] = Difference(pos[p], dequeue_pos_)
      BY <2>1, <2>2, <2>3 DEF SizeApprox
    <3> QED
      BY <2>1, <2>3, <3>1 DEF Difference, Size
  <2>4. CASE pc[p] = "sizeEnq"
    <3>1. pos'[p] = Difference(enqueue_pos_, pos[p])
      BY <2>1, <2>2, <2>4 DEF SizeApprox
    <3> QED
      BY <2>1, <2>4, <3>1 DEF Difference, Size
  <2> QED
    BY <1>1, <2>3, <2>4
<1>2. Inv /\ [Next]_vars =>
        [\A p \in Threads : pc'[p] = "idle" =>
           /\ pc[p] = "sizeDeq" =>
                pos'[p] \in 0..Size /\ Size - pos'[p] <= enqueue_pos_ - pos[p]
           /\ pc[p] = "sizeEnq" =>
                pos'[p] >= Size /\ pos'[p] - Size <= dequeue_pos_ - pos[p]]_vars
  BY <1>1
<1> QED
  BY <1>2, Invariance, PTL DEF Spec, SizeWithinOverlap

(* A thread that is to load a position again has been overtaken.           *)
RetryInv ==
  \A p \in Threads :
    /\ pc[p] = "pushReload" => pos[p] < enqueue_pos_
    /\ pc[p] = "popReload" => pos[p] < dequeue_pos_

(* Whoever finds its slot beyond the position it holds has lost it.        *)
LEMMA Overtaken ==
  ASSUME Inv, NEW p \in Threads
  PROVE  /\ pc[p] = "pushSeq" /\ sequence[slot[p]] > pos[p] => pos[p] < enqueue_pos_
         /\ pc[p] = "popSeq" /\ sequence[slot[p]] > pos[p] + 1 => pos[p] < dequeue_pos_
<1>1. /\ slot[p] = SlotOf(pos[p]) /\ slot[p] \in Slots /\ pos[p] \in Nat
      /\ enqueue_pos_ \in Nat /\ dequeue_pos_ \in Nat
      /\ dequeue_pos_ <= enqueue_pos_ /\ enqueue_pos_ <= dequeue_pos_ + Capacity
  BY SlotFacts DEF Inv, BoundsInv, Types
<1>2. PICK n \in Nat : FreeFor(slot[p], n) \/ FullWith(slot[p], n)
  BY <1>1 DEF Inv, SlotInv
<1>3. ASSUME pos[p] < n PROVE pos[p] + Capacity <= n
  <2>1. SlotOf(n) = SlotOf(pos[p])
    BY <1>1, <1>2 DEF FreeFor, FullWith
  <2> QED
    BY <1>1, <1>3, <2>1, RoundApart
<1>4. CASE FreeFor(slot[p], n)
  <2>1. sequence[slot[p]] = n /\ n < dequeue_pos_ + Capacity
    BY <1>4 DEF FreeFor
  <2>2. ASSUME pos[p] < n PROVE pos[p] < dequeue_pos_
    BY <1>1, <1>3, <2>1, <2>2
  <2> QED
    BY <1>1, <2>1, <2>2
<1>5. CASE FullWith(slot[p], n)
  <2>1. sequence[slot[p]] = n + 1 /\ n < enqueue_pos_
    BY <1>5 DEF FullWith
  <2>2. ASSUME pos[p] < n PROVE pos[p] < dequeue_pos_
    BY <1>1, <1>3, <2>1, <2>2
  <2> QED
    BY <1>1, <2>1, <2>2
<1> QED
  BY <1>2, <1>4, <1>5

(* Every step keeps that.                                                  *)
LEMMA NextRetryInv == Inv /\ RetryInv /\ [Next]_vars => RetryInv'
<1> SUFFICES ASSUME Inv, RetryInv, [Next]_vars PROVE RetryInv'
  OBVIOUS
<1>1. /\ pc \in [Threads -> PC] /\ pos \in [Threads -> Nat]
      /\ enqueue_pos_ \in Nat /\ dequeue_pos_ \in Nat
  BY DEF Inv, Types
(* A step that starts no retry and takes no position back.                 *)
<1>2. ASSUME NEW p \in Threads, NEW l \in PC \ {"pushReload", "popReload"},
             pc' = [pc EXCEPT ![p] = l], \A q \in Threads \ {p} : pos'[q] = pos[q],
             enqueue_pos_' \in {enqueue_pos_, enqueue_pos_ + 1},
             dequeue_pos_' \in {dequeue_pos_, dequeue_pos_ + 1}
      PROVE  RetryInv'
  BY <1>1, <1>2 DEF RetryInv
<1>3. ASSUME NEW p \in Threads,
             \/ \E v \in Values : TryPush(p, v)
             \/ PushReload(p) \/ TryPop(p) \/ PopReload(p) \/ SizeApprox(p)
             \/ PushFull(p) \/ PopEmpty(p) \/ PushCas(p) \/ PopCas(p)
             \/ PushWrite(p) \/ PopMove(p) \/ PushPublish(p) \/ PopPublish(p)
      PROVE  RetryInv'
  <2>1. \E l \in PC \ {"pushReload", "popReload"} : pc' = [pc EXCEPT ![p] = l]
    BY <1>3 DEF TryPush, PushReload, TryPop, PopReload, SizeApprox, PushFull, PopEmpty,
       PushCas, PopCas, PushWrite, PopMove, PushPublish, PopPublish, Goto, Leave, PC
  <2>2. \A q \in Threads \ {p} : pos'[q] = pos[q]
    BY <1>1, <1>3 DEF TryPush, PushReload, TryPop, PopReload, SizeApprox, PushFull, PopEmpty,
       PushCas, PopCas, PushWrite, PopMove, PushPublish, PopPublish, Leave
  <2>3. /\ enqueue_pos_' \in {enqueue_pos_, enqueue_pos_ + 1}
        /\ dequeue_pos_' \in {dequeue_pos_, dequeue_pos_ + 1}
    BY <1>3 DEF TryPush, PushReload, TryPop, PopReload, SizeApprox, PushFull, PopEmpty,
       PushCas, PopCas, PushWrite, PopMove, PushPublish, PopPublish, StoreSequence, shared
  <2> QED
    BY <1>2, <2>1, <2>2, <2>3
<1>4. ASSUME NEW p \in Threads, PushCheck(p) \/ PopCheck(p) PROVE RetryInv'
  <2>1. Slot(p) = slot[p]
    BY DEF slot
  <2>2. /\ pos' = pos /\ enqueue_pos_' = enqueue_pos_ /\ dequeue_pos_' = dequeue_pos_
        /\ \A q \in Threads \ {p} : pc'[q] = pc[q]
    BY <1>1, <1>4 DEF PushCheck, PopCheck, Goto, shared
  <2>3. /\ pc'[p] = "pushReload" => pos[p] < enqueue_pos_
        /\ pc'[p] = "popReload" => pos[p] < dequeue_pos_
    <3>1. sequence[slot[p]] \in Nat /\ pos[p] \in Nat
      BY SlotFacts DEF Inv, Types
    <3>2. CASE PushCheck(p)
      <4>1. /\ pc[p] = "pushSeq" /\ sequence[slot[p]] >= pos[p]
            /\ pc'[p] = IF sequence[slot[p]] = pos[p] THEN "pushCas" ELSE "pushReload"
        BY <1>1, <2>1, <3>2 DEF PushCheck, Goto
      <4> QED
        BY <3>1, <4>1, Overtaken
    <3>3. CASE PopCheck(p)
      <4>1. /\ pc[p] = "popSeq" /\ sequence[slot[p]] >= pos[p] + 1
            /\ pc'[p] = IF sequence[slot[p]] = pos[p] + 1 THEN "popCas" ELSE "popReload"
        BY <1>1, <2>1, <3>3 DEF PopCheck, Goto
      <4> QED
        BY <3>1, <4>1, Overtaken
    <3> QED
      BY <1>4, <3>2, <3>3
  <2> QED
    BY <2>2, <2>3 DEF RetryInv
<1>5. CASE UNCHANGED vars
  BY <1>5 DEF vars, shared, RetryInv
<1> QED
  BY <1>3, <1>4, <1>5 DEF Next, PushStep, PopStep

(* try_push() and try_pop() refuse, and try again, for a reason, however   *)
(* stale the position that the thread has loaded.                          *)
THEOREM OutcomesJustified == Spec => OutcomesHaveReasons
<1> DEFINE full == \/ enqueue_pos_ - dequeue_pos_ = Capacity
                   \/ Popping(enqueue_pos_ - Capacity)
           empty == enqueue_pos_ = dequeue_pos_ \/ Pushing(dequeue_pos_)
<1>1. ASSUME Inv, NEW p \in Threads, pc[p] \in {"pushSeq", "popSeq"}
      PROVE  /\ Types /\ Slot(p) = slot[p] /\ slot[p] = SlotOf(pos[p]) /\ slot[p] \in Slots
             /\ pos[p] \in Nat /\ enqueue_pos_ \in Nat /\ dequeue_pos_ \in Nat
             /\ dequeue_pos_ <= enqueue_pos_ /\ enqueue_pos_ <= dequeue_pos_ + Capacity
             /\ pc[p] = "pushSeq" => pos[p] <= enqueue_pos_
             /\ pc[p] = "popSeq" => pos[p] <= dequeue_pos_
  BY <1>1, SlotFacts DEF Inv, BoundsInv, Types
<1>2. ASSUME Inv, NEW p \in Threads, PushFull(p) PROVE full
  <2>1. pc[p] = "pushSeq" /\ sequence[slot[p]] < pos[p]
    BY <1>1, <1>2 DEF PushFull
  <2>2. PICK n \in Nat : FreeFor(slot[p], n) \/ FullWith(slot[p], n)
    BY <1>1, <1>2, <2>1 DEF Inv, SlotInv
  <2>3. n < pos[p] /\ SlotOf(n) = SlotOf(pos[p])
    BY <1>1, <1>2, <2>1, <2>2 DEF FreeFor, FullWith
  <2>4. n + Capacity <= pos[p]
    BY <1>1, <1>2, <2>1, <2>3, RoundApart
  <2>5. CASE dequeue_pos_ <= n
    BY <1>1, <1>2, <2>1, <2>4, <2>5
  <2>6. CASE n < dequeue_pos_
    <3>1. enqueue_pos_ <= n + Capacity /\ \E q \in popping : pos[q] = n
      BY <1>1, <1>2, <2>1, <2>2, <2>6 DEF FreeFor, FullWith
    <3>2. n = enqueue_pos_ - Capacity
      BY <1>1, <1>2, <2>1, <2>4, <3>1
    <3> QED
      BY <3>1, <3>2 DEF Popping, popping
  <2> QED
    BY <1>1, <1>2, <2>1, <2>5, <2>6
<1>3. ASSUME Inv, NEW p \in Threads, PopEmpty(p) PROVE empty
  <2>1. pc[p] = "popSeq" /\ sequence[slot[p]] < pos[p] + 1
    BY <1>1, <1>3 DEF PopEmpty
  <2>2. PICK n \in Nat : FreeFor(slot[p], n) \/ FullWith(slot[p], n)
    BY <1>1, <1>3, <2>1 DEF Inv, SlotInv
  <2>3. CASE FreeFor(slot[p], n)
    <3>1. n = dequeue_pos_
      BY <1>1, <1>3, <2>1, <2>3 DEF FreeFor
    <3>2. n < enqueue_pos_ => \E q \in pushing : pos[q] = n
      BY <2>3 DEF FreeFor
    <3> QED
      BY <1>1, <1>3, <2>1, <3>1, <3>2 DEF Pushing, pushing
  <2>4. CASE FullWith(slot[p], n)
    <3>1. n < pos[p] /\ SlotOf(n) = SlotOf(pos[p]) /\ enqueue_pos_ <= n + Capacity
      BY <1>1, <1>3, <2>1, <2>4 DEF FullWith
    <3>2. n + Capacity <= pos[p]
      BY <1>1, <1>3, <2>1, <3>1, RoundApart
    <3> QED
      BY <1>1, <1>3, <2>1, <3>1, <3>2
  <2> QED
    BY <2>2, <2>3, <2>4
<1>4. ASSUME RetryInv, NEW p \in Threads
      PROVE  /\ PushReload(p) => pos[p] < enqueue_pos_
             /\ PopReload(p) => pos[p] < dequeue_pos_
  BY <1>4 DEF RetryInv, PushReload, PopReload
<1>5. Inv /\ RetryInv /\ [Next]_vars =>
        [\A p \in Threads :
           /\ PushFull(p) => \/ enqueue_pos_ - dequeue_pos_ = Capacity
                             \/ Popping(enqueue_pos_ - Capacity)
           /\ PopEmpty(p) => \/ enqueue_pos_ = dequeue_pos_
                             \/ Pushing(dequeue_pos_)
           /\ PushReload(p) => pos[p] < enqueue_pos_
           /\ PopReload(p) => pos[p] < dequeue_pos_]_vars
  BY <1>2, <1>3, <1>4
<1>6. Init => RetryInv
  BY DEF Init, RetryInv
<1> QED
  BY <1>5, <1>6, NextRetryInv, Invariance, PTL DEF Spec, OutcomesHaveReasons

-----------------------------------------------------------------------------
(* Refinement                                                              *)

items == SubSeq(log, dequeue_pos_ + 1, enqueue_pos_)

holding ==
  [p \in Threads |->
     CASE pc[p] = "popMove" -> data[Slot(p)]
       [] pc[p] = "popPublish" -> val[p]
       [] OTHER -> NoValue]

(* What the elements and the popped values are.                            *)
AbstractInv ==
  /\ items \in Seq(Values) /\ Len(items) = enqueue_pos_ - dequeue_pos_
  /\ \A k \in 1..Len(items) : items[k] = log[dequeue_pos_ + k]
  /\ \A p \in Threads :
       holding[p] = IF p \in popping THEN log[pos[p] + 1] ELSE NoValue

(* The log tells the elements and the popped values.                       *)
LEMMA AbstractFacts == Inv => AbstractInv
<1> SUFFICES ASSUME Inv PROVE AbstractInv
  OBVIOUS
<1>1. /\ log \in Seq(Values) /\ Len(log) = enqueue_pos_ /\ enqueue_pos_ \in Nat
      /\ dequeue_pos_ \in Nat /\ dequeue_pos_ <= enqueue_pos_
  BY DEF Inv, Types, DataInv, BoundsInv
<1>2. /\ items \in Seq(Values) /\ Len(items) = enqueue_pos_ - dequeue_pos_
      /\ \A k \in 1..Len(items) : items[k] = log[dequeue_pos_ + k]
  BY <1>1 DEF items
<1>3. ASSUME NEW p \in Threads
      PROVE  holding[p] = IF p \in popping THEN log[pos[p] + 1] ELSE NoValue
  <2>1. CASE pc[p] = "popMove"
    BY <2>1 DEF holding, popping, Inv, DataInv, slot
  <2>2. CASE pc[p] = "popPublish"
    BY <2>2 DEF holding, popping, Inv, DataInv
  <2>3. CASE pc[p] \notin {"popMove", "popPublish"}
    BY <2>3 DEF holding, popping
  <2> QED
    BY <2>1, <2>2, <2>3
<1> QED
  BY <1>2, <1>3 DEF AbstractInv

(* One more element in the log is one more element in the queue.           *)
LEMMA AppendWindow ==
  ASSUME NEW S, NEW s \in Seq(S), NEW v \in S, NEW d \in Nat, d <= Len(s)
  PROVE  /\ SubSeq(Append(s, v), d + 1, Len(s) + 1) = Append(SubSeq(s, d + 1, Len(s)), v)
         /\ Len(SubSeq(s, d + 1, Len(s))) = Len(s) - d
<1> DEFINE t == SubSeq(s, d + 1, Len(s))
           u == SubSeq(Append(s, v), d + 1, Len(s) + 1)
<1>1. t \in Seq(S) /\ Len(t) = Len(s) - d /\ \A k \in 1..(Len(s) - d) : t[k] = s[d + k]
  OBVIOUS
<1>2. /\ Append(s, v) \in Seq(S) /\ Len(Append(s, v)) = Len(s) + 1
      /\ \A k \in 1..Len(s) : Append(s, v)[k] = s[k]
      /\ Append(s, v)[Len(s) + 1] = v
  OBVIOUS
<1> DEFINE a == Append(s, v)
           n == Len(s)
<1> HIDE DEF a
<1>3. u \in Seq(S) /\ Len(u) = n + 1 - d /\ \A k \in 1..(n + 1 - d) : u[k] = a[d + k]
  BY <1>2 DEF a
<1>4. n \in Nat
  OBVIOUS
<1> HIDE DEF t, u, n
<1>5. \A k \in 1..Len(t) : u[k] = t[k]
  <2> SUFFICES ASSUME NEW k \in 1..Len(t) PROVE u[k] = t[k]
    OBVIOUS
  <2>1. k \in 1..(n - d) /\ k \in 1..(n + 1 - d) /\ d + k \in 1..n
    BY <1>1, <1>4 DEF n
  <2> QED
    BY <1>1, <1>2, <1>3, <2>1 DEF a, n
<1>6. u[Len(t) + 1] = v
  <2>1. Len(t) + 1 = n + 1 - d /\ n + 1 - d \in 1..(n + 1 - d) /\ d + (n + 1 - d) = n + 1
    BY <1>1, <1>4 DEF n
  <2> QED
    BY <1>2, <1>3, <2>1 DEF a, n
<1>7. Len(u) = Len(t) + 1
  BY <1>1, <1>3, <1>4 DEF n
<1>8. u = Append(t, v)
  BY <1>1, <1>3, <1>5, <1>6, <1>7
<1> QED
  BY <1>1, <1>8 DEF t, u, n

(* A later start of the queue in the log drops its first element.          *)
LEMMA TailWindow ==
  ASSUME NEW S, NEW s \in Seq(S), NEW d \in Nat, d < Len(s)
  PROVE  /\ SubSeq(s, (d + 1) + 1, Len(s)) = Tail(SubSeq(s, d + 1, Len(s)))
         /\ Head(SubSeq(s, d + 1, Len(s))) = s[d + 1]
         /\ SubSeq(s, d + 1, Len(s)) # <<>>
<1> DEFINE n == Len(s)
           t == SubSeq(s, d + 1, n)
           u == SubSeq(s, (d + 1) + 1, n)
<1>1. t \in Seq(S) /\ Len(t) = n - d /\ \A k \in 1..(n - d) : t[k] = s[d + k]
  OBVIOUS
<1>2. /\ u \in Seq(S) /\ Len(u) = n - (d + 1)
      /\ \A k \in 1..(n - (d + 1)) : u[k] = s[(d + 1) + k]
  OBVIOUS
<1>3. n \in Nat /\ d < n
  OBVIOUS
<1> HIDE DEF n, t, u
<1>4. Len(t) \in Nat \ {0} /\ Len(u) = Len(t) - 1
  BY <1>1, <1>2, <1>3
<1>5. \A k \in 1..Len(u) : u[k] = t[k + 1]
  <2> SUFFICES ASSUME NEW k \in 1..Len(u) PROVE u[k] = t[k + 1]
    OBVIOUS
  <2>1. k \in 1..(n - (d + 1)) /\ k + 1 \in 1..(n - d) /\ (d + 1) + k = d + (k + 1)
    BY <1>2, <1>3
  <2> QED
    BY <1>1, <1>2, <2>1
<1>6. u = Tail(t)
  BY <1>1, <1>2, <1>4, <1>5
<1>7. Head(t) = s[d + 1] /\ t # <<>>
  BY <1>1, <1>3, <1>4
<1> QED
  BY <1>6, <1>7 DEF n, t, u

(* The compare-exchange of a push appends.                                 *)
LEMMA PushRefines ==
  ASSUME Inv, AbstractInv', NEW p \in Threads, PushCas(p), Goto(p, "pushWrite"),
         enqueue_pos_ = pos[p], enqueue_pos_' = pos[p] + 1,
         log' = Append(log, val[p]), pos' = pos
  PROVE  Fifo!Next
<1>1. /\ pc[p] = "pushCas" /\ pc' = [pc EXCEPT ![p] = "pushWrite"]
      /\ dequeue_pos_' = dequeue_pos_
  BY DEF PushCas, Goto
<1>2. /\ val[p] \in Values /\ enqueue_pos_ < dequeue_pos_ + Capacity
      /\ log \in Seq(Values) /\ Len(log) = enqueue_pos_ /\ pc \in [Threads -> PC]
      /\ enqueue_pos_ \in Nat /\ dequeue_pos_ \in Nat /\ dequeue_pos_ <= enqueue_pos_
  <2>1. slot[p] = SlotOf(pos[p])
    BY SlotFacts DEF Inv
  <2>2. enqueue_pos_ < dequeue_pos_ + Capacity
    BY <1>1, <2>1, ClaimBounds DEF Inv, CasInv
  <2> QED
    BY <1>1, <2>2 DEF Inv, DataInv, BoundsInv, Types
<1>3. enqueue_pos_' = Len(log) + 1 /\ dequeue_pos_ <= Len(log)
  BY <1>2
<1>4. items' = Append(items, val[p]) /\ Len(items) = Len(log) - dequeue_pos_
  <2>1. items = SubSeq(log, dequeue_pos_ + 1, Len(log))
    BY <1>2 DEF items
  <2>2. items' = SubSeq(Append(log, val[p]), dequeue_pos_ + 1, Len(log) + 1)
    BY <1>1, <1>3 DEF items
  <2> QED
    BY <1>2, <1>3, <2>1, <2>2, AppendWindow
<1>5. holding' = holding
  <2>1. popping' = popping
    BY <1>1, <1>2 DEF popping
  <2>2. \A q \in popping : pos[q] \in Nat /\ pos[q] < enqueue_pos_
    BY <1>2 DEF Inv, Types, OwnerInv, popping
  <2>3. \A q \in popping : log'[pos[q] + 1] = log[pos[q] + 1]
    BY <1>2, <2>2
  <2>4. \A q \in Threads : holding'[q] = holding[q]
    BY <2>1, <2>3, AbstractFacts DEF AbstractInv
  <2> QED
    BY <2>4 DEF holding
<1>6. Len(items) < Capacity
  BY <1>2, <1>4, CapacityAssumption
<1>7. Fifo!Push(val[p])
  BY <1>4, <1>5, <1>6 DEF Fifo!Push, items, holding
<1> QED
  BY <1>2, <1>7 DEF Fifo!Next

(* The compare-exchange of a pop takes the first element.                  *)
LEMMA PopRefines ==
  ASSUME Inv, AbstractInv', NEW p \in Threads, PopCas(p), Goto(p, "popMove"),
         dequeue_pos_ = pos[p], dequeue_pos_' = pos[p] + 1, pos' = pos
  PROVE  Fifo!Next
<1>1. /\ pc[p] = "popCas" /\ pc' = [pc EXCEPT ![p] = "popMove"]
      /\ enqueue_pos_' = enqueue_pos_ /\ log' = log
  BY DEF PopCas, Goto, ghosts
<1>2. /\ dequeue_pos_ < enqueue_pos_ /\ pc \in [Threads -> PC]
      /\ enqueue_pos_ \in Nat /\ dequeue_pos_ \in Nat
  <2>1. slot[p] = SlotOf(pos[p])
    BY SlotFacts DEF Inv
  <2>2. dequeue_pos_ < enqueue_pos_
    BY <1>1, <2>1, ClaimBounds DEF Inv, CasInv
  <2> QED
    BY <2>2 DEF Inv, Types
<1>3. log \in Seq(Values) /\ Len(log) = enqueue_pos_
  BY DEF Inv, Types, DataInv
<1>4. items = SubSeq(log, dequeue_pos_ + 1, Len(log))
  BY <1>3 DEF items
<1>5. items' = Tail(items) /\ Head(items) = log[pos[p] + 1] /\ items # <<>>
  <2>1. items' = SubSeq(log, (dequeue_pos_ + 1) + 1, Len(log))
    BY <1>1, <1>3 DEF items
  <2> QED
    BY <1>2, <1>3, <1>4, <2>1, TailWindow
<1>6. holding[p] = NoValue /\ holding' = [holding EXCEPT ![p] = Head(items)]
  <2>1. popping' = popping \cup {p} /\ p \notin popping
    BY <1>1, <1>2 DEF popping
  <2>2. \A q \in Threads : holding'[q] = IF q = p THEN Head(items) ELSE holding[q]
    BY <1>1, <1>5, <2>1, AbstractFacts DEF AbstractInv
  <2>3. holding[p] = NoValue
    BY <2>1, AbstractFacts DEF AbstractInv
  <2> QED
    BY <2>2, <2>3 DEF holding
<1>7. Fifo!Pop(p)
  BY <1>5, <1>6 DEF Fifo!Pop, items, holding
<1> QED
  BY <1>7 DEF Fifo!Next

(* try_pop() returns the element.                                          *)
LEMMA ReturnRefines ==
  ASSUME Inv, AbstractInv', NEW p \in Threads, PopPublish(p)
  PROVE  Fifo!Next
<1>1. /\ pc[p] = "popPublish" /\ pc' = [pc EXCEPT ![p] = "idle"]
      /\ pos' = [pos EXCEPT ![p] = 0]
      /\ UNCHANGED <<enqueue_pos_, dequeue_pos_, log>>
  BY DEF PopPublish, StoreSequence, Leave, Goto
<1>2. pc \in [Threads -> PC] /\ pos \in [Threads -> Nat]
  BY DEF Inv, Types
<1>3. p \in popping /\ popping' = popping \ {p} /\ \A q \in popping' : pos'[q] = pos[q]
  BY <1>1, <1>2 DEF popping
<1>4. holding[p] # NoValue
  <2>1. /\ log \in Seq(Values) /\ Len(log) = enqueue_pos_
        /\ pos[p] + 1 \in 1..enqueue_pos_
    BY <1>2, <1>3 DEF Inv, Types, DataInv, OwnerInv, BoundsInv
  <2>2. log[pos[p] + 1] \in Values
    BY <2>1
  <2> QED
    BY <1>3, <2>2, AbstractFacts DEF AbstractInv
<1>5. holding' = [holding EXCEPT ![p] = NoValue]
  <2>1. \A q \in Threads : holding'[q] = IF q = p THEN NoValue ELSE holding[q]
    BY <1>1, <1>3, AbstractFacts DEF AbstractInv
  <2> QED
    BY <2>1 DEF holding
<1>6. items' = items
  BY <1>1 DEF items
<1>7. Fifo!Return(p)
  BY <1>4, <1>5, <1>6 DEF Fifo!Return, items, holding
<1> QED
  BY <1>7 DEF Fifo!Next

(* The other steps change neither the elements nor the popped values.      *)
LEMMA OthersStutter ==
  ASSUME Inv, AbstractInv', UNCHANGED <<enqueue_pos_, dequeue_pos_, log>>,
         popping' = popping, \A q \in popping : pos'[q] = pos[q]
  PROVE  UNCHANGED Fifo!fifoVars
<1>1. \A q \in Threads : holding'[q] = holding[q]
  BY AbstractFacts DEF AbstractInv
<1>2. holding' = holding
  BY <1>1 DEF holding
<1>3. items' = items
  BY DEF items
<1> QED
  BY <1>2, <1>3 DEF Fifo!fifoVars, items, holding

(* The ring is a FIFO queue of at most Capacity elements in which a push   *)
(* and a pop take effect at their compare-exchange.                        *)
THEOREM ImplementsFifo == Spec => FifoSpec
<1>1. Init => Fifo!Init
  BY DEF Init, Fifo!Init
<1>2. Inv /\ AbstractInv' /\ [Next]_vars => [Fifo!Next]_Fifo!fifoVars
  <2> SUFFICES ASSUME Inv, AbstractInv', [Next]_vars PROVE [Fifo!Next]_Fifo!fifoVars
    OBVIOUS
  <2>0. pc \in [Threads -> PC] /\ pos \in [Threads -> Nat]
    BY DEF Inv, Types
  <2>1. ASSUME NEW p \in Threads, PushCas(p) PROVE [Fifo!Next]_Fifo!fifoVars
    <3>1. CASE /\ enqueue_pos_ = pos[p] /\ enqueue_pos_' = pos[p] + 1
               /\ log' = Append(log, val[p]) /\ Goto(p, "pushWrite") /\ UNCHANGED pos
      BY <2>1, <3>1, PushRefines
    <3>2. CASE /\ pos' = [pos EXCEPT ![p] = enqueue_pos_] /\ Goto(p, "pushSeq")
               /\ UNCHANGED <<enqueue_pos_, log>>
      <4>1. /\ dequeue_pos_' = dequeue_pos_ /\ popping' = popping
            /\ \A q \in popping : pos'[q] = pos[q]
        BY <2>0, <2>1, <3>2 DEF PushCas, Goto, popping
      <4> QED
        BY <3>2, <4>1, OthersStutter
    <3> QED
      BY <2>1, <3>1, <3>2 DEF PushCas
  <2>2. ASSUME NEW p \in Threads, PopCas(p) PROVE [Fifo!Next]_Fifo!fifoVars
    <3>1. CASE /\ dequeue_pos_ = pos[p] /\ dequeue_pos_' = pos[p] + 1
               /\ Goto(p, "popMove") /\ UNCHANGED pos
      BY <2>2, <3>1, PopRefines
    <3>2. CASE /\ pos' = [pos EXCEPT ![p] = dequeue_pos_] /\ Goto(p, "popSeq")
               /\ UNCHANGED dequeue_pos_
      <4>1. /\ enqueue_pos_' = enqueue_pos_ /\ log' = log /\ popping' = popping
            /\ \A q \in popping : pos'[q] = pos[q]
        BY <2>0, <2>2, <3>2 DEF PopCas, Goto, popping, ghosts
      <4> QED
        BY <3>2, <4>1, OthersStutter
    <3> QED
      BY <2>2, <3>1, <3>2 DEF PopCas
  <2>3. ASSUME NEW p \in Threads, PopPublish(p) PROVE [Fifo!Next]_Fifo!fifoVars
    BY <2>3, ReturnRefines
  <2>4. ASSUME NEW p \in Threads,
               \/ \E v \in Values : TryPush(p, v)
               \/ PushReload(p) \/ TryPop(p) \/ PopReload(p) \/ SizeApprox(p)
        PROVE  [Fifo!Next]_Fifo!fifoVars
    <3>1. /\ UNCHANGED <<enqueue_pos_, dequeue_pos_, log>>
          /\ pc[p] \notin {"popMove", "popPublish"}
          /\ \E l \in PC \ owning : pc' = [pc EXCEPT ![p] = l]
          /\ \E n : pos' = [pos EXCEPT ![p] = n]
      BY <2>4 DEF TryPush, PushReload, TryPop, PopReload, SizeApprox, Goto, PC, owning,
                  shared, ghosts
    <3>2. popping' = popping /\ \A q \in popping : pos'[q] = pos[q]
      BY <2>0, <3>1 DEF popping, owning
    <3> QED
      BY <3>1, <3>2, OthersStutter
  <2>5. ASSUME NEW p \in Threads, PushCheck(p) \/ PushFull(p) \/ PopCheck(p) \/ PopEmpty(p)
        PROVE  [Fifo!Next]_Fifo!fifoVars
    <3>1. /\ UNCHANGED <<enqueue_pos_, dequeue_pos_, log>>
          /\ pc[p] \notin {"popMove", "popPublish"}
          /\ \E l \in PC \ owning : pc' = [pc EXCEPT ![p] = l]
          /\ pos' = pos \/ pos' = [pos EXCEPT ![p] = 0]
      BY <2>5 DEF PushCheck, PushFull, PopCheck, PopEmpty, Goto, Leave, PC, owning,
                  shared, AcquireSequence
    <3>2. popping' = popping /\ \A q \in popping : pos'[q] = pos[q]
      BY <2>0, <3>1 DEF popping, owning
    <3> QED
      BY <3>1, <3>2, OthersStutter
  <2>6. ASSUME NEW p \in Threads, PushWrite(p) \/ PopMove(p)
        PROVE  [Fifo!Next]_Fifo!fifoVars
    <3>1. UNCHANGED <<enqueue_pos_, dequeue_pos_, log, pos>>
      BY <2>6 DEF PushWrite, PopMove, AccessData
    <3>2. popping' = popping
      BY <2>0, <2>6 DEF PushWrite, PopMove, Goto, popping
    <3> QED
      BY <3>1, <3>2, OthersStutter
  <2>7. ASSUME NEW p \in Threads, PushPublish(p) PROVE [Fifo!Next]_Fifo!fifoVars
    <3>1. UNCHANGED <<enqueue_pos_, dequeue_pos_, log>>
      BY <2>7 DEF PushPublish, StoreSequence
    <3>2. popping' = popping /\ \A q \in popping : pos'[q] = pos[q]
      BY <2>0, <2>7 DEF PushPublish, Leave, Goto, popping
    <3> QED
      BY <3>1, <3>2, OthersStutter
  <2>8. CASE UNCHANGED vars
    <3>1. UNCHANGED <<enqueue_pos_, dequeue_pos_, log, pos>> /\ popping' = popping
      BY <2>8 DEF vars, shared, ghosts, popping
    <3> QED
      BY <3>1, OthersStutter
  <2> QED
    BY <2>1, <2>2, <2>3, <2>4, <2>5, <2>6, <2>7, <2>8 DEF Next, PushStep, PopStep
<1> QED
  BY <1>1, <1>2, Invariance, AbstractFacts, PTL DEF Spec, FifoSpec, Fifo!Spec

-----------------------------------------------------------------------------
(* The words                                                               *)

(* The size of the words is a positive number of rounds.                   *)
LEMMA WordFacts ==
  /\ HalfWord \in Nat \ {0} /\ Capacity < HalfWord
  /\ WordSize \in Nat \ {0} /\ WordSize = 2 * HalfWord
  /\ \E k \in Nat \ {0} : WordSize = Capacity * k
BY WordAssumption DEF WordSize

(* Division with remainder, of a number that may be negative.              *)
LEMMA WordDivMod ==
  ASSUME NEW n \in Int
  PROVE  /\ n = WordSize * (n \div WordSize) + Word(n)
         /\ n \div WordSize \in Int /\ Word(n) \in 0..(WordSize - 1)
<1>1. ASSUME NEW W \in Nat \ {0}
      PROVE  /\ n = W * (n \div W) + (n % W)
             /\ n \div W \in Int /\ n % W \in 0..(W - 1)
  OBVIOUS
<1> QED
  BY <1>1, WordFacts DEF Word

(* Quotient and remainder are the only ones.                               *)
LEMMA WordUnique ==
  ASSUME NEW k \in Int, NEW r \in 0..(WordSize - 1)
  PROVE  (WordSize * k + r) \div WordSize = k /\ Word(WordSize * k + r) = r
<1>1. ASSUME NEW W \in Nat \ {0}, NEW s \in 0..(W - 1)
      PROVE  (W * k + s) \div W = k /\ (W * k + s) % W = s
  OBVIOUS
<1> QED
  BY <1>1, WordFacts DEF Word

(* The signed value of the word of n: n, up to a number of wraps that      *)
(* tells the stretch of n.                                                 *)
LEMMA SignedWord ==
  ASSUME NEW n \in Int
  PROVE  /\ (n + HalfWord) \div WordSize \in Int
         /\ Signed(Word(n)) = n - WordSize * ((n + HalfWord) \div WordSize)
         /\ Signed(Word(n)) \in (-HalfWord)..(HalfWord - 1)
<1> DEFINE k == n \div WordSize
           r == Word(n)
<1>1. /\ n = WordSize * k + r /\ k \in Int /\ r \in 0..(WordSize - 1)
      /\ HalfWord \in Nat \ {0} /\ WordSize = 2 * HalfWord /\ WordSize \in Nat
  BY WordDivMod, WordFacts
<1> HIDE DEF k, r
<1>2. CASE r < HalfWord
  <2>1. r + HalfWord \in 0..(WordSize - 1)
    BY <1>1, <1>2
  <2>2. (WordSize * k + (r + HalfWord)) \div WordSize = k
    BY <1>1, <2>1, WordUnique
  <2>3. n + HalfWord = WordSize * k + (r + HalfWord)
    BY <1>1
  <2>4. Signed(r) = r
    BY <1>2 DEF Signed
  <2> QED
    BY <1>1, <1>2, <2>2, <2>3, <2>4 DEF r
<1>3. CASE ~(r < HalfWord)
  <2>1. r - HalfWord \in 0..(WordSize - 1)
    BY <1>1, <1>3
  <2>2. k + 1 \in Int /\ WordSize * (k + 1) = WordSize * k + WordSize
    BY <1>1
  <2>3. (WordSize * (k + 1) + (r - HalfWord)) \div WordSize = k + 1
    BY <2>1, <2>2, WordUnique
  <2>4. n + HalfWord = WordSize * (k + 1) + (r - HalfWord)
    BY <1>1, <2>2
  <2>5. Signed(r) = r - WordSize
    BY <1>3 DEF Signed
  <2> QED
    BY <1>1, <1>3, <2>2, <2>3, <2>4, <2>5 DEF r
<1> QED
  BY <1>2, <1>3

(* Two signed values that differ by whole words are the same.              *)
LEMMA SignedUnique ==
  ASSUME NEW a \in (-HalfWord)..(HalfWord - 1), NEW b \in (-HalfWord)..(HalfWord - 1),
         NEW m \in Int, a = b - WordSize * m
  PROVE  a = b
<1>1. HalfWord \in Nat \ {0} /\ WordSize = 2 * HalfWord /\ WordSize \in Nat \ {0}
  BY WordFacts
<1>2. a \in Int /\ b \in Int /\ b - a < WordSize /\ a - b < WordSize /\ WordSize * m = b - a
  BY <1>1
<1>3. CASE m >= 1
  <2>1. WordSize * m >= WordSize
    BY <1>1, <1>3
  <2> QED
    BY <1>1, <1>2, <2>1
<1>4. CASE m <= -1
  <2>1. WordSize * m <= -WordSize
    BY <1>1, <1>4
  <2> QED
    BY <1>1, <1>2, <2>1
<1>5. CASE m = 0
  BY <1>1, <1>2, <1>5
<1> QED
  BY <1>3, <1>4, <1>5

(* The difference of two words is that of the numbers, if it is a signed   *)
(* word at all; so is the subtraction that does not wrap, in one stretch.  *)
LEMMA DifferenceOfWords ==
  ASSUME NEW m \in Int, NEW n \in Int, m - n \in (-HalfWord)..(HalfWord - 1)
  PROVE  /\ m - n \in WordDifferences(Word(m), Word(n))
         /\ SameStretch(m, n) => WordDifferences(Word(m), Word(n)) = {m - n}
<1> DEFINE i == (m + HalfWord) \div WordSize
           j == (n + HalfWord) \div WordSize
           d == Signed(Word(m)) - Signed(Word(n))
           l == (d + HalfWord) \div WordSize
<1>1. /\ i \in Int /\ Signed(Word(m)) = m - WordSize * i
      /\ j \in Int /\ Signed(Word(n)) = n - WordSize * j
      /\ WordSize \in Nat
  BY SignedWord, WordFacts
<1>2. d \in Int
  BY <1>1
<1>3. /\ l \in Int /\ Signed(Word(d)) = d - WordSize * l
      /\ Signed(Word(d)) \in (-HalfWord)..(HalfWord - 1)
  BY <1>2, SignedWord
<1>4. SameStretch(m, n) <=> i = j
  BY DEF SameStretch
<1>5. WordDifferences(Word(m), Word(n)) = {Signed(Word(d)), d}
  BY DEF WordDifferences
<1>6. d = (m - n) - WordSize * (i - j)
  <2> HIDE DEF i, j
  <2> QED
    BY <1>1
<1> HIDE DEF i, j, d, l
<1>7. Signed(Word(d)) = (m - n) - WordSize * ((i - j) + l)
  BY <1>1, <1>2, <1>3, <1>6
<1>8. Signed(Word(d)) = m - n
  BY <1>1, <1>3, <1>7, SignedUnique
<1>9. i = j => d = m - n
  BY <1>1, <1>6
<1> QED
  BY <1>4, <1>5, <1>8, <1>9

(* The word of a position, in a later round too, has the same slot.        *)
LEMMA SlotOfWord ==
  ASSUME NEW n \in Nat, NEW k \in Nat
  PROVE  SlotOf(Word(Capacity * k + n)) = SlotOf(n)
<1> DEFINE r == n % Capacity
           q == n \div Capacity
           w == (Capacity * k + n) \div WordSize
           s == Word(Capacity * k + n)
<1>1. n = Capacity * q + r /\ q \in Nat /\ r \in 0..(Capacity - 1)
  BY DivMod
<1>2. Capacity * k + n \in Nat
  OBVIOUS
<1>3. Capacity * k + n = WordSize * w + s /\ w \in Int /\ s \in 0..(WordSize - 1)
  BY <1>2, WordDivMod
<1>4. PICK h \in Nat \ {0} : WordSize = Capacity * h
  BY WordFacts
<1>5. SlotOf(n) = r
  BY DEF SlotOf
<1> HIDE DEF r, q, w, s
<1>6. s = Capacity * (k + q - h * w) + r
  BY <1>1, <1>3, <1>4
<1>7. k + q - h * w \in Nat
  <2>1. k + q - h * w \in Int /\ s >= 0 /\ s \in Int
    BY <1>1, <1>3, <1>4, WordFacts
  <2>2. ASSUME k + q - h * w <= -1 PROVE FALSE
    <3> DEFINE z == k + q - h * w
    <3>1. z \in Int /\ z <= -1 /\ s = Capacity * z + r
      BY <1>6, <2>1, <2>2
    <3> HIDE DEF z
    <3>2. Capacity * z <= -Capacity
      BY <3>1
    <3> QED
      BY <1>1, <2>1, <3>1, <3>2
  <2> QED
    BY <2>1, <2>2
<1>8. s % Capacity = r
  BY <1>1, <1>6, <1>7, ModUnique
<1> QED
  BY <1>5, <1>8 DEF SlotOf, s

(* The difference that a thread computes in words is the one of the        *)
(* unbounded numbers, past any number of wraps: no thread claims or        *)
(* refuses by an accident of the arithmetic.                               *)
THEOREM WordsSuffice == Spec => []WordsAgree
<1>1. Inv => WordsAgree
  <2> SUFFICES ASSUME Inv, NEW p \in Threads, pc[p] \in {"pushSeq", "popSeq"},
                      NEW start \in RoundStarts
               PROVE  LET seq == start + sequence[Slot(p)]
                          n   == start + Expected(p)
                      IN  /\ SlotOf(Word(start + pos[p])) = Slot(p)
                          /\ n - Capacity <= seq
                          /\ seq - n < HalfWord =>
                               /\ seq - n \in WordDifferences(Word(seq), Word(n))
                               /\ SameStretch(seq, n) =>
                                    WordDifferences(Word(seq), Word(n)) = {seq - n}
    BY DEF WordsAgree
  <2> DEFINE s == sequence[Slot(p)]
             e == Expected(p)
  <2>1. PICK k \in Nat : start = Capacity * k
    <3> DEFINE rounds == WordSize \div Capacity
    <3>1. rounds \in Nat
      BY WordFacts, DivMod
    <3>2. \E k \in 0 .. (rounds - 1) : start = Capacity * k
      BY DEF RoundStarts
    <3> HIDE DEF rounds
    <3> QED
      BY <3>1, <3>2
  <2>2. /\ pos[p] \in Nat /\ s \in Nat /\ e \in Nat /\ start \in Nat
        /\ slot[p] = Slot(p) /\ Slot(p) = SlotOf(pos[p]) /\ Slot(p) \in Slots
        /\ enqueue_pos_ \in Nat /\ dequeue_pos_ \in Nat
    BY <2>1, SlotFacts DEF Inv, Types, Expected
  <2>3. SlotOf(Word(start + pos[p])) = Slot(p)
    BY <2>1, <2>2, SlotOfWord
  <2>4. e - Capacity <= s
    <3>1. PICK n \in Nat : FreeFor(Slot(p), n) \/ FullWith(Slot(p), n)
      BY <2>2 DEF Inv, SlotInv
    <3>2. /\ n >= enqueue_pos_ - Capacity /\ (s = n \/ s = n + 1)
          /\ s = n => n >= dequeue_pos_
      BY <2>2, <3>1 DEF FreeFor, FullWith, Inv, BoundsInv
    <3>3. /\ pc[p] = "pushSeq" => e = pos[p] /\ pos[p] <= enqueue_pos_
          /\ pc[p] = "popSeq" => e = pos[p] + 1 /\ pos[p] <= dequeue_pos_
          /\ dequeue_pos_ <= enqueue_pos_
      BY DEF Expected, Inv, BoundsInv
    <3> HIDE DEF s, e
    <3> QED
      BY <2>2, <3>2, <3>3
  <2> HIDE DEF s, e
  <2>5. /\ start + s \in Int /\ start + e \in Int /\ (start + e) - Capacity <= start + s
        /\ (start + s) - (start + e) < HalfWord =>
             (start + s) - (start + e) \in (-HalfWord)..(HalfWord - 1)
    BY <2>2, <2>4, WordFacts
  <2>6. (start + s) - (start + e) < HalfWord =>
          /\ (start + s) - (start + e) \in WordDifferences(Word(start + s), Word(start + e))
          /\ SameStretch(start + s, start + e) =>
               WordDifferences(Word(start + s), Word(start + e)) = {(start + s) - (start + e)}
    BY <2>5, DifferenceOfWords
  <2> QED
    BY <2>3, <2>5, <2>6 DEF s, e
<1> QED
  BY <1>1, Invariance, PTL

-----------------------------------------------------------------------------
(* Powers of two and the bits of a word                                    *)

(* A set of natural numbers has a least one.                               *)
LEMMA NatLeast ==
  ASSUME NEW T, T \subseteq Nat, T # {}
  PROVE  \E n \in T : \A m \in T : n <= m
<1>1. PICK n \in T : \A m \in T : ~ (<<m, n>> \in OpToRel(<, Nat))
  BY WFMin, NatLessThanWellFounded, Zenon
<1>2. \A m \in T : ~ (m < n)
  BY <1>1, Zenon DEF OpToRel
<1> QED
  BY <1>2

(* Induction, over a set rather than a predicate: the lemmas below define  *)
(* the set of the numbers for which they hold.                             *)
LEMMA NatInductive ==
  ASSUME NEW T, 0 \in T, \A n \in Nat : n \in T => n + 1 \in T
  PROVE  Nat \subseteq T
<1> SUFFICES ASSUME Nat \ T # {} PROVE FALSE
  OBVIOUS
<1>1. PICK n \in Nat \ T : \A m \in Nat \ T : n <= m
  BY NatLeast, Zenon
<1>2. n # 0 /\ n - 1 \in Nat
  BY <1>1
<1>3. n - 1 \in T
  BY <1>1, <1>2
<1>4. (n - 1) + 1 = n
  BY <1>1
<1> QED
  BY <1>1, <1>2, <1>3, <1>4

(* A function that is defined by what the previous value becomes exists.   *)
LEMMA Iteration ==
  ASSUME NEW first \in Nat, NEW step \in [Nat -> Nat]
  PROVE  \E f \in [Nat -> Nat] :
           f = [i \in Nat |-> IF i = 0 THEN first ELSE step[f[i - 1]]]
<1> DEFINE Upto(n, g) == /\ g \in [0..n -> Nat] /\ g[0] = first
                         /\ \A i \in 1..n : g[i] = step[g[i - 1]]
<1>1. \A n \in Nat : \E g : Upto(n, g)
  <2> DEFINE T == {n \in Nat : \E g : Upto(n, g)}
  <2>1. 0 \in T
    <3>1. Upto(0, [i \in 0..0 |-> first])
      OBVIOUS
    <3> QED
      BY <3>1
  <2>2. ASSUME NEW n \in Nat, n \in T PROVE n + 1 \in T
    <3>1. PICK g : Upto(n, g)
      BY <2>2
    <3> DEFINE h == [i \in 0..(n + 1) |-> IF i = n + 1 THEN step[g[n]] ELSE g[i]]
    <3>2. h \in [0..(n + 1) -> Nat] /\ h[0] = first
      <4>1. \A i \in 0..(n + 1) : i # n + 1 => i \in 0..n
        OBVIOUS
      <4>2. n \in 0..n /\ 0 \in 0..(n + 1) /\ 0 # n + 1
        OBVIOUS
      <4> QED
        BY <3>1, <4>1, <4>2
    <3>3. ASSUME NEW i \in 1..(n + 1) PROVE h[i] = step[h[i - 1]]
      <4>1. i \in 0..(n + 1) /\ i - 1 \in 0..(n + 1) /\ i - 1 # n + 1
        OBVIOUS
      <4>2. h[i - 1] = g[i - 1] /\ h[i] = IF i = n + 1 THEN step[g[n]] ELSE g[i]
        BY <4>1
      <4>3. CASE i = n + 1
        BY <4>2, <4>3
      <4>4. CASE i # n + 1
        <5>1. i \in 1..n
          BY <4>4
        <5> QED
          BY <3>1, <4>2, <4>4, <5>1
      <4> QED
        BY <4>3, <4>4
    <3>4. Upto(n + 1, h)
      BY <3>2, <3>3
    <3> HIDE DEF h, Upto
    <3> QED
      BY <3>4
  <2> HIDE DEF T
  <2>3. Nat \subseteq T
    BY <2>1, <2>2, NatInductive
  <2> QED
    BY <2>3 DEF T
<1>2. ASSUME NEW n \in Nat, NEW g, NEW h, Upto(n, g), Upto(n + 1, h)
      PROVE  g[n] = h[n]
  <2> DEFINE T == {i \in Nat : i <= n => g[i] = h[i]}
  <2>1. 0 \in T
    BY <1>2
  <2>2. ASSUME NEW i \in Nat, i \in T PROVE i + 1 \in T
    <3>1. CASE i + 1 <= n
      <4>1. /\ i + 1 \in 1..n /\ i + 1 \in 1..(n + 1) /\ (i + 1) - 1 = i
            /\ g[i] = h[i]
        BY <2>2, <3>1
      <4>2. g[i + 1] = step[g[(i + 1) - 1]] /\ h[i + 1] = step[h[(i + 1) - 1]]
        BY <1>2, <4>1
      <4> QED
        BY <4>1, <4>2
    <3> QED
      BY <3>1
  <2>3. Nat \subseteq T
    <3> HIDE DEF T
    <3> QED
      BY <2>1, <2>2, NatInductive
  <2> QED
    BY <2>3
<1> DEFINE G(n) == CHOOSE g : Upto(n, g)
           f == [n \in Nat |-> G(n)[n]]
<1>3. \A n \in Nat : Upto(n, G(n))
  <2> HIDE DEF Upto
  <2> QED
    BY <1>1
<1> HIDE DEF G
<1>4. f \in [Nat -> Nat]
  BY <1>3
<1>5. ASSUME NEW i \in Nat PROVE f[i] = IF i = 0 THEN first ELSE step[f[i - 1]]
  <2>1. CASE i = 0
    BY <1>3, <2>1
  <2>2. CASE i # 0
    <3>1. i - 1 \in Nat /\ (i - 1) + 1 = i /\ i \in 1..i
      BY <2>2
    <3>2. Upto(i, G(i)) /\ Upto(i - 1, G(i - 1))
      BY <1>3, <3>1
    <3>3. G(i - 1)[i - 1] = G(i)[i - 1]
      <4> HIDE DEF Upto
      <4> QED
        BY <1>2, <3>1, <3>2
    <3>4. G(i)[i] = step[G(i)[i - 1]]
      BY <3>1, <3>2
    <3> QED
      BY <2>2, <3>1, <3>3, <3>4
  <2> QED
    BY <2>1, <2>2
<1> HIDE DEF f
<1>6. f = [i \in Nat |-> f[i]]
  BY <1>4
<1>7. f = [i \in Nat |-> IF i = 0 THEN first ELSE step[f[i - 1]]]
  BY <1>5, <1>6
<1> QED
  BY <1>4, <1>7

(* What the definition of the powers says.                                 *)
LEMMA Powers ==
  /\ PowerOf2 \in [Nat -> Nat] /\ PowerOf2[0] = 1
  /\ \A k \in Nat : PowerOf2[k + 1] = 2 * PowerOf2[k]
<1> DEFINE step == [x \in Nat |-> 2 * x]
<1>1. PICK f \in [Nat -> Nat] : f = [i \in Nat |-> IF i = 0 THEN 1 ELSE step[f[i - 1]]]
  <2>1. step \in [Nat -> Nat] /\ 1 \in Nat
    OBVIOUS
  <2> HIDE DEF step
  <2> QED
    BY <2>1, Iteration
<1>2. f = [i \in Nat |-> IF i = 0 THEN 1 ELSE 2 * f[i - 1]]
  <2>1. \A i \in Nat : i # 0 => i - 1 \in Nat /\ f[i - 1] \in Nat
    OBVIOUS
  <2>2. \A i \in Nat : i # 0 => step[f[i - 1]] = 2 * f[i - 1]
    BY <2>1
  <2>3. [i \in Nat |-> IF i = 0 THEN 1 ELSE step[f[i - 1]]]
          = [i \in Nat |-> IF i = 0 THEN 1 ELSE 2 * f[i - 1]]
    BY <2>2
  <2> HIDE DEF step
  <2> QED
    BY <1>1, <2>3
<1>3. PowerOf2 = [i \in Nat |-> IF i = 0 THEN 1 ELSE 2 * PowerOf2[i - 1]]
  BY <1>2, Zenon DEF PowerOf2
<1>4. \A i \in Nat : PowerOf2[i] = IF i = 0 THEN 1 ELSE 2 * PowerOf2[i - 1]
  BY <1>3, Zenon
<1>5. PowerOf2[0] = 1 /\ \A k \in Nat : PowerOf2[k + 1] = 2 * PowerOf2[k]
  <2>1. \A k \in Nat : k + 1 \in Nat /\ k + 1 # 0 /\ (k + 1) - 1 = k
    OBVIOUS
  <2> QED
    BY <1>4, <2>1
<1>6. \A k \in Nat : PowerOf2[k] \in Nat
  <2> DEFINE T == {k \in Nat : PowerOf2[k] \in Nat}
  <2>1. 0 \in T /\ \A k \in Nat : k \in T => k + 1 \in T
    BY <1>5
  <2> HIDE DEF T
  <2>2. Nat \subseteq T
    BY <2>1, NatInductive
  <2> QED
    BY <2>2 DEF T
<1> QED
  BY <1>3, <1>5, <1>6

(* A shift halves so many times.                                           *)
LEMMA Shift ==
  ASSUME NEW n \in Nat
  PROVE  /\ ShiftRight(n, 0) = n
         /\ \A k \in Nat : /\ ShiftRight(n, k) \in Nat
                           /\ ShiftRight(n, k + 1) = ShiftRight(n, k) \div 2
<1> DEFINE step == [x \in Nat |-> x \div 2]
           halved == CHOOSE f : f = [i \in Nat |-> IF i = 0 THEN n ELSE f[i - 1] \div 2]
<1>1. PICK f \in [Nat -> Nat] : f = [i \in Nat |-> IF i = 0 THEN n ELSE step[f[i - 1]]]
  <2>1. step \in [Nat -> Nat]
    OBVIOUS
  <2> HIDE DEF step
  <2> QED
    BY <2>1, Iteration
<1>2. f = [i \in Nat |-> IF i = 0 THEN n ELSE f[i - 1] \div 2]
  <2>1. \A i \in Nat : i # 0 => i - 1 \in Nat /\ f[i - 1] \in Nat
    OBVIOUS
  <2>2. \A i \in Nat : i # 0 => step[f[i - 1]] = f[i - 1] \div 2
    BY <2>1
  <2>3. [i \in Nat |-> IF i = 0 THEN n ELSE step[f[i - 1]]]
          = [i \in Nat |-> IF i = 0 THEN n ELSE f[i - 1] \div 2]
    BY <2>2
  <2> HIDE DEF step
  <2> QED
    BY <1>1, <2>3
<1>3. halved = [i \in Nat |-> IF i = 0 THEN n ELSE halved[i - 1] \div 2]
  BY <1>2, Zenon
<1>4. \A k : ShiftRight(n, k) = halved[k]
  BY Zenon DEF ShiftRight
<1> HIDE DEF halved
<1>5. \A i \in Nat : halved[i] = IF i = 0 THEN n ELSE halved[i - 1] \div 2
  BY <1>3, Zenon
<1>6. halved[0] = n /\ \A k \in Nat : halved[k + 1] = halved[k] \div 2
  <2>1. \A k \in Nat : k + 1 \in Nat /\ k + 1 # 0 /\ (k + 1) - 1 = k
    OBVIOUS
  <2> QED
    BY <1>5, <2>1
<1>7. \A k \in Nat : halved[k] \in Nat
  <2> DEFINE T == {k \in Nat : halved[k] \in Nat}
  <2>1. 0 \in T /\ \A k \in Nat : k \in T => k + 1 \in T
    BY <1>6
  <2> HIDE DEF T
  <2>2. Nat \subseteq T
    BY <2>1, NatInductive
  <2> QED
    BY <2>2 DEF T
<1> QED
  BY <1>4, <1>6, <1>7

(* To shift further is to shift the half.                                  *)
LEMMA ShiftHalf ==
  ASSUME NEW n \in Nat, NEW k \in Nat
  PROVE  n \div 2 \in Nat /\ ShiftRight(n, k + 1) = ShiftRight(n \div 2, k)
<1> DEFINE T == {i \in Nat : ShiftRight(n, i + 1) = ShiftRight(n \div 2, i)}
<1>1. n \div 2 \in Nat
  OBVIOUS
<1>2. 0 \in T
  <2>1. ShiftRight(n, 0) = n /\ ShiftRight(n, 0 + 1) = ShiftRight(n, 0) \div 2
    BY Shift
  <2>2. ShiftRight(n \div 2, 0) = n \div 2
    BY <1>1, Shift
  <2> QED
    BY <2>1, <2>2
<1>3. ASSUME NEW i \in Nat, i \in T PROVE i + 1 \in T
  <2>1. ShiftRight(n, (i + 1) + 1) = ShiftRight(n, i + 1) \div 2
    BY Shift
  <2>2. ShiftRight(n \div 2, i + 1) = ShiftRight(n \div 2, i) \div 2
    BY <1>1, Shift
  <2> QED
    BY <1>3, <2>1, <2>2
<1>4. Nat \subseteq T
  <2> HIDE DEF T
  <2> QED
    BY <1>2, <1>3, NatInductive
<1> QED
  BY <1>1, <1>4

(* A shift of a shift.                                                     *)
LEMMA ShiftTwice ==
  ASSUME NEW n \in Nat, NEW j \in Nat, NEW k \in Nat
  PROVE  ShiftRight(ShiftRight(n, j), k) = ShiftRight(n, k + j)
<1> DEFINE T == {i \in Nat : ShiftRight(ShiftRight(n, j), i) = ShiftRight(n, i + j)}
<1>1. ShiftRight(n, j) \in Nat /\ 0 + j = j
  BY Shift
<1>2. 0 \in T
  <2>1. ShiftRight(ShiftRight(n, j), 0) = ShiftRight(n, j)
    BY <1>1, Shift
  <2>2. ShiftRight(n, 0 + j) = ShiftRight(n, j)
    BY <1>1
  <2> QED
    BY <2>1, <2>2
<1>3. ASSUME NEW i \in Nat, i \in T PROVE i + 1 \in T
  <2>1. ShiftRight(ShiftRight(n, j), i + 1) = ShiftRight(ShiftRight(n, j), i) \div 2
    BY <1>1, Shift
  <2>2. i + j \in Nat /\ (i + j) + 1 = (i + 1) + j
    OBVIOUS
  <2>3. ShiftRight(n, (i + 1) + j) = ShiftRight(n, i + j) \div 2
    BY <2>2, Shift
  <2> QED
    BY <1>3, <2>1, <2>3
<1>4. Nat \subseteq T
  <2> HIDE DEF T
  <2> QED
    BY <1>2, <1>3, NatInductive
<1> QED
  BY <1>4

(* The powers of two grow.                                                 *)
LEMMA PowersGrow ==
  ASSUME NEW j \in Nat, NEW k \in Nat, j < k
  PROVE  2 * PowerOf2[j] <= PowerOf2[k] /\ 1 <= PowerOf2[j]
<1> DEFINE T == {i \in Nat : /\ 1 <= PowerOf2[i]
                             /\ \A l \in Nat : l < i => 2 * PowerOf2[l] <= PowerOf2[i]}
<1>1. 0 \in T
  BY Powers
<1>2. ASSUME NEW i \in Nat, i \in T PROVE i + 1 \in T
  <2>1. /\ PowerOf2[i] \in Nat /\ PowerOf2[i + 1] = 2 * PowerOf2[i] /\ 1 <= PowerOf2[i]
        /\ \A l \in Nat : PowerOf2[l] \in Nat
    BY <1>2, Powers
  <2>2. ASSUME NEW l \in Nat, l < i + 1 PROVE 2 * PowerOf2[l] <= PowerOf2[i + 1]
    <3>1. l = i \/ l < i
      BY <2>2
    <3>2. CASE l = i
      BY <2>1, <3>2
    <3>3. CASE l < i
      <4>1. 2 * PowerOf2[l] <= PowerOf2[i]
        BY <1>2, <3>3
      <4> QED
        BY <2>1, <4>1
    <3> QED
      BY <3>1, <3>2, <3>3
  <2> QED
    BY <2>1, <2>2
<1>3. Nat \subseteq T
  <2> HIDE DEF T
  <2> QED
    BY <1>1, <1>2, NatInductive
<1> QED
  BY <1>3

(* A number lies between two powers; its bit there is the last.            *)
LEMMA TopBit ==
  ASSUME NEW m \in Nat
  PROVE  \A n \in Nat :
           /\ n < PowerOf2[m] => ShiftRight(n, m) = 0
           /\ PowerOf2[m] <= n /\ n < PowerOf2[m + 1] => ShiftRight(n, m) = 1
<1> DEFINE T == {i \in Nat :
                   \A n \in Nat :
                     /\ n < PowerOf2[i] => ShiftRight(n, i) = 0
                     /\ PowerOf2[i] <= n /\ n < PowerOf2[i + 1] => ShiftRight(n, i) = 1}
<1>1. 0 \in T
  <2>1. PowerOf2[0] = 1 /\ PowerOf2[0 + 1] = 2
    BY Powers
  <2>2. \A n \in Nat : ShiftRight(n, 0) = n
    BY Shift
  <2> QED
    BY <2>1, <2>2
<1>2. ASSUME NEW i \in Nat, i \in T PROVE i + 1 \in T
  <2> SUFFICES ASSUME NEW n \in Nat
               PROVE  /\ n < PowerOf2[i + 1] => ShiftRight(n, i + 1) = 0
                      /\ PowerOf2[i + 1] <= n /\ n < PowerOf2[(i + 1) + 1] =>
                           ShiftRight(n, i + 1) = 1
    OBVIOUS
  <2>1. ShiftRight(n, i + 1) = ShiftRight(n \div 2, i) /\ n \div 2 \in Nat
    BY ShiftHalf
  <2>2. /\ PowerOf2[i] \in Nat /\ PowerOf2[i + 1] = 2 * PowerOf2[i]
        /\ PowerOf2[(i + 1) + 1] = 2 * PowerOf2[i + 1]
    BY Powers
  <2>3. /\ n \div 2 < PowerOf2[i] => ShiftRight(n \div 2, i) = 0
        /\ PowerOf2[i] <= n \div 2 /\ n \div 2 < PowerOf2[i + 1] =>
             ShiftRight(n \div 2, i) = 1
    BY <1>2, <2>1
  <2>4. /\ n < PowerOf2[i + 1] => n \div 2 < PowerOf2[i]
        /\ PowerOf2[i + 1] <= n => PowerOf2[i] <= n \div 2
        /\ n < PowerOf2[(i + 1) + 1] => n \div 2 < PowerOf2[i + 1]
    BY <2>2
  <2> QED
    BY <2>1, <2>3, <2>4
<1>3. Nat \subseteq T
  <2> HIDE DEF T
  <2> QED
    BY <1>1, <1>2, NatInductive
<1> QED
  BY <1>3

(* Every positive number has a highest bit.                                *)
LEMMA Magnitude ==
  ASSUME NEW m \in Nat, NEW n \in Nat, 1 <= n, n < PowerOf2[m]
  PROVE  \E h \in 0..(m - 1) : PowerOf2[h] <= n /\ n < PowerOf2[h + 1]
<1> DEFINE T == {i \in Nat : n < PowerOf2[i] =>
                   \E h \in 0..(i - 1) : PowerOf2[h] <= n /\ n < PowerOf2[h + 1]}
<1>1. 0 \in T
  BY Powers
<1>2. ASSUME NEW i \in Nat, i \in T PROVE i + 1 \in T
  <2>1. PowerOf2[i] \in Nat /\ i \in 0..((i + 1) - 1) /\ 0..(i - 1) \subseteq 0..((i + 1) - 1)
    BY Powers
  <2>2. CASE n < PowerOf2[i]
    BY <1>2, <2>1, <2>2
  <2>3. CASE PowerOf2[i] <= n
    BY <2>1, <2>3
  <2> QED
    BY <2>1, <2>2, <2>3
<1>3. Nat \subseteq T
  <2> HIDE DEF T
  <2> QED
    BY <1>1, <1>2, NatInductive
<1> QED
  BY <1>3

(* The bits of a word tell which word it is.                               *)
LEMMA BitsUnique ==
  ASSUME NEW m \in Nat
  PROVE  \A n, l \in Nat :
           /\ n < PowerOf2[m] /\ l < PowerOf2[m]
           /\ \A k \in 0..(m - 1) : ShiftRight(n, k) % 2 = 1 <=> ShiftRight(l, k) % 2 = 1
           => n = l
<1> DEFINE Same(n, l, i) ==
             \A k \in 0..(i - 1) : ShiftRight(n, k) % 2 = 1 <=> ShiftRight(l, k) % 2 = 1
           T == {i \in Nat : \A n, l \in Nat :
                   n < PowerOf2[i] /\ l < PowerOf2[i] /\ Same(n, l, i) => n = l}
<1>1. 0 \in T
  BY Powers
<1>2. ASSUME NEW i \in Nat, i \in T PROVE i + 1 \in T
  <2> SUFFICES ASSUME NEW n \in Nat, NEW l \in Nat,
                      n < PowerOf2[i + 1], l < PowerOf2[i + 1], Same(n, l, i + 1)
               PROVE  n = l
    OBVIOUS
  <2>1. PowerOf2[i] \in Nat /\ PowerOf2[i + 1] = 2 * PowerOf2[i]
    BY Powers
  <2>2. /\ n \div 2 \in Nat /\ n \div 2 < PowerOf2[i]
        /\ l \div 2 \in Nat /\ l \div 2 < PowerOf2[i]
    BY <2>1
  <2>3. Same(n \div 2, l \div 2, i)
    <3> SUFFICES ASSUME NEW k \in 0..(i - 1)
                 PROVE  ShiftRight(n \div 2, k) % 2 = 1 <=> ShiftRight(l \div 2, k) % 2 = 1
      OBVIOUS
    <3>1. k \in Nat /\ k + 1 \in 0..((i + 1) - 1)
      OBVIOUS
    <3>2. ShiftRight(n, k + 1) % 2 = 1 <=> ShiftRight(l, k + 1) % 2 = 1
      BY <3>1
    <3>3. /\ ShiftRight(n, k + 1) = ShiftRight(n \div 2, k)
          /\ ShiftRight(l, k + 1) = ShiftRight(l \div 2, k)
      BY <3>1, ShiftHalf
    <3> QED
      BY <3>2, <3>3
  <2>4. n \div 2 = l \div 2
    <3> HIDE DEF Same
    <3> QED
      BY <1>2, <2>2, <2>3
  <2>5. n % 2 = 1 <=> l % 2 = 1
    <3>1. 0 \in 0..((i + 1) - 1)
      OBVIOUS
    <3>2. ShiftRight(n, 0) % 2 = 1 <=> ShiftRight(l, 0) % 2 = 1
      BY <3>1
    <3>3. ShiftRight(n, 0) = n /\ ShiftRight(l, 0) = l
      BY Shift
    <3> QED
      BY <3>2, <3>3
  <2> QED
    BY <2>4, <2>5
<1>3. Nat \subseteq T
  <2> HIDE DEF T
  <2> QED
    BY <1>1, <1>2, NatInductive
<1> QED
  BY <1>3

(* There is a word with any bits.                                          *)
LEMMA BitsExist ==
  ASSUME NEW m \in Nat
  PROVE  \A bits \in SUBSET (0..(m - 1)) :
           \E n \in Nat : /\ n < PowerOf2[m]
                          /\ \A k \in 0..(m - 1) : ShiftRight(n, k) % 2 = 1 <=> k \in bits
<1> DEFINE Has(n, bits, i) ==
             \A k \in 0..(i - 1) : ShiftRight(n, k) % 2 = 1 <=> k \in bits
           T == {i \in Nat : \A bits \in SUBSET (0..(i - 1)) :
                   \E n \in Nat : n < PowerOf2[i] /\ Has(n, bits, i)}
<1>1. 0 \in T
  <2>1. 0 < PowerOf2[0] /\ 0..(0 - 1) = {}
    BY Powers
  <2> QED
    BY <2>1
<1>2. ASSUME NEW i \in Nat, i \in T PROVE i + 1 \in T
  <2> SUFFICES ASSUME NEW bits \in SUBSET (0..((i + 1) - 1))
               PROVE  \E n \in Nat : n < PowerOf2[i + 1] /\ Has(n, bits, i + 1)
    OBVIOUS
  <2> DEFINE upper == {k \in 0..(i - 1) : k + 1 \in bits}
  <2>1. PICK h \in Nat : h < PowerOf2[i] /\ Has(h, upper, i)
    <3>1. upper \in SUBSET (0..(i - 1))
      OBVIOUS
    <3> HIDE DEF upper, Has
    <3> QED
      BY <1>2, <3>1
  <2>2. PICK n \in Nat : n = 2 * h + (IF 0 \in bits THEN 1 ELSE 0)
    OBVIOUS
  <2>3. n \div 2 = h /\ (n % 2 = 1 <=> 0 \in bits)
    BY <2>2
  <2>4. n < PowerOf2[i + 1]
    <3>1. PowerOf2[i] \in Nat /\ PowerOf2[i + 1] = 2 * PowerOf2[i]
      BY Powers
    <3> QED
      BY <2>1, <2>2, <3>1
  <2>5. ASSUME NEW k \in 0..((i + 1) - 1) PROVE ShiftRight(n, k) % 2 = 1 <=> k \in bits
    <3>1. CASE k = 0
      <4>1. ShiftRight(n, 0) = n
        BY Shift
      <4> QED
        BY <2>3, <3>1, <4>1
    <3>2. CASE k # 0
      <4>1. k - 1 \in 0..(i - 1) /\ k - 1 \in Nat /\ (k - 1) + 1 = k
        BY <3>2
      <4>2. ShiftRight(n, k) = ShiftRight(h, k - 1)
        BY <2>3, <4>1, ShiftHalf
      <4>3. ShiftRight(h, k - 1) % 2 = 1 <=> k - 1 \in upper
        BY <2>1, <4>1
      <4> QED
        BY <4>1, <4>2, <4>3
    <3> QED
      BY <3>1, <3>2
  <2> QED
    BY <2>4, <2>5
<1>3. Nat \subseteq T
  <2> HIDE DEF T
  <2> QED
    BY <1>1, <1>2, NatInductive
<1> QED
  BY <1>3

(* All bits below the one of a power are those of its predecessor.         *)
LEMMA BitsOfOnes ==
  ASSUME NEW m \in Nat
  PROVE  PowerOf2[m] - 1 \in Nat /\ \A k \in 0..(m - 1) : ShiftRight(PowerOf2[m] - 1, k) % 2 = 1
<1> DEFINE T == {i \in Nat : /\ PowerOf2[i] - 1 \in Nat
                             /\ \A k \in 0..(i - 1) : ShiftRight(PowerOf2[i] - 1, k) % 2 = 1}
<1>1. 0 \in T
  <2>1. PowerOf2[0] = 1 /\ 0..(0 - 1) = {}
    BY Powers
  <2> QED
    BY <2>1
<1>2. ASSUME NEW i \in Nat, i \in T PROVE i + 1 \in T
  <2> DEFINE n == PowerOf2[i + 1] - 1
  <2>1. /\ PowerOf2[i] \in Nat /\ PowerOf2[i] - 1 \in Nat
        /\ PowerOf2[i + 1] = 2 * PowerOf2[i]
    BY <1>2, Powers
  <2>2. n \in Nat /\ n \div 2 = PowerOf2[i] - 1 /\ n % 2 = 1
    BY <2>1
  <2> HIDE DEF n
  <2>3. ASSUME NEW k \in 0..((i + 1) - 1) PROVE ShiftRight(n, k) % 2 = 1
    <3>1. CASE k = 0
      <4>1. ShiftRight(n, 0) = n
        BY <2>2, Shift
      <4> QED
        BY <2>2, <3>1, <4>1
    <3>2. CASE k # 0
      <4>1. k - 1 \in 0..(i - 1) /\ k - 1 \in Nat /\ (k - 1) + 1 = k
        BY <3>2
      <4>2. ShiftRight(n, k) = ShiftRight(PowerOf2[i] - 1, k - 1)
        BY <2>2, <4>1, ShiftHalf
      <4> QED
        BY <1>2, <4>1, <4>2
    <3> QED
      BY <3>1, <3>2
  <2> QED
    BY <2>2, <2>3 DEF n
<1>3. Nat \subseteq T
  <2> HIDE DEF T
  <2> QED
    BY <1>1, <1>2, NatInductive
<1> QED
  BY <1>3

(* The remainder of twice a number.                                        *)
LEMMA RemainderOfTwice ==
  ASSUME NEW n \in Nat, NEW p \in Nat \ {0}
  PROVE  /\ (n \div 2) % p \in 0..(p - 1)
         /\ n % (2 * p) = 2 * ((n \div 2) % p) + (n % 2)
<1> DEFINE h == n \div 2
           q == h \div p
           r == h % p
           W == 2 * p
           s == 2 * r + (n % 2)
<1>1. h \in Nat /\ n = 2 * h + (n % 2) /\ n % 2 \in 0..1
  <2>1. n \div 2 \in Nat /\ n = 2 * (n \div 2) + (n % 2) /\ n % 2 \in 0..1
    OBVIOUS
  <2> QED
    BY <2>1
<1>2. h = p * q + r /\ q \in Nat /\ r \in 0..(p - 1)
  <2> HIDE DEF h
  <2> QED
    BY <1>1
<1>3. ASSUME NEW V \in Nat \ {0}, NEW k \in Nat, NEW t \in 0..(V - 1)
      PROVE  (V * k + t) % V = t
  OBVIOUS
<1> HIDE DEF h, q, r
<1>4. W \in Nat \ {0} /\ s \in 0..(W - 1) /\ n = W * q + s
  <2> DEFINE b == n % 2
             z == p * q
  <2>1. 2 * z = W * q /\ z \in Nat
    BY <1>2
  <2>2. /\ h \in Nat /\ n = 2 * h + b /\ b \in 0..1
        /\ h = z + r /\ r \in 0..(p - 1)
    BY <1>1, <1>2
  <2>3. W \in Nat \ {0} /\ s \in 0..(W - 1)
    BY <2>2
  <2>4. s = 2 * r + b
    OBVIOUS
  <2> HIDE DEF b, z, W, s
  <2> QED
    BY <2>1, <2>2, <2>3, <2>4
<1> HIDE DEF W, s
<1>5. n % W = s
  BY <1>2, <1>3, <1>4
<1> QED
  BY <1>2, <1>5 DEF W, s, r, h

(* The bits of the remainder by a power of two are the bits below it.      *)
LEMMA BitsOfRemainder ==
  ASSUME NEW m \in Nat
  PROVE  \A n \in Nat :
           /\ n % PowerOf2[m] \in 0..(PowerOf2[m] - 1)
           /\ \A k \in Nat : ShiftRight(n % PowerOf2[m], k) % 2 = 1
                               <=> k < m /\ ShiftRight(n, k) % 2 = 1
<1> DEFINE T == {i \in Nat : \A n \in Nat :
                   /\ n % PowerOf2[i] \in 0..(PowerOf2[i] - 1)
                   /\ \A k \in Nat : ShiftRight(n % PowerOf2[i], k) % 2 = 1
                                       <=> k < i /\ ShiftRight(n, k) % 2 = 1}
<1>1. 0 \in T
  <2>1. PowerOf2[0] = 1 /\ \A n \in Nat : n % 1 = 0
    BY Powers
  <2>2. \A k \in Nat : 1 <= PowerOf2[k] /\ PowerOf2[k] \in Nat
    BY PowersGrow, Powers
  <2>3. \A k \in Nat : ShiftRight(0, k) = 0
    BY <2>2, TopBit
  <2> QED
    BY <2>1, <2>3
<1>2. ASSUME NEW i \in Nat, i \in T PROVE i + 1 \in T
  <2> SUFFICES ASSUME NEW n \in Nat
               PROVE  /\ n % PowerOf2[i + 1] \in 0..(PowerOf2[i + 1] - 1)
                      /\ \A k \in Nat : ShiftRight(n % PowerOf2[i + 1], k) % 2 = 1
                                          <=> k < i + 1 /\ ShiftRight(n, k) % 2 = 1
    OBVIOUS
  <2> DEFINE h == n \div 2
             w == n % PowerOf2[i + 1]
             v == h % PowerOf2[i]
  <2>1. h \in Nat /\ PowerOf2[i] \in Nat \ {0} /\ PowerOf2[i + 1] = 2 * PowerOf2[i]
    <3>1. 1 <= PowerOf2[i] /\ PowerOf2[i] \in Nat
      BY PowersGrow, Powers
    <3> QED
      BY <3>1, Powers
  <2>2. v \in 0..(PowerOf2[i] - 1) /\ w = 2 * v + (n % 2)
    BY <2>1, RemainderOfTwice
  <2>3. \A k \in Nat : ShiftRight(v, k) % 2 = 1 <=> k < i /\ ShiftRight(h, k) % 2 = 1
    BY <1>2, <2>1
  <2> HIDE DEF v, w
  <2>4. /\ w \in Nat /\ w \in 0..(PowerOf2[i + 1] - 1)
        /\ w \div 2 = v /\ w % 2 = n % 2
    <3>1. n % 2 \in {0, 1} /\ v \in Nat /\ v <= PowerOf2[i] - 1
      BY <2>1, <2>2
    <3>2. ASSUME NEW b \in {0, 1}, w = 2 * v + b
          PROVE  /\ w \in Nat /\ w \in 0..(PowerOf2[i + 1] - 1)
                 /\ w \div 2 = v /\ w % 2 = b
      BY <2>1, <3>1, <3>2
    <3> QED
      BY <2>2, <3>1, <3>2
  <2>5. ASSUME NEW k \in Nat
        PROVE  ShiftRight(w, k) % 2 = 1 <=> k < i + 1 /\ ShiftRight(n, k) % 2 = 1
    <3>1. CASE k = 0
      <4>1. ShiftRight(w, 0) = w
        BY <2>4, Shift
      <4>2. ShiftRight(n, 0) = n
        BY Shift
      <4> QED
        BY <2>4, <3>1, <4>1, <4>2
    <3>2. CASE k # 0
      <4>1. k - 1 \in Nat /\ (k - 1) + 1 = k /\ (k - 1 < i <=> k < i + 1)
        BY <3>2
      <4>2. ShiftRight(w, k) = ShiftRight(v, k - 1)
        <5>1. ShiftRight(w, (k - 1) + 1) = ShiftRight(w \div 2, k - 1)
          BY <2>4, <4>1, ShiftHalf
        <5> QED
          BY <2>4, <4>1, <5>1
      <4>3. ShiftRight(n, k) = ShiftRight(h, k - 1)
        BY <4>1, ShiftHalf
      <4> HIDE DEF h
      <4> QED
        BY <2>3, <4>1, <4>2, <4>3
    <3> QED
      BY <3>1, <3>2
  <2> QED
    BY <2>4, <2>5 DEF w
<1>3. Nat \subseteq T
  <2> HIDE DEF T
  <2> QED
    BY <1>1, <1>2, NatInductive
<1> QED
  BY <1>3

Words == 0..(WordSize - 1)

Indices == 0..(WordBits - 1)

(* What the assumption on the width says.                                  *)
LEMMA BitsFacts ==
  /\ WordBits \in Nat /\ 2 <= WordBits /\ WordBits <= 64
  /\ WordSize = PowerOf2[WordBits] /\ HalfWord = PowerOf2[WordBits - 1]
  /\ WordSize \in Nat /\ HalfWord \in Nat
<1>1. WordBits - 1 \in Nat /\ (WordBits - 1) + 1 = WordBits /\ WordBits \in Nat
  BY BitsAssumption
<1> QED
  BY <1>1, BitsAssumption, Powers DEF WordSize

(* A word has its bits and is the only one with them.                      *)
LEMMA WordsAndBits ==
  /\ \A n \in Words : \A k \in Nat :
       k \in Bits(n) <=> ShiftRight(n, k) % 2 = 1
  /\ \A n \in Words : Bits(n) \subseteq Indices
  /\ \A n, l \in Words : Bits(n) = Bits(l) => n = l
  /\ \A bits \in SUBSET Indices : WordOf(bits) \in Words /\ Bits(WordOf(bits)) = bits
<1>1. ASSUME NEW n \in Words, NEW k \in Nat
      PROVE  k \in Bits(n) <=> ShiftRight(n, k) % 2 = 1
  <2>1. CASE k \in 0..(WordBits - 1)
    BY <2>1 DEF Bits
  <2>2. CASE WordBits <= k
    <3>1. n \in Nat /\ n < PowerOf2[k]
      <4>1. PowerOf2[WordBits] <= PowerOf2[k]
        <5>1. CASE WordBits = k
          BY <5>1, BitsFacts
        <5>2. CASE WordBits < k
          BY <5>2, BitsFacts, PowersGrow, Powers
        <5> QED
          BY <2>2, <5>1, <5>2, BitsFacts
      <4>2. PowerOf2[k] \in Nat
        BY Powers
      <4> QED
        BY <4>1, <4>2, BitsFacts DEF Words
    <3>2. ShiftRight(n, k) = 0
      BY <3>1, TopBit
    <3>3. k \notin Bits(n)
      BY <2>2, BitsFacts DEF Bits
    <3> QED
      BY <3>2, <3>3
  <2> QED
    BY <2>1, <2>2, BitsFacts
<1>2. ASSUME NEW n \in Words, NEW l \in Words, Bits(n) = Bits(l) PROVE n = l
  <2>1. /\ n \in Nat /\ n < PowerOf2[WordBits] /\ l \in Nat /\ l < PowerOf2[WordBits]
    BY BitsFacts DEF Words
  <2>2. \A k \in 0..(WordBits - 1) :
          ShiftRight(n, k) % 2 = 1 <=> ShiftRight(l, k) % 2 = 1
    BY <1>2 DEF Bits
  <2> QED
    BY <2>1, <2>2, BitsUnique, BitsFacts
<1>3. ASSUME NEW bits \in SUBSET Indices
      PROVE  WordOf(bits) \in Words /\ Bits(WordOf(bits)) = bits
  <2>1. PICK n \in Nat : /\ n < PowerOf2[WordBits]
                         /\ \A k \in 0..(WordBits - 1) :
                              ShiftRight(n, k) % 2 = 1 <=> k \in bits
    BY BitsExist, BitsFacts DEF Indices
  <2>2. n \in 0..(WordSize - 1)
    BY <2>1, BitsFacts
  <2>3. Bits(n) = bits
    BY <2>1 DEF Bits, Indices
  <2> QED
    BY <2>2, <2>3, Zenon DEF WordOf, Words
<1> QED
  BY <1>1, <1>2, <1>3 DEF Bits, Indices

(* The bits of a shifted word.                                             *)
LEMMA BitsOfShift ==
  ASSUME NEW n \in Words, NEW k \in Nat
  PROVE  Bits(ShiftRight(n, k)) = {i \in Indices : i + k \in Bits(n)}
<1>1. n \in Nat /\ \A i \in Indices : i \in Nat /\ i + k \in Nat
  BY BitsFacts DEF Words, Indices
<1>2. \A i \in Indices : ShiftRight(ShiftRight(n, k), i) = ShiftRight(n, i + k)
  BY <1>1, ShiftTwice
<1>3. \A i \in Indices : i + k \in Bits(n) <=> ShiftRight(n, i + k) % 2 = 1
  BY <1>1, WordsAndBits
<1> QED
  BY <1>2, <1>3 DEF Bits, Indices

(* w has the bits of n and those up to d - 1 below one of them.            *)
Smeared(n, w, d) ==
  /\ w \in Words
  /\ \A i \in Indices : i \in Bits(w) <=> \E j \in 0..(d - 1) : i + j \in Bits(n)

(* Each step of the smearing doubles how far it reaches.                   *)
LEMMA SmearDoubles ==
  ASSUME NEW n \in Words, NEW w, NEW d \in Nat \ {0}, Smeared(n, w, d)
  PROVE  Smeared(n, SmearBy(w, d), 2 * d)
<1> DEFINE bits == Bits(w) \cup Bits(ShiftRight(w, d))
<1>1. w \in Words /\ Bits(w) \subseteq Indices
  BY WordsAndBits DEF Smeared
<1>2. Bits(ShiftRight(w, d)) = {i \in Indices : i + d \in Bits(w)}
  BY <1>1, BitsOfShift
<1>3. bits \in SUBSET Indices
  BY <1>1, <1>2
<1>4. SmearBy(w, d) \in Words /\ Bits(SmearBy(w, d)) = bits
  <2> HIDE DEF bits
  <2>1. SmearBy(w, d) = WordOf(bits)
    BY DEF SmearBy, Or, bits
  <2> QED
    BY <1>3, <2>1, WordsAndBits
<1>5. ASSUME NEW i \in Indices
      PROVE  i \in bits <=> \E j \in 0..(2 * d - 1) : i + j \in Bits(n)
  <2>1. i \in Nat /\ Bits(n) \subseteq Indices
    BY WordsAndBits DEF Indices
  <2>2. i \in Bits(w) <=> \E j \in 0..(d - 1) : i + j \in Bits(n)
    BY DEF Smeared
  <2>3. i + d \in Bits(w) <=> \E j \in 0..(d - 1) : i + (d + j) \in Bits(n)
    <3>1. CASE i + d \in Indices
      <4>1. i + d \in Bits(w) <=> \E j \in 0..(d - 1) : (i + d) + j \in Bits(n)
        BY <3>1 DEF Smeared
      <4>2. \A j \in 0..(d - 1) : (i + d) + j = i + (d + j)
        BY <2>1
      <4> QED
        BY <4>1, <4>2
    <3>2. CASE i + d \notin Indices
      <4>1. \A j \in 0..(d - 1) : i + (d + j) \notin Indices
        BY <2>1, <3>2, BitsFacts DEF Indices
      <4> QED
        BY <1>1, <2>1, <3>2, <4>1
    <3> QED
      BY <3>1, <3>2
  <2>4. i \in bits <=> i \in Bits(w) \/ i + d \in Bits(w)
    BY <1>2
  <2>5. ASSUME NEW j \in 0..(2 * d - 1)
        PROVE  j \in 0..(d - 1) \/ \E l \in 0..(d - 1) : j = d + l
    <3>1. CASE j < d
      BY <3>1
    <3>2. CASE d <= j
      <4>1. j - d \in 0..(d - 1) /\ j = d + (j - d)
        BY <3>2
      <4> QED
        BY <4>1
    <3> QED
      BY <3>1, <3>2
  <2>6. ASSUME NEW l \in 0..(d - 1) PROVE l \in 0..(2 * d - 1) /\ d + l \in 0..(2 * d - 1)
    OBVIOUS
  <2> HIDE DEF bits
  <2> QED
    BY <2>2, <2>3, <2>4, <2>5, <2>6
<1> HIDE DEF bits
<1> QED
  BY <1>4, <1>5 DEF Smeared

(* The smearing sets every bit below the highest.                          *)
LEMMA SmearFills ==
  ASSUME NEW n \in Words, NEW h \in Indices, PowerOf2[h] <= n, n < PowerOf2[h + 1]
  PROVE  Smear(n) = PowerOf2[h + 1] - 1
<1> DEFINE full == PowerOf2[h + 1] - 1
<1>1. n \in Nat /\ h \in Nat /\ h + 1 \in Nat /\ h < WordBits
  BY BitsFacts DEF Words, Indices
<1>2. Smeared(n, n, 1)
  <2>1. \A i \in Indices : i + 0 = i /\ 0..(1 - 1) = {0}
    BY DEF Indices
  <2> QED
    BY <2>1 DEF Smeared
<1>3. Smeared(n, Smear(n), 64)
  <2> DEFINE a == SmearBy(n, 1)
             b == SmearBy(a, 2)
             c == SmearBy(b, 4)
             d == SmearBy(c, 8)
             e == SmearBy(d, 16)
             f == SmearBy(e, 32)
  <2>1. Smear(n) = f
    BY DEF Smear
  <2> HIDE DEF a, b, c, d, e, f
  <2>2. Smeared(n, a, 2)
    BY <1>2, SmearDoubles DEF a
  <2>3. Smeared(n, b, 4)
    BY <2>2, SmearDoubles DEF b
  <2>4. Smeared(n, c, 8)
    BY <2>3, SmearDoubles DEF c
  <2>5. Smeared(n, d, 16)
    BY <2>4, SmearDoubles DEF d
  <2>6. Smeared(n, e, 32)
    BY <2>5, SmearDoubles DEF e
  <2>7. Smeared(n, f, 64)
    BY <2>6, SmearDoubles DEF f
  <2> QED
    BY <2>1, <2>7
<1>4. \A i \in Indices : i \in Bits(n) => i <= h
  <2> SUFFICES ASSUME NEW i \in Indices, h < i PROVE i \notin Bits(n)
    BY <1>1 DEF Indices
  <2>1. i \in Nat /\ 2 * PowerOf2[h] <= PowerOf2[i]
    BY <1>1, PowersGrow DEF Indices
  <2>2. PowerOf2[h + 1] = 2 * PowerOf2[h] /\ PowerOf2[h] \in Nat /\ PowerOf2[i] \in Nat
    BY <1>1, <2>1, Powers
  <2>3. ShiftRight(n, i) = 0
    BY <1>1, <2>1, <2>2, TopBit
  <2> QED
    BY <2>3 DEF Bits
<1>5. h \in Bits(n)
  <2>1. ShiftRight(n, h) = 1
    BY <1>1, TopBit
  <2> QED
    BY <1>1, <2>1, WordsAndBits
<1>6. ASSUME NEW i \in Indices PROVE i \in Bits(Smear(n)) <=> i <= h
  <2>1. i \in Bits(Smear(n)) <=> \E j \in 0..(64 - 1) : i + j \in Bits(n)
    BY <1>3 DEF Smeared
  <2>2. i \in Nat /\ Bits(n) \subseteq Indices
    BY WordsAndBits DEF Indices
  <2>3. ASSUME i <= h PROVE \E j \in 0..(64 - 1) : i + j \in Bits(n)
    <3>1. h - i \in 0..(64 - 1) /\ i + (h - i) = h
      BY <1>1, <2>2, <2>3, BitsFacts
    <3> QED
      BY <1>5, <3>1
  <2>4. ASSUME NEW j \in 0..(64 - 1), i + j \in Bits(n) PROVE i <= h
    BY <1>1, <1>4, <2>2, <2>4
  <2> QED
    BY <2>1, <2>3, <2>4
<1>7. full \in Words
  <2>1. PowerOf2[h + 1] <= WordSize
    <3>1. CASE h + 1 = WordBits
      BY <3>1, BitsFacts
    <3>2. CASE h + 1 < WordBits
      BY <1>1, <3>2, PowersGrow, Powers, BitsFacts
    <3> QED
      BY <1>1, <3>1, <3>2, BitsFacts
  <2>2. full \in Nat /\ PowerOf2[h + 1] \in Nat
    BY <1>1, BitsOfOnes, Powers
  <2> QED
    BY <2>1, <2>2, BitsFacts DEF Words
<1>8. ASSUME NEW i \in Indices PROVE i \in Bits(full) <=> i <= h
  <2>1. i \in Nat
    BY DEF Indices
  <2>2. CASE i <= h
    <3>1. i \in 0..((h + 1) - 1)
      BY <1>1, <2>1, <2>2
    <3>2. ShiftRight(full, i) % 2 = 1
      BY <1>1, <3>1, BitsOfOnes
    <3> QED
      BY <1>7, <2>1, <2>2, <3>2, WordsAndBits
  <2>3. CASE h < i
    <3>1. full < PowerOf2[i] /\ full \in Nat
      <4>1. 2 * PowerOf2[h] <= PowerOf2[i] /\ PowerOf2[h + 1] = 2 * PowerOf2[h]
        BY <1>1, <2>1, <2>3, PowersGrow, Powers
      <4>2. full \in Nat /\ PowerOf2[h] \in Nat /\ PowerOf2[i] \in Nat
        BY <1>1, <2>1, Powers, BitsOfOnes
      <4> QED
        BY <4>1, <4>2
    <3>2. ShiftRight(full, i) = 0
      BY <2>1, <3>1, TopBit
    <3> HIDE DEF full
    <3> QED
      BY <1>1, <2>1, <2>3, <3>2 DEF Bits
  <2> QED
    BY <1>1, <2>1, <2>2, <2>3
<1> HIDE DEF full
<1>9. Smear(n) \in Words /\ Bits(Smear(n)) = Bits(full)
  <2>1. Smear(n) \in Words
    BY <1>3 DEF Smeared
  <2>2. Bits(Smear(n)) \subseteq Indices /\ Bits(full) \subseteq Indices
    BY <1>7, <2>1, WordsAndBits
  <2> QED
    BY <1>6, <1>8, <2>1, <2>2
<1>10. Smear(n) = full
  BY <1>7, <1>9, WordsAndBits
<1> QED
  BY <1>10 DEF full

(* The capacity: the power of two above the predecessor of the request, or *)
(* nothing where there is none.                                            *)
LEMMA RoundedUp ==
  ASSUME NEW n \in Words, 2 <= n
  PROVE  \E h \in Indices :
           /\ PowerOf2[h] < n /\ n <= PowerOf2[h + 1]
           /\ RoundUpPow2(n) = IF h + 1 = WordBits THEN 0 ELSE PowerOf2[h + 1]
<1>1. n \in Nat /\ n - 1 \in Nat /\ n - 1 \in Words /\ 1 <= n - 1 /\ n - 1 < PowerOf2[WordBits]
  BY BitsFacts DEF Words
<1>2. PICK h \in Indices : PowerOf2[h] <= n - 1 /\ n - 1 < PowerOf2[h + 1]
  BY <1>1, Magnitude, BitsFacts DEF Indices
<1>3. /\ h \in Nat /\ h + 1 \in Nat /\ h < WordBits
      /\ PowerOf2[h] \in Nat /\ PowerOf2[h + 1] \in Nat
  BY Powers, BitsFacts DEF Indices
<1>4. RoundUpPow2(n) = Word(PowerOf2[h + 1])
  <2>1. Smear(n - 1) = PowerOf2[h + 1] - 1
    BY <1>1, <1>2, SmearFills
  <2>2. RoundUpPow2(n) = Word(Smear(n - 1) + 1)
    BY <1>1 DEF RoundUpPow2
  <2>3. (PowerOf2[h + 1] - 1) + 1 = PowerOf2[h + 1]
    BY <1>3
  <2> QED
    BY <2>1, <2>2, <2>3
<1>5. CASE h + 1 = WordBits
  <2>1. WordSize \in Nat \ {0} /\ PowerOf2[h + 1] = WordSize
    BY <1>5, BitsFacts, WordFacts
  <2>3. WordSize * 1 + 0 = WordSize /\ 0 \in 0..(WordSize - 1)
    BY <2>1
  <2>2. Word(PowerOf2[h + 1]) = 0
    BY <2>1, <2>3, WordUnique
  <2> QED
    BY <1>1, <1>2, <1>3, <1>4, <1>5, <2>2
<1>6. CASE h + 1 # WordBits
  <2>1. 2 * PowerOf2[h + 1] <= WordSize /\ 1 <= PowerOf2[h + 1]
    BY <1>3, <1>6, PowersGrow, BitsFacts
  <2>2. PowerOf2[h + 1] \in 0..(WordSize - 1) /\ PowerOf2[h + 1] = WordSize * 0 + PowerOf2[h + 1]
    BY <1>3, <2>1, BitsFacts
  <2>3. Word(PowerOf2[h + 1]) = PowerOf2[h + 1]
    BY <2>2, WordUnique
  <2> QED
    BY <1>1, <1>2, <1>3, <1>4, <1>6, <2>3
<1> QED
  BY <1>5, <1>6

(* With a power of two of slots the mask is the remainder.                 *)
LEMMA Masked ==
  ASSUME NEW m \in Indices, Capacity = PowerOf2[m], NEW w \in Words
  PROVE  WordSlot(w) = SlotOf(w)
<1>1. m \in Nat /\ m < WordBits /\ w \in Nat
  BY BitsFacts DEF Indices, Words
<1>2. mask_ = PowerOf2[m] - 1
  <2>1. Capacity - 1 \in 0..(WordSize - 1) /\ Capacity - 1 = WordSize * 0 + (Capacity - 1)
    BY WordFacts, CapacityAssumption
  <2>2. Word(Capacity - 1) = Capacity - 1
    BY <2>1, WordUnique
  <2> QED
    BY <2>2 DEF mask_
<1>3. mask_ \in Words
  BY <1>2, WordFacts, CapacityAssumption DEF Words
<1>4. ASSUME NEW i \in Indices PROVE i \in Bits(mask_) <=> i < m
  <2>1. i \in Nat
    BY DEF Indices
  <2>2. CASE i < m
    <3>1. ShiftRight(mask_, i) % 2 = 1
      BY <1>1, <1>2, <2>1, <2>2, BitsOfOnes
    <3> QED
      BY <1>3, <2>1, <2>2, <3>1, WordsAndBits
  <2>3. CASE m <= i
    <3>1. PowerOf2[m] <= PowerOf2[i]
      <4>1. CASE m = i
        BY <4>1, <1>1, Powers
      <4>2. CASE m < i
        BY <4>2, <1>1, <2>1, PowersGrow, Powers
      <4> QED
        BY <1>1, <2>1, <2>3, <4>1, <4>2
    <3>2. mask_ \in Nat /\ mask_ < PowerOf2[i]
      BY <1>1, <1>2, <2>1, <3>1, BitsOfOnes, Powers
    <3>3. ShiftRight(mask_, i) = 0
      BY <2>1, <3>2, TopBit
    <3> QED
      BY <1>1, <2>1, <2>3, <3>3 DEF Bits
  <2> QED
    BY <1>1, <2>1, <2>2, <2>3
<1>5. SlotOf(w) \in Words
  <2>1. SlotOf(w) \in 0..(Capacity - 1)
    BY <1>1, DivMod DEF SlotOf
  <2> QED
    BY <2>1, WordFacts, CapacityAssumption DEF Words
<1>6. Bits(SlotOf(w)) = Bits(w) \cap Bits(mask_)
  <2>1. SlotOf(w) = w % PowerOf2[m]
    BY DEF SlotOf
  <2>2. ASSUME NEW i \in Indices
        PROVE  i \in Bits(SlotOf(w)) <=> i \in Bits(w) /\ i \in Bits(mask_)
    <3>1. i \in Nat
      BY DEF Indices
    <3>2. ShiftRight(w % PowerOf2[m], i) % 2 = 1 <=> i < m /\ ShiftRight(w, i) % 2 = 1
      BY <1>1, <3>1, BitsOfRemainder
    <3>3. ShiftRight(SlotOf(w), i) % 2 = 1 <=> i < m /\ ShiftRight(w, i) % 2 = 1
      BY <2>1, <3>2, Zenon
    <3> QED
      BY <1>4, <1>5, <3>1, <3>3, WordsAndBits
  <2>3. Bits(SlotOf(w)) \subseteq Indices /\ Bits(w) \subseteq Indices
    BY <1>5, WordsAndBits
  <2> QED
    BY <2>2, <2>3
<1>7. WordSlot(w) \in Words /\ Bits(WordSlot(w)) = Bits(w) \cap Bits(mask_)
  <2>1. Bits(w) \cap Bits(mask_) \in SUBSET Indices
    BY WordsAndBits
  <2>2. WordSlot(w) = WordOf(Bits(w) \cap Bits(mask_))
    BY DEF WordSlot, And
  <2> QED
    BY <2>1, <2>2, WordsAndBits
<1> QED
  BY <1>5, <1>6, <1>7, WordsAndBits

(* The capacities that the constructor may take.                           *)
LEMMA PowersOf2Facts ==
  /\ \A d \in PowersOf2 : d \in Nat /\ 2 <= d
  /\ \A d \in PowersOf2 : \E k \in Nat : d = PowerOf2[k] /\ k \in Indices
  /\ 2 \in PowersOf2
<1>1. ASSUME NEW d \in PowersOf2
      PROVE  \E k \in Nat : d = PowerOf2[k] /\ 1 <= k /\ k \in Indices
  BY BitsFacts DEF PowersOf2, Indices
<1>2. 2 \in PowersOf2
  <2>1. PowerOf2[0 + 1] = 2 * 1
    BY Powers
  <2>2. 1 \in 1..(WordBits - 1)
    BY BitsFacts
  <2> QED
    BY <2>1, <2>2 DEF PowersOf2
<1>3. ASSUME NEW d \in PowersOf2 PROVE d \in Nat /\ 2 <= d
  <2>1. PICK k \in Nat : d = PowerOf2[k] /\ 1 <= k
    BY <1>1
  <2>2. 2 * PowerOf2[0] <= PowerOf2[k] /\ PowerOf2[0] = 1 /\ PowerOf2[k] \in Nat
    BY <2>1, PowersGrow, Powers
  <2> QED
    BY <2>1, <2>2
<1> QED
  BY <1>1, <1>2, <1>3

(* The constructor takes the least power of two that is at least 2 and the *)
(* request, or 0 if there is none.                                         *)
LEMMA LeastPower ==
  ASSUME NEW n \in Words
  PROVE  LET c == RoundUpPow2(n)
         IN  IF n > HalfWord THEN c = 0
             ELSE c \in PowersOf2 /\ c >= n /\ \A d \in PowersOf2 : d >= n => c <= d
<1> DEFINE c == RoundUpPow2(n)
<1>1. n \in Nat
  BY DEF Words
<1>2. /\ IF n > HalfWord THEN c = 0
         ELSE c \in PowersOf2 /\ c >= n /\ \A d \in PowersOf2 : d >= n => c <= d
  <2>1. CASE n < 2
    <3>1. c = 2
      BY <2>1 DEF RoundUpPow2
    <3>2. n <= HalfWord
      BY <1>1, <2>1, WordFacts, CapacityAssumption
    <3> QED
      BY <1>1, PowersOf2Facts, <2>1, <3>1, <3>2, BitsFacts
  <2>2. CASE 2 <= n
    <3>1. PICK h \in Indices :
            /\ PowerOf2[h] < n /\ n <= PowerOf2[h + 1]
            /\ c = IF h + 1 = WordBits THEN 0 ELSE PowerOf2[h + 1]
      BY <2>2, RoundedUp
    <3>2. /\ h \in Nat /\ h + 1 \in Nat /\ h < WordBits
          /\ PowerOf2[h] \in Nat /\ PowerOf2[h + 1] \in Nat
          /\ PowerOf2[h + 1] = 2 * PowerOf2[h]
      BY Powers, BitsFacts DEF Indices
    <3>3. CASE h + 1 = WordBits
      <4>1. h = WordBits - 1
        BY <3>2, <3>3
      <4>2. n > HalfWord
        BY <1>1, <3>1, <4>1, BitsFacts
      <4> QED
        BY <3>1, <3>3, <4>2
    <3>4. CASE h + 1 # WordBits
      <4>1. h + 1 \in 1..(WordBits - 1)
        BY <3>2, <3>4, BitsFacts
      <4>2. c = PowerOf2[h + 1] /\ c \in PowersOf2
        BY <3>1, <3>4, <4>1 DEF PowersOf2
      <4>3. c <= HalfWord
        <5>1. CASE h + 1 = WordBits - 1
          BY <4>2, <5>1, BitsFacts, <3>2
        <5>2. CASE h + 1 < WordBits - 1
          BY <3>2, <4>2, <5>2, PowersGrow, Powers, BitsFacts
        <5> QED
          BY <3>2, <4>1, <5>1, <5>2, BitsFacts
      <4>4. ASSUME NEW d \in PowersOf2, d >= n PROVE c <= d
        <5>1. PICK k \in Nat : d = PowerOf2[k]
          BY PowersOf2Facts
        <5>2. PowerOf2[k] \in Nat /\ PowerOf2[h] < PowerOf2[k]
          BY <1>1, <3>1, <3>2, <4>4, <5>1, Powers
        <5>3. CASE k <= h
          <6>1. PowerOf2[k] <= PowerOf2[h]
            <7>1. CASE k = h
              BY <7>1, <5>2
            <7>2. CASE k < h
              BY <3>2, <5>2, <7>2, PowersGrow
            <7> QED
              BY <3>2, <5>3, <7>1, <7>2
          <6> QED
            BY <3>2, <5>2, <6>1
        <5>4. CASE h < k
          <6>1. 2 * PowerOf2[h] <= PowerOf2[k]
            BY <3>2, <5>4, PowersGrow
          <6> QED
            BY <3>2, <4>2, <5>1, <6>1
        <5> QED
          BY <3>2, <5>3, <5>4
      <4> HIDE DEF c
      <4> QED
        BY <1>1, <3>1, <3>2, <4>2, <4>3, <4>4, BitsFacts
    <3> QED
      BY <3>3, <3>4
  <2> QED
    BY <1>1, <2>1, <2>2
<1> QED
  BY <1>2

(* The product of two powers.                                              *)
LEMMA PowersMultiply ==
  ASSUME NEW j \in Nat, NEW k \in Nat
  PROVE  PowerOf2[k + j] = PowerOf2[j] * PowerOf2[k]
<1> DEFINE T == {i \in Nat : PowerOf2[i + j] = PowerOf2[j] * PowerOf2[i]}
<1>1. 0 \in T
  <2>1. PowerOf2[0] = 1 /\ PowerOf2[j] \in Nat /\ 0 + j = j
    BY Powers
  <2> QED
    BY <2>1
<1>2. ASSUME NEW i \in Nat, i \in T PROVE i + 1 \in T
  <2>1. i + j \in Nat /\ (i + j) + 1 = (i + 1) + j
    OBVIOUS
  <2>2. /\ PowerOf2[(i + 1) + j] = 2 * PowerOf2[i + j]
        /\ PowerOf2[i + 1] = 2 * PowerOf2[i]
        /\ PowerOf2[i] \in Nat /\ PowerOf2[j] \in Nat
    BY <2>1, Powers
  <2> QED
    BY <1>2, <2>2
<1>3. Nat \subseteq T
  <2> HIDE DEF T
  <2> QED
    BY <1>1, <1>2, NatInductive
<1> QED
  BY <1>3

(* For every request that is not beyond the greatest power of two, the     *)
(* constructor takes a capacity with what CapacityAssumption and           *)
(* WordAssumption ask of it: it is at least 2, and a number of rounds make *)
(* all words.  That it is not the greatest power itself, which they also   *)
(* ask, is left to the slots, which have to fit in memory.                 *)
THEOREM ConstructedCapacity ==
  \A n \in 0..HalfWord :
    LET c == RoundUpPow2(n)
    IN  c >= 2 /\ c <= HalfWord /\ \E k \in 1..HalfWord : WordSize = c * k
<1> SUFFICES ASSUME NEW n \in 0..HalfWord
             PROVE  LET c == RoundUpPow2(n)
                    IN  /\ c >= 2 /\ c <= HalfWord
                        /\ \E k \in 1..HalfWord : WordSize = c * k
  OBVIOUS
<1> DEFINE c == RoundUpPow2(n)
<1>1. n \in Words /\ ~(n > HalfWord)
  BY WordFacts DEF Words
<1>2. c \in PowersOf2
  BY <1>1, LeastPower
<1>3. PICK m \in 1..(WordBits - 1) : c = PowerOf2[m]
  BY <1>2 DEF PowersOf2
<1>4. /\ m \in Nat /\ m - 1 \in Nat /\ WordBits - m \in Nat /\ (WordBits - m) + m = WordBits
      /\ WordBits - 1 \in Nat /\ WordBits \in Nat /\ m <= WordBits - 1
      /\ WordBits - m <= WordBits - 1 /\ 1 <= WordBits - m
  BY BitsFacts
<1>5. ASSUME NEW i \in Nat, i <= WordBits - 1
      PROVE  PowerOf2[i] \in Nat /\ 1 <= PowerOf2[i] /\ PowerOf2[i] <= HalfWord
  <2>1. 1 <= PowerOf2[i] /\ PowerOf2[i] \in Nat
    <3>1. i + 1 \in Nat /\ i < i + 1
      OBVIOUS
    <3> QED
      BY <3>1, PowersGrow, Powers
  <2>2. CASE i = WordBits - 1
    BY <2>1, <2>2, BitsFacts
  <2>3. CASE i < WordBits - 1
    BY <1>4, <2>1, <2>3, PowersGrow, BitsFacts
  <2> QED
    BY <1>4, <1>5, <2>1, <2>2, <2>3
<1>6. WordSize = PowerOf2[m] * PowerOf2[WordBits - m]
  BY <1>4, PowersMultiply, BitsFacts
<1>7. PowerOf2[WordBits - m] \in 1..HalfWord
  BY <1>4, <1>5, BitsFacts
<1>8. c >= 2 /\ c <= HalfWord
  BY <1>2, <1>3, <1>4, <1>5, PowersOf2Facts
<1> HIDE DEF c
<1>9. c >= 2 /\ c <= HalfWord /\ \E k \in 1..HalfWord : WordSize = c * k
  BY <1>3, <1>6, <1>7, <1>8
<1> QED
  BY <1>9 DEF c

(* Words of any width: the constructor takes the least power of two that   *)
(* holds the request, or wraps to 0 where there is none, and the mask then *)
(* takes every word to the slot of its remainder.                          *)
THEOREM CapacityFits == Spec => []CapacityAndMask
<1>1. Inv => CapacityAndMask
  <2> SUFFICES ASSUME Inv, NEW n \in Words
               PROVE  LET c == RoundUpPow2(n)
                      IN  /\ IF n > HalfWord THEN c = 0
                             ELSE /\ c \in PowersOf2 /\ c >= n
                                  /\ \A d \in PowersOf2 : d >= n => c <= d
                          /\ c = Capacity =>
                               /\ n <= Cardinality(DOMAIN sequence)
                               /\ \A w \in Words : WordSlot(w) = SlotOf(w)
    BY DEF CapacityAndMask, Words
  <2> DEFINE c == RoundUpPow2(n)
  <2>1. n \in Nat
    BY DEF Words
  <2>2. /\ IF n > HalfWord THEN c = 0
           ELSE c \in PowersOf2 /\ c >= n /\ \A d \in PowersOf2 : d >= n => c <= d
    BY LeastPower
  <2>3. ASSUME c = Capacity PROVE /\ n <= Cardinality(DOMAIN sequence)
                                  /\ \A w \in Words : WordSlot(w) = SlotOf(w)
    <3>1. c \in PowersOf2 /\ n <= c
      BY <2>1, <2>2, <2>3, BitsFacts, CapacityAssumption
    <3>2. Cardinality(DOMAIN sequence) = Capacity
      <4>1. DOMAIN sequence = 0..(Capacity - 1)
        BY DEF Inv, Types, Slots
      <4>2. Cardinality(0..(Capacity - 1)) = Capacity
        <5>1. /\ 0 \in Int /\ Capacity - 1 \in Int /\ ~(0 > Capacity - 1)
              /\ (Capacity - 1) - 0 + 1 = Capacity
          BY CapacityAssumption
        <5>2. Cardinality(0..(Capacity - 1)) = (Capacity - 1) - 0 + 1
          BY <5>1, FS_Interval
        <5> QED
          BY <5>1, <5>2
      <4> QED
        BY <4>1, <4>2
    <3>3. PICK m \in Indices : Capacity = PowerOf2[m]
      BY <2>3, <3>1, PowersOf2Facts
    <3> QED
      BY <2>3, <3>1, <3>2, <3>3, Masked
  <2> QED
    BY <2>2, <2>3
<1> QED
  BY <1>1, Invariance, PTL

=============================================================================
