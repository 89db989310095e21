---------------------------- MODULE BoundedFifo -----------------------------
(***************************************************************************)
(* What ate::LockFreeQueue promises about its elements, whatever the       *)
(* threads do: a FIFO of at most Capacity elements in which a push and a   *)
(* pop each take effect at one instant.  A push or a pop that is refused   *)
(* changes nothing; when it may be refused is a property of LockFreeQueue. *)
(***************************************************************************)
EXTENDS Naturals, Sequences

CONSTANTS Threads, Values, Capacity, NoValue

VARIABLES
  items,   \* the elements in the queue, oldest first
  holding  \* [Threads -> Values \cup {NoValue}]: popped, not returned yet

fifoVars == <<items, holding>>

Init ==
  /\ items = <<>>
  /\ holding = [p \in Threads |-> NoValue]

Push(v) ==
  /\ Len(items) < Capacity
  /\ items' = Append(items, v)
  /\ UNCHANGED holding

Pop(p) ==
  /\ items # <<>> /\ holding[p] = NoValue
  /\ holding' = [holding EXCEPT ![p] = Head(items)]
  /\ items' = Tail(items)

Return(p) ==
  /\ holding[p] # NoValue
  /\ holding' = [holding EXCEPT ![p] = NoValue]
  /\ UNCHANGED items

Next ==
  \/ \E v \in Values : Push(v)
  \/ \E p \in Threads : Pop(p) \/ Return(p)

Spec == Init /\ [][Next]_fifoVars

=============================================================================
