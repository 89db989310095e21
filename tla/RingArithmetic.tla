--------------------------- MODULE RingArithmetic ---------------------------
(***************************************************************************)
(* The constructor of ate::LockFreeQueue (include/ate/lockfree_queue.hpp)  *)
(* in words of WordBits bits: the capacity that it computes from the       *)
(* request, and the mask that takes a position to its slot.                *)
(*                                                                         *)
(* An operator named ...Mutant is a wrong variant of a later definition    *)
(* and not part of the model.                                              *)
(***************************************************************************)
EXTENDS WordArithmetic

CONSTANT WordBits  \* bits of a std::size_t

(* 2^k.  This and the operators on bits are defined here, rather than      *)
(* taken from a library, so that CapacityAndMask can be proved.            *)
PowerOf2[k \in Nat] == IF k = 0 THEN 1 ELSE 2 * PowerOf2[k - 1]

(* The last shift is by 32: the bits of a wider word would not all be set. *)
ASSUME BitsAssumption ==
  /\ WordBits \in 2..64
  /\ HalfWord = PowerOf2[WordBits - 1]

(* n >> k                                                                  *)
ShiftRight(n, k) ==
  LET halved[i \in Nat] == IF i = 0 THEN n ELSE halved[i - 1] \div 2
  IN  halved[k]

Bits(n) == {k \in 0..(WordBits - 1) : ShiftRight(n, k) % 2 = 1}

WordOf(bits) == CHOOSE n \in 0..(WordSize - 1) : Bits(n) = bits

Or(m, n) == WordOf(Bits(m) \cup Bits(n))

And(m, n) == WordOf(Bits(m) \cap Bits(n))

(* n |= n >> k                                                             *)
SmearBy(n, k) == Or(n, ShiftRight(n, k))

Smear(n) ==
  SmearBy(SmearBy(SmearBy(SmearBy(SmearBy(SmearBy(n, 1), 2), 4), 8), 16), 32)

(* Wrong: without the decrement.                                           *)
RoundUpPow2Mutant(n) == IF n < 2 THEN 2 ELSE Word(Smear(n) + 1)

RoundUpPow2(n) == IF n < 2 THEN 2 ELSE Word(Smear(n - 1) + 1)

mask_ == Word(Capacity - 1)

WordSlot(n) == And(n, mask_)

-----------------------------------------------------------------------------
(* Properties                                                              *)

PowersOf2 == {PowerOf2[k] : k \in 1..(WordBits - 1)}

(* The constructor takes the least power of two that is at least 2 and the *)
(* request, so that a new ring holds what was asked for and the mask takes *)
(* every word to the slot that the remainder does.  For a request above    *)
(* 2^(WordBits-1) there is no such power, and the result wraps to a ring   *)
(* without slots, which only an assert() notices.                          *)
CapacityAndMask ==
  enqueue_pos_ = 0 =>
    \A n \in 0..(WordSize - 1) :
      LET c == RoundUpPow2(n)
      IN  /\ IF n > HalfWord THEN c = 0
             ELSE c \in PowersOf2 /\ c >= n /\ \A d \in PowersOf2 : d >= n => c <= d
          /\ c = Capacity => /\ n <= Cardinality(DOMAIN sequence)
                             /\ \A w \in 0..(WordSize - 1) : WordSlot(w) = SlotOf(w)

=============================================================================
