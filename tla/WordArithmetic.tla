--------------------------- MODULE WordArithmetic ---------------------------
(***************************************************************************)
(* The positions and sequence numbers of ate::LockFreeQueue                *)
(* (include/ate/lockfree_queue.hpp) as std::size_t words, and the          *)
(* difference of the two as std::ptrdiff_t.  LockFreeQueue has the         *)
(* algorithm, with positions that do not wrap; this module says how far    *)
(* the words agree with it.                                                *)
(*                                                                         *)
(* An operator named ...Mutant is a wrong variant of a later definition    *)
(* and not part of the model.                                              *)
(***************************************************************************)
EXTENDS LockFreeQueue

CONSTANT HalfWord  \* the words below it are those that are not negative

WordSize == 2 * HalfWord

(* The ring fits in memory, and a power of two of slots divides the words. *)
ASSUME WordAssumption ==
  /\ HalfWord \in Nat /\ Capacity < HalfWord
  /\ \E k \in 1..HalfWord : WordSize = Capacity * k

Word(n) == n % WordSize

(* The conversion to std::ptrdiff_t.                                       *)
Signed(n) == IF n < HalfWord THEN n ELSE n - WordSize

(* Wrong: the difference without the sign.                                 *)
WordDifferencesMutant(seq, n) == {Word(seq - n)}

(* seq - n as std::ptrdiff_t.  If that overflows, the behaviour is         *)
(* undefined: the compiled code subtracts and wraps, or compares the two.  *)
WordDifferences(seq, n) ==
  LET d == Signed(seq) - Signed(n)
  IN  {Signed(Word(d)), d}

-----------------------------------------------------------------------------
(* Properties                                                              *)

(* What the thread compares the sequence of its slot with.                 *)
Expected(p) == IF pc[p] = "pushSeq" THEN pos[p] ELSE pos[p] + 1

(* Positions where a round through the ring starts.                        *)
RoundStarts == {Capacity * k : k \in 0 .. (WordSize \div Capacity - 1)}

(* Positions whose words, as signed numbers, count up together from        *)
(* -HalfWord to HalfWord - 1.                                              *)
SameStretch(m, n) == (m + HalfWord) \div WordSize = (n + HalfWord) \div WordSize

(* A thread that compares the sequence of its slot with what it expects    *)
(* there may have been left behind by others, or be ahead of them by no    *)
(* more than a round.  After any number of rounds through the ring, past   *)
(* the wrap of the words, it looks at the slot that LockFreeQueue says;    *)
(* and the difference, as subtractions that wrap compute it, is the one    *)
(* there, unless others have left the thread behind by half of all words.  *)
(* The subtraction overflows, and the behaviour is undefined, only where   *)
(* one word is below HalfWord and the other at or beyond it.               *)
WordsAgree ==
  \A p \in {q \in Threads : pc[q] \in {"pushSeq", "popSeq"}} :
    \A start \in RoundStarts :
      LET seq == start + sequence[Slot(p)]
          n   == start + Expected(p)
      IN  /\ SlotOf(Word(start + pos[p])) = Slot(p)
          /\ n - Capacity <= seq
          /\ seq - n < HalfWord =>
               /\ seq - n \in WordDifferences(Word(seq), Word(n))
               /\ SameStretch(seq, n) =>
                    WordDifferences(Word(seq), Word(n)) = {seq - n}

=============================================================================
