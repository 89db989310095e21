\* Three threads, each of which may push, pop and ask for the size, and three
\* elements through two slots: the ring fills, wraps around and empties.  Words
\* of five bits: every request, and as many rounds through the ring as take the
\* words past their wrap.
SPECIFICATION Spec
CONSTANTS
  Threads = {p1, p2, p3}
  Values = {v1, v2, v3}
  Capacity = 2
  NoValue = NoValue
  WordBits = 5
  HalfWord = 16
SYMMETRY Symmetry
INVARIANTS
  TypeOK
  NoDataRace
  CapacityAndMask
  WordsAgree
PROPERTIES
  OutcomesHaveReasons
  SizeWithinOverlap
  FifoSpec
