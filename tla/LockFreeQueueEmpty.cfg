\* The comment of the nullopt branch: try_pop finds nothing although a completed
\* push is in the ring.
SPECIFICATION Spec
CONSTANTS
  Threads = {p1, p2, p3}
  Values = {v1, v2, v3}
  Capacity = 2
  NoValue = NoValue
  WordBits = 5
  HalfWord = 16
SYMMETRY Symmetry
PROPERTIES
  NulloptMeansEmpty
