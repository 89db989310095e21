\* Two objects, two coroutines and two calls of schedule() on two workers, any
\* number of delays, a pool and an AsioContext that may go away at any time.
SPECIFICATION Spec
CONSTANTS
  Objects = {o1, o2}
  Coros = {c1, c2}
  Tasks = {t1, t2}
  NumThreads = 2
  NoCoro = NoCoro
INVARIANTS
  TypeOK
  OneThreadInFrame
  OneResumption
PROPERTIES
  LazySpec
  GetEnds
