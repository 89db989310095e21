\* Four tasks on two workers: a chain of four, or two chains, of which two
\* continuations hold both workers while the rest is queued; and a pool that
\* may close at any time.
SPECIFICATION Spec
CONSTANTS
  Tasks = {t1, t2, t3, t4}
  NumThreads = 2
  NoTask = NoTask
INVARIANTS
  TypeOK
  SomeWorkerAdvances
  FirstExceptionWins
PROPERTIES
  ChainsSpec
