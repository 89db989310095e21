\* Two io threads on a pool of three workers, two tasks of other users for the
\* worker that is left, two handlers of any kind, a pool that may close at any
\* time.
SPECIFICATION Spec
CONSTANTS
  Tasks = {r1, r2, t1, t2}
  RunTasks = {r1, r2}
  NumThreads = 3
  Handlers = {h1, h2}
  NoTask = NoTask
INVARIANTS
  TypeOK
  RunsSpanLifetime
PROPERTIES
  CallsSpec
  FuturesSettle
  DestructorReturns
  OthersRun
