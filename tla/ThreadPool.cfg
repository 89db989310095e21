\* Two workers, one outside submitter (a running callable submits as well) and
\* two tasks: one may be queued, or the worker asleep that is to take it, while
\* the other runs.
SPECIFICATION Spec
CONSTANTS
  NumThreads = 2
  Clients = {c1}
  Owner = owner
  Tasks = {t1, t2}
  NoTask = NoTask
  Waiters <- MCWorkers
INVARIANTS
  TypeOK
  FifoNoLoss
  Custody
  NoLostWakeup
  NothingAbandoned
PROPERTIES
  ExecutorSpec
  DestructorReturns
