\* What shutdown() has achieved when it returns: the code's comment is refuted.
SPECIFICATION SafeSpec
CONSTANTS
  NumThreads = 2
  Clients = {c1}
  Owner = owner
  Tasks = {t1, t2}
  NoTask = NoTask
  Waiters <- MCWorkers
PROPERTIES
  ShutdownReturnsAfterExit
