\* The header's account of the destruction is refuted.
SPECIFICATION SafeSpec
CONSTANTS
  Tasks = {r1}
  RunTasks = {r1}
  NumThreads = 1
  Handlers = {h1}
  NoTask = NoTask
INVARIANTS
  PendingHandlersFinish
