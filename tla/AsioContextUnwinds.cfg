\* A constructor that throws halfway breaks the rule of the destructor.
SPECIFICATION SafeSpec
CONSTANTS
  Tasks = {r1, r2}
  RunTasks = {r1, r2}
  NumThreads = 2
  Handlers = {h1}
  NoTask = NoTask
INVARIANTS
  RunsEndBeforeIoContext
