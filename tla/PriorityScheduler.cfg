\* Three threads that may each push, pop, wait, stop and shut down, and two
\* tasks of the same priority or of two: two threads may sleep while the third
\* pushes or shuts down.
SPECIFICATION Spec
CONSTANTS
  Threads = {p1, p2, p3}
  Tasks = {t1, t2}
  Priorities = {0, 1, 3}
INVARIANTS
  TypeOK
  NoLostWakeup
PROPERTIES
  LanesSpec
  WaitReturns
