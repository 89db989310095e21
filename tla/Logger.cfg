\* Two users that log and set the level, one flush() besides that of the
\* destructor, and two messages, so that the sink may log: one entry may be in
\* the sink or in the batch while the other is queued.
SPECIFICATION Spec
CONSTANTS
  Users = {u1, u2}
  Owner = owner
  Drainer = drainer
  Messages = {m1, m2}
  Levels = {0, 1}
  NoMessage = NoMessage
  MaxFlushes = 1
INVARIANTS
  TypeOK
  NothingLost
  FlushBarrier
PROPERTIES
  FlushedLogSpec
  DestructorReturns
