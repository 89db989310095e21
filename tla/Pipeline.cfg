\* Four pipelines, three stages and two runs on two workers: a chain of three
\* stages, or shorter ones side by side, with then() and run() called again.
SPECIFICATION SafeSpec
CONSTANTS
  Pipes = {p1, p2, p3, p4}
  Stages = {s1, s2, s3}
  Tasks = {t1, t2}
  NumThreads = 2
  NoPipe = NoPipe
SYMMETRY Symmetry
INVARIANTS
  TypeOK
  RunsApplyStages
