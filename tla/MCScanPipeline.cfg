SPECIFICATION Spec
CONSTANTS
  Workers = {w1, w2}
  Jobs = 8
  JobQueue = 2
  ResultQueue = 1
  BatchSize = 2
  WriterMayFail = TRUE
INVARIANTS
  TypeOK
  EachJobOnce
  SweepAfterCommits
PROPERTIES
  KeepsPromise
  EndsUnlessWriterFails
CHECK_DEADLOCK FALSE
