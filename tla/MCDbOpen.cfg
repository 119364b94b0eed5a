SPECIFICATION Spec
CONSTANTS
  Procs = {p1, p2, p3}
  MaxStarts = 5
  MaxCrashes = 2
SYMMETRY ProcSymmetry
INVARIANTS
  TypeOK
  OneReadyHandle
  IndexIsAccepted
  RaceHasWinner
PROPERTIES
  NeverReset
  AloneIsAccepted
CHECK_DEADLOCK FALSE
