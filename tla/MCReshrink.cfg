SPECIFICATION Spec
CONSTANTS
  r1 = r1
  r2 = r2
  s1 = s1
  s2 = s2
  Inum = {1}
  Rpc = {r1, r2}
  Slot = {s1, s2}
  MaxBlocks = 4
  Room = 1
  FitsLimit = 3
  Procs = {"SETATTR", "WRITE", "CREATE"}
  Quiesce = TRUE
SYMMETRY MCSymmetry
INVARIANTS NothingPastEnd CountExact NoThreadAfterShutdown
