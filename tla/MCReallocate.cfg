SPECIFICATION FairSpec
CONSTANTS
  r1 = r1
  r2 = r2
  s1 = s1
  s2 = s2
  Inum = {1}
  Rpc = {r1, r2}
  Slot = {s1, s2}
  MaxBlocks = 3
  Room = 1
  FitsLimit = 3
  Procs = {"CREATE", "WRITE", "REMOVE"}
  Quiesce = TRUE
PROPERTIES ReusedInodeEmpty ShrinkCompletes ShutdownReturns
