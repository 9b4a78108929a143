SPECIFICATION Spec
CONSTANTS
  t1 = t1
  t2 = t2
  None = None
  Thread <- MCThread
  Inum = {1, 2, 3, 4}
  Name = {"a", "b"}
  LongName = {}
  Rpcs = {"LOOKUP", "RENAME"}
  DotNames = FALSE
  AnyHandle = FALSE
  NoSpace = FALSE
  ColdCaches = FALSE
  MaxGen = 3
  InitDisk <- HighDir
SYMMETRY MCSymmetry
CHECK_DEADLOCK FALSE
INVARIANT NoDeadlock
