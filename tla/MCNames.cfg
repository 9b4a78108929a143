SPECIFICATION Spec
CONSTANTS
  t1 = t1
  t2 = t2
  None = None
  Thread <- MCThread
  Inum = {1, 2, 3}
  Name = {"a", "b"}
  LongName = {}
  Rpcs = {"LOOKUP", "CREATE", "MKDIR", "RMDIR"}
  DotNames = FALSE
  AnyHandle = FALSE
  NoSpace = FALSE
  ColdCaches = FALSE
  MaxGen = 3
  InitDisk <- EmptyRoot
SYMMETRY MCSymmetry
INVARIANTS NamesConsistent NoDeadlock NoPanic LookupsCurrent
PROPERTIES StaleHandleRefused
