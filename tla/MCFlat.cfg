SPECIFICATION Spec
CONSTANTS
  t1 = t1
  t2 = t2
  None = None
  Thread <- MCThread
  Inum = {1, 2, 3}
  Name = {"a", "b"}
  LongName = {}
  Rpcs = {"LOOKUP", "SYMLINK", "REMOVE", "READDIRPLUS"}
  DotNames = TRUE
  AnyHandle = FALSE
  NoSpace = TRUE
  ColdCaches = TRUE
  MaxGen = 3
  InitDisk <- EmptyRoot
SYMMETRY MCSymmetry
INVARIANTS CacheMatchesDisk AllocatorSound
