SPECIFICATION Spec
CONSTANTS
  Name = {"a", "b"}
  NameLen <- MCNameLen
  Inum = {3, 4, 5}
  Parent = {2}
  Self = 1
  BlockSlots = 2
  MaxSlots = 5
  MaxGen = 3
  Counts = {98}
  PlusCounts <- MCPlusCounts
  CacheMax = 100000000
  DirSizes = {5}
  RemoveAny = FALSE
  OthersFull = FALSE
  None = None
CHECK_DEADLOCK FALSE
INVARIANTS LookupMatchesScan ListedOnce
PROPERTIES RenameReusesSlot ImplementsDirSpec ListingEnds
