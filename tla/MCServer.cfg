SPECIFICATION Spec
CONSTANTS
  main = main
  r1 = r1
  r2 = r2
  Thread = {main, r1, r2}
  Inum = {1, 2, 3}
  Val = {0, 14, 15, 16}
  Entry = {1, 2, 3, 4}
  ICACHESZ = 2
  DirtyAborts = FALSE
  None = None
  LOGSIZE = 4
  NINODEBITMAP = 1
  BlockSize = 2
  INODESZ = 1
  Sizes = {10, 15, 17}
  MkfsRetried = FALSE
SYMMETRY MCSymmetry
CHECK_DEADLOCK FALSE
INVARIANTS CacheCurrent ServesReady BitmapExact AllocatorExact NoMappingLeft
PROPERTY CacheTransparent
