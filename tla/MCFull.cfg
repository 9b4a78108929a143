SPECIFICATION Spec
CONSTANTS
  Ino = {1, 2}
  NB = 3
  Data = {99}
  NDIRECT = 3
  NBLKBLK = 2
  Wrap = 1000
  LogBlocks = 20
  BitmapBlk <- OneBitmap
  Starts = {1, 2}
  Offsets = {0, 2}
  Counts = {3}
  Sizes = {0, 2, 6}
  Procs = {"READ", "WRITE", "SETATTR", "REMOVE"}
INVARIANTS AllocatorMatches
PROPERTIES ImplementsFileSpec
