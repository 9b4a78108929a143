SPECIFICATION Spec
CONSTANTS
  Ino = {1}
  NB = 14
  Data = {99}
  NDIRECT = 3
  NBLKBLK = 2
  Wrap = 1000
  LogBlocks = 9
  BitmapBlk <- OneBitmap
  Starts = {1}
  Offsets = {5, 9, 15}
  Counts = {4}
  Sizes = {0, 8, 18}
  Procs = {"READ", "WRITE", "SETATTR", "COMMIT"}
INVARIANTS TreesConsistent NothingPastEnd ReadReturnsFile NoPanic
PROPERTIES ImplementsFileSpec
