-------------------------------- MODULE Super --------------------------------
(***************************************************************************)
(* The layout of a disk of sz blocks (super/super.go): the log, the bitmap *)
(* of the blocks, the bitmap of the inodes, the inodes, and the data       *)
(* blocks. The sizes of the areas are the constants of go-journal's common *)
(* package.                                                                *)
(***************************************************************************)
EXTENDS Naturals

CONSTANTS
  LOGSIZE,       \* blocks of the log
  NINODEBITMAP,  \* blocks of the bitmap of the inodes
  BlockSize,     \* bytes in a block
  INODESZ        \* bytes of an inode on disk

ASSUME SuperAssumption ==
  /\ LOGSIZE \in Nat \ {0} /\ NINODEBITMAP \in Nat \ {0} /\ BlockSize \in Nat \ {0}
  /\ INODESZ \in 1 .. BlockSize

NBITBLOCK == 8 * BlockSize
INODEBLK == BlockSize \div INODESZ

\* MkFsSuper.
NBlockBitmap(sz) == (sz \div NBITBLOCK) + 1
nInodeBlk == (NINODEBITMAP * NBITBLOCK * INODESZ) \div BlockSize

MaxBnum(sz) == sz
BitmapBlockStart == LOGSIZE
BitmapInodeStart(sz) == BitmapBlockStart + NBlockBitmap(sz)
InodeStart(sz) == BitmapInodeStart(sz) + NINODEBITMAP
DataStart(sz) == InodeStart(sz) + nInodeBlk

NInode == nInodeBlk * INODEBLK

\* The block of an inode, and its place there in bits.
Inum2Addr(sz, inum) ==
  [Blkno |-> InodeStart(sz) + (inum \div INODEBLK), Off |-> (inum % INODEBLK) * INODESZ * 8]

\* The bits of the bitmap of the blocks, and the blocks for data.
Bits(sz) == 0 .. NBITBLOCK * NBlockBitmap(sz) - 1
Data(sz) == DataStart(sz) .. MaxBnum(sz) - 1
=============================================================================
