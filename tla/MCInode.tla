------------------------------- MODULE MCInode -------------------------------
(* Instances of Inode.                                                     *)
EXTENDS Inode

\* All bits in one bitmap block.
OneBitmap == [b \in Blk |-> 0]
\* A disk large enough for four bitmap blocks, and a file spread over it.
FourBitmaps == [b \in Blk |-> b % 4]
=============================================================================
