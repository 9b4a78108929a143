------------------------------- MODULE Server -------------------------------
(***************************************************************************)
(* The life of a server process (cmd/go-nfsd/main.go): it registers with   *)
(* the portmapper, recovers the disk or makes a file system on it (MakeNfs *)
(* and makeFs in nfs/nfs.go, MkFsState in fstxn/fsstate.go), serves, and   *)
(* goes down on a signal or in a crash. It composes the layout of the disk *)
(* (Super), the inode cache (Icache) and the block allocator.              *)
(*                                                                         *)
(* The contents of an inode is the block it has, or 0: the first block of  *)
(* the root holds "." and "..", so the root has a block when it has them.  *)
(* What is journalled is on disk when the log has been recovered: MkLog    *)
(* has installed the log when it returns, for MakeNfs then reads the root  *)
(* inode and the bitmaps straight from the disk.                           *)
(***************************************************************************)
EXTENDS Icache, Super

CONSTANTS
  main,       \* the main goroutine; the other threads serve requests
  Sizes,      \* sizes in blocks a disk may have
  MkfsRetried \* BOOLEAN: a disk is used, too, on which makeFs has been cut off

NULLINUM == 0
ROOTINUM == 1
NF3FREE == 0
NF3DIR == 2
Prog == {"MOUNT", "NFS"}

ASSUME ServerAssumption ==
  /\ main \in Thread /\ ROOTINUM \in Inum /\ NULLINUM \notin Inum /\ Inum \subseteq Nat
  /\ Sizes \subseteq Nat /\ Val \subseteq Nat /\ 0 \in Val /\ \A sz \in Sizes : Data(sz) \subseteq Val
  /\ MkfsRetried \in BOOLEAN /\ None \notin {"own", "old", "left"}

VARIABLES
  size,       \* blocks of the disk
  kind,       \* the root inode's Kind on disk
  bmap,       \* bits set in the bitmap of the blocks on disk
  imap,       \* bits set in the bitmap of the inodes on disk
  balloc,     \* Balloc: bits set in memory
  ialloc,     \* Ialloc
  isNew,      \* MakeNfs has found no root: i.Kind == 0
  pc,         \* where the main goroutine is
  port,       \* the portmapper: "own" for this process, "old" for one that was killed,
              \* "left" when a call about the mapping has failed and it is there
  listening   \* the listener is open

bootVars == <<size, kind, bmap, imap, balloc, ialloc, isNew>>
procVars == <<pc, port, listening>>
serverVars == <<icacheVars, bootVars, procVars>>

MkfsSteps == {"makeFs", "markAlloc", "markAlloc2", "markAlloc3"}
TypeOK ==
  /\ IcacheTypeOK
  /\ size \in Sizes /\ kind \in {NF3FREE, NF3DIR}
  /\ bmap \subseteq Bits(size) /\ balloc \subseteq Bits(size)
  /\ imap \subseteq Nat /\ ialloc \subseteq Nat
  /\ pc \in {"down", "unsetMount", "setMount", "unsetNfs", "setNfs", "MakeNfs", "MkFsState",
             "makeRootDir", "serving", "ShutdownNfs", "deferNfs", "deferMount"} \cup MkfsSteps
  /\ port \in [Prog -> {None, "own", "old", "left"}] /\ listening \in BOOLEAN /\ isNew \in BOOLEAN

Init ==
  /\ IcacheInit /\ disk = [i \in Inum |-> 0]
  /\ size \in Sizes /\ kind = NF3FREE
  /\ bmap = {} /\ imap = {} /\ balloc = {} /\ ialloc = {}
  /\ pc = "down" /\ port = [p \in Prog |-> None] /\ listening = FALSE /\ isNew = FALSE

-----------------------------------------------------------------------------
(* main, up to the call of MakeNfs.                                        *)

Goto(from, to) == pc = from /\ pc' = to

\* The process ends: what it had in memory is gone.
End ==
  /\ pc' = "down" /\ listening' = FALSE
  /\ balloc' = {} /\ ialloc' = {} /\ isNew' = FALSE
  /\ Restart
  /\ UNCHANGED <<size, kind, bmap, imap>>

\* A file system whose creation a crash or a panic has cut off.
HalfMade == kind = NF3DIR /\ disk[ROOTINUM] = 0

Listen ==
  /\ Goto("down", "unsetMount") /\ (MkfsRetried \/ ~HalfMade)
  /\ listening' = TRUE
  /\ UNCHANGED <<icacheVars, bootVars, port>>

\* PMAPPROC_UNSET takes a program's mapping away, whatever its port is.
Unset(p) == port' = [port EXCEPT ![p] = None]

\* A call fails when rpcbind is not there, refuses, or its answer is lost: then
\* it may have done what it was asked to.
UnsetFails(p) == Unset(p) \/ UNCHANGED port
SetFails(p) == UNCHANGED port \/ (port[p] = None /\ port' = [port EXCEPT ![p] = "left"])

\* When the first call fails: os.Exit(1).
UnsetMount ==
  \/ /\ Goto("unsetMount", "setMount")
     /\ Unset("MOUNT")
     /\ UNCHANGED <<icacheVars, bootVars, listening>>
  \/ pc = "unsetMount" /\ UnsetFails("MOUNT") /\ End

\* PMAPPROC_SET. When it fails, main panics and the calls deferred so far run.
Set(p, from, to) ==
  /\ Goto(from, to) /\ port[p] = None
  /\ port' = [port EXCEPT ![p] = "own"]
  /\ UNCHANGED <<icacheVars, bootVars, listening>>

SetMount ==
  \/ Set("MOUNT", "setMount", "unsetNfs")
  \/ pc = "setMount" /\ SetFails("MOUNT") /\ End

\* Whether this call fails is not looked at.
UnsetNfs ==
  /\ Goto("unsetNfs", "setNfs")
  /\ UnsetFails("NFS")
  /\ UNCHANGED <<icacheVars, bootVars, listening>>

\* Faulty variant: the process exits without its deferred calls.
SetNfsExits ==
  \/ Set("NFS", "setNfs", "MakeNfs")
  \/ pc = "setNfs" /\ SetFails("NFS") /\ End

SetNfs ==
  \/ Set("NFS", "setNfs", "MakeNfs")
  \/ /\ Goto("setNfs", "deferMount") /\ SetFails("NFS")
     /\ UNCHANGED <<icacheVars, bootVars, listening>>

-----------------------------------------------------------------------------
(* MakeNfs.                                                                *)

\* NewFileDisk fails: main panics.
NoDisk ==
  /\ Goto("MakeNfs", "deferNfs")
  /\ UNCHANGED <<icacheVars, bootVars, port, listening>>

\* MkLog and readRootInode.
MakeNfs ==
  /\ Goto("MakeNfs", IF kind = NF3FREE THEN "makeFs" ELSE "MkFsState")
  /\ isNew' = (kind = NF3FREE)
  /\ UNCHANGED <<icacheVars, size, kind, bmap, imap, balloc, ialloc, port, listening>>

\* makeFs writes the root inode, straight to the disk.
makeFs ==
  /\ Goto("makeFs", "markAlloc")
  /\ kind' = NF3DIR
  /\ UNCHANGED <<icacheVars, size, bmap, imap, balloc, ialloc, isNew, port, listening>>

\* markAlloc writes the block of the bitmap with the bits of [0, n), then the one
\* with bit m (in the same buffer if it is the same block), then the bitmap of
\* the inodes. It panics when the areas do not fit.
Block(k) == k * NBITBLOCK .. (k + 1) * NBITBLOCK - 1
Sensible(n, m) == n < NBITBLOCK /\ m < NBITBLOCK * NBlockBitmap(size) /\ m >= n
MarkFirst(n) == (bmap \ Block(0)) \cup 0 .. n - 1

\* Faulty variant: the block with bit m starts out empty in any case.
MarkLastEmpty(n, m) ==
  LET k == m \div NBITBLOCK IN (bmap \ Block(k)) \cup m .. (k + 1) * NBITBLOCK - 1

MarkLast(n, m) ==
  LET k == m \div NBITBLOCK IN
  (bmap \ Block(k)) \cup (IF k = 0 THEN 0 .. n - 1 ELSE {}) \cup m .. (k + 1) * NBITBLOCK - 1

markAlloc ==
  LET n == DataStart(size)
      m == MaxBnum(size)
  IN
  /\ \/ Goto("markAlloc", "deferNfs") /\ ~Sensible(n, m) /\ UNCHANGED <<bmap, imap>>
     \/ Goto("markAlloc", "markAlloc2") /\ Sensible(n, m) /\ bmap' = MarkFirst(n) /\ UNCHANGED imap
     \/ Goto("markAlloc2", "markAlloc3") /\ bmap' = MarkLast(n, m) /\ UNCHANGED imap
     \/ Goto("markAlloc3", "MkFsState") /\ imap' = {NULLINUM, ROOTINUM} /\ UNCHANGED bmap
  /\ UNCHANGED <<icacheVars, size, kind, balloc, ialloc, isNew, port, listening>>

\* Faulty variant: MakeNfs asks for the root's kind again, after makeFs.
MkFsStateAsks ==
  /\ Goto("MkFsState", IF kind = NF3FREE THEN "makeRootDir" ELSE "serving")
  /\ balloc' = bmap /\ ialloc' = imap
  /\ UNCHANGED <<icacheVars, size, kind, bmap, imap, isNew, port, listening>>

\* MkFsState reads both bitmaps.
MkFsState ==
  /\ Goto("MkFsState", IF isNew THEN "makeRootDir" ELSE "serving")
  /\ balloc' = bmap /\ ialloc' = imap
  /\ UNCHANGED <<icacheVars, size, kind, bmap, imap, isNew, port, listening>>

-----------------------------------------------------------------------------
(* Transactions: those of Icache, with the blocks they allocate and free.  *)

Free == Bits(size) \ balloc
Written(t) == {i \in Inum : op[t].buf[i] # None}
OldBlocks(t) == {disk[i] : i \in Written(t)} \ {0}
NewBlocks(t) == {op[t].buf[i] : i \in Written(t)} \ {0}

GetInode(t, i) ==
  /\ LockInode(t, i) \/ GetInodeLocked(t, i)
  /\ UNCHANGED bootVars

PutInode(t, i) ==
  /\ ReleaseInode(t, i)
  /\ UNCHANGED bootVars

\* AllocBlock for the inode, or FreeBlock of the one it has.
AllocBlock(t, i) ==
  /\ op[t].buf[i] = None /\ i \in op[t].inodes /\ slot[op[t].ptr[i]].Obj = 0
  /\ \E b \in Free :
       /\ WriteInode(t, i, b)
       /\ balloc' = balloc \cup {b}
  /\ UNCHANGED <<size, kind, bmap, imap, ialloc, isNew>>

FreeBlock(t, i) ==
  /\ op[t].buf[i] = None /\ i \in op[t].inodes /\ slot[op[t].ptr[i]].Obj # 0
  /\ WriteInode(t, i, 0)
  /\ UNCHANGED bootVars

\* Faulty variant: the freed blocks are not given back to the allocator.
CommitKeeps(t) ==
  /\ commitWait(t)
  /\ bmap' = (bmap \ OldBlocks(t)) \cup NewBlocks(t)
  /\ UNCHANGED <<size, kind, imap, balloc, ialloc, isNew>>

\* PreCommit writes the bits, PostCommit gives the freed blocks back.
Commit(t) ==
  /\ commitWait(t)
  /\ bmap' = (bmap \ OldBlocks(t)) \cup NewBlocks(t)
  /\ balloc' = balloc \ OldBlocks(t)
  /\ UNCHANGED <<size, kind, imap, ialloc, isNew>>

\* PostAbort gives the allocated blocks back. (What a refused commit does to the
\* allocator is in AllocTxn.)
AbortTxn(t) ==
  /\ Abort(t)
  /\ balloc' = balloc \ NewBlocks(t)
  /\ UNCHANGED <<size, kind, bmap, imap, ialloc, isNew>>

\* A procedure of the file system, in a goroutine of srv.Run. Only the root
\* keeps its block. The log refuses nobody until ShutdownNfs has shut it down.
RpcStep(t) ==
  /\ pc \in {"serving", "ShutdownNfs"}
  /\ \/ \E i \in Inum : GetInode(t, i) \/ PutInode(t, i) \/ AllocBlock(t, i)
     \/ \E i \in Inum \ {ROOTINUM} : FreeBlock(t, i)
     \/ Commit(t) \/ AbortTxn(t)
  /\ UNCHANGED procVars

\* makeRootDir: one transaction that adds "." and "..", whose result is not
\* looked at.
makeRootDir ==
  /\ pc = "makeRootDir"
  /\ \/ GetInode(main, ROOTINUM) /\ UNCHANGED pc
     \/ AllocBlock(main, ROOTINUM) /\ UNCHANGED pc
     \/ /\ op[main].buf[ROOTINUM] # None \/ Free = {}
        /\ Commit(main)
        /\ pc' = "serving"
  /\ UNCHANGED <<port, listening>>

-----------------------------------------------------------------------------
(* Going down.                                                             *)

\* os.Interrupt, once signal.Notify has run: the goroutine closes the listener.
Interrupt ==
  /\ pc = "serving" /\ listening
  /\ listening' = FALSE
  /\ UNCHANGED <<icacheVars, bootVars, pc, port>>

\* Accept fails, and main leaves its loop: the listener is closed, or for
\* another reason. It does not wait for the goroutines that serve connections.
AcceptFails ==
  /\ Goto("serving", "ShutdownNfs")
  /\ UNCHANGED <<icacheVars, bootVars, port, listening>>

\* ShutdownNfs, deferred last, runs first. How it waits for the shrinkers is in
\* Shrinker.
ShutdownNfs ==
  /\ Goto("ShutdownNfs", "deferNfs")
  /\ UNCHANGED <<icacheVars, bootVars, port, listening>>

\* The deferred calls, whose results nobody looks at.
DeferUnset(p) == Unset(p) \/ port' = [port EXCEPT ![p] = "left"]

DeferNfs ==
  /\ Goto("deferNfs", "deferMount")
  /\ DeferUnset("NFS")
  /\ UNCHANGED <<icacheVars, bootVars, listening>>

DeferMount ==
  /\ pc = "deferMount"
  /\ DeferUnset("MOUNT")
  /\ End

\* The process is killed, by an early interrupt too, or the machine fails.
Crash ==
  /\ pc # "down"
  /\ port' = [p \in Prog |-> IF port[p] = "own" THEN "old" ELSE port[p]]
  /\ End

-----------------------------------------------------------------------------
Boot ==
  \/ Listen \/ UnsetMount \/ SetMount \/ UnsetNfs \/ SetNfs
  \/ NoDisk \/ MakeNfs \/ makeFs \/ markAlloc \/ MkFsState \/ makeRootDir
GoDown == Interrupt \/ AcceptFails \/ ShutdownNfs \/ DeferNfs \/ DeferMount \/ Crash

Next == Boot \/ GoDown \/ \E t \in Thread \ {main} : RpcStep(t)

Spec == Init /\ [][Next]_serverVars

-----------------------------------------------------------------------------
(* Properties.                                                             *)

\* A process that serves has a root directory with "." and "..", allocators that
\* never hand out the null or the root inode, and is what the portmapper tells
\* clients of both programs (main, MakeNfs).
ServesReady ==
  pc = "serving" =>
    /\ kind = NF3DIR /\ disk[ROOTINUM] # 0
    /\ {NULLINUM, ROOTINUM} \subseteq ialloc
    /\ port = [p \in Prog |-> "own"]

\* From the time a file system has been made, the bitmap on disk marks the
\* log, the bitmaps, the inodes, the bits past the end of the disk and the
\* blocks of inodes, and nothing else, whatever crashes came between (markAlloc,
\* PreCommit); no block has two owners.
BitmapExact ==
  disk[ROOTINUM] # 0 \/ pc \in {"makeRootDir", "serving"} =>
    /\ bmap = Bits(size) \ (Data(size) \ {disk[i] : i \in Inum})
    /\ \A i, j \in Inum : disk[i] = disk[j] /\ disk[i] # 0 => i = j

\* The allocator in memory has, besides what is marked on disk, exactly the
\* blocks that transactions have allocated and not yet committed (MkFsState,
\* AllocBlock, PostCommit).
AllocatorExact ==
  pc \in {"makeRootDir", "serving", "ShutdownNfs"} =>
    balloc = bmap \cup UNION {NewBlocks(t) : t \in Thread}

\* A process that ends by itself, on whatever path, has asked for every mapping
\* that it has made to be taken away: it leaves one behind only when rpcbind has
\* failed it, in a deferred call or in the one that made it (main,
\* pmap_set_unset).
NoMappingLeft == pc = "down" => \A p \in Prog : port[p] # "own"
=============================================================================
