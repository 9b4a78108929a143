---------------------------- MODULE ServerProofs ----------------------------
(***************************************************************************)
(* Proofs about Server, for every size of the disk and of its areas.       *)
(***************************************************************************)
EXTENDS Server, IcacheProofs

\* Most leaves are first-order; the ones with arithmetic or long case splits name
\* SMT.
USE Zenon

-----------------------------------------------------------------------------
(* The layout.                                                             *)

LEMMA DivFacts ==
  ASSUME NEW s \in Nat, NEW n \in Nat \ {0}
  PROVE  /\ s \div n \in Nat
         /\ (s \div n) * n <= s /\ s < (s \div n) * n + n
BY SMTT(30)

LEMMA ProductNat ==
  ASSUME NEW a \in Nat, NEW b \in Nat
  PROVE  a * b \in Nat
BY SMT

\* The bitmap has a bit for every block; block 0, which is the log's, is no data block.
LEMMA Layout ==
  ASSUME NEW sz \in Nat
  PROVE  /\ NBITBLOCK \in Nat \ {0} /\ NBlockBitmap(sz) \in Nat \ {0}
         /\ DataStart(sz) \in Nat \ {0}
         /\ NBITBLOCK * NBlockBitmap(sz) = (sz \div NBITBLOCK) * NBITBLOCK + NBITBLOCK
         /\ sz < NBITBLOCK * NBlockBitmap(sz) /\ (sz \div NBITBLOCK) * NBITBLOCK <= sz
<1>1. NBITBLOCK \in Nat \ {0} BY SMT, SuperAssumption DEF NBITBLOCK
<1> DEFINE n == NBITBLOCK
           k == sz \div n
<1>2. k \in Nat /\ k * n <= sz /\ sz < k * n + n BY <1>1, DivFacts
<1>3. NBlockBitmap(sz) = k + 1 BY DEF NBlockBitmap
<1> HIDE DEF n, k
<1>4. n * (k + 1) = k * n + n BY SMT, <1>1, <1>2 DEF n
<1>5. nInodeBlk \in Nat
  <2>1. NINODEBITMAP * n \in Nat BY <1>1, SuperAssumption, ProductNat DEF n
  <2>2. NINODEBITMAP * n * INODESZ \in Nat BY SMT, <2>1, SuperAssumption, ProductNat
  <2> QED BY <2>2, SuperAssumption, DivFacts DEF nInodeBlk, n
<1>6. DataStart(sz) \in Nat \ {0}
  BY SMT, <1>2, <1>3, <1>5, SuperAssumption DEF DataStart, InodeStart, BitmapInodeStart, BitmapBlockStart
<1> QED BY SMT, <1>1, <1>2, <1>3, <1>4, <1>6 DEF n, k

\* What markAlloc leaves in an empty bitmap: everything but the data blocks.
LEMMA MarkAllocExact ==
  ASSUME size \in Nat, Sensible(DataStart(size), size), bmap = 0 .. DataStart(size) - 1
  PROVE  \A x : x \in MarkLast(DataStart(size), size) <=> x \in Bits(size) \ Data(size)
<1> DEFINE n == DataStart(size)
           nb == NBITBLOCK
           k == size \div nb
           kn == k * nb
           top == nb * NBlockBitmap(size)
<1>1. /\ nb \in Nat \ {0} /\ n \in Nat \ {0} /\ top = kn + nb
      /\ size < top /\ kn <= size /\ k \in Nat
  BY Layout, DivFacts
<1>2. n < nb /\ n <= size BY <1>1 DEF Sensible
<1>3. kn \in Nat BY <1>1, ProductNat
<1>4. (k + 1) * nb = kn + nb BY SMT, <1>1
<1>5. MarkLast(n, size) =
        (0 .. n - 1 \ kn .. (kn + nb) - 1) \cup (IF k = 0 THEN 0 .. n - 1 ELSE {}) \cup size .. (kn + nb) - 1
  <2>1. Block(k) = kn .. (kn + nb) - 1 BY <1>4, Zenon DEF Block
  <2>2. MarkLast(n, size) =
          (bmap \ Block(k)) \cup (IF k = 0 THEN 0 .. n - 1 ELSE {}) \cup size .. (k + 1) * nb - 1
    BY DEF MarkLast
  <2> QED BY <2>1, <2>2, <1>4
<1>6. Bits(size) = 0 .. (kn + nb) - 1 /\ Data(size) = n .. size - 1
  BY <1>1 DEF Bits, Data, MaxBnum
<1>7. CASE k = 0
  <2>1. kn = 0 BY SMT, <1>7, <1>1
  <2> HIDE DEF n, nb, k, kn, top
  <2> QED BY SMT, <2>1, <1>1, <1>2, <1>5, <1>6, <1>7 DEF n
<1>8. CASE k # 0
  <2>1. kn >= nb BY SMT, <1>8, <1>1
  <2> HIDE DEF n, nb, k, kn, top
  <2> QED BY SMT, <2>1, <1>1, <1>2, <1>3, <1>5, <1>6, <1>8 DEF n
<1> QED BY <1>7, <1>8

-----------------------------------------------------------------------------
(* The portmapper.                                                         *)

Registered == {"MakeNfs", "MkFsState", "makeRootDir", "serving", "ShutdownNfs", "deferNfs"} \cup MkfsSteps

\* A mapping of this process is there only from its Set to its deferred Unset.
Mapped ==
  /\ port \in [Prog -> {None, "own", "old", "left"}]
  /\ port["NFS"] = "own" => pc \in Registered
  /\ port["MOUNT"] = "own" => pc \in Registered \cup {"unsetNfs", "setNfs", "deferMount"}

\* A process that ends by itself, whichever way main exits, returns or panics,
\* leaves a mapping to its port behind only if a call to the portmapper about it
\* has failed: for every size of the disk, and whatever earlier processes left.
THEOREM MappingsRemoved == Spec => []NoMappingLeft
<1>1. Init => Mapped BY ServerAssumption DEF Init, Mapped, Prog
<1>2. Mapped /\ [Next]_serverVars => Mapped'
  <2> SUFFICES ASSUME Mapped, [Next]_serverVars PROVE Mapped' OBVIOUS
  <2> USE ServerAssumption DEF Mapped, Prog, Registered, MkfsSteps, Goto
  <2>1. CASE UNCHANGED serverVars BY <2>1 DEF serverVars, procVars
  <2>2. CASE Listen BY <2>2 DEF Listen
  <2>3. CASE UnsetMount BY <2>3 DEF UnsetMount, UnsetFails, Unset, End
  <2>4. CASE SetMount BY <2>4 DEF SetMount, Set, SetFails, End
  <2>5. CASE UnsetNfs BY <2>5 DEF UnsetNfs, UnsetFails, Unset
  <2>6. CASE SetNfs BY <2>6 DEF SetNfs, Set, SetFails
  <2>7. CASE NoDisk \/ MakeNfs BY <2>7 DEF NoDisk, MakeNfs
  <2>8. CASE makeFs BY <2>8 DEF makeFs
  <2>9. CASE markAlloc BY <2>9 DEF markAlloc
  <2>10. CASE MkFsState BY <2>10 DEF MkFsState
  <2>11. CASE makeRootDir BY <2>11 DEF makeRootDir
  <2>12. CASE Interrupt BY <2>12 DEF Interrupt
  <2>13. CASE AcceptFails BY <2>13 DEF AcceptFails
  <2>14. CASE ShutdownNfs BY <2>14 DEF ShutdownNfs
  <2>15. CASE DeferNfs BY <2>15 DEF DeferNfs, DeferUnset, Unset
  <2>16. CASE DeferMount BY <2>16 DEF DeferMount, DeferUnset, Unset, End
  <2>17. CASE Crash BY <2>17 DEF Crash, End
  <2>18. ASSUME NEW t \in Thread, RpcStep(t) PROVE Mapped' BY <2>18 DEF RpcStep, procVars
  <2> QED BY <2>1, <2>2, <2>3, <2>4, <2>5, <2>6, <2>7, <2>8, <2>9, <2>10, <2>11, <2>12, <2>13,
             <2>14, <2>15, <2>16, <2>17, <2>18 DEF Next, Boot, GoDown
<1>3. Mapped => NoMappingLeft BY DEF Mapped, NoMappingLeft, Registered, MkfsSteps, Prog
<1> QED BY <1>1, <1>2, <1>3, PTL DEF Spec

-----------------------------------------------------------------------------
(* The blocks. BitmapExact and AllocatorExact are not inductive: Pending    *)
(* says where the blocks of open transactions lie, Stage what is on disk at *)
(* each step of MakeNfs.                                                    *)

Up == {"makeRootDir", "serving", "ShutdownNfs"}

Zero == \A i \in Inum : disk[i] = 0

\* BitmapExact, bit by bit; and inodes have only data blocks.
Exact ==
  /\ bmap \subseteq Bits(size)
  /\ \A x \in Bits(size) : x \in bmap <=> x \notin Data(size) \/ \E i \in Inum : disk[i] = x
  /\ \A i \in Inum : disk[i] = 0 \/ disk[i] \in Data(size)
  /\ \A i, j \in Inum : disk[i] = disk[j] /\ disk[i] # 0 => i = j

\* The block x has been allocated for inode i by transaction t.
New(t, i, x) == op[t].buf[i] # None /\ op[t].buf[i] = x /\ x # 0

\* A block allocated in a transaction that is still open is a data block nobody else has.
Pending ==
  /\ \A t \in Thread, i \in Inum, x \in Val : New(t, i, x) => x \in Data(size) /\ x \notin bmap
  /\ \A t, u \in Thread, i, j \in Inum, x \in Val : New(t, i, x) /\ New(u, j, x) => t = u /\ i = j

\* AllocatorExact, bit by bit.
AllocExact ==
  \A x : x \in balloc <=> x \in bmap \/ \E t \in Thread, i \in Inum : New(t, i, x)

\* No transaction is open.
Quiet == \A t \in Thread, i \in Inum : op[t].buf[i] = None

Stage ==
  /\ pc \notin Up \cup {"deferNfs", "deferMount"} => Quiet
  /\ kind = NF3FREE => Zero /\ bmap = {}
  /\ pc \in {"unsetMount", "setMount", "unsetNfs", "setNfs", "MakeNfs"} =>
       kind = NF3FREE \/ disk[ROOTINUM] # 0
  /\ pc = "makeFs" => kind = NF3FREE /\ isNew
  /\ pc \in {"markAlloc", "markAlloc2", "markAlloc3"} => kind # NF3FREE /\ isNew /\ Zero
  /\ pc = "markAlloc" => bmap = {}
  /\ pc = "markAlloc2" =>
       Sensible(DataStart(size), size) /\ bmap = 0 .. DataStart(size) - 1
  /\ pc = "markAlloc3" => Exact
  /\ pc = "MkFsState" => kind # NF3FREE /\ Exact
  /\ disk[ROOTINUM] # 0 => Exact
  /\ pc \in Up => kind # NF3FREE /\ Exact /\ AllocExact

SInv == IInv /\ size \in Sizes /\ kind \in {NF3FREE, NF3DIR} /\ Pending /\ Stage

LEMMA InitSInv == Init => SInv
<1> SUFFICES ASSUME Init PROVE SInv OBVIOUS
<1>1. IInv BY InitIInv DEF Init
<1>2. Quiet BY DEF Init, IcacheInit, NoOp, Quiet
<1>3. Pending BY <1>2 DEF Pending, New, Quiet
<1>4. Zero BY DEF Init, Zero
<1>5. disk[ROOTINUM] = 0 BY <1>4, ServerAssumption DEF Zero
<1>6. Stage BY <1>2, <1>4, <1>5 DEF Stage, Init, Up
<1> QED BY <1>1, <1>3, <1>6 DEF SInv, Init

\* A step that changes neither inodes nor bitmaps keeps what is said of them.
LEMMA SameDisk ==
  ASSUME UNCHANGED <<disk, op, size, bmap>>
  PROVE  /\ Zero' <=> Zero
         /\ Exact' <=> Exact
         /\ Quiet' <=> Quiet
         /\ Pending => Pending'
<1>1. Zero' <=> Zero BY DEF Zero
<1>2. Exact' <=> Exact BY DEF Exact
<1>3. Quiet' <=> Quiet BY DEF Quiet
<1>4. Pending => Pending' BY SMT DEF Pending, New
<1> QED BY <1>1, <1>2, <1>3, <1>4

LEMMA SameAlloc ==
  ASSUME UNCHANGED <<op, bmap, balloc>>
  PROVE  AllocExact' <=> AllocExact
BY SMT DEF AllocExact, New

LEMMA SameIInv ==
  ASSUME IInv, UNCHANGED icacheVars, ~DirtyAborts
  PROVE  IInv'
BY NextIInv

\* The steps of main that change neither the disk nor the allocators.
LEMMA MainSInv ==
  ASSUME SInv, ~DirtyAborts, ~MkfsRetried,
         UNCHANGED <<icacheVars, size, kind, bmap, balloc>>,
         \/ Listen \/ Goto("unsetMount", "setMount") \/ Goto("setMount", "unsetNfs") \/ UnsetNfs
         \/ SetNfs \/ NoDisk \/ MakeNfs \/ Interrupt \/ AcceptFails \/ ShutdownNfs \/ DeferNfs
  PROVE  SInv'
<1>1. UNCHANGED <<disk, op, size, bmap, kind, balloc>> BY DEF icacheVars
<1>2. IInv' BY SameIInv DEF SInv
<1>3. /\ Zero' <=> Zero
      /\ Exact' <=> Exact
      /\ Quiet' <=> Quiet
      /\ Pending'
      /\ AllocExact' <=> AllocExact
  BY <1>1, SameDisk, SameAlloc DEF SInv
<1>4. Stage'
  <2> USE DEF Goto, Up, Stage, SInv
  <2>1. CASE Listen BY <2>1, <1>1, <1>3 DEF Listen, HalfMade, NF3FREE, NF3DIR
  <2>2. CASE Goto("unsetMount", "setMount") BY <2>2, <1>1, <1>3
  <2>3. CASE Goto("setMount", "unsetNfs") BY <2>3, <1>1, <1>3
  <2>4. CASE UnsetNfs BY <2>4, <1>1, <1>3 DEF UnsetNfs
  <2>5. CASE SetNfs BY <2>5, <1>1, <1>3 DEF SetNfs, Set
  <2>6. CASE NoDisk \/ MakeNfs BY <2>6, <1>1, <1>3 DEF NoDisk, MakeNfs
  <2>7. CASE Interrupt BY <2>7, <1>1, <1>3 DEF Interrupt
  <2>8. CASE AcceptFails BY <2>8, <1>1, <1>3 DEF AcceptFails
  <2>9. CASE ShutdownNfs BY <2>9, <1>1, <1>3 DEF ShutdownNfs
  <2>10. CASE DeferNfs BY <2>10, <1>1, <1>3 DEF DeferNfs
  <2> QED BY <2>1, <2>2, <2>3, <2>4, <2>5, <2>6, <2>7, <2>8, <2>9, <2>10
<1> QED BY <1>1, <1>2, <1>3, <1>4 DEF SInv

\* Making the file system.
LEMMA MkfsSInv ==
  ASSUME SInv, ~DirtyAborts, makeFs \/ markAlloc \/ MkFsState
  PROVE  SInv'
<1>1. UNCHANGED <<icacheVars, disk, op, size>> BY DEF makeFs, markAlloc, MkFsState, icacheVars
<1>2. IInv' BY <1>1, SameIInv DEF SInv
<1>3. Zero' <=> Zero BY <1>1 DEF Zero
<1>4. pc \notin Up \cup {"deferNfs", "deferMount"}
  BY DEF makeFs, markAlloc, MkFsState, Goto, Up
<1>5. Quiet /\ Quiet' BY <1>1, <1>4 DEF SInv, Stage, Quiet
<1>6. Pending' BY <1>5 DEF Pending, New, Quiet
<1>7. size \in Nat /\ DataStart(size) \in Nat BY ServerAssumption, Layout DEF SInv
<1>8. Stage /\ kind' \in {NF3FREE, NF3DIR} BY DEF SInv, makeFs, markAlloc, MkFsState
<1>9. ROOTINUM \in Inum BY ServerAssumption
<1>10. Stage'
  <2>1. CASE makeFs
    <3>1. pc' = "markAlloc" /\ kind' = NF3DIR /\ bmap' = bmap /\ isNew' = isNew /\ kind = NF3FREE /\ isNew
      BY <2>1, <1>8 DEF makeFs, Goto, Stage
    <3>2. Zero /\ bmap = {} /\ disk'[ROOTINUM] = 0 BY <3>1, <1>1, <1>8, <1>9 DEF Stage, Zero
    <3> QED BY SMT, <3>1, <3>2, <1>3, <1>5 DEF Stage, Up, NF3FREE, NF3DIR
  <2>2. CASE markAlloc
    <3>1. pc \in {"markAlloc", "markAlloc2", "markAlloc3"} /\ kind' = kind /\ isNew' = isNew
      BY <2>2 DEF markAlloc, Goto
    <3>2. kind # NF3FREE /\ isNew /\ Zero BY <3>1, <1>8 DEF Stage
    <3>3. disk'[ROOTINUM] = 0 BY <3>2, <1>1, <1>9 DEF Zero
    <3>4. CASE Goto("markAlloc", "deferNfs") /\ UNCHANGED <<bmap, imap>>
      BY <3>1, <3>2, <3>3, <3>4, <1>5 DEF Stage, Up, Goto
    <3>5. CASE Goto("markAlloc", "markAlloc2") /\ Sensible(DataStart(size), size) /\ bmap' = MarkFirst(DataStart(size))
      <4>1. bmap = {} BY <3>5, <1>8 DEF Stage, Goto
      <4>2. bmap' = 0 .. DataStart(size) - 1 BY <3>5, <4>1 DEF MarkFirst
      <4>3. Sensible(DataStart(size), size)' BY <3>5, <1>1 DEF Sensible
      <4>4. DataStart(size)' = DataStart(size) BY <1>1
      <4> QED BY <3>1, <3>2, <3>3, <3>5, <4>2, <4>3, <4>4, <1>1, <1>3, <1>5 DEF Stage, Up, Goto
    <3>6. CASE Goto("markAlloc2", "markAlloc3") /\ bmap' = MarkLast(DataStart(size), size)
      <4>1. Sensible(DataStart(size), size) /\ bmap = 0 .. DataStart(size) - 1
        BY <3>6, <1>8 DEF Stage, Goto
      <4>2. \A x : x \in bmap' <=> x \in Bits(size) \ Data(size)
        BY <4>1, <3>6, <1>7, MarkAllocExact
      <4>3. 0 \notin Data(size) BY SMT, <1>7, Layout DEF Data, MaxBnum
      <4>4. Exact' BY <4>2, <4>3, <3>2, <1>1 DEF Exact, Zero
      <4> QED BY <3>1, <3>2, <3>3, <3>6, <4>4, <1>3, <1>5 DEF Stage, Up, Goto
    <3>7. CASE Goto("markAlloc3", "MkFsState") /\ UNCHANGED bmap
      <4>1. Exact BY <3>7, <1>8 DEF Stage, Goto
      <4>2. Exact' BY <4>1, <3>7, <1>1 DEF Exact
      <4> QED BY <3>1, <3>2, <3>3, <3>7, <4>2, <1>5 DEF Stage, Up, Goto
    <3> QED BY <2>2, <3>4, <3>5, <3>6, <3>7 DEF markAlloc, MaxBnum
  <2>3. CASE MkFsState
    <3>1. /\ pc = "MkFsState" /\ pc' \in {"makeRootDir", "serving"}
          /\ balloc' = bmap /\ bmap' = bmap /\ kind' = kind
      BY <2>3 DEF MkFsState, Goto
    <3>2. Exact /\ kind # NF3FREE BY <3>1, <1>8 DEF Stage
    <3>3. Exact' BY <3>1, <3>2, <1>1 DEF Exact
    <3>4. AllocExact' BY <3>1, <1>5 DEF AllocExact, Quiet, New
    <3> QED BY <3>1, <3>2, <3>3, <3>4 DEF Stage, Up
  <2> QED BY <2>1, <2>2, <2>3
<1> QED BY <1>1, <1>2, <1>6, <1>8, <1>10 DEF SInv

\* The process ends, at any point.
LEMMA EndSInv ==
  ASSUME SInv, End
  PROVE  SInv'
<1>1. IInv' BY RestartIInv DEF End, SInv
<1>2. Quiet' BY DEF End, Restart, Quiet, NoOp
<1>3. Pending' BY <1>2 DEF Pending, New, Quiet
<1>4. UNCHANGED <<disk, size, kind, bmap>> /\ pc' = "down" BY DEF End, Restart
<1>5. Zero' <=> Zero BY <1>4 DEF Zero
<1>6. Exact' <=> Exact BY <1>4 DEF Exact
<1>7. Stage' BY <1>2, <1>4, <1>5, <1>6 DEF Stage, Up, SInv
<1> QED BY <1>1, <1>3, <1>4, <1>7 DEF SInv

-----------------------------------------------------------------------------
(* Transactions.                                                           *)

LEMMA UpSInv ==
  ASSUME SInv, pc \in Up, pc' \in Up, UNCHANGED <<size, kind>>,
         IInv', Pending', Exact', AllocExact'
  PROVE  SInv'
<1>1. kind # NF3FREE BY DEF SInv, Stage
<1>2. Stage' BY <1>1 DEF Stage, Up
<1> QED BY <1>2 DEF SInv

\* Steps that leave the buffers alone.
LEMMA SameBufs ==
  ASSUME SInv, pc \in Up, pc' \in Up, IInv', UNCHANGED <<disk, size, kind, bmap, balloc>>,
         \A u \in Thread, j \in Inum : op'[u].buf[j] = op[u].buf[j]
  PROVE  SInv'
<1>1. \A u \in Thread, j \in Inum : \A x : New(u, j, x)' <=> New(u, j, x) BY DEF New
<1>2. Pending /\ Exact /\ AllocExact BY DEF SInv, Stage
<1>3. Pending' BY SMT, <1>1, <1>2 DEF Pending
<1>4. Exact' BY <1>2 DEF Exact
<1>5. AllocExact' BY <1>1, <1>2 DEF AllocExact
<1> QED BY <1>3, <1>4, <1>5, UpSInv

LEMMA GetInodeSInv ==
  ASSUME SInv, pc \in Up, pc' \in Up, ~DirtyAborts, NEW t \in Thread, NEW i \in Inum, GetInode(t, i)
  PROVE  SInv'
<1>1. IInv /\ UNCHANGED <<size, kind, bmap, balloc>> BY DEF SInv, GetInode, bootVars
<1>2. IInv' BY <1>1, LockInodeIInv, GetInodeLockedIInv DEF GetInode
<1>3. disk' = disk BY DEF GetInode, LockInode, GetInodeLocked
<1>4. \A u \in Thread : op'[u].buf = op[u].buf BY <1>1, LockInodeOp, GetInodeLockedOp DEF GetInode
<1> QED BY <1>1, <1>2, <1>3, <1>4, SameBufs

\* The end of a transaction, or of its use of an inode.
LEMMA LetGo ==
  ASSUME IInv, NEW t \in Thread, NEW is, NEW o, ReleaseInodes(t, is, o)
  PROVE  op'[t] = o /\ \A u \in Thread : u # t => op'[u] = op[u]
BY DEF ReleaseInodes, IInv, IType

LEMMA PutInodeSInv ==
  ASSUME SInv, pc \in Up, pc' \in Up, NEW t \in Thread, NEW i \in Inum, PutInode(t, i)
  PROVE  SInv'
<1>1. IInv /\ UNCHANGED <<size, kind, bmap, balloc>> BY DEF SInv, PutInode, bootVars
<1>2. ReleaseInode(t, i) BY DEF PutInode
<1>3. IInv' BY <1>1, <1>2, ReleaseInodeIInv
<1>4. disk' = disk BY <1>2 DEF ReleaseInode
<1> DEFINE o == [op[t] EXCEPT !.ptr[i] = None, !.inodes = op[t].inodes \ {i}]
<1>5. ReleaseInodes(t, {i}, o) BY <1>2 DEF ReleaseInode
<1>6. o.buf = op[t].buf BY <1>1 DEF IInv, IType, OpState
<1> HIDE DEF o
<1>7. \A u \in Thread : op'[u].buf = op[u].buf BY <1>1, <1>5, <1>6, LetGo
<1> QED BY <1>1, <1>3, <1>4, <1>7, SameBufs

LEMMA AbortSInv ==
  ASSUME SInv, pc \in Up, pc' \in Up, ~DirtyAborts, NEW t \in Thread, AbortTxn(t)
  PROVE  SInv'
<1>1. IInv /\ Abort(t) /\ UNCHANGED <<size, kind, bmap>> BY DEF SInv, AbortTxn
<1>2. IInv' BY <1>1, NextIInv DEF IcacheNext
<1>3. disk' = disk /\ op[t].buf = NoOp.buf /\ ReleaseInodes(t, op[t].inodes, NoOp) BY <1>1 DEF Abort
<1>4. \A u \in Thread : op'[u].buf = op[u].buf BY <1>1, <1>3, LetGo
<1>5. NewBlocks(t) = {} BY <1>3 DEF NewBlocks, Written, NoOp
<1>6. balloc' = balloc BY <1>5 DEF AbortTxn
<1> QED BY <1>1, <1>2, <1>3, <1>4, <1>6, SameBufs

\* WriteInode with a block the allocator has given out, or none.
LEMMA WriteSInv ==
  ASSUME SInv, pc \in Up, pc' \in Up, UNCHANGED <<size, kind, bmap>>,
         NEW t \in Thread, NEW i \in Inum, NEW b \in Val,
         WriteInode(t, i, b), op[t].buf[i] = None,
         b # 0 => b \in Bits(size) \ balloc,
         \A x : x \in balloc' <=> x \in balloc \/ (x = b /\ b # 0)
  PROVE  SInv'
<1>1. IInv /\ Pending /\ Exact /\ AllocExact BY DEF SInv, Stage
<1>2. IInv' BY <1>1, WriteInodeIInv
<1>3. disk' = disk BY DEF WriteInode
<1>4. \A u \in Thread, j \in Inum : op'[u].buf[j] = IF u = t /\ j = i THEN b ELSE op[u].buf[j]
  BY SMT, <1>1, WriteInodeOp
<1>5. b # None BY IcacheAssumption
<1>6. \A u \in Thread, j \in Inum : \A x :
        New(u, j, x)' <=> (New(u, j, x) \/ (u = t /\ j = i /\ x = b /\ b # 0))
  BY SMT, <1>4, <1>5 DEF New
<1>7. b # 0 => /\ b \notin bmap /\ b \in Data(size)
               /\ \A u \in Thread, j \in Inum : ~New(u, j, b)
  BY <1>1 DEF AllocExact, Exact
<1>8. Pending' BY SMT, <1>1, <1>6, <1>7 DEF Pending
<1>9. Exact' BY <1>1, <1>3 DEF Exact
<1>10. AllocExact' BY <1>1, <1>6 DEF AllocExact
<1> QED BY <1>2, <1>8, <1>9, <1>10, UpSInv

LEMMA AllocBlockSInv ==
  ASSUME SInv, pc \in Up, pc' \in Up, NEW t \in Thread, NEW i \in Inum, AllocBlock(t, i)
  PROVE  SInv'
<1>1. /\ op[t].buf[i] = None /\ UNCHANGED <<size, kind, bmap>>
      /\ \E b \in Free : WriteInode(t, i, b) /\ balloc' = balloc \cup {b}
  BY DEF AllocBlock
<1>2. PICK b \in Free : WriteInode(t, i, b) /\ balloc' = balloc \cup {b} BY <1>1
<1>3. Exact /\ AllocExact BY DEF SInv, Stage
<1>4. b \in Bits(size) /\ b \notin balloc BY <1>2 DEF Free
<1>5. b \in Data(size) BY <1>3, <1>4 DEF Exact, AllocExact
<1>6. size \in Nat /\ Data(size) \subseteq Val BY ServerAssumption DEF SInv
<1>7. b # 0 BY SMT, <1>5, <1>6, Layout DEF Data, MaxBnum
<1> QED BY <1>1, <1>2, <1>4, <1>5, <1>6, <1>7, WriteSInv

LEMMA FreeBlockSInv ==
  ASSUME SInv, pc \in Up, pc' \in Up, NEW t \in Thread, NEW i \in Inum, FreeBlock(t, i)
  PROVE  SInv'
<1>1. op[t].buf[i] = None /\ WriteInode(t, i, 0) /\ UNCHANGED <<size, kind, bmap, balloc>>
  BY DEF FreeBlock, bootVars
<1> QED BY <1>1, ServerAssumption, WriteSInv

\* A commit moves the marks on disk with the blocks: those its inodes had go,
\* those it has allocated come, and what other transactions have stays apart.
LEMMA CommitSInv ==
  ASSUME SInv, pc \in Up, pc' \in Up, ~DirtyAborts, NEW t \in Thread, Commit(t)
  PROVE  SInv'
<1>1. IInv /\ Pending /\ Exact /\ AllocExact BY DEF SInv, Stage
<1>2. /\ commitWait(t) /\ UNCHANGED <<size, kind>>
      /\ bmap' = (bmap \ OldBlocks(t)) \cup NewBlocks(t)
      /\ balloc' = balloc \ OldBlocks(t)
  BY DEF Commit
<1>3. IInv' BY <1>1, <1>2, NextIInv DEF IcacheNext
<1>4. /\ ReleaseInodes(t, op[t].inodes, NoOp)
      /\ \A j \in Inum : disk'[j] = IF op[t].buf[j] # None THEN op[t].buf[j] ELSE disk[j]
  BY <1>2 DEF commitWait
<1>5. \A u \in Thread, j \in Inum : op'[u].buf[j] = IF u = t THEN None ELSE op[u].buf[j]
  <2>1. op'[t] = NoOp /\ \A u \in Thread : u # t => op'[u] = op[u] BY <1>1, <1>4, LetGo
  <2>2. \A j \in Inum : NoOp.buf[j] = None BY DEF NoOp
  <2> QED BY <2>1, <2>2
<1> DEFINE W(j) == op[t].buf[j] # None
           Old(x) == x # 0 /\ \E j \in Inum : W(j) /\ disk[j] = x
           Mine(x) == \E j \in Inum : New(t, j, x)
<1>6. \A x : x \in OldBlocks(t) <=> Old(x) BY DEF OldBlocks, Written
<1>7. \A x : x \in NewBlocks(t) <=> Mine(x) BY DEF NewBlocks, Written, New
<1>8. \A x : x \in bmap' <=> (x \in bmap /\ ~Old(x)) \/ Mine(x) BY <1>2, <1>6, <1>7
<1>9. \A x : x \in balloc' <=> x \in balloc /\ ~Old(x) BY <1>2, <1>6
<1>10. \A u \in Thread, j \in Inum : \A x : New(u, j, x)' <=> (u # t /\ New(u, j, x))
  BY <1>5 DEF New
<1>11. \A u \in Thread, j \in Inum : \A x : New(u, j, x) => x \in Val /\ x # 0
  BY SMT, <1>1 DEF New, IInv, IType, OpState
<1>12. \A u \in Thread, j \in Inum : \A x : New(u, j, x) => x \in Data(size) /\ x \notin bmap
  BY <1>1, <1>11 DEF Pending
<1>13. size \in Nat /\ Data(size) \subseteq Bits(size) /\ 0 \notin Data(size)
  <2>1. size \in Nat BY ServerAssumption DEF SInv
  <2>2. /\ DataStart(size) \in Nat \ {0} /\ NBITBLOCK * NBlockBitmap(size) \in Nat
        /\ size < NBITBLOCK * NBlockBitmap(size)
    BY <2>1, Layout, ProductNat
  <2> DEFINE top == NBITBLOCK * NBlockBitmap(size)
  <2>3. Bits(size) = 0 .. top - 1 BY DEF Bits
  <2> HIDE DEF top
  <2> QED BY SMT, <2>1, <2>2, <2>3 DEF Data, MaxBnum, top
<1>14. \A j \in Inum : disk[j] # 0 => disk[j] \in bmap /\ disk[j] \in Data(size)
  BY <1>1, <1>13 DEF Exact
<1>15. \A x : Old(x) => x \in bmap /\ x \in Data(size) BY <1>14
<1>16. \A j \in Inum : W(j) => disk'[j] = 0 \/ New(t, j, disk'[j]) BY <1>4 DEF New
<1>17. \A j \in Inum : ~W(j) => disk'[j] = disk[j] BY <1>4
<1>18. \A j \in Inum : \A x : New(t, j, x) => W(j) /\ disk'[j] = x BY <1>4 DEF New
<1>19. \A j, k \in Inum : \A x : New(t, j, x) /\ New(t, k, x) => j = k
  BY <1>1, <1>11 DEF Pending
<1>20. \A u \in Thread, j, k \in Inum : \A x : New(t, j, x) /\ New(u, k, x) => u = t
  BY <1>1, <1>11 DEF Pending
<1> HIDE DEF W
<1>21. \A j \in Inum : disk'[j] = 0 \/ disk'[j] \in Data(size)
  BY <1>12, <1>14, <1>16, <1>17
<1>22. \A j, k \in Inum : disk'[j] = disk'[k] /\ disk'[j] # 0 => j = k
  BY <1>1, <1>12, <1>14, <1>16, <1>17, <1>19 DEF Exact
<1>23. ASSUME NEW x \in Bits(size)
       PROVE  x \in bmap' <=> x \notin Data(size) \/ \E j \in Inum : disk'[j] = x
  <2>1. CASE x \notin Data(size)
    <3>1. x \in bmap BY <2>1, <1>1 DEF Exact
    <3>2. ~Old(x) BY <2>1, <1>15
    <3> QED BY <2>1, <3>1, <3>2, <1>8
  <2>2. ASSUME x \in Data(size), NEW j \in Inum, disk'[j] = x PROVE x \in bmap'
    <3>1. x # 0 BY <2>2, <1>13
    <3>2. CASE W(j) BY <3>1, <3>2, <2>2, <1>8, <1>16
    <3>3. CASE ~W(j)
      <4>1. disk[j] = x BY <3>3, <2>2, <1>17
      <4>2. ~Old(x) BY <4>1, <3>3, <1>1 DEF Exact
      <4> QED BY <4>1, <4>2, <3>1, <1>8, <1>14
    <3> QED BY <3>2, <3>3
  <2>3. ASSUME x \in Data(size), x \in bmap' PROVE \E j \in Inum : disk'[j] = x
    <3>1. CASE Mine(x) BY SMT, <3>1, <1>18
    <3>2. CASE x \in bmap /\ ~Old(x)
      <4>1. PICK j \in Inum : disk[j] = x BY <3>2, <2>3, <1>1 DEF Exact
      <4>2. ~W(j) BY <3>2, <4>1, <2>3, <1>13
      <4> QED BY <4>1, <4>2, <1>17
    <3> QED BY <3>1, <3>2, <2>3, <1>8
  <2> QED BY <2>1, <2>2, <2>3
<1>24. bmap' \subseteq Bits(size) BY <1>1, <1>8, <1>12, <1>13 DEF Exact
<1>25. Exact' BY <1>2, <1>21, <1>22, <1>23, <1>24 DEF Exact
<1>26. Pending'
  <2>1. ASSUME NEW u \in Thread, NEW j \in Inum, NEW x \in Val, New(u, j, x)'
        PROVE  x \in Data(size) /\ x \notin bmap'
    <3>1. u # t /\ New(u, j, x) BY <2>1, <1>10
    <3>2. ~Mine(x) BY <3>1, <1>20
    <3> QED BY <3>1, <3>2, <1>8, <1>12
  <2>2. \A u, v \in Thread, j, k \in Inum, x \in Val : New(u, j, x)' /\ New(v, k, x)' => u = v /\ j = k
    BY SMT, <1>1, <1>10 DEF Pending
  <2> QED BY <1>2, <2>1, <2>2 DEF Pending
<1>27. AllocExact'
  <2>1. ASSUME NEW x
        PROVE  x \in balloc' <=> x \in bmap' \/ \E u \in Thread, j \in Inum : New(u, j, x)'
    <3> HIDE DEF Old, Mine
    <3>1. x \in balloc <=> x \in bmap \/ \E u \in Thread, j \in Inum : New(u, j, x)
      BY <1>1 DEF AllocExact
    <3>2. (\E u \in Thread, j \in Inum : New(u, j, x))
            <=> Mine(x) \/ \E u \in Thread, j \in Inum : New(u, j, x)'
      BY <1>10 DEF Mine
    <3>3. (\E u \in Thread, j \in Inum : New(u, j, x)) => ~Old(x) BY <1>12, <1>15
    <3> QED BY <3>1, <3>2, <3>3, <1>8, <1>9
  <2> QED BY <2>1 DEF AllocExact
<1> QED BY <1>2, <1>3, <1>25, <1>26, <1>27, UpSInv

LEMMA NextSInv ==
  ASSUME SInv, [Next]_serverVars, ~DirtyAborts, ~MkfsRetried
  PROVE  SInv'
<1>1. CASE UNCHANGED serverVars
  <2>1. UNCHANGED <<icacheVars, disk, op, size, kind, bmap, balloc, isNew, pc>>
    BY <1>1 DEF serverVars, icacheVars, bootVars, procVars
  <2>2. IInv' /\ Pending' BY <2>1, SameIInv, SameDisk DEF SInv
  <2>3. (Zero' <=> Zero) /\ (Exact' <=> Exact) /\ (Quiet' <=> Quiet) /\ (AllocExact' <=> AllocExact)
    BY <2>1, SameDisk, SameAlloc
  <2>4. Stage' BY <2>1, <2>3 DEF Stage, SInv, Sensible
  <2> QED BY <2>1, <2>2, <2>4 DEF SInv
<1>2. CASE Listen BY <1>2, MainSInv DEF Listen, bootVars
<1>3. CASE UnsetMount BY <1>3, MainSInv, EndSInv DEF UnsetMount, bootVars
<1>4. CASE SetMount BY <1>4, MainSInv, EndSInv DEF SetMount, Set, bootVars
<1>5. CASE UnsetNfs BY <1>5, MainSInv DEF UnsetNfs, bootVars
<1>6. CASE SetNfs BY <1>6, MainSInv DEF SetNfs, Set, bootVars
<1>7. CASE NoDisk \/ MakeNfs BY <1>7, MainSInv DEF NoDisk, MakeNfs, bootVars
<1>8. CASE makeFs \/ markAlloc \/ MkFsState BY <1>8, MkfsSInv
<1>9. CASE makeRootDir
  <2>1. pc \in Up /\ pc' \in Up BY <1>9 DEF makeRootDir, Up
  <2>2. main \in Thread /\ ROOTINUM \in Inum BY ServerAssumption
  <2>3. GetInode(main, ROOTINUM) \/ AllocBlock(main, ROOTINUM) \/ Commit(main) BY <1>9 DEF makeRootDir
  <2> QED BY <2>1, <2>2, <2>3, GetInodeSInv, AllocBlockSInv, CommitSInv
<1>10. CASE Interrupt BY <1>10, MainSInv DEF Interrupt, bootVars
<1>11. CASE AcceptFails BY <1>11, MainSInv DEF AcceptFails, bootVars
<1>12. CASE ShutdownNfs BY <1>12, MainSInv DEF ShutdownNfs, bootVars
<1>13. CASE DeferNfs BY <1>13, MainSInv DEF DeferNfs, bootVars
<1>14. CASE DeferMount BY <1>14, EndSInv DEF DeferMount
<1>15. CASE Crash BY <1>15, EndSInv DEF Crash
<1>16. ASSUME NEW t \in Thread, RpcStep(t) PROVE SInv'
  <2>1. pc \in Up /\ pc' \in Up BY <1>16 DEF RpcStep, procVars, Up
  <2>2. \/ \E i \in Inum : GetInode(t, i) \/ PutInode(t, i) \/ AllocBlock(t, i) \/ FreeBlock(t, i)
        \/ Commit(t) \/ AbortTxn(t)
    BY <1>16 DEF RpcStep
  <2> QED BY <2>1, <2>2, GetInodeSInv, PutInodeSInv, AllocBlockSInv, FreeBlockSInv, CommitSInv, AbortSInv
<1> QED BY <1>1, <1>2, <1>3, <1>4, <1>5, <1>6, <1>7, <1>8, <1>9, <1>10, <1>11, <1>12, <1>13,
           <1>14, <1>15, <1>16 DEF Next, Boot, GoDown

\* Every step of the server is one of the inode cache, or leaves it alone.
LEMMA CacheStep ==
  ASSUME SInv, [Next]_serverVars
  PROVE  [IcacheNext]_icacheVars
<1>1. ASSUME NEW t \in Thread, NEW i \in Inum, GetInode(t, i) \/ PutInode(t, i) \/ FreeBlock(t, i)
      PROVE  IcacheNext
  BY <1>1, ServerAssumption DEF GetInode, PutInode, FreeBlock, IcacheNext
<1>2. ASSUME pc \in Up, NEW t \in Thread, NEW i \in Inum, AllocBlock(t, i) PROVE IcacheNext
  <2>1. PICK b \in Free : WriteInode(t, i, b) BY <1>2 DEF AllocBlock
  <2>2. Exact /\ AllocExact BY <1>2 DEF SInv, Stage
  <2>3. b \in Data(size) BY <2>1, <2>2 DEF Exact, AllocExact, Free
  <2>4. b \in Val BY <2>3, ServerAssumption DEF SInv
  <2> QED BY <2>1, <2>4 DEF IcacheNext
<1>3. ASSUME NEW t \in Thread, Commit(t) \/ AbortTxn(t) PROVE IcacheNext
  BY <1>3 DEF Commit, AbortTxn, IcacheNext
<1>4. CASE End BY <1>4 DEF End, IcacheNext
<1>5. CASE UNCHANGED icacheVars BY <1>5
<1>6. CASE UNCHANGED serverVars BY <1>6, <1>5 DEF serverVars
<1>7. CASE Boot
  <2>1. CASE makeRootDir
    <3>1. main \in Thread /\ ROOTINUM \in Inum BY ServerAssumption
    <3> QED BY <2>1, <3>1, <1>1, <1>2, <1>3 DEF makeRootDir, Up
  <2>2. CASE Listen \/ UnsetMount \/ SetMount \/ UnsetNfs \/ SetNfs
    BY <2>2, <1>4, <1>5 DEF Listen, UnsetMount, SetMount, UnsetNfs, SetNfs, Set
  <2>3. CASE NoDisk \/ MakeNfs \/ makeFs \/ markAlloc \/ MkFsState
    BY <2>3, <1>5 DEF NoDisk, MakeNfs, makeFs, markAlloc, MkFsState
  <2> QED BY <1>7, <2>1, <2>2, <2>3 DEF Boot
<1>8. CASE GoDown
  BY <1>8, <1>4, <1>5 DEF GoDown, Interrupt, AcceptFails, ShutdownNfs, DeferNfs, DeferMount, Crash
<1>9. ASSUME NEW t \in Thread, RpcStep(t) PROVE IcacheNext
  BY <1>9, <1>1, <1>2, <1>3 DEF RpcStep, Up
<1> QED BY <1>6, <1>7, <1>8, <1>9 DEF Next

LEMMA ServerInvariant ==
  ASSUME ~DirtyAborts, ~MkfsRetried
  PROVE  Spec => []SInv
<1>1. SInv /\ [Next]_serverVars => SInv' BY NextSInv
<1> QED BY InitSInv, <1>1, PTL DEF Spec

-----------------------------------------------------------------------------

\* On a disk of any size, in any history of starts, shutdowns and crashes in
\* which makeFs has not been cut off: the bitmap markAlloc wrote and the commits
\* have changed marks what is in use and nothing else, and no block has two
\* owners.
THEOREM BitmapIsExact ==
  ASSUME ~DirtyAborts, ~MkfsRetried
  PROVE  Spec => []BitmapExact
<1>1. SInv => BitmapExact
  <2> SUFFICES ASSUME SInv, disk[ROOTINUM] # 0 \/ pc \in {"makeRootDir", "serving"}
               PROVE  /\ bmap = Bits(size) \ (Data(size) \ {disk[i] : i \in Inum})
                      /\ \A i, j \in Inum : disk[i] = disk[j] /\ disk[i] # 0 => i = j
    BY DEF BitmapExact
  <2>1. Exact BY DEF SInv, Stage, Up
  <2> QED BY <2>1 DEF Exact
<1> QED BY <1>1, ServerInvariant, PTL

\* The allocator MkFsState reads from the bitmap, and AllocBlock and PostCommit
\* change, differs from it by what open transactions have allocated.
THEOREM AllocatorIsExact ==
  ASSUME ~DirtyAborts, ~MkfsRetried
  PROVE  Spec => []AllocatorExact
<1>1. SInv => AllocatorExact
  <2> SUFFICES ASSUME SInv, pc \in Up
               PROVE  balloc = bmap \cup UNION {NewBlocks(t) : t \in Thread}
    BY DEF AllocatorExact, Up
  <2>1. AllocExact BY DEF SInv, Stage
  <2>2. ASSUME NEW x
        PROVE  x \in UNION {NewBlocks(t) : t \in Thread} <=> \E t \in Thread, i \in Inum : New(t, i, x)
    BY SMT DEF NewBlocks, Written, New
  <2> QED BY <2>1, <2>2 DEF AllocExact
<1> QED BY <1>1, ServerInvariant, PTL

\* In the server, with its starts and crashes and the blocks its transactions
\* allocate, the inode cache is as transparent as by itself.
THEOREM ServerRefinesTxn ==
  ASSUME ~DirtyAborts, ~MkfsRetried
  PROVE  Spec => CacheTransparent
<1>1. Init => IcacheInit BY DEF Init
<1>2. SInv /\ [Next]_serverVars => [IcacheNext]_icacheVars BY CacheStep
<1>3. Spec => IcacheSpec BY <1>1, <1>2, ServerInvariant, PTL DEF Spec, IcacheSpec
<1> QED BY <1>3, CacheRefinesTxn, PTL

-----------------------------------------------------------------------------
(* What a serving process has made sure of. ServesReady is not inductive:   *)
(* the root directory is one transaction of makeRootDir, which must find a  *)
(* block and whose block no later transaction frees.                        *)

Serving == {"serving", "ShutdownNfs"}

\* No inode buffer but the root's, and that one main's, is in use.
OnlyRoot == \A t \in Thread, i \in Inum : op[t].buf[i] # None => t = main /\ i = ROOTINUM

Roomy == Sensible(DataStart(size), size)

RootMade ==
  /\ \A t \in Thread : op[t].buf[ROOTINUM] # 0
  /\ pc = "markAlloc3" => Roomy
  /\ pc = "MkFsState" => IF isNew THEN Zero /\ Roomy ELSE disk[ROOTINUM] # 0
  /\ pc = "makeRootDir" => Zero /\ Roomy /\ OnlyRoot
  /\ pc \in Serving => disk[ROOTINUM] # 0

\* The bitmap of the inodes, once a file system is made.
InodesMarked ==
  /\ disk[ROOTINUM] # 0 \/ pc \in Up \cup {"MkFsState"} => imap = {NULLINUM, ROOTINUM}
  /\ pc \in Up => ialloc = imap

\* The portmapper knows this process from its Sets on.
Known ==
  /\ port \in [Prog -> {None, "own", "old", "left"}]
  /\ pc \in {"unsetNfs", "setNfs"} => port["MOUNT"] = "own"
  /\ pc \in Registered \ {"deferNfs"} => port["MOUNT"] = "own" /\ port["NFS"] = "own"

RInv == RootMade /\ InodesMarked

\* The portmapper's part stands by itself.
LEMMA KnownInv == (Init => Known) /\ (Known /\ [Next]_serverVars => Known')
<1>1. Init => Known BY ServerAssumption DEF Init, Known, Prog, Registered, MkfsSteps
<1>2. Known /\ [Next]_serverVars => Known'
  <2> SUFFICES ASSUME Known, [Next]_serverVars PROVE Known' OBVIOUS
  <2> USE ServerAssumption DEF Known, Prog, Registered, MkfsSteps, Goto
  <2>1. CASE UNCHANGED serverVars BY <2>1 DEF serverVars, procVars
  <2>2. CASE Listen BY <2>2 DEF Listen
  <2>3. CASE UnsetMount BY <2>3 DEF UnsetMount, UnsetFails, Unset, End
  <2>4. CASE SetMount BY <2>4 DEF SetMount, Set, SetFails, End
  <2>5. CASE UnsetNfs BY <2>5 DEF UnsetNfs, UnsetFails, Unset
  <2>6. CASE SetNfs BY <2>6 DEF SetNfs, Set, SetFails
  <2>7. CASE NoDisk \/ MakeNfs BY <2>7 DEF NoDisk, MakeNfs
  <2>8. CASE makeFs BY <2>8 DEF makeFs
  <2>9. CASE markAlloc BY <2>9 DEF markAlloc
  <2>10. CASE MkFsState BY <2>10 DEF MkFsState
  <2>11. CASE makeRootDir BY <2>11 DEF makeRootDir
  <2>12. CASE Interrupt BY <2>12 DEF Interrupt
  <2>13. CASE AcceptFails BY <2>13 DEF AcceptFails
  <2>14. CASE ShutdownNfs BY <2>14 DEF ShutdownNfs
  <2>15. CASE DeferNfs BY <2>15 DEF DeferNfs, DeferUnset, Unset
  <2>16. CASE DeferMount BY <2>16 DEF DeferMount, DeferUnset, Unset, End
  <2>17. CASE Crash BY <2>17 DEF Crash, End
  <2>18. ASSUME NEW t \in Thread, RpcStep(t) PROVE Known' BY <2>18 DEF RpcStep, procVars
  <2> QED BY <2>1, <2>2, <2>3, <2>4, <2>5, <2>6, <2>7, <2>8, <2>9, <2>10, <2>11, <2>12, <2>13,
             <2>14, <2>15, <2>16, <2>17, <2>18 DEF Next, Boot, GoDown
<1> QED BY <1>1, <1>2

LEMMA InitRInv == Init => RInv
<1> SUFFICES ASSUME Init PROVE RInv OBVIOUS
<1>1. disk[ROOTINUM] = 0 /\ pc = "down" BY ServerAssumption DEF Init
<1>2. \A t \in Thread : op[t].buf[ROOTINUM] = None
  BY ServerAssumption DEF Init, IcacheInit, NoOp
<1>3. None # 0 BY IcacheAssumption, ServerAssumption
<1> QED BY <1>1, <1>2, <1>3 DEF RInv, RootMade, InodesMarked, Serving, Up

\* The steps of main outside transactions, and the end of the process.
LEMMA MainRInv ==
  ASSUME SInv, RInv, ~MkfsRetried,
         \/ Listen \/ UnsetMount \/ SetMount \/ UnsetNfs \/ SetNfs \/ NoDisk \/ MakeNfs
         \/ makeFs \/ markAlloc \/ MkFsState \/ GoDown
  PROVE  RInv'
<1>0. None # 0 /\ ROOTINUM \in Inum BY IcacheAssumption, ServerAssumption
<1>1. CASE End
  <2>1. disk' = disk /\ imap' = imap /\ pc' = "down" /\ \A t \in Thread : op'[t].buf[ROOTINUM] = None
    BY <1>1, <1>0 DEF End, Restart, NoOp
  <2> QED BY <2>1, <1>0 DEF RInv, RootMade, InodesMarked, Up, Serving
<1>2. CASE UNCHANGED <<disk, op>> /\ ~End
  <2> USE <1>2, <1>0 DEF RInv, RootMade, InodesMarked, Up, Serving, Goto
  <2>1. (Zero' <=> Zero) /\ (OnlyRoot' <=> OnlyRoot) BY DEF Zero, OnlyRoot
  <2>2. UNCHANGED size => (Roomy' <=> Roomy) BY DEF Roomy, Sensible
  <2>3. CASE Listen BY <2>1, <2>2, <2>3 DEF Listen, bootVars
  <2>4. CASE UnsetMount \/ SetMount
    BY <2>1, <2>2, <2>4 DEF UnsetMount, SetMount, Set, bootVars
  <2>5. CASE UnsetNfs \/ SetNfs BY <2>1, <2>2, <2>5 DEF UnsetNfs, SetNfs, Set, bootVars
  <2>6. CASE NoDisk BY <2>1, <2>2, <2>6 DEF NoDisk, bootVars
  <2>7. CASE MakeNfs BY <2>1, <2>2, <2>7 DEF MakeNfs, SInv, Stage
  <2>8. CASE makeFs BY <2>1, <2>2, <2>8 DEF makeFs
  <2>9. CASE markAlloc
    <3>1. UNCHANGED size /\ isNew' = isNew BY <2>9 DEF markAlloc
    <3>2. disk[ROOTINUM] = 0 /\ isNew /\ Zero BY <2>9 DEF markAlloc, SInv, Stage, Zero
    <3>3. pc = "markAlloc2" => Roomy BY DEF SInv, Stage, Roomy
    <3>4. \/ pc' \in {"deferNfs", "markAlloc2"}
          \/ pc = "markAlloc2" /\ pc' = "markAlloc3"
          \/ pc = "markAlloc3" /\ pc' = "MkFsState" /\ imap' = {NULLINUM, ROOTINUM}
      BY <2>9 DEF markAlloc
    <3>5. disk'[ROOTINUM] = 0 /\ \A t \in Thread : op'[t].buf[ROOTINUM] # 0 BY <3>2
    <3>6. Zero' /\ (Roomy' <=> Roomy) BY <2>1, <2>2, <3>1, <3>2
    <3>7. RootMade' BY <3>1, <3>2, <3>3, <3>4, <3>5, <3>6
    <3>8. InodesMarked' BY <3>4, <3>5
    <3> QED BY <3>7, <3>8
  <2>10. CASE MkFsState
    <3>1. UNCHANGED <<size, imap>> /\ ialloc' = imap /\ pc = "MkFsState"
          /\ pc' = IF isNew THEN "makeRootDir" ELSE "serving"
      BY <2>10 DEF MkFsState
    <3>2. OnlyRoot BY <3>1 DEF SInv, Stage, Quiet, OnlyRoot
    <3> QED BY <2>1, <2>2, <3>1, <3>2
  <2>11. CASE Interrupt \/ AcceptFails \/ ShutdownNfs \/ DeferNfs
    BY <2>1, <2>2, <2>11 DEF Interrupt, AcceptFails, ShutdownNfs, DeferNfs, bootVars
  <2> QED BY <2>3, <2>4, <2>5, <2>6, <2>7, <2>8, <2>9, <2>10, <2>11 DEF GoDown, DeferMount, Crash
<1>3. End \/ UNCHANGED <<disk, op>>
  BY DEF Listen, UnsetMount, SetMount, Set, UnsetNfs, SetNfs, NoDisk, MakeNfs, makeFs, markAlloc,
         MkFsState, GoDown, Interrupt, AcceptFails, ShutdownNfs, DeferNfs, DeferMount, Crash, icacheVars
<1> QED BY <1>1, <1>2, <1>3

\* The inodes' bitmap in transactions, which leave it alone.
LEMMA TxnMarked ==
  ASSUME RInv, pc \in Up, pc' \in Up, UNCHANGED <<imap, ialloc>>
  PROVE  InodesMarked'
BY DEF RInv, InodesMarked

\* A step of a transaction that leaves disk and buffers alone.
LEMMA SameRInv ==
  ASSUME RInv, pc \in Up, pc' = pc, UNCHANGED <<disk, size, imap, ialloc>>,
         \A u \in Thread, j \in Inum : op'[u].buf[j] = op[u].buf[j]
  PROVE  RInv'
<1>1. InodesMarked' BY TxnMarked
<1>2. (Zero' <=> Zero) /\ (OnlyRoot' <=> OnlyRoot) /\ (Roomy' <=> Roomy)
  BY SMT DEF Zero, OnlyRoot, Roomy, Sensible
<1>3. RootMade' BY <1>2, ServerAssumption DEF RInv, RootMade, Up, Serving
<1> QED BY <1>1, <1>3 DEF RInv

\* WriteInode of b: the root's block is not taken away.
LEMMA WriteRInv ==
  ASSUME SInv, RInv, pc \in Up, pc' = pc, UNCHANGED <<size, imap, ialloc>>,
         NEW t \in Thread, NEW i \in Inum, NEW b \in Val, WriteInode(t, i, b),
         i = ROOTINUM => b # 0, pc = "makeRootDir" => t = main /\ i = ROOTINUM
  PROVE  RInv'
<1>1. IInv BY DEF SInv
<1>2. \A u \in Thread, j \in Inum : op'[u].buf[j] = IF u = t /\ j = i THEN b ELSE op[u].buf[j]
  <2>1. op \in [Thread -> OpState] BY <1>1 DEF IInv, IType
  <2>2. op' = [op EXCEPT ![t].buf[i] = b] BY DEF WriteInode
  <2> QED BY <2>1, <2>2 DEF OpState
<1>3. disk' = disk BY DEF WriteInode
<1>4. (Zero' <=> Zero) /\ (Roomy' <=> Roomy) BY <1>3 DEF Zero, Roomy, Sensible
<1>5. pc = "makeRootDir" /\ OnlyRoot => OnlyRoot' BY SMT, <1>2 DEF OnlyRoot
<1>6. \A u \in Thread : op'[u].buf[ROOTINUM] # 0 BY <1>2, ServerAssumption DEF RInv, RootMade
<1>7. RootMade' BY <1>3, <1>4, <1>5, <1>6 DEF RInv, RootMade, Up, Serving
<1> QED BY <1>7, TxnMarked DEF RInv

LEMMA AllocBlockRInv ==
  ASSUME SInv, RInv, pc \in Up, pc' = pc, NEW t \in Thread, NEW i \in Inum, AllocBlock(t, i),
         pc = "makeRootDir" => t = main /\ i = ROOTINUM
  PROVE  RInv'
<1>1. PICK b \in Free : WriteInode(t, i, b) BY DEF AllocBlock
<1>2. Exact /\ AllocExact BY DEF SInv, Stage
<1>3. b \in Data(size) BY <1>1, <1>2 DEF Exact, AllocExact, Free
<1>4. size \in Nat /\ Data(size) \subseteq Val BY ServerAssumption DEF SInv
<1>5. b # 0 BY SMT, <1>3, <1>4, Layout DEF Data, MaxBnum
<1>6. UNCHANGED <<size, imap, ialloc>> BY DEF AllocBlock
<1> QED BY <1>1, <1>3, <1>4, <1>5, <1>6, WriteRInv

\* A commit writes what is in the buffers, and no buffer of the root is empty.
LEMMA CommitDisk ==
  ASSUME SInv, RInv, NEW t \in Thread, Commit(t)
  PROVE  /\ disk'[ROOTINUM] = IF op[t].buf[ROOTINUM] # None THEN op[t].buf[ROOTINUM] ELSE disk[ROOTINUM]
         /\ \A u \in Thread : op'[u].buf[ROOTINUM] # 0
         /\ UNCHANGED <<size, imap, ialloc>>
<1>1. IInv /\ commitWait(t) /\ UNCHANGED <<size, imap, ialloc>> BY DEF SInv, Commit
<1>2. ReleaseInodes(t, op[t].inodes, NoOp) BY <1>1 DEF commitWait
<1>3. op'[t] = NoOp /\ \A u \in Thread : u # t => op'[u] = op[u] BY <1>1, <1>2, LetGo
<1>4. ROOTINUM \in Inum /\ None # 0 BY ServerAssumption, IcacheAssumption
<1>5. NoOp.buf[ROOTINUM] = None BY <1>4 DEF NoOp
<1>6. \A u \in Thread : op'[u].buf[ROOTINUM] # 0 BY <1>3, <1>4, <1>5 DEF RInv, RootMade
<1> QED BY <1>1, <1>4, <1>6 DEF commitWait

\* makeRootDir finds a block when the disk has data blocks at all.
LEMMA RootFindsBlock ==
  ASSUME SInv, RInv, pc = "makeRootDir", size # DataStart(size), op[main].buf[ROOTINUM] = None
  PROVE  Free # {}
<1>1. Exact /\ AllocExact /\ Zero /\ Roomy /\ OnlyRoot
  BY DEF SInv, Stage, Up, RInv, RootMade
<1>2. size \in Nat BY ServerAssumption DEF SInv
<1>3. DataStart(size) \in Nat \ {0} /\ NBITBLOCK * NBlockBitmap(size) \in Nat
      /\ size < NBITBLOCK * NBlockBitmap(size)
  BY <1>2, Layout, ProductNat
<1> DEFINE x == DataStart(size)
           top == NBITBLOCK * NBlockBitmap(size)
<1>4. x <= size BY <1>1 DEF Roomy, Sensible
<1>5. Bits(size) = 0 .. top - 1 BY DEF Bits
<1> HIDE DEF x, top
<1>6. x \in Bits(size) /\ x # 0 BY SMT, <1>2, <1>3, <1>4, <1>5 DEF x, top
<1>7. x \in Data(size) BY SMT, <1>2, <1>3, <1>4 DEF Data, MaxBnum, x
<1>8. x \notin bmap BY <1>1, <1>6, <1>7 DEF Exact, Zero
<1>9. \A t \in Thread, i \in Inum : op[t].buf[i] = None BY <1>1 DEF OnlyRoot
<1>10. x \notin balloc BY <1>1, <1>8, <1>9 DEF AllocExact, New
<1> QED BY <1>6, <1>10 DEF Free

LEMMA RootDirRInv ==
  ASSUME SInv, RInv, ~DirtyAborts, size # DataStart(size), makeRootDir
  PROVE  RInv'
<1>1. main \in Thread /\ ROOTINUM \in Inum /\ pc = "makeRootDir" /\ pc \in Up
  BY ServerAssumption DEF makeRootDir, Up
<1>2. CASE GetInode(main, ROOTINUM) /\ UNCHANGED pc
  <2>1. IInv /\ UNCHANGED <<disk, size, imap, ialloc>>
    BY <1>2 DEF GetInode, bootVars, SInv, LockInode, GetInodeLocked
  <2>2. \A u \in Thread : op'[u].buf = op[u].buf
    BY <1>1, <1>2, <2>1, LockInodeOp, GetInodeLockedOp DEF GetInode
  <2> QED BY <1>1, <1>2, <2>1, <2>2, SameRInv
<1>3. CASE AllocBlock(main, ROOTINUM) /\ UNCHANGED pc BY <1>1, <1>3, AllocBlockRInv
<1>4. CASE /\ op[main].buf[ROOTINUM] # None \/ Free = {}
           /\ Commit(main) /\ pc' = "serving"
  <2>1. op[main].buf[ROOTINUM] # None BY <1>1, <1>4, RootFindsBlock
  <2>2. /\ disk'[ROOTINUM] # 0 /\ \A u \in Thread : op'[u].buf[ROOTINUM] # 0
        /\ UNCHANGED <<size, imap, ialloc>>
    BY <1>1, <1>4, <2>1, CommitDisk DEF RInv, RootMade
  <2>3. RootMade' BY <1>4, <2>2 DEF RootMade
  <2>4. InodesMarked' BY <1>1, <1>4, <2>2, TxnMarked DEF Up
  <2> QED BY <2>3, <2>4 DEF RInv
<1> QED BY <1>2, <1>3, <1>4 DEF makeRootDir

LEMMA RpcRInv ==
  ASSUME SInv, RInv, ~DirtyAborts, NEW t \in Thread, RpcStep(t)
  PROVE  RInv'
<1>1. pc \in Serving /\ pc' = pc /\ pc \in Up /\ IInv BY DEF RpcStep, procVars, Serving, Up, SInv
<1>2. ASSUME NEW i \in Inum, GetInode(t, i) PROVE RInv'
  <2>1. UNCHANGED <<disk, size, imap, ialloc>> BY <1>2 DEF GetInode, bootVars, LockInode, GetInodeLocked
  <2>2. \A u \in Thread : op'[u].buf = op[u].buf BY <1>1, <1>2, LockInodeOp, GetInodeLockedOp DEF GetInode
  <2> QED BY <1>1, <2>1, <2>2, SameRInv
<1>3. ASSUME NEW i \in Inum, PutInode(t, i) PROVE RInv'
  <2>1. ReleaseInode(t, i) /\ UNCHANGED <<size, imap, ialloc>> BY <1>3 DEF PutInode, bootVars
  <2>2. disk' = disk BY <2>1 DEF ReleaseInode
  <2> DEFINE o == [op[t] EXCEPT !.ptr[i] = None, !.inodes = op[t].inodes \ {i}]
  <2>3. ReleaseInodes(t, {i}, o) BY <2>1 DEF ReleaseInode
  <2>4. o.buf = op[t].buf BY <1>1 DEF IInv, IType, OpState
  <2> HIDE DEF o
  <2>5. \A u \in Thread : op'[u].buf = op[u].buf BY <1>1, <2>3, <2>4, LetGo
  <2> QED BY <1>1, <2>1, <2>2, <2>5, SameRInv
<1>4. ASSUME NEW i \in Inum, AllocBlock(t, i) PROVE RInv'
  BY <1>1, <1>4, AllocBlockRInv DEF Serving
<1>5. ASSUME NEW i \in Inum \ {ROOTINUM}, FreeBlock(t, i) PROVE RInv'
  <2>1. WriteInode(t, i, 0) /\ UNCHANGED <<size, imap, ialloc>> BY <1>5 DEF FreeBlock, bootVars
  <2> QED BY <1>1, <1>5, <2>1, ServerAssumption, WriteRInv DEF Serving
<1>6. CASE Commit(t)
  <2>1. /\ disk'[ROOTINUM] # 0 /\ \A u \in Thread : op'[u].buf[ROOTINUM] # 0
        /\ UNCHANGED <<size, imap, ialloc>>
    BY <1>1, <1>6, CommitDisk DEF RInv, RootMade
  <2>2. RootMade' BY <1>1, <2>1 DEF RootMade, Serving
  <2> QED BY <1>1, <2>1, <2>2, TxnMarked DEF RInv
<1>7. CASE AbortTxn(t)
  <2>1. Abort(t) /\ UNCHANGED <<size, imap, ialloc>> BY <1>7 DEF AbortTxn
  <2>2. disk' = disk /\ op[t].buf = NoOp.buf /\ ReleaseInodes(t, op[t].inodes, NoOp) BY <2>1 DEF Abort
  <2>3. \A u \in Thread : op'[u].buf = op[u].buf BY <1>1, <2>2, LetGo
  <2> QED BY <1>1, <2>1, <2>2, <2>3, SameRInv
<1> QED BY <1>2, <1>3, <1>4, <1>5, <1>6, <1>7 DEF RpcStep

\* On every disk that is not exactly full of its own tables, a process that
\* serves has a root directory, allocators that keep the null and the root inode,
\* and both its programs registered, whatever starts, crashes and requests came
\* before (main, MakeNfs, makeRootDir). markAlloc lets a disk of DataStart blocks
\* pass, whose root directory finds no block.
THEOREM ServesWhenReady ==
  ASSUME ~DirtyAborts, ~MkfsRetried, \A sz \in Sizes : sz # DataStart(sz)
  PROVE  Spec => []ServesReady
<1>1. SInv /\ RInv /\ [Next]_serverVars => RInv'
  <2> SUFFICES ASSUME SInv, RInv, [Next]_serverVars PROVE RInv' OBVIOUS
  <2>1. CASE UNCHANGED serverVars
    <3>1. UNCHANGED <<disk, op, size, isNew, imap, ialloc, pc>>
      BY <2>1 DEF serverVars, icacheVars, bootVars, procVars
    <3>2. (Zero' <=> Zero) /\ (OnlyRoot' <=> OnlyRoot) /\ (Roomy' <=> Roomy)
      BY <3>1 DEF Zero, OnlyRoot, Roomy, Sensible
    <3> QED BY <3>1, <3>2 DEF RInv, RootMade, InodesMarked
  <2>2. CASE makeRootDir BY <2>2, RootDirRInv DEF SInv
  <2>3. CASE (Boot /\ ~makeRootDir) \/ GoDown BY <2>3, MainRInv DEF Boot
  <2>4. ASSUME NEW t \in Thread, RpcStep(t) PROVE RInv' BY <2>4, RpcRInv
  <2> QED BY <2>1, <2>2, <2>3, <2>4 DEF Next, Boot
<1>2. SInv /\ RInv /\ Known => ServesReady
  <2> SUFFICES ASSUME SInv, RInv, Known, pc = "serving"
               PROVE  /\ kind = NF3DIR /\ disk[ROOTINUM] # 0
                      /\ {NULLINUM, ROOTINUM} \subseteq ialloc
                      /\ port = [p \in Prog |-> "own"]
    BY DEF ServesReady
  <2>1. kind = NF3DIR BY DEF SInv, Stage, Up
  <2>2. disk[ROOTINUM] # 0 /\ ialloc = {NULLINUM, ROOTINUM}
    BY DEF RInv, RootMade, InodesMarked, Up, Serving
  <2>3. port = [p \in Prog |-> "own"] BY DEF Known, Prog, Registered, MkfsSteps
  <2> QED BY <2>1, <2>2, <2>3
<1> QED BY <1>1, <1>2, InitRInv, KnownInv, ServerInvariant, PTL DEF Spec
=============================================================================
