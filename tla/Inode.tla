-------------------------------- MODULE Inode --------------------------------
(***************************************************************************)
(* Files: the block tree of an inode (inode/inode.go), its growth by       *)
(* writes, its piecemeal removal (inode/shrink.go) and the procedures READ,*)
(* WRITE, SETATTR, COMMIT and REMOVE of nfs/nfs_ops.go that drive them.    *)
(*                                                                         *)
(* The unit is the 8-byte word of a block number: a block holds NBLKBLK    *)
(* words, and a word is 0, a block number or data.  A procedure holds the  *)
(* lock of its inode from the first look at it to its commit or abort, and *)
(* shares nothing with others but the block allocator, so it is one step   *)
(* here; AllocTxn has the interleavings of the allocator.  A transaction   *)
(* is a record threaded through the operators below:                       *)
(*   ip     the cached inode, img what WriteInode last put in the buffer   *)
(*   blk    block contents as the transaction sees them                    *)
(*   avail  the free blocks in the order the allocator will return them    *)
(*   al,fr  allocBnums, freeBnums      dirty  addresses of dirty buffers   *)
(*   bad    the code would have panicked                                   *)
(***************************************************************************)
EXTENDS Naturals, Sequences, FiniteSets

CONSTANTS
  Ino,         \* inode numbers
  NB,          \* data blocks are 1 .. NB (DataStart to MaxBnum)
  Data,        \* data words, no block numbers
  NDIRECT,     \* direct blocks of an inode
  NBLKBLK,     \* block numbers in a block
  LogBlocks,   \* size of the log
  Wrap,        \* sums of offsets and lengths are taken modulo Wrap
  BitmapBlk,   \* the bitmap block that holds the bit of a block
  Starts,      \* where the allocator's search may start
  Offsets,     \* offsets of WRITEs, in words
  Counts,      \* lengths of WRITEs, in words
  Sizes,       \* sizes SETATTR sets, in words
  Procs        \* the procedures clients call

INDIRECT == NDIRECT
DINDIRECT == NDIRECT + 1
Blk == 1 .. NB
Word == {0} \cup Blk \cup Data
Zeros == [k \in 0 .. NBLKBLK - 1 |-> 0]

ASSUME InodeAssumption ==
  /\ NB \in Nat /\ NDIRECT \in Nat \ {0} /\ NBLKBLK \in Nat \ {0} /\ LogBlocks \in Nat
  /\ Wrap \in Nat \ {0}
  /\ Data \cap (0 .. NB) = {} /\ Starts \subseteq Blk
  /\ \A b \in Blk : BitmapBlk[b] \in Nat

VARIABLES
  ip,       \* cached inodes
  disk,     \* committed: inodes, blocks, block bitmap
  durable,  \* what of it a crash leaves
  used,     \* blocks taken in the in-memory allocator
  shrinker, \* inodes a shrinker thread works on
  ok        \* FALSE after a panic, until the restart

vars == <<ip, disk, durable, used, shrinker, ok>>

InodeT == [kind : {"free", "reg"}, size : Nat, shrink : Nat, blks : [0 .. DINDIRECT -> Word]]
NewInode == [kind |-> "free", size |-> 0, shrink |-> 0, blks |-> [k \in 0 .. DINDIRECT |-> 0]]

TypeOK ==
  /\ ip \in [Ino -> InodeT]
  /\ \A d \in {disk, durable} :
       /\ d.ino \in [Ino -> InodeT]
       /\ d.blk \in [Blk -> [0 .. NBLKBLK - 1 -> Word]]
       /\ d.bits \subseteq Blk
  /\ used \subseteq Blk
  /\ shrinker \subseteq Ino
  /\ ok \in BOOLEAN

Init ==
  /\ ip = [i \in Ino |-> NewInode]
  /\ disk = [ino |-> ip, blk |-> [b \in Blk |-> Zeros], bits |-> {}]
  /\ durable = disk
  /\ used = {}
  /\ shrinker = {}
  /\ ok = TRUE

-----------------------------------------------------------------------------
(* Transactions.                                                           *)

\* AllocNum scans the bitmap once around from where it stopped last.
Avail(start) ==
  LET at(k) == ((start + k - 2) % NB) + 1 IN
  SelectSeq([k \in 1 .. NB |-> at(k)], LAMBDA b : b \notin used)

Begin(i, start) ==
  [ip |-> ip[i], img |-> disk.ino[i], blk |-> disk.blk, avail |-> Avail(start),
   al |-> {}, fr |-> {}, dirty |-> {}, bad |-> FALSE]

\* Faulty variant: allocBnums does not get the block.
AllocBlockForgotten(x) ==
  IF x.avail = <<>> THEN [x |-> x, b |-> 0]
  ELSE [x |-> [x EXCEPT !.avail = Tail(@)], b |-> Head(x.avail)]

\* 0 when there is no free block.
AllocBlock(x) ==
  IF x.avail = <<>> THEN [x |-> x, b |-> 0]
  ELSE [x |-> [x EXCEPT !.avail = Tail(@), !.al = @ \cup {Head(x.avail)}], b |-> Head(x.avail)]

\* Faulty variant: the block keeps its contents.
FreeBlockNoZero(x, b) ==
  IF b = 0 THEN x
  ELSE IF b \notin Blk THEN [x EXCEPT !.bad = TRUE]
  ELSE [x EXCEPT !.fr = @ \cup {b}]

\* FreeBlock zeroes the block, which is how AllocBlock's blocks come zeroed.
FreeBlock(x, b) ==
  IF b = 0 THEN x
  ELSE IF b \notin Blk THEN [x EXCEPT !.bad = TRUE]
  ELSE [x EXCEPT !.fr = @ \cup {b}, !.blk[b] = Zeros, !.dirty = @ \cup {b}]

BnumPut(x, b, k, w) == [x EXCEPT !.blk[b][k] = w, !.dirty = @ \cup {b}]

WriteInode(x) == [x EXCEPT !.img = x.ip, !.dirty = @ \cup {0}]

NDirty(x) == Cardinality(x.dirty)

-----------------------------------------------------------------------------
(* bmap: from a block of the file to a block of the disk.                  *)

\* pow(0) = 1, pow(1) = NBLKBLK, pow(2) = NBLKBLK^2: the code squares.
pow(level) == IF level = 0 THEN 1 ELSE IF level = 1 THEN NBLKBLK ELSE NBLKBLK * NBLKBLK

\* 64-bit addition.
Plus(a, b) == (a + b) % Wrap

RoundUp(n) == Plus(n, NBLKBLK - 1) \div NBLKBLK

MaxFileSize == (NDIRECT + pow(2)) * NBLKBLK

Bad(x) == [x |-> [x EXCEPT !.bad = TRUE], b |-> 0, root |-> 0]

RECURSIVE indbmap(_, _, _, _)
indbmap(x, root0, level, off) ==
  LET put(root, o, nxt, r) ==
        [x |-> IF r.root # nxt /\ ~r.x.bad THEN BnumPut(r.x, root, o, r.root) ELSE r.x,
         b |-> r.b, root |-> root]
      from(y, root, o) ==
        IF root = 0 THEN [x |-> y, b |-> 0, root |-> 0]
        ELSE IF root \notin Blk THEN Bad(x)
        ELSE IF level = 0 THEN [x |-> y, b |-> root, root |-> root]
        ELSE IF o >= NBLKBLK THEN Bad(x)
        ELSE put(root, o, y.blk[root][o],
                 indbmap(y, y.blk[root][o], level - 1, off % pow(level - 1)))
      alloc(a) == from(a.x, a.b, off \div pow(level - 1))
  IN  alloc(IF root0 = 0 THEN AllocBlock(x) ELSE [x |-> x, b |-> root0])

\* The result has the block (0 is failure) and whether the inode changed.
bmap(x, bn) ==
  LET direct(a) == [x |-> [a.x EXCEPT !.ip.blks[bn] = a.b], b |-> a.b, new |-> a.b # 0]
      \* new: INDIRECT for both kinds of index blocks, as in the code
      index(at, r, new) ==
        [x |-> IF new /\ ~r.x.bad THEN [r.x EXCEPT !.ip.blks[at] = r.root] ELSE r.x,
         b |-> r.b, new |-> new]
      result(at, r) == index(at, r, r.root # x.ip.blks[INDIRECT])
      off == bn - NDIRECT IN
  IF bn < NDIRECT
  THEN IF x.ip.blks[bn] # 0 THEN [x |-> x, b |-> x.ip.blks[bn], new |-> FALSE]
       ELSE direct(AllocBlock(x))
  ELSE IF off < NBLKBLK THEN result(INDIRECT, indbmap(x, x.ip.blks[INDIRECT], 1, off))
  ELSE result(DINDIRECT, indbmap(x, x.ip.blks[DINDIRECT], 2, off - NBLKBLK))

-----------------------------------------------------------------------------
(* Reading and writing.                                                    *)

Min2(a, b) == IF a < b THEN a ELSE b

\* Result: the data read so far; a hole is filled with a block.
RECURSIVE ReadLoop(_, _, _, _)
ReadLoop(x, off, n, data) ==
  LET byteoff == off % NBLKBLK
      nb == Min2(NBLKBLK - byteoff, n)
      copy(b) == data \o [k \in 1 .. nb |-> b[byteoff + k - 1]]
      turn(r) ==
        IF r.b = 0 THEN [x |-> r.x, data |-> data]
        ELSE ReadLoop(IF r.new THEN WriteInode(r.x) ELSE r.x, Plus(off, nb), n - nb, copy(r.x.blk[r.b])) IN
  IF n = 0 THEN [x |-> x, data |-> data] ELSE turn(bmap(x, off \div NBLKBLK))

\* Faulty variant: the count is not cut at the end of the file.
ReadPastEnd(x, off, count) ==
  IF off >= x.ip.size THEN [x |-> x, data |-> <<>>] ELSE ReadLoop(x, off, count, <<>>)

Read(x, off, count) ==
  IF off >= x.ip.size THEN [x |-> x, data |-> <<>>]
  ELSE ReadLoop(x, off, IF Plus(off, count) >= x.ip.size THEN x.ip.size - off ELSE count, <<>>)

RECURSIVE WriteLoop(_, _, _, _, _)
WriteLoop(x, off, n, w, cnt) ==
  LET byteoff == off % NBLKBLK
      nb == Min2(NBLKBLK - byteoff, n)
      fill(y, b) == [y EXCEPT !.dirty = @ \cup {b},
                              !.blk[b] = [k \in 0 .. NBLKBLK - 1 |->
                                 IF k >= byteoff /\ k < byteoff + nb THEN w ELSE @[k]]]
      turn(r) ==
        IF r.b = 0 THEN [x |-> r.x, cnt |-> cnt]
        ELSE WriteLoop(fill(r.x, r.b), Plus(off, nb), n - nb, w, cnt + nb) IN
  IF n = 0 THEN [x |-> x, cnt |-> cnt] ELSE turn(bmap(x, off \div NBLKBLK))

\* Faulty variant: the size grows by what was asked for.
WriteFullSize(x, off, count, w) ==
  LET grown(y, end) == WriteInode([y EXCEPT !.ip.size = IF end > @ THEN end ELSE @])
      done(r) ==
        IF r.cnt > 0 THEN [x |-> grown(r.x, Plus(off, count)), cnt |-> r.cnt, ok |-> TRUE]
        ELSE [x |-> r.x, cnt |-> 0, ok |-> count = 0] IN
  IF Plus(off, count) > MaxFileSize THEN [x |-> x, cnt |-> 0, ok |-> FALSE]
  ELSE done(WriteLoop(x, off, count, w, 0))

\* Fewer words than asked for are written when blocks run out on the way.
Write(x, off, count, w) ==
  LET grown(y, end) == WriteInode([y EXCEPT !.ip.size = IF end > @ THEN end ELSE @])
      done(r) ==
        IF r.cnt > 0 THEN [x |-> grown(r.x, Plus(off, r.cnt)), cnt |-> r.cnt, ok |-> TRUE]
        ELSE [x |-> r.x, cnt |-> 0, ok |-> count = 0] IN
  IF Plus(off, count) > MaxFileSize THEN [x |-> x, cnt |-> 0, ok |-> FALSE]
  ELSE done(WriteLoop(x, off, count, w, 0))

-----------------------------------------------------------------------------
(* Shrinking.                                                              *)

shrinkFits(x, nblk) == NDirty(x) + nblk < LogBlocks

IsShrinking(i) == i.shrink > RoundUp(i.size)

freeIndex(x, k) == [FreeBlock(x, x.ip.blks[k]) EXCEPT !.ip.blks[k] = 0]

\* Frees block bn below root; the result says whether root itself is to go.
RECURSIVE indshrink(_, _, _, _)
indshrink(x, root, level, bn) ==
  LET o == bn \div pow(level - 1)
      done(r) ==
        [x |-> IF r.free # 0 THEN FreeBlock(BnumPut(r.x, root, o, 0), r.free) ELSE r.x,
         free |-> IF bn = 0 THEN root ELSE 0] IN
  IF root = 0 THEN [x |-> x, free |-> 0]
  ELSE IF root \notin Blk THEN [x |-> [x EXCEPT !.bad = TRUE], free |-> 0]
  ELSE IF level = 0 THEN [x |-> x, free |-> root]
  ELSE IF o >= NBLKBLK THEN [x |-> [x EXCEPT !.bad = TRUE], free |-> 0]
  ELSE done(indshrink(x, x.blk[root][o], level - 1, bn % pow(level - 1)))

\* Faulty variant: the index block stays.
FreeRootNever(r, at) == r.x

\* An index block that has lost its first block goes too.
FreeRoot(r, at) == IF r.free # 0 THEN freeIndex(r.x, at) ELSE r.x

\* One turn of Shrink's loop.
ShrinkOne(x) ==
  LET cut(y, bn, off) ==
        IF bn < NDIRECT THEN freeIndex(y, bn)
        ELSE IF off < NBLKBLK
        THEN FreeRoot(indshrink(y, y.ip.blks[INDIRECT], 1, off), INDIRECT)
        ELSE FreeRoot(indshrink(y, y.ip.blks[DINDIRECT], 2, off - NBLKBLK), DINDIRECT)
  IN  cut([x EXCEPT !.ip.shrink = @ - 1], x.ip.shrink - 1, x.ip.shrink - 1 - NDIRECT)

\* Faulty variant: no room is left.
ReserveNone == 0

\* Room for the inode, two bitmap blocks and the two index blocks.
Reserve == 5

RECURSIVE ShrinkLoop(_)
ShrinkLoop(x) ==
  IF IsShrinking(x.ip) /\ shrinkFits(x, Reserve) /\ ~x.bad THEN ShrinkLoop(ShrinkOne(x)) ELSE x

Shrink(x) == WriteInode(ShrinkLoop(x))

\* What Resize sets ShrinkSize to before anything is freed.
ShrinkFrom(old, new) == IF new < old THEN old ELSE new

\* Result: the transaction, and whether a shrinker thread has to go on.
Resize(x, sz) ==
  LET old == RoundUp(x.ip.size)
      new == RoundUp(sz)
      done(y) ==
        IF new >= old THEN [x |-> y, more |-> FALSE]
        ELSE IF shrinkFits(y, old - new) THEN [x |-> Shrink(y), more |-> FALSE]
        ELSE [x |-> y, more |-> TRUE]
  IN  done(WriteInode([x EXCEPT !.ip.size = sz, !.ip.shrink = ShrinkFrom(old, new)]))

-----------------------------------------------------------------------------
(* The end of a transaction.                                               *)

\* Blocks of the log the transaction takes; extra is for an inode bitmap block.
LogUse(x, extra) ==
  NDirty(x) + Cardinality({BitmapBlk[b] : b \in x.al \cup x.fr}) + extra

Fits(x, extra) == LogUse(x, extra) <= LogBlocks

\* PreCommit and a CommitWait that has room.
Committed(i, x) ==
  [ino |-> [disk.ino EXCEPT ![i] = x.img],
   blk |-> x.blk,
   bits |-> (disk.bits \cup x.al) \ x.fr]

\* Faulty variant: PostCommit is left out.
CommitNoPost(i, x, extra, wait) ==
  /\ ~x.bad
  /\ ip' = [ip EXCEPT ![i] = x.ip]
  /\ used' = used \cup x.al
  /\ IF Fits(x, extra)
     THEN /\ disk' = Committed(i, x)
          /\ durable' = IF wait THEN disk' ELSE durable
     ELSE UNCHANGED <<disk, durable>>

\* commitWait. When the transaction does not fit the log nothing reaches the
\* disk, but PostCommit gives the freed blocks back all the same.
Commit(i, x, extra, wait) ==
  /\ ~x.bad
  /\ ip' = [ip EXCEPT ![i] = x.ip]
  /\ used' = (used \cup x.al) \ x.fr
  /\ IF Fits(x, extra)
     THEN /\ disk' = Committed(i, x)
          /\ durable' = IF wait THEN disk' ELSE durable
     ELSE UNCHANGED <<disk, durable>>

\* The cached inode is not restored.
Abort(i, x) ==
  /\ ~x.bad
  /\ ip' = [ip EXCEPT ![i] = x.ip]
  /\ UNCHANGED <<disk, durable, used>>

Panic(bad) ==
  /\ bad
  /\ ok' = FALSE
  /\ UNCHANGED <<ip, disk, durable, used, shrinker>>

-----------------------------------------------------------------------------
(* The procedures.                                                         *)

READ(i, start, off, n) ==
  LET r == Read(Begin(i, start), off, n) IN
  /\ ip[i].kind = "reg"
  /\ \/ Panic(r.x.bad)
     \/ /\ Commit(i, r.x, 0, TRUE)
        /\ UNCHANGED <<shrinker, ok>>

\* FILE_SYNC and DATA_SYNC wait for the log, UNSTABLE does not.
WRITE(i, start, off, n, w, wait) ==
  LET r == Write(Begin(i, start), off, n, w) IN
  /\ ip[i].kind = "reg" /\ ~IsShrinking(ip[i]) /\ n < LogBlocks * NBLKBLK
  /\ \/ Panic(r.x.bad)
     \/ /\ r.ok /\ Commit(i, r.x, 0, wait)
        /\ UNCHANGED <<shrinker, ok>>
     \/ /\ ~r.ok /\ Abort(i, r.x)
        /\ UNCHANGED <<shrinker, ok>>

SETATTR(i, start, sz) ==
  LET r == Resize(Begin(i, start), sz) IN
  /\ ip[i].kind = "reg" /\ ~IsShrinking(ip[i])
  /\ \/ Panic(r.x.bad)
     \/ /\ Commit(i, r.x, 0, TRUE)
        /\ shrinker' = IF r.more THEN shrinker \cup {i} ELSE shrinker
        /\ UNCHANGED ok

\* CommitFh flushes the log, for a part of the file.
COMMIT(i, off, n) ==
  /\ ip[i].kind = "reg" /\ Plus(off, n) <= ip[i].size
  /\ durable' = disk
  /\ UNCHANGED <<ip, disk, used, shrinker, ok>>

\* doDecLink of the last link. No one waits for an earlier shrink here.
REMOVE(i, start) ==
  LET r == Resize(Begin(i, start), 0)
      x == WriteInode([r.x EXCEPT !.ip.kind = "free"]) IN
  /\ ip[i].kind = "reg"
  /\ \/ Panic(x.bad)
     \/ /\ Commit(i, x, 1, TRUE)
        /\ shrinker' = IF r.more THEN shrinker \cup {i} ELSE shrinker
        /\ UNCHANGED ok

\* AllocInode and InitInode: the size and the blocks stay as they were left.
CREATE(i, start) ==
  LET x == Begin(i, start) IN
  /\ ip[i].kind = "free" /\ ~IsShrinking(ip[i])
  /\ Commit(i, WriteInode([x EXCEPT !.ip.kind = "reg"]), 1, TRUE)
  /\ UNCHANGED <<shrinker, ok>>

\* One transaction of DoShrink by a procedure that finds the inode shrinking
\* (getShrink, getAlloc).
DoShrink(i, start) ==
  LET x == Shrink(Begin(i, start)) IN
  /\ IsShrinking(ip[i])
  /\ \/ Panic(x.bad)
     \/ Commit(i, x, 0, TRUE) /\ UNCHANGED <<shrinker, ok>>

\* The same by a shrinker thread, which panics when the commit fails.
ShrinkerStep(i, start) ==
  LET x == Shrink(Begin(i, start)) IN
  /\ i \in shrinker
  /\ \/ Panic(x.bad \/ ~Fits(x, 0))
     \/ /\ Fits(x, 0) /\ Commit(i, x, 0, TRUE)
        /\ shrinker' = IF IsShrinking(x.ip) THEN shrinker ELSE shrinker \ {i}
        /\ UNCHANGED ok

\* The journal writes its log in the background.
Flush ==
  /\ durable' = disk
  /\ UNCHANGED <<ip, disk, used, shrinker, ok>>

\* The inode cache drops inode i.
Evict(i) ==
  /\ ip' = [ip EXCEPT ![i] = disk.ino[i]]
  /\ UNCHANGED <<disk, durable, used, shrinker, ok>>

\* A crash and the restart: no shrinker thread is started for the inodes that
\* were shrinking.
Restart ==
  /\ disk' = durable
  /\ ip' = durable.ino
  /\ used' = durable.bits
  /\ shrinker' = {}
  /\ ok' = TRUE
  /\ UNCHANGED durable

Procedure(i, start) ==
  \/ "READ" \in Procs /\ \E off \in Offsets, n \in Counts : READ(i, start, off, n)
  \/ "WRITE" \in Procs /\ \E off \in Offsets, n \in Counts, w \in Data, wait \in BOOLEAN :
       WRITE(i, start, off, n, w, wait)
  \/ "SETATTR" \in Procs /\ \E sz \in Sizes : SETATTR(i, start, sz)
  \/ "COMMIT" \in Procs /\ \E off \in Offsets \cup {0}, n \in Counts \cup {0} : COMMIT(i, off, n)
  \/ "REMOVE" \in Procs /\ REMOVE(i, start)
  \/ CREATE(i, start)
  \/ DoShrink(i, start)
  \/ ShrinkerStep(i, start)

Next ==
  \/ ok /\ \E i \in Ino, start \in Starts : Procedure(i, start)
  \/ ok /\ \E i \in Ino : Evict(i)
  \/ ok /\ Flush
  \/ Restart

Spec == Init /\ [][Next]_vars

-----------------------------------------------------------------------------
(* Properties.                                                             *)

\* Block bn of a file, 0 for a hole: what bmap computes, without allocating.
BlockAt(inode, blk, bn) ==
  LET get(b, k) == IF b = 0 THEN 0 ELSE blk[b][k]
      off == bn - NDIRECT - NBLKBLK IN
  IF bn < NDIRECT THEN inode.blks[bn]
  ELSE IF bn - NDIRECT < NBLKBLK THEN get(inode.blks[INDIRECT], bn - NDIRECT)
  ELSE get(get(inode.blks[DINDIRECT], off \div NBLKBLK), off % NBLKBLK)

Content(inode, blk) ==
  [k \in 1 .. inode.size |->
     LET b == BlockAt(inode, blk, (k - 1) \div NBLKBLK)
     IN  IF b = 0 THEN 0 ELSE blk[b][(k - 1) % NBLKBLK]]

\* The pointers of an inode's tree: <<inode or 0, index block or 0, position, block>>.
Ptrs(i, inode, blk) ==
  LET top == {<<i, 0, k, inode.blks[k]>> : k \in 0 .. DINDIRECT}
      below(b) == IF b = 0 THEN {} ELSE {<<0, b, k, blk[b][k]>> : k \in 0 .. NBLKBLK - 1}
      lower == below(inode.blks[INDIRECT]) \cup below(inode.blks[DINDIRECT])
      lowest == UNION {below(p[4]) : p \in below(inode.blks[DINDIRECT])}
  IN  {p \in top \cup lower \cup lowest : p[4] # 0}

AllPtrs(inodes, blk) == UNION {Ptrs(i, inodes[i], blk) : i \in Ino}

\* inodes, with the blocks of d, form trees that share no block, in which every
\* block is marked allocated in the bitmap and nothing else is.
Trees(inodes, d) ==
  LET ps == AllPtrs(inodes, d.blk) IN
  /\ \A p \in ps : p[4] \in Blk
  /\ \A p, q \in ps : p[4] = q[4] => p = q
  /\ {p[4] : p \in ps} = d.bits

\* No two files, nor two places of a file, share a block, no block in use is
\* free and no block is lost: on disk, after a crash, and in the trees whose
\* roots are the cached inodes (bmap, Shrink, Abort, PostCommit).
TreesConsistent ==
  Trees(disk.ino, disk) /\ Trees(durable.ino, durable) /\ Trees(ip, disk)

\* The in-memory allocator and the bitmap on disk agree between transactions.
AllocatorMatches == used = disk.bits

\* A tree has no block past the end of the file, or past what is still to be
\* shrunk: so an inode that is reused starts without blocks, and a file that
\* grows again reads as zero there (Shrink, indshrink, Resize).
NothingPastEnd ==
  \A i \in Ino :
    LET e == IF IsShrinking(ip[i]) THEN ip[i].shrink ELSE RoundUp(ip[i].size) IN
    /\ \A bn \in e .. NDIRECT + NBLKBLK + pow(2) - 1 : BlockAt(ip[i], disk.blk, bn) = 0
    /\ e <= NDIRECT => ip[i].blks[INDIRECT] = 0
    /\ e <= NDIRECT + NBLKBLK => ip[i].blks[DINDIRECT] = 0

\* READ returns what the file holds at that offset, whatever holes it has to
\* fill on the way and while the rest of the file is still shrinking.
ReadReturnsFile ==
  \A i \in Ino, start \in Starts, off \in Offsets, n \in Counts :
    LET f == Content(ip[i], disk.blk)
    IN  Read(Begin(i, start), off, n).data = SubSeq(f, off + 1, Min2(off + n, Len(f)))

\* No procedure trips over an assertion or over the size of the log.
NoPanic == ok

\* The block trees implement files that are sequences of words.
File == INSTANCE FileSpec WITH
  file <- [i \in Ino |-> Content(ip[i], disk.blk)],
  stable <- [i \in Ino |-> Content(durable.ino[i], durable.blk)]

ImplementsFileSpec == File!Spec
=============================================================================
