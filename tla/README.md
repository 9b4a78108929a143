# go-nfsd in TLA+

A verification project for GoNFS (`src/`), an NFSv3 server that keeps its file
system on a disk through GoJournal. The modules model the allocation
transactions, the inode cache, the name-space procedures with their locks and
caches, the slots and listings of a directory, the block trees of files, the
threads that free the blocks of truncated files, the life of the server process
with the creation and recovery of the file system, and the simple server that
the repository has beside GoNFS. TLC checks them on small instances. TLAPS proves
the safety properties of all but the block trees and RENAME between directories
for every instance: of the allocation transactions, the inode cache, the
name-space procedures with their locks, the contents and listings of a directory,
the shrinker, the server process, and that the simple server, the directory and
the inode cache implement their specifications.

## The system

| Part | State | Operations | Model |
| --- | --- | --- | --- |
| Allocation transactions (`alloctxn/`, `fstxn/commit.go`) | bitmaps on disk, bitmaps in memory, the four lists of numbers allocated and freed | Begin, AllocINum, AllocBlock, FreeINum, FreeBlock, PreCommit, PostCommit, PostAbort, the commits, Abort | `AllocTxn` |
| Transactions and inode locks (`fstxn/`) | lock map, inodes held | LockInode, GetInodeLocked, GetInodeInum, GetInodeFh, ReleaseInode, AllocInode | `AllocTxn`, `Icache`, `Namespace` |
| Name-space procedures (`nfs/nfs_ops.go`, `nfs/lorder.go`) | directories, link counts, generations | LOOKUP, CREATE, MKDIR, SYMLINK, REMOVE, RMDIR, RENAME, READDIRPLUS | `Namespace` |
| Directories and their caches (`dir/`, `dcache/`, `nfs/nfs_ls.go`) | slots, Dcache, Lastoff, cookies | LookupName, AddName, RemName, InitDir, IsDirEmpty, mkDcache, Apply, ApplyEnts, READDIR, READDIRPLUS | `Dir`, promise in `DirSpec` |
| Inode cache (`cache/`) | entries, LRU list, count | LookupSlot, evict | `Icache`, promise in `InodeTxn` |
| Files (`inode/inode.go`, `inode/shrink.go`) | size, ShrinkSize, block tree | bmap, Read, Write, Resize, Shrink | `Inode`, promise in `FileSpec` |
| File procedures (`nfs/nfs_ops.go`) | | READ, WRITE, SETATTR, COMMIT, REMOVE, CREATE | `Inode`, `Shrinker` |
| Shrinker threads, shutdown (`shrinker/`, `nfs/nfs.go`) | nthread, crash, condShut | StartShrinker, DoShrink, Shutdown, Crash | `Shrinker` |
| Creation and recovery (`nfs/nfs.go`, `super/`, `fstxn/fsstate.go`) | layout, root inode, bitmaps, allocators | MakeNfs, makeFs, markAlloc, MkFsState, makeRootDir | `Super`, `Server` |
| Server process (`cmd/go-nfsd/main.go`) | portmapper, listener | registration, accept loop, signals, deferred calls | `Server` |
| Simple server (`simple/`) | files of one block each, lock map | GETATTR, SETATTR, READ, WRITE, COMMIT, Mkfs, MakeNfs, Recover | `SimpleNfs`, promise in `SimpleSpec` |
| Key-value store (`kvs/`) | | MultiPut, Get | not modelled |
| Journal, lock map, bitmap allocator (GoJournal) | | | external |

How they interact. A procedure begins a transaction, locks inodes, changes
cached inodes and journal buffers, and commits or aborts. Inode and block
numbers are taken from an allocator in memory at once; their bits go to disk
with the transaction, and freed numbers go back to the allocator after the
commit. When a procedure needs an inode with a smaller number than one it
holds, it aborts, locks both in order and looks again whether the names still
mean the same. A truncation that is too large for one transaction is finished by
a goroutine; the next procedure that changes the file helps first.

What is hard here: the window between the release of the locks and the return of
freed numbers, commits that are visible before they are durable, aborts that
leave caches changed, names and handles that go stale while locks are dropped,
the order of locks, blocks that are zero only because everybody who frees one
clears it, transactions that must fit the log, and the race of shrinkers,
helpers, removals and reuse of inodes; cache entries evicted while in use;
directories that change between the calls of a listing; a process that dies
between two writes of `makeFs` or two registrations. `PROJECT.json` lists these hazards line
by line.

## Modules

| Module | Content |
| --- | --- |
| `AllocTxn` | transactions that allocate and free numbers, with locks, commit, abort, flush, crash |
| `AllocTxnProofs` | its inductive invariant and six theorems |
| `Namespace` | the name-space procedures of concurrent threads |
| `NamespaceProofs` | its inductive invariant and six theorems |
| `LockOrderProofs` | that its locks cannot deadlock, from that invariant |
| `Dir` | the slots of a directory, its Dcache, clients that list it; shown to implement `DirSpec` |
| `DirSpec` | abstract: a directory is a map from names to numbers |
| `DirProofs` | the inductive invariants of `Dir` and four theorems, one the refinement |
| `Icache` | the LRU cache of inodes and the transactions that use it, shown to implement `InodeTxn` |
| `InodeTxn` | abstract: transactions on inodes without a cache |
| `IcacheProofs` | the inductive invariant of `Icache` and two theorems, one the refinement |
| `Super` | the layout of the disk |
| `Server` | the server process: `Icache` and `Super` composed with the allocators, start, shutdown and crash |
| `ServerProofs` | its inductive invariants and five theorems |
| `FileSpec` | abstract: files are sequences of words, changes of size are durable at once, writes at once or later, a crash goes back in time |
| `Inode` | block trees and the file procedures, shown to implement `FileSpec` |
| `Shrinker` | shrinker threads, helping procedures, going down and coming up |
| `ShrinkerProofs` | its inductive invariants and six theorems |
| `SimpleSpec` | abstract: atomic calls on files, a crash undoes no answered call |
| `SimpleNfs` | the simple server, shown to implement `SimpleSpec` |
| `SimpleNfsProofs` | its inductive invariant, the refinement and two more theorems |
| `MCAllocTxn`, `MCNamespace`, `MCDir`, `MCServer`, `MCInode`, `MCShrinker`, `MCSimpleNfs` | instances for TLC |

The modules divide the work by what they treat as one step.

**AllocTxn** interleaves everything: every call that touches the allocator, the
lock map or the disk is an action, and the loops of `PostCommit` and `PostAbort`
are one action per iteration. An inode is the set of numbers it refers to; block
contents are only zero or not zero. `AllocNum` is both `AllocINum` and
`AllocBlock`, which do the same with two lists; `Link` and `WriteBlock` are what
the inode code does with the number. `ip` is what the holder of an inode sees:
the cached inode and, through the transaction's buffers, its index blocks.
`GetInodeLocked` finds it in the cache or reads it from the disk. When a
transaction is aborted or refused by the log, what it put in index blocks is gone,
but what it put in the inode stays in the cache; where a number was is left open,
so any part of the change may stay (`Kept`). `StaleHits` says whether a later
transaction may find such an inode in the cache. The journal is external: a commit replaces
the committed state in one step, `durable` is the committed state that a crash
leaves, and `Flush` may make the two equal at any time. `Restart` is a power
failure and the `MkFsState` after it.

**Namespace** has one step per lock acquisition, together with what the code
does up to the next one; the body under all locks with its commit is one step,
and `PostCommit`/`PostAbort`, which run after the locks are gone, are another
(`Post`). The disk holds kind, generation, link count and entries of each inode.
The inode cache holds the same with the directory cache (`dc`), so that the two
can disagree. `mkDcache` starts a scan (`scan`) that locks the entries one by
one as `dir.Apply` does. Entries are scanned in any order, which includes the
code's order of offsets. SYMLINK is CREATE with a file that has contents at once.
With `DotNames`, clients also send requests for `.` and `..`, which LOOKUP answers
and the others refuse, or not, as the code does.

**Dir** has the slots, one after the other, and treats a procedure as one step,
since it holds the directory's lock throughout. Offsets are counted in slots,
names have lengths, and the sums of `Apply` and `ApplyEnts` are those of the
code. `slots` is what is committed; the Dcache is changed at once and keeps what
an aborted procedure did to it, what an evicted inode loses, and what a removed
directory leaves to the next one with its number. A client lists in several
calls; `owed` and `had` record what it must still get and must not get again.
Growing a directory with SETATTR is left out; shrinking it is in, see below.

**Icache** has a step for `LockInode` (the lock, and the slot under the cache's
mutex), one for reading the inode into the slot, one for a change with its
`WriteInode`, one for an early `ReleaseInode`, and one for the commit or abort with
the release of all locks. An entry is
the Go object the map, the list and the transactions point to, so a transaction
may hold one that is no longer in the map. `InodeTxn` is the same without cache:
a transaction reads each inode from disk when it has locked it.

**Server** follows the main goroutine from `Listen` to the last deferred call and
adds to `Icache` the blocks: an inode's contents is the block it has or 0.
`Super` computes the areas and the bits of the bitmap from the size. `makeFs` and
the three writes of `markAlloc` are steps of their own, straight to the disk, and
`Crash` may come between any two. `makeRootDir` and the requests are transactions
of `Icache`. That `MkLog` has installed the log when it returns is an assumption
about GoJournal, without which `MakeNfs` would read stale blocks. rpcbind keeps
the mappings of a killed process until somebody unsets them. Any call to it may
fail, with or without its effect; a mapping that is there after a failed call is
`"left"`, one that this process has made and not yet asked to be removed is `"own"`.

**Inode** treats a procedure as one step, since it holds its inode from the first
look to the commit and shares with others only the allocator, whose
interleavings are in `AllocTxn`. The unit is the 8-byte word, so that a block is
`NBLKBLK` words and an index block is an ordinary block; a word is zero, a block
number or data. `bmap`, `indbmap`, `Read`, `Write`, `Resize`, `Shrink` and
`indshrink` are recursive operators on a transaction record with its dirty
buffers counted, so that the size of the log matters. Sums wrap at `Wrap` where
the code's wrap at 2^64. WRITE may wait or not; READ fills holes and so writes, as
in the code.

**Shrinker** treats a transaction on an inode as one step and a file as the set
of its block offsets; `Room` blocks can be freed in one transaction. `Crash` is
`nfs.Crash`, which makes threads stop early, not a power failure. `Slot` bounds
the number of goroutines.

**SimpleNfs** has a step for each place where a call of the simple server can be
overtaken or cut off: its start, the lock, the procedure itself (the `_wp`
functions), the commit, the flush it waits for, the release with the reply. A
block is a function from offsets to bytes, a write copies one byte value, and a
request says whether WRITE's count matches its data and whether SETATTR sets the
size. Sums are not 64 bits wide: where they would wrap, `SumOverflows` or the
comparison with the block size refuses the request as well. `Mkfs` and `MakeNfs`
commit `inodeInit`, which a crash may lose; `Recover` needs a disk on which one
of them has returned. A transaction without changes does not wait in CommitWait,
and CommitWait may refuse any transaction.

## Runs

The number of distinct states is what TLC reports; the longest run takes about three
minutes.

| Run | Instance | Shows | States |
| --- | --- | --- | --- |
| `alloc_txn` | 2 transactions, 2 inodes, 2 numbers | numbers are never shared, lost or reused too early; what a crash leaves is consistent; new blocks are zero, though aborted and refused transactions leave inodes changed in the cache | 972,402 |
| `names` | 2 threads, 3 inodes, 2 names, nested directories | no deadlock, no panic, nothing is done to a name or handle that went stale | 809,222 |
| `flat` | 2 threads, 1 directory, cold caches, eviction, restart, full disk | caches and inode allocator agree with the disk, with symbolic links and requests for `.` and `..` | 484,336 |
| `rename` | 2 threads, 2 directories, 2 files | RENAME keeps one name for an inode and takes its four locks without deadlock | 289,669 |
| `dir` | 1 directory of up to 5 slots, 2 names, 1 client that lists | the Dcache answers as the slots would, a map is implemented, a listing gives every entry once and ends | 19,444 |
| `server` | 3 threads, 3 inodes, a cache of 2, disks of 10, 15 and 17 blocks | cached inodes are current, the cache cannot be noticed, the bitmap marks what is in use, the server serves only when ready and leaves no mapping unless rpcbind fails | 352,166 |
| `tree` | 1 file with 3 direct, 2 indirect, 4 double indirect blocks, a log of 9 | trees stay trees, reads are right across holes and regions, a shrink fits the log, `FileSpec` is implemented | 6,447 |
| `full` | 2 files, 3 blocks | `FileSpec` is implemented and the allocator agrees with the disk when blocks run out and are reused | 15,972 |
| `reshrink` | 1 inode, 2 procedures, 2 threads | nothing is left past the end, threads are counted, none survives the shutdown | 570,078 |
| `reallocate` | 1 inode, 2 procedures, 2 threads, fairness | a reused inode is empty; shrinks complete, shutdown returns | 19,917 |
| `simple` | 2 clients, 2 files, blocks of 3 bytes | calls are atomic, replies right, answered effects survive; nobody reads what a crash would undo | 163,247 |
| `lock_order` | 2 threads, 3 inodes for one RENAME | a disagreement, see below | |

Each module has a `TypeOK` that says what its variables hold. It is proved for
`AllocTxn`, `Shrinker`, `SimpleNfs`, the variables of `Icache` and, as part of its
invariant, `Namespace`; the runs check the properties that say more. A shrink that does not fit the log is a panic of
the shrinker, so `NoPanic` in `tree` is about that, too.

Bounds. Two transactions or threads are enough for each pair of steps to meet in
any order, and the locks the properties are about are pairwise; a third thread
would matter for fairness among waiters, which nothing here claims. Two inodes
beside the root give a child with a larger and, after reuse, with a smaller
number than its parent. `MaxGen` = 3 lets an inode be reused with an old handle
around. In `tree` the file crosses both boundaries (`NDIRECT`, `NDIRECT +
NBLKBLK`), a truncation from 9 blocks does not fit the log of 9 and goes to a
thread, and `MaxFileSize` is below the end of the tree as it is in the code, so
the last blocks are reached by SETATTR and READ only. In `full` three blocks
serve two files of up to three. In `simple` three bytes give an end of the file
before, at and past the end of the block, and the second file a second call for
one flush. In `dir` the names are one byte long and as long as a slot allows, the
counts give replies of two entries, and three numbers for two names let a slot be
reused under the same name. In `server` the cache of two is one smaller than the
inodes, and four entries let evicted ones be in use beside those in the map; a
disk of 10 blocks is too small for its areas, so that `markAlloc` panics, one of 15
has its bitmap in one block, one of 17 in two.

`MCAllocTxn` gives TLC a view (`LiveView`) without the inodes that no running
transaction holds: with `StaleHits` = FALSE the next one that locks such an inode
has the committed one, so the view tells all states apart that differ in what can
follow.

What the passing instances leave out, because of the disagreements below: in
`alloc_txn` the log refuses no transaction that frees numbers (`FreesFit`), and an
inode that an aborted or refused transaction has left changed in the cache is
evicted, or the server restarted, before it is locked again (`StaleHits` =
FALSE); the directories in `names` have their caches (`ColdCaches` = FALSE); `rename` starts
from inode numbers whose order suits `lockInodes`, and has no removal of
directories; `full` has direct blocks only; the logs of `tree` and `full` are large enough for
every WRITE; `tree` and `full` truncate at block
boundaries and keep sizes within the tree and sums below `Wrap`; `tree` has no
REMOVE and `reallocate` no SETATTR; only `flat` has requests for `.` and `..`; in
`dir` a directory is removed when empty, is not cut by SETATTR, and a RENAME away
from it does not run out of blocks; in `server` no transaction is aborted or refused
with a changed inode, and a disk whose `makeFs` was cut off is not started again.
Deadlock is not checked in `rename` and `lock_order`, where a panic stops
the server for good, nor in `dir` and `server`, where clients may stop. `NoDeadlock` states the absence of waiting cycles directly.

Fairness (`FairSpec` of `Shrinker`): weak fairness of each shrinker thread, of
each procedure once called, and of the thread that waits in `Shutdown` or
`Crash`. A goroutine that can run is run by the Go scheduler. Nothing makes a
client call or the server go down. In `Dir`, a client that has begun to list goes
on until it is told that it is at the end or that its handle is stale; nothing
makes others change the directory or stop.

## Known disagreements between code and comments

`lock_order` is a run whose property TLC refutes; `PROJECT.json` quotes the line.
`lockInodes` sorts with a comparison on the wrong slice, so three inodes may be
locked out of order. A RENAME over a file and a LOOKUP wait for each other.

The others need a change to a configuration to be seen.

| Code | Instance | Property refuted |
| --- | --- | --- |
| `fstxn/commit.go:15` runs `postCommit` although the log refused the transaction; "On-disk bitmap has been updated" (`alloctxn/alloctxn.go:89`) is then wrong | `MCAllocTxn.cfg` with `FreesFit = FALSE` | `AllocatorCoversDisk` |
| `fstxn/fstxn.go:92` takes the inode it finds in the cache, which an aborted (`fstxn/commit.go:46`) or refused (`:15`) transaction may have left with numbers that are free again | `MCAllocTxn.cfg` with `StaleHits = TRUE` | `CrashConsistent`, and each of the other four |
| `dir/dir.go:131` locks entries under the directory's lock; two LOOKUPs, in a directory and in its parent, wait for each other ("XXX inode locking order violated") | `MCNames.cfg` with `ColdCaches = TRUE`, `Rpcs = {"LOOKUP"}`, `InitDisk <- SubDir`, no deadlock check | `NoDeadlock` |
| `nfs/nfs_ops.go:637` locks the two directories of a RENAME by number and compares generations only when the target name exists; "Caller must revalidate inodes" (`nfs/lorder.go:16`) | `MCRename.cfg` with `Inum = {1, 2, 3}`, `Rpcs = {"MKDIR", "RMDIR", "RENAME"}`, `MaxGen = 4`, `InitDisk <- SubDir` | `StaleHandleRefused` |
| `nfs/nfs_ops.go:684` indexes the nil that `lockInodes` returns when an inode was removed meanwhile | `MCRename.cfg` | `NoPanic` |
| `fstxn/commit.go:46` does not undo what RENAME to a too long name did to the directory cache | `MCRename.cfg` with `Name = {"a", "l"}`, `LongName = {"l"}`, `Rpcs = {"RENAME"}` | `CacheMatchesDisk` |
| `nfs/nfs_ops.go:409` raises the parent's link count before MKDIR's AddName fails | `MCFlat.cfg` with MKDIR for READDIRPLUS, `ColdCaches = FALSE` | `CacheMatchesDisk` |
| `inode/inode.go:172` keeps the rest of the last block of a file cut inside a block; growing it shows the old words | `MCTree.cfg` with `Sizes = {7, 9}` | `ImplementsFileSpec` |
| `inode/inode.go:175` sets ShrinkSize to the smaller size when a file that is still shrinking is removed; the blocks above stay in the tree | `MCTree.cfg` with `NB = 12`, `NDIRECT = 1`, `Offsets = {1, 5, 7, 11}`, `Counts = {3}`, `Sizes = {0, 4, 14}`, `Starts = {1}`, REMOVE added | `NothingPastEnd` |
| `fstxn/commit.go:46` leaves in the cached inode of an aborted WRITE an index block that was given back; another file's data ends up in it and is taken for block numbers | `MCFull.cfg` with `NDIRECT = 1`, `NBLKBLK = 2`, `LogBlocks = 20`, `Offsets = {0, 2}`, `Counts = {2}`, `Sizes = {0}`, `Starts = {1}`, WRITE and SETATTR | `NoPanic` |
| `fstxn/commit.go:46` and `:15`, the same for any inode that an aborted or refused transaction has changed | `MCServer.cfg` with `DirtyAborts = TRUE` | `CacheCurrent` |
| `inode/inode.go:142`: Resize does not compare the size with `MaxFileSize`, and bmap panics past the end of the tree | `MCTree.cfg` with `Sizes = {20}` | `NoPanic` |
| `inode/inode.go:309`: `offset+count` wraps and passes the comparison with `MaxFileSize` | `MCTree.cfg` with `Wrap = 64`, `Offsets = {62}` | `NoPanic` |
| `nfs/lorder.go:24` locks an inode twice that a RENAME names in two roles | `MCRename.cfg` with `DotNames = TRUE`, `Rpcs = {"RENAME"}` | `NoDeadlock` |
| `nfs/nfs_ops.go:523` returns no transaction for `.` and `..`, and the caller uses it | `MCNames.cfg` with `DotNames = TRUE` | `NoPanic` |
| `nfs/nfs_ops.go:533`: REMOVE also takes a directory with entries away; its Dcache serves the next directory with that number | `MCDir.cfg` with `RemoveAny = TRUE` | `ImplementsDirSpec` |
| `nfs/nfs_ops.go:112` cuts a directory like a file and leaves its Dcache | `MCDir.cfg` with `DirSizes = {2, 5}` | `LookupMatchesScan` |
| `fstxn/commit.go:46` does not undo what a RENAME to a directory without room did to the Dcache of the source | `MCDir.cfg` with `OthersFull = TRUE` | `LookupMatchesScan` |
| `dir/dir.go:138`: cookie 0 is both the slot of `.` and the start, so replies of one entry give `.` again and again | `MCDir.cfg` with `Counts = {97}` | `ListedOnce` |
| `dir/dcache.go:13` stops at a fixed number of bytes, and the Dcache lacks the names after it (at 132 bytes and the name per entry, from some 400,000 entries on) | `MCDir.cfg` with `CacheMax = 300` | `LookupMatchesScan` |
| `nfs/nfs.go:90` writes the root inode before the bitmaps; after a crash between them the next start takes the file system for made | `MCServer.cfg` with `MkfsRetried = TRUE` | `ServesReady` |
| `nfs/nfs.go:74` ignores that MkRootDir found no block | `MCServer.cfg` with a size of 14 | `ServesReady` |
| `inode/inode.go:182` ignores that Shrink did not finish; nobody continues | `MCReshrink.cfg` | `ShrinkingHasThread` |
| `inode/shrink.go:69` keeps room for two bitmap blocks; with four and a last turn that dirties two more blocks a transaction has 507 + 1 + 4 blocks, the log 511 | `MCTree.cfg` with `NB = 8`, `NDIRECT = 1`, `NBLKBLK = 3`, `LogBlocks = 11`, `BitmapBlk <- FourBitmaps`, `Offsets = {18, 21, 24, 27}`, `Counts = {3}`, `Sizes = {0}`, WRITE and SETATTR | `NoPanic` |

## Proofs

`AllocTxnProofs`, for any sets of transactions, inodes and numbers, with
`NoTxnAssumption` and under two assumptions: `FreesFit` (a transaction that frees
numbers is not refused by the log) and `~StaleHits` (no transaction finds in the
cache an inode that an aborted or refused one has left changed). The table above
shows that none of the five properties survives without the second, nor
`AllocatorCoversDisk` without the first:

- `CrashSafety`: the committed state and the state a crash would leave are
  consistent: one owner for a number, owned numbers are marked, unmarked blocks
  are zero.
- `ExclusiveAllocation`, `FreshZero`, `AllocatorCovers`, `NoLeak`, `TypeCorrect`.

None of the properties is inductive alone. `IInv` adds to `CrashConsistent` three
conjuncts. `Claims`: each number taken in memory is taken for exactly one reason:
its bit is set, a failed commit lost it, or one transaction is still to return it
or to set its bit. `Buffers`: a transaction's buffers mention only numbers it
allocated or that belong to inodes it has locked, and two inodes it holds have no
number in common. `Cached`: only a running transaction has changed inodes, and
what it holds unchanged is the committed inode; this is where `~StaleHits` is used,
and what lets an abort leave anything in the cache. `Claims` needs `Buffers` for a commit, where frees become pending;
`CrashConsistent` needs all three. There is a lemma for each action, and
`Invariance` combines them.

`ShrinkerProofs`, for any sets of inodes and procedures, any finite `Slot`, and
any `MaxBlocks`, `Room`, `FitsLimit`:

- `TypeCorrect`.
- `ThreadsCounted`: `nthread` is the number of shrinker threads.
- `ShutdownWaits`: with `Quiesce` (no procedure is running when the server is
  shut down), no shrinker thread is left when the log is shut down.
  `cmd/go-nfsd/main.go` does not wait for its connections, so this is an
  assumption about its use.

- `TailsAreFreed`: a file that is not shrinking has no block past its end, when
  clients do not both set sizes and remove (the table above: REMOVE of a file
  that is still shrinking forgets blocks).
- `ReuseFindsEmpty`: for the same clients, the inode that CREATE takes has no size
  and no block.
- `ForgottenOnlyByRemove`: for any clients, the step after which a file has a block
  past its end unrecorded is a REMOVE of a file that is still shrinking. The
  assumption of the other two is therefore the only one they need.

The invariant for the threads is `TypeOK`, `CountExact` and `Drained`: once the main
thread has passed the wait of a quiet server nothing can start a thread. The one
for the blocks, `TInv`, adds `NothingPastEnd` and `SizesKept`: an inode that is not
in use has size 0, and without SETATTR a file in use is never shrinking.

`IcacheProofs`, for any inodes, threads, contents and size of the cache, under
`~DirtyAborts` (no transaction is aborted, or refused by the log, when it has
changed an inode):

- `CacheIsCurrent`: an inode in the map of the cache that nobody has locked is the
  committed one, and one that a transaction holds is the committed one with the
  transaction's changes.
- `CacheRefinesTxn`: `Icache` implements `InodeTxn`.

`IInv` says besides that a transaction's entries belong to inodes it has locked
(`LocksMatch`), that an entry in use has the inode's number (`IdsMatch`), that no
two in use have the same (`OneEntry`), and that a slot just looked up is empty or
current (`GettingCurrent`). Eviction is what makes them necessary: the entry
leaves the map, and only the lock keeps a second one from being filled.

`ServerProofs`, for any sizes of the disk and of its areas:

- `MappingsRemoved`: a process that ends by itself, on whatever path of main, has
  asked rpcbind to remove each mapping that it has made. It leaves one behind only
  when a call about it failed, which main does not look at in the deferred calls
  (`main.go:109`, `:116`).
- `BitmapIsExact`, `AllocatorIsExact`: under `~DirtyAborts` and `~MkfsRetried`, the
  bitmap on disk marks exactly the metadata, the bits past the end and the blocks
  of inodes, and the allocator in memory differs from it by what open transactions
  have allocated.
- `ServerRefinesTxn`: under the same assumptions, the composed server implements
  `InodeTxn`. Each step of it is a step of `Icache` or leaves the cache alone.
- `ServesWhenReady`: under the same assumptions and on disks that are not exactly
  full of their own tables (the table above), a process that serves has a root
  directory, allocators that keep the null and the root inode, and its mappings.

`SInv` adds to `IInv` `Pending` (the blocks of open transactions are data blocks
that nobody else has) and `Stage` (what each write of `makeFs` and `markAlloc` has
left on disk when the next one is due). `Layout` and `MarkAllocExact` are the
arithmetic of `Super`: the three writes together mark what is not a data block.

`SimpleNfsProofs`, for any clients, number of inodes, block size, bytes and
requests (`SimpleAssumption` gives their types):

- `Refinement`: `SimpleNfs` implements `SimpleSpec`. The files of `SimpleSpec` are
  those of the durable disk. A call that changes something takes effect when the
  log is flushed, together with the other calls that wait; one that only reads or
  fails, at its own step.
- `Durability`, `TypeCorrect`.

`IInv` there says that a call past `Acquire` holds its lock (`LockInv`); that a
file nobody waits for is the same on the disk and on the durable disk
(`ReadsAreDurable`); that a transaction about to commit is what the procedure
computes from the disk as it is now, and one that waits, what it computes from
the durable disk (`TxnInv`); and that the inodes have their blocks before the
server is up (`PhaseInv`). `WpRefines` relates each procedure, on an inode and a
block, to its effect and reply on a file.

`NamespaceProofs`, for any finite set of inodes, any names, threads, procedures
and bound on generations, and any tree to begin with (`InitDiskAssumption`: a
directory has `.` and `..`, names are different and name inodes in use, an inode
has one name, a parent that could be removed has a link for its subdirectory).
All theorems assume `NoRename` (RENAME is not among the procedures) and
`CleanMkdir` (MKDIR is not used together with REMOVE, a full disk, arbitrary
handles or names too long for a slot). The table above and `lock_order` show why:
RENAME locks out of order, trusts what it read before it had its locks, and indexes
nil; a MKDIR that fails leaves a link count in the cache, and a directory that
REMOVE has freed leaves its names in the directory cache to the next MKDIR.

- `DiskNamesConsistent`: a committed name never refers to a free inode, and no
  inode has two names.
- `CachesCurrent`: a cached inode nobody has locked, with its directory cache, is
  the one on disk, through cold caches, evictions, aborts and restarts.
- `AllocatorIsSound`: the allocator never offers an inode that is in use.
- `LookupsAreCurrent`: a LOOKUP that gave up its locks to take them in order
  answers what the directory says when it answers.
- `StaleHandlesRefused`: a handle of a removed inode is not accepted again.
- `NeverPanics`: no panic, unless clients remove `.` or `..`, which the code lets
  pass (`DotNames` without REMOVE and RMDIR, or no `DotNames`).
- `DeadlockFree` (in `LockOrderProofs`): no cycle of waiting threads, with directory caches that are
  there (`~ColdCaches`) and no READDIRPLUS, whose scans lock out of order.

`NInv` is `TypeOK`, the tree on disk, `AllocOK` (a number is
taken in the allocator when the inode is in use or when one thread has it: a
CREATE that allocated it, or a removal that committed and whose `Post` is still to
come), `CacheOK` (a cached inode is the
committed one, whoever has it locked: a procedure changes it in the step of its
commit), `HandleOK` (a handle is never newer than its inode), and `ThreadOK`:
where a thread is (`Place`), what it was asked (`Asked`), and what it knows then
(`Knows`: which inodes it has locked, and that the number it has read for a name is still
what the directory says while it has that directory locked). There is a lemma
per action for the acting thread; `Untouched` is what the others need to know of
the step to keep their own `ThreadOK`. `WaitsUpwards` is the reason for
`DeadlockFree`: a thread waits for an inode larger than those it holds, or for a
new one, which nobody holds; the thread that waits for the largest is waited
for by no cycle.

`DirProofs`, for any names up to the length a slot holds, any numbers, sizes and
generations. `Regular` leaves out the instances of the table above: directories
removed with entries, cut with SETATTR, or left half changed by a RENAME to a full
one, and a `CacheMax` that the largest directory exceeds.

- `LookupsMatchScan`: the directory cache answers as a scan of the slots would.
- `RenamesReuseSlots`: a directory grows only in a step that adds an entry and
  takes none away.
- `ImplementsMap`: `Dir` implements `DirSpec`.
- `EntriesListedOnce`: a listing gives every entry that was there all the time
  once. It assumes also `Roomy`: counts above 97, or above 9 and 197, which leave
  room for an entry after `.`, whose cookie 0 means the start.

`DirInv` says that `.` and `..` are in the first two slots and names are different
(`GoodSlots`), and that the Dcache has exactly the used slots (`Exact`); of a free
inode, that its Dcache has at most the two dots, which `InitDir` overwrites.
Slot 0 never being free is what lets `AddNameDir` use offset 0 for none. `Changes`
lists what a procedure may do to the slots: add a new name, free a slot, put
another number into one, or rename one and free the target. All four theorems
rest on it. For the listing, `ListInv` says that what the client has is in slots up to the
cookie and what it is owed in slots after it; `KeepsPlace` says that an entry that is there
before and after a change is in the same slot. That `mkDcache` does not stop
early is a bound on the counters of `Apply` (`RunningBound`), an induction on the
slots. The installed provers cannot use the induction theorem of the library,
which has an operator as its parameter. `Everything` is the same for a set: the
least number outside it, which exists because `<` is well-founded, would be
neither 0 nor a successor.

Only model-checked: liveness (`ShrinkCompletes`, `ShutdownReturns`, `ListingEnds`);
everything of `Inode`, whose operators are `RECURSIVE`, with its refinement of
`FileSpec`; and RENAME in `Namespace`, for the instance of `rename`.

## Not modelled

Times, owners and modes; the byte encodings of inodes, handles, directory
entries and RPCs; procedures that only read attributes, and the mount protocol,
which change nothing; growing a directory with SETATTR; the constant procedures
of the simple server, and the memory its SETATTR takes for the zeros; the
benchmarks, counters and other commands. The key-value store has no state beside
the journal: each of its two calls is one transaction, so a model of it would say
again what is assumed of GoJournal. `PROJECT.json` gives the reason for each
part.

## Composition

Composition is by layers. `AllocTxn` justifies the atomic transactions of the
other modules, `InodeTxn` that they may leave the inode cache out where nothing
is aborted or refused with a changed inode, `Inode` the sets of blocks of `Shrinker`, `FileSpec`
what a user of files may rely on, and `DirSpec` the sets of entries of
`Namespace`. `Server` puts cache, layout and allocator together in one module.

What could follow: `NamesConsistent` with a RENAME within one directory, proved;
the block trees of `Inode` as functions on paths, to reason about them; holes in
a directory.
