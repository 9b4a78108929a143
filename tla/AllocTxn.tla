------------------------------- MODULE AllocTxn -------------------------------
(***************************************************************************)
(* Allocation transactions: alloctxn/alloctxn.go, the commit and abort     *)
(* paths of fstxn/commit.go, the inode locks and cached inodes of          *)
(* fstxn/fstxn.go, and the journal underneath (external: go-journal).      *)
(*                                                                         *)
(* The inode allocator and the block allocator are two instances of the    *)
(* same code, so this module has one set Num of numbers and one set Obj of *)
(* lockable objects that refer to numbers: inodes refer to blocks, inode   *)
(* slots refer to their own inode number.                                  *)
(*                                                                         *)
(* The journal is modelled by what its users see: the state committed so   *)
(* far (bitmap, refs, data), the prefix of it that is on stable storage    *)
(* (durable), and what a transaction has changed (chg, wr), which a commit *)
(* installs atomically. The numbers an object refers to are partly in the  *)
(* inode, which is changed in the inode cache, at once and whatever becomes*)
(* of the transaction, and partly in index blocks, which are changed in    *)
(* the transaction's buffers.                                              *)
(***************************************************************************)
EXTENDS FiniteSets

CONSTANTS
  Txn,      \* transactions that may run at the same time
  Obj,      \* inodes, each protected by a lock of the lock map
  Num,      \* numbers the allocator manages (0, the null number, excluded)
  FreesFit, \* BOOLEAN: a transaction that frees numbers fits the log
  StaleHits, \* BOOLEAN: a transaction may find in the cache an inode as one
            \* that was aborted or refused has left it
  NoTxn     \* the holder of a free lock

ASSUME NoTxnAssumption == NoTxn \notin Txn /\ FreesFit \in BOOLEAN /\ StaleHits \in BOOLEAN

VARIABLES
  bitmap,   \* committed on-disk bitmap: the numbers whose bit is 1
  refs,     \* committed objects: the numbers each one refers to
  data,     \* committed contents: the numbers whose block is not all zero
  durable,  \* the committed state a crash falls back to
  used,     \* the in-memory allocator: numbers it does not hand out
  lock,     \* lock map: the transaction that holds each object
  pc,       \* phase of each transaction
  ip,       \* objects as their holder sees them: the cached inode and, through
            \* the transaction's buffers, its index blocks
  chg,      \* objects their holder has changed
  wr,       \* blocks the transaction has written
  alloc,    \* allocInums / allocBnums
  free,     \* freeInums / freeBnums
  lost      \* history: numbers allocated by transactions whose commit failed

inodes == <<ip, chg>>
vars == <<bitmap, refs, data, durable, used, lock, pc, inodes, wr, alloc, free, lost>>

Store == [bitmap : SUBSET Num, refs : [Obj -> SUBSET Num], data : SUBSET Num]
Committed == [bitmap |-> bitmap, refs |-> refs, data |-> data]
Owned(t) == {o \in Obj : lock[o] = t}

TypeOK ==
  /\ Committed \in Store
  /\ durable \in Store
  /\ used \subseteq Num
  /\ lock \in [Obj -> Txn \cup {NoTxn}]
  /\ pc \in [Txn -> {"idle", "active", "commit", "abort"}]
  /\ ip \in [Obj -> SUBSET Num] /\ chg \subseteq Obj
  /\ wr \in [Txn -> SUBSET Num]
  /\ alloc \in [Txn -> SUBSET Num]
  /\ free \in [Txn -> SUBSET Num]
  /\ lost \subseteq Num

\* A freshly made file system: nothing is referred to, every bit is clear.
Init ==
  /\ bitmap = {} /\ refs = [o \in Obj |-> {}] /\ data = {}
  /\ durable = Committed
  /\ used = {}
  /\ lock = [o \in Obj |-> NoTxn]
  /\ pc = [t \in Txn |-> "idle"]
  /\ ip = refs /\ chg = {}
  /\ wr = [t \in Txn |-> {}]
  /\ alloc = [t \in Txn |-> {}]
  /\ free = [t \in Txn |-> {}]
  /\ lost = {}

-----------------------------------------------------------------------------
(* The body of a transaction.                                              *)

Begin(t) ==
  /\ pc[t] = "idle"
  /\ pc' = [pc EXCEPT ![t] = "active"]
  /\ UNCHANGED <<bitmap, refs, data, durable, used, lock, inodes, wr, alloc, free, lost>>

\* GetInodeLocked: Acquire blocks until the lock is free. A slot of the cache
\* that is filled is taken as it is; an empty one is filled through the journal.
\* Which it is depends on the other inodes in use (Icache), so both may happen.
GetInodeLocked(t, o) ==
  /\ pc[t] = "active"
  /\ lock[o] = NoTxn
  /\ lock' = [lock EXCEPT ![o] = t]
  /\ \/ (StaleHits \/ ip[o] = refs[o]) /\ UNCHANGED ip
     \/ ip' = [ip EXCEPT ![o] = refs[o]]
  /\ UNCHANGED <<bitmap, refs, data, durable, used, pc, chg, wr, alloc, free, lost>>

\* ReleaseInode before the end of the transaction (a stale handle, a free
\* inode, a directory entry that was only read): the object is unchanged.
ReleaseInode(t, o) ==
  /\ pc[t] = "active"
  /\ lock[o] = t
  /\ o \notin chg /\ ip[o] \cap wr[t] = {}
  /\ lock' = [lock EXCEPT ![o] = NoTxn]
  /\ UNCHANGED <<bitmap, refs, data, durable, used, pc, inodes, wr, alloc, free, lost>>

\* AllocNum hands out any number whose in-memory bit is clear; when there is
\* none it returns NULLBNUM and the transaction is as before.
AllocNum(t, n) ==
  /\ pc[t] = "active"
  /\ n \notin used
  /\ used' = used \cup {n}
  /\ alloc' = [alloc EXCEPT ![t] = @ \cup {n}]
  /\ UNCHANGED <<bitmap, refs, data, durable, lock, pc, inodes, wr, free, lost>>

\* The holder changes what o refers to, in the inode or in an index block.
Change(o, s) ==
  /\ ip' = [ip EXCEPT ![o] = s]
  /\ chg' = chg \cup {o}

\* A number the transaction allocated is stored in an object it has locked.
Link(t, o, n) ==
  /\ pc[t] = "active"
  /\ lock[o] = t
  /\ n \in alloc[t] \ free[t]
  /\ \A p \in Obj : lock[p] = t => n \notin ip[p]
  /\ Change(o, ip[o] \cup {n})
  /\ UNCHANGED <<bitmap, refs, data, durable, used, lock, pc, wr, alloc, free, lost>>

\* OverWrite, or ReadBlock and SetDirty, of a block of a locked object.
WriteBlock(t, o, n) ==
  /\ pc[t] = "active"
  /\ lock[o] = t
  /\ n \in ip[o]
  /\ wr' = [wr EXCEPT ![t] = @ \cup {n}]
  /\ UNCHANGED <<bitmap, refs, data, durable, used, lock, pc, inodes, alloc, free, lost>>

\* Faulty variant: the number is available before the commit.
FreeBlockEarly(t, o, n) ==
  /\ pc[t] = "active"
  /\ lock[o] = t
  /\ n \in ip[o]
  /\ Change(o, ip[o] \ {n})
  /\ free' = [free EXCEPT ![t] = @ \cup {n}]
  /\ used' = used \ {n}
  /\ UNCHANGED <<bitmap, refs, data, durable, lock, pc, wr, alloc, lost>>

\* FreeBlock zeroes the block in the transaction (see ZeroBlock) and leaves the
\* in-memory bit alone: the number stays taken until PostCommit.
FreeBlock(t, o, n) ==
  /\ pc[t] = "active"
  /\ lock[o] = t
  /\ n \in ip[o]
  /\ Change(o, ip[o] \ {n})
  /\ free' = [free EXCEPT ![t] = @ \cup {n}]
  /\ UNCHANGED <<bitmap, refs, data, durable, used, lock, pc, wr, alloc, lost>>

-----------------------------------------------------------------------------
(* Commit, abort and crash.                                                *)

\* Faulty variant: freed bits first.
PreCommitFreeFirst(t) == (bitmap \ free[t]) \cup alloc[t]

\* Faulty variant: allocated bits are not written.
PreCommitNoAlloc(t) == bitmap \ free[t]

\* The bits PreCommit writes: allocated bits first, freed bits last, so a
\* number allocated and freed by the same transaction ends up free.
PreCommit(t) == (bitmap \cup alloc[t]) \ free[t]

\* Faulty variant: freed blocks keep their contents.
ZeroBlockSkipped(t) == data \cup wr[t]

\* The contents a commit installs: ZeroBlock in FreeBlock comes after any write.
ZeroBlock(t) == (data \cup wr[t]) \ free[t]

\* What the next holder may find in o when the transaction's buffers are dropped:
\* its changes of index blocks are gone, those of the cached inode are not.
Kept(t, o) ==
  IF lock[o] = t /\ o \in chg
  THEN {s \in SUBSET Num : refs[o] \cap ip[o] \subseteq s /\ s \subseteq refs[o] \cup ip[o]}
  ELSE {ip[o]}

\* The transaction is aborted or refused.
Drop(t) ==
  /\ ip' \in {f \in [Obj -> SUBSET Num] : \A o \in Obj : f[o] \in Kept(t, o)}
  /\ chg' = chg \ Owned(t)

\* CommitWait succeeds: the journal installs every buffer of the transaction
\* at once. With wait the state is on stable storage when it returns.
CommitWait(t, wait) ==
  /\ pc[t] = "active"
  /\ bitmap' = PreCommit(t)
  /\ refs' = [o \in Obj |-> IF lock[o] = t /\ o \in chg THEN ip[o] ELSE refs[o]]
  /\ data' = ZeroBlock(t)
  /\ durable' = IF wait THEN Committed' ELSE durable
  /\ pc' = [pc EXCEPT ![t] = "commit"]
  /\ alloc' = [alloc EXCEPT ![t] = {}]
  /\ chg' = chg \ Owned(t)
  /\ UNCHANGED <<used, lock, ip, wr, free, lost>>

\* CommitWait refuses a transaction larger than the log; commitWait runs
\* postCommit all the same. What was allocated stays taken in memory until the
\* next restart, and what was freed becomes available although its bits are
\* still set on disk; the cached inodes stay changed. With FreesFit only
\* transactions without frees (a large WRITE) are that large.
CommitFails(t) ==
  /\ pc[t] = "active"
  /\ FreesFit => free[t] = {}
  /\ pc' = [pc EXCEPT ![t] = "commit"]
  /\ lost' = lost \cup alloc[t]
  /\ alloc' = [alloc EXCEPT ![t] = {}]
  /\ Drop(t)
  /\ UNCHANGED <<bitmap, refs, data, durable, used, lock, wr, free>>

\* CommitFh (NFSPROC3_COMMIT) flushes the log; its transaction only looked at
\* an inode and is never committed itself.
CommitFh(t) ==
  /\ pc[t] = "active"
  /\ alloc[t] = {} /\ free[t] = {} /\ wr[t] = {} /\ chg \cap Owned(t) = {}
  /\ durable' = Committed
  /\ pc' = [pc EXCEPT ![t] = "commit"]
  /\ UNCHANGED <<bitmap, refs, data, used, lock, inodes, wr, alloc, free, lost>>

\* Abort: nothing puts the cached inodes back.
Abort(t) ==
  /\ pc[t] = "active"
  /\ pc' = [pc EXCEPT ![t] = "abort"]
  /\ Drop(t)
  /\ UNCHANGED <<bitmap, refs, data, durable, used, lock, wr, alloc, free, lost>>

\* One iteration of releaseInodes, the first thing postCommit and Abort do.
ReleaseInodes(t, o) ==
  /\ pc[t] \in {"commit", "abort"}
  /\ lock[o] = t
  /\ lock' = [lock EXCEPT ![o] = NoTxn]
  /\ UNCHANGED <<bitmap, refs, data, durable, used, pc, inodes, wr, alloc, free, lost>>

\* One iteration of the loops of PostCommit: a freed number becomes available.
PostCommit(t, n) ==
  /\ pc[t] = "commit" /\ Owned(t) = {}
  /\ n \in free[t]
  /\ used' = used \ {n}
  /\ free' = [free EXCEPT ![t] = @ \ {n}]
  /\ UNCHANGED <<bitmap, refs, data, durable, lock, pc, inodes, wr, alloc, lost>>

\* Faulty variant: freed numbers are returned too.
PostAbortFreed(t, n) ==
  /\ pc[t] = "abort" /\ Owned(t) = {}
  /\ n \in alloc[t] \cup free[t]
  /\ used' = used \ {n}
  /\ alloc' = [alloc EXCEPT ![t] = @ \ {n}]
  /\ free' = [free EXCEPT ![t] = @ \ {n}]
  /\ UNCHANGED <<bitmap, refs, data, durable, lock, pc, inodes, wr, lost>>

\* One iteration of the loops of PostAbort: allocated numbers are returned.
PostAbort(t, n) ==
  /\ pc[t] = "abort" /\ Owned(t) = {}
  /\ n \in alloc[t]
  /\ used' = used \ {n}
  /\ alloc' = [alloc EXCEPT ![t] = @ \ {n}]
  /\ UNCHANGED <<bitmap, refs, data, durable, lock, pc, inodes, wr, free, lost>>

\* The operation returns to its caller and its lists are garbage.
End(t) ==
  /\ Owned(t) = {}
  /\ \/ pc[t] = "commit" /\ free[t] = {}
     \/ pc[t] = "abort" /\ alloc[t] = {}
  /\ pc' = [pc EXCEPT ![t] = "idle"]
  /\ wr' = [wr EXCEPT ![t] = {}]
  /\ alloc' = [alloc EXCEPT ![t] = {}]
  /\ free' = [free EXCEPT ![t] = {}]
  /\ UNCHANGED <<bitmap, refs, data, durable, used, lock, inodes, lost>>

\* The journal may write committed transactions to disk at any time.
Flush ==
  /\ durable' = Committed
  /\ UNCHANGED <<bitmap, refs, data, used, lock, pc, inodes, wr, alloc, free, lost>>

\* A crash and the restart after it: the journal recovers the durable state
\* and MkFsState rebuilds the allocator from the bitmap on disk.
Restart ==
  /\ bitmap' = durable.bitmap /\ refs' = durable.refs /\ data' = durable.data
  /\ used' = durable.bitmap
  /\ lock' = [o \in Obj |-> NoTxn]
  /\ pc' = [t \in Txn |-> "idle"]
  /\ ip' = durable.refs /\ chg' = {}
  /\ wr' = [t \in Txn |-> {}]
  /\ alloc' = [t \in Txn |-> {}]
  /\ free' = [t \in Txn |-> {}]
  /\ lost' = {}
  /\ UNCHANGED durable

Step(t) ==
  \/ Begin(t)
  \/ \E o \in Obj : GetInodeLocked(t, o) \/ ReleaseInode(t, o) \/ ReleaseInodes(t, o)
  \/ \E n \in Num : AllocNum(t, n) \/ PostCommit(t, n) \/ PostAbort(t, n)
  \/ \E o \in Obj, n \in Num : Link(t, o, n) \/ WriteBlock(t, o, n) \/ FreeBlock(t, o, n)
  \/ \E wait \in BOOLEAN : CommitWait(t, wait)
  \/ CommitFails(t) \/ CommitFh(t) \/ Abort(t) \/ End(t)

Next == (\E t \in Txn : Step(t)) \/ Flush \/ Restart

Spec == Init /\ [][Next]_vars

-----------------------------------------------------------------------------
(* Properties.                                                             *)

\* A state of the file system a restart can be given: no number belongs to
\* two objects, every number in use has its bit set (so MkFsState will not
\* hand it out), and every block that is not in use is zero (AllocBlock
\* returns blocks without clearing them).
StoreConsistent(s) ==
  /\ \A o, p \in Obj : o # p => s.refs[o] \cap s.refs[p] = {}
  /\ \A o \in Obj : s.refs[o] \subseteq s.bitmap
  /\ s.data \subseteq s.bitmap

\* Whatever interleaving of transactions is committed, flushed or lost, the
\* state that a crash would recover and the committed state are consistent.
CrashConsistent == StoreConsistent(Committed) /\ StoreConsistent(durable)

\* AllocNum's answer belongs to its caller alone: a number allocated by a
\* running transaction is in no committed object, in no other transaction's
\* hands, and not about to be released by another transaction's PostCommit.
AllocExclusive ==
  \A t \in Txn : pc[t] = "active" =>
    \A n \in alloc[t] :
      /\ \A o \in Obj : n \notin refs[o]
      /\ \A u \in Txn \ {t} :
           /\ pc[u] \in {"active", "abort"} => n \notin alloc[u]
           /\ pc[u] \in {"active", "commit"} => n \notin free[u]

\* AllocBlock does not clear the block it returns and bmap hands it out as a
\* hole: a block allocated by a running transaction is zero on disk.
FreshBlockIsZero ==
  \A t \in Txn : pc[t] = "active" => alloc[t] \cap data = {}

\* The in-memory allocator never offers a number whose on-disk bit is set;
\* in particular a freed number is reused only after its free has committed.
AllocatorCoversDisk == bitmap \subseteq used

\* When no transaction runs, memory and disk agree on what is allocated:
\* neither commit, abort nor a mix of both leaks a number, except the ones a
\* failed commit leaves behind.
NoLeakAtRest ==
  (\A t \in Txn : pc[t] = "idle") => used = bitmap \cup lost

-----------------------------------------------------------------------------
(* The inductive invariant behind these properties.                        *)

\* Numbers a transaction still has to hand back or turn into set bits.
Pending(t) == IF pc[t] = "commit" THEN free[t] ELSE alloc[t]

\* What a transaction has locked in the committed state.
Holds(t, n) == \E o \in Obj : lock[o] = t /\ n \in refs[o]

\* Every taken number has exactly one reason to be taken.
Claims ==
  /\ \A n \in Num : n \in used <=> (n \in bitmap \/ n \in lost \/ \E t \in Txn : n \in Pending(t))
  /\ lost \cap bitmap = {}
  /\ \A t \in Txn : Pending(t) \cap (bitmap \cup lost) = {}
  /\ \A t, u \in Txn : t # u => Pending(t) \cap Pending(u) = {}

\* Only a running transaction has changed objects, and what it has locked and
\* not changed is the committed state.
CacheOf(o) ==
  /\ o \in chg => lock[o] \in Txn /\ pc[lock[o]] = "active"
  /\ lock[o] \in Txn /\ pc[lock[o]] = "active" /\ o \notin chg => ip[o] = refs[o]

Cached == \A o \in Obj : CacheOf(o)

\* What a transaction changes and writes is what it allocated or has locked.
BuffersOf(t) ==
  /\ pc[t] = "idle" => alloc[t] = {} /\ free[t] = {} /\ wr[t] = {} /\ Owned(t) = {}
  /\ pc[t] = "active" =>
       /\ \A n \in free[t] \cup wr[t] : n \in alloc[t] \/ Holds(t, n)
       /\ \A o \in Owned(t) : ip[o] \subseteq (refs[o] \cup alloc[t]) \ free[t]
       /\ \A o, p \in Owned(t) : o # p => ip[o] \cap ip[p] = {}

Buffers == \A t \in Txn : BuffersOf(t)

IInv == TypeOK /\ CrashConsistent /\ Claims /\ Cached /\ Buffers
=============================================================================
