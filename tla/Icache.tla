------------------------------- MODULE Icache -------------------------------
(***************************************************************************)
(* The inode cache: the LRU cache of slots (cache/cache.go) and the        *)
(* transactions that lock inodes and get at them through it (LockInode,    *)
(* GetInodeLocked and ReleaseInode in fstxn/fstxn.go, commitWait and Abort *)
(* in fstxn/commit.go). A slot can be evicted while a transaction still    *)
(* holds the pointer to it.                                                *)
(*                                                                         *)
(* An entry stands for the *entry of cache.go with its Cslot and the Inode *)
(* Obj points to: Obj is set once in the life of an entry.                 *)
(***************************************************************************)
EXTENDS Naturals, Sequences

CONSTANTS
  Inum,         \* inodes
  Thread,       \* threads, each with one transaction at a time
  Val,          \* contents of an inode
  Entry,        \* memory for entries: numbers (bounds how many are in use)
  ICACHESZ,     \* slots in the cache
  DirtyAborts,  \* BOOLEAN: a transaction may be aborted or refused when it has changed
                \* an inode
  None          \* nil

ASSUME IcacheAssumption ==
  /\ Entry \subseteq Nat /\ ICACHESZ \in Nat \ {0} /\ DirtyAborts \in BOOLEAN
  /\ None \notin Val /\ None \notin Entry /\ None \notin Thread

VARIABLES
  disk,     \* committed inodes, as the journal reads them
  entries,  \* Cache.entries: inode number to entry
  slot,     \* what is in an entry: id and Obj
  lru,      \* Cache.lru, least recently used first
  cnt,      \* Cache.cnt
  lock,     \* Lockmap: who holds the inode
  op        \* transactions: entries held, inodes, and buffers written

cacheVars == <<entries, slot, lru, cnt>>
icacheVars == <<disk, entries, slot, lru, cnt, lock, op>>

Unused == [id |-> None, Obj |-> None]
OpState == [ptr : [Inum -> Entry \cup {None}], inodes : SUBSET Inum, buf : [Inum -> Val \cup {None}]]
NoOp == [ptr |-> [i \in Inum |-> None], inodes |-> {}, buf |-> [i \in Inum |-> None]]

IcacheTypeOK ==
  /\ disk \in [Inum -> Val]
  /\ entries \in [Inum -> Entry \cup {None}]
  /\ slot \in [Entry -> [id : Inum, Obj : Val \cup {None}] \cup {Unused}]
  /\ lru \in Seq(Entry) /\ cnt \in Nat
  /\ lock \in [Inum -> Thread \cup {None}]
  /\ op \in [Thread -> OpState]

IcacheInit ==
  /\ disk \in [Inum -> Val]
  /\ entries = [i \in Inum |-> None]
  /\ slot = [e \in Entry |-> Unused]
  /\ lru = <<>> /\ cnt = 0
  /\ lock = [i \in Inum |-> None]
  /\ op = [t \in Thread |-> NoOp]

-----------------------------------------------------------------------------
(* cache.go. Both ways through LookupSlot run under the cache's mutex.     *)

Without(s, e) == SelectSeq(s, LAMBDA x : x # e)

\* Entries some pointer leads to, in the cache with map m or in a transaction.
Held == {op[t].ptr[i] : t \in Thread, i \in Inum}
Reachable(m) == ({m[i] : i \in Inum} \cup Held) \ {None}

\* Go's memory management: an entry nothing leads to is free again.
Collect(s, live) == [e \in Entry |-> IF e \in live THEN s[e] ELSE Unused]
Fresh == CHOOSE e \in Entry : e \notin Reachable(entries)

\* evict: the map and the list without the least recently used entry.
evict ==
  LET e == Head(lru) IN
  [entries |-> [entries EXCEPT ![slot[e].id] = None], lru |-> Tail(lru), cnt |-> cnt - 1]

LookupSlotHit(i) ==
  /\ entries[i] # None
  /\ lru' = Append(Without(lru, entries[i]), entries[i])
  /\ UNCHANGED <<entries, slot, cnt>>

\* Faulty variant: the memory of the evicted entry is used again as it is.
LookupSlotMissRecycles(i) ==
  /\ entries[i] = None
  /\ IF cnt >= ICACHESZ
     THEN /\ entries' = [evict.entries EXCEPT ![i] = Head(lru)]
          /\ slot' = [slot EXCEPT ![Head(lru)].id = i]
          /\ lru' = Append(evict.lru, Head(lru)) /\ cnt' = cnt
     ELSE /\ entries' = [entries EXCEPT ![i] = Fresh]
          /\ slot' = [slot EXCEPT ![Fresh] = [id |-> i, Obj |-> None]]
          /\ lru' = Append(lru, Fresh) /\ cnt' = cnt + 1

LookupSlotMiss(i) ==
  LET c == IF cnt >= ICACHESZ THEN evict ELSE [entries |-> entries, lru |-> lru, cnt |-> cnt]
      e == Fresh
  IN
  /\ entries[i] = None /\ ~(Entry \subseteq Reachable(entries))
  /\ entries' = [c.entries EXCEPT ![i] = e]
  /\ slot' = [Collect(slot, Reachable(c.entries)) EXCEPT ![e] = [id |-> i, Obj |-> None]]
  /\ lru' = Append(c.lru, e)
  /\ cnt' = c.cnt + 1

-----------------------------------------------------------------------------
(* Transactions.                                                           *)

\* Between LockInode and the end of GetInodeLocked.
Getting(t) == \E i \in Inum : op[t].ptr[i] # None /\ i \notin op[t].inodes

\* LockInode: the lock, then the slot. The lock is waited for; a transaction
\* that has the inode does not ask again.
LockInode(t, i) ==
  /\ ~Getting(t)
  /\ lock[i] = None
  /\ lock' = [lock EXCEPT ![i] = t]
  /\ LookupSlotHit(i) \/ LookupSlotMiss(i)
  /\ op' = [op EXCEPT ![t].ptr[i] = entries'[i]]
  /\ UNCHANGED disk

\* The rest of GetInodeLocked: an empty slot is filled from the journal.
GetInodeLocked(t, i) ==
  LET e == op[t].ptr[i] IN
  /\ e # None /\ i \notin op[t].inodes
  /\ slot' = IF slot[e].Obj = None THEN [slot EXCEPT ![e].Obj = disk[i]] ELSE slot
  /\ op' = [op EXCEPT ![t].inodes = @ \cup {i}]
  /\ UNCHANGED <<disk, entries, lru, cnt, lock>>

\* Faulty variant: the buffer is written, the cached inode is not changed.
WriteInodeBuf(t, i, v) ==
  /\ ~Getting(t) /\ i \in op[t].inodes
  /\ op' = [op EXCEPT ![t].buf[i] = v]
  /\ UNCHANGED <<disk, cacheVars, lock>>

\* A change of the inode, and WriteInode.
WriteInode(t, i, v) ==
  LET e == op[t].ptr[i] IN
  /\ ~Getting(t) /\ i \in op[t].inodes
  /\ slot' = [slot EXCEPT ![e].Obj = v]
  /\ op' = [op EXCEPT ![t].buf[i] = v]
  /\ UNCHANGED <<disk, entries, lru, cnt, lock>>

\* The transaction's pointer to inode i goes, and its lock with it; all, for
\* the inodes is.
ReleaseInodes(t, is, o) ==
  LET live == {entries[i] : i \in Inum}
              \cup {op[u].ptr[i] : u \in Thread \ {t}, i \in Inum}
              \cup {o.ptr[i] : i \in Inum}
  IN
  /\ op' = [op EXCEPT ![t] = o]
  /\ lock' = [i \in Inum |-> IF i \in is THEN None ELSE lock[i]]
  /\ slot' = Collect(slot, live)
  /\ UNCHANGED <<entries, lru, cnt>>

\* ReleaseInode before the end, of an inode that has not been changed: Apply,
\* GetInodeInum of a free inode, GetInodeFh of a stale handle.
ReleaseInode(t, i) ==
  /\ ~Getting(t) /\ i \in op[t].inodes /\ op[t].buf[i] = None
  /\ ReleaseInodes(t, {i}, [op[t] EXCEPT !.ptr[i] = None, !.inodes = @ \ {i}])
  /\ UNCHANGED disk

\* commitWait: the log takes all the buffers, then the locks are released.
commitWait(t) ==
  /\ ~Getting(t) /\ op[t].inodes # {}
  /\ disk' = [i \in Inum |-> IF op[t].buf[i] # None THEN op[t].buf[i] ELSE disk[i]]
  /\ ReleaseInodes(t, op[t].inodes, NoOp)

\* Abort, or a commitWait that the log refuses: the buffers are dropped, the cached
\* inodes stay as they are.
Abort(t) ==
  /\ ~Getting(t) /\ op[t].inodes # {}
  /\ DirtyAborts \/ op[t].buf = NoOp.buf
  /\ ReleaseInodes(t, op[t].inodes, NoOp)
  /\ UNCHANGED disk

\* The server stops and starts again: MkCache and MkLockMap.
Restart ==
  /\ entries' = [i \in Inum |-> None]
  /\ slot' = [e \in Entry |-> Unused]
  /\ lru' = <<>> /\ cnt' = 0
  /\ lock' = [i \in Inum |-> None]
  /\ op' = [t \in Thread |-> NoOp]
  /\ UNCHANGED disk

IcacheNext ==
  \/ \E t \in Thread, i \in Inum :
       LockInode(t, i) \/ GetInodeLocked(t, i) \/ ReleaseInode(t, i) \/ \E v \in Val : WriteInode(t, i, v)
  \/ \E t \in Thread : commitWait(t) \/ Abort(t)
  \/ Restart

IcacheSpec == IcacheInit /\ [][IcacheNext]_icacheVars

-----------------------------------------------------------------------------
(* Properties.                                                             *)

\* What a transaction has in hand is the inode as last committed, or as it has
\* changed it itself, even if the entry was evicted meanwhile; and an inode in
\* the cache that nobody has locked is the committed one.
CacheCurrent ==
  /\ \A i \in Inum : \A t \in Thread :
       i \in op[t].inodes =>
         slot[op[t].ptr[i]].Obj = IF op[t].buf[i] # None THEN op[t].buf[i] ELSE disk[i]
  /\ \A i \in Inum :
       lock[i] = None /\ entries[i] # None => slot[entries[i]].Obj = disk[i]

Txn == INSTANCE InodeTxn WITH
  view <- [t \in Thread |-> [i \in Inum |->
             IF i \in op[t].inodes THEN slot[op[t].ptr[i]].Obj ELSE None]],
  dirty <- [t \in Thread |-> {i \in Inum : op[t].buf[i] # None}]

\* The cache cannot be told from no cache: eviction, hits on slots others have
\* filled, and early release give a transaction the committed inode each time.
CacheTransparent == Txn!Spec
=============================================================================
