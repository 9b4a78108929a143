---------------------------- MODULE AllocTxnProofs ----------------------------
(***************************************************************************)
(* IInv of AllocTxn is inductive, for any set of transactions, inodes and  *)
(* numbers, and implies the safety properties.  One lemma per action shows *)
(* that it preserves each conjunct of IInv; CommitWait is the one where    *)
(* the conjuncts need each other.  Two things are assumed.  FreesFit: a    *)
(* transaction that frees numbers is never refused by the log.  ~StaleHits:*)
(* an inode that an aborted or refused transaction has left changed in the *)
(* cache is read from the disk again before it is used.                    *)
(***************************************************************************)
EXTENDS AllocTxn, TLAPS

\* The start state, an empty file system, satisfies the invariant.
LEMMA InitInv == Init => IInv
  BY NoTxnAssumption
  DEF Init, IInv, TypeOK, Store, Committed, CrashConsistent, StoreConsistent,
      Claims, Pending, Cached, CacheOf, Buffers, BuffersOf, Owned

\* A step of another transaction leaves a transaction's buffers in order.
LEMMA SameBuffers ==
  ASSUME NEW u \in Txn, BuffersOf(u), refs' = refs,
         pc'[u] = pc[u], alloc'[u] = alloc[u], free'[u] = free[u], wr'[u] = wr[u],
         Owned(u)' = Owned(u), \A o \in Owned(u) : ip'[o] = ip[o],
         \A m : Holds(u, m) => Holds(u, m)'
  PROVE  BuffersOf(u)'
<1>1. pc'[u] = "idle" => alloc'[u] = {} /\ free'[u] = {} /\ wr'[u] = {} /\ Owned(u)' = {}
  BY DEF BuffersOf
<1>2. ASSUME pc'[u] = "active" PROVE \A n \in free'[u] \cup wr'[u] : n \in alloc'[u] \/ Holds(u, n)'
  BY <1>2 DEF BuffersOf
<1>3. ASSUME pc'[u] = "active"
      PROVE \A o \in Owned(u)' : ip'[o] \subseteq (refs'[o] \cup alloc'[u]) \ free'[u]
  BY <1>3 DEF BuffersOf
<1>4. ASSUME pc'[u] = "active"
      PROVE \A o, p \in Owned(u)' : o # p => ip'[o] \cap ip'[p] = {}
  BY <1>4 DEF BuffersOf
<1> QED BY <1>1, <1>2, <1>3, <1>4 DEF BuffersOf

\* Starting or ending to hold other inodes leaves this one's cache entry in order.
LEMMA SameCache ==
  ASSUME NEW o \in Obj, CacheOf(o), refs'[o] = refs[o], ip'[o] = ip[o],
         o \in chg' <=> o \in chg, lock'[o] = lock[o],
         lock[o] \in Txn => (pc'[lock[o]] = "active" <=> pc[lock[o]] = "active")
  PROVE  CacheOf(o)'
  BY DEF CacheOf

-----------------------------------------------------------------------------
(* The body of a transaction leaves the committed state alone: only Claims *)
(* (what is taken in memory) and Buffers can be disturbed.                 *)

\* fstxn.Begin starts a transaction with empty lists.
LEMMA BeginInv ==
  ASSUME NEW t \in Txn, IInv, Begin(t)
  PROVE  IInv'
<1>1. TypeOK' /\ CrashConsistent'
  BY DEF IInv, TypeOK, Store, Committed, CrashConsistent, StoreConsistent, inodes, Begin
<1>2. \A u \in Txn : Pending(u)' = Pending(u)
  BY DEF IInv, TypeOK, Pending, Begin
<1>3. Claims' /\ Buffers'
  BY <1>2 DEF IInv, TypeOK, Claims, Buffers, BuffersOf, Holds, Owned, inodes, Begin
<1>4. Cached'
  <2>1. \A o \in Obj : lock[o] # t
    BY DEF IInv, Buffers, BuffersOf, Owned, Begin
  <2> QED BY <2>1 DEF IInv, TypeOK, Cached, CacheOf, inodes, Begin
<1> QED BY <1>1, <1>3, <1>4 DEF IInv

\* What a running transaction has touched: the freed and written numbers are
\* set bits of inodes it holds, or its own fresh numbers, and nobody else's.
LEMMA ActiveFacts ==
  ASSUME NEW t \in Txn, IInv, pc[t] = "active"
  PROVE  /\ free[t] \cup wr[t] \subseteq bitmap \cup alloc[t]
         /\ \A o \in Obj : lock[o] # t => refs[o] \cap (free[t] \cup alloc[t]) = {}
<1>1. alloc[t] \cap bitmap = {}
  BY DEF IInv, Claims, Pending
<1>2. \A n \in free[t] \cup wr[t] : n \in alloc[t] \/ Holds(t, n)
  BY DEF IInv, Buffers, BuffersOf
<1>3. \A o \in Obj : refs[o] \subseteq bitmap
  BY DEF IInv, CrashConsistent, StoreConsistent, Committed
<1>4. \A o, p \in Obj : o # p => refs[o] \cap refs[p] = {}
  BY DEF IInv, CrashConsistent, StoreConsistent, Committed
<1> QED BY <1>1, <1>2, <1>3, <1>4 DEF Holds

\* Locking an inode gives the transaction its committed state; the numbers of
\* distinct inodes are distinct, and none of them is a fresh one.
LEMMA GetInodeLockedInv ==
  ASSUME ~StaleHits, NEW t \in Txn, NEW o \in Obj, IInv, GetInodeLocked(t, o)
  PROVE  IInv'
<1>1. ip' = [ip EXCEPT ![o] = refs[o]]
  BY DEF IInv, TypeOK, GetInodeLocked
<1>2. TypeOK' /\ CrashConsistent' /\ Claims'
  BY <1>1 DEF IInv, TypeOK, Store, Committed, CrashConsistent, StoreConsistent,
         Claims, Pending, GetInodeLocked
<1>3. Cached'
  BY <1>1, NoTxnAssumption DEF IInv, TypeOK, Cached, CacheOf, GetInodeLocked
<1>4. \A n \in refs[o] : n \notin alloc[t] /\ n \notin free[t]
  BY NoTxnAssumption, ActiveFacts DEF GetInodeLocked
<1>5. ASSUME NEW p \in Owned(t)
      PROVE  p # o /\ ip'[p] = ip[p] /\ ip[p] \cap refs[o] = {}
  <2>1. p # o /\ ip[p] \subseteq refs[p] \cup alloc[t]
    BY NoTxnAssumption, <1>5 DEF IInv, Buffers, BuffersOf, Owned, GetInodeLocked
  <2> QED
    BY <1>1, <1>4, <2>1 DEF Owned, IInv, TypeOK, Committed, CrashConsistent, StoreConsistent
<1>6. BuffersOf(t)'
  <2>1. Owned(t)' = Owned(t) \cup {o} /\ ip'[o] = refs[o]
    BY <1>1, NoTxnAssumption DEF IInv, TypeOK, Owned, GetInodeLocked
  <2>2. \A n \in Num : Holds(t, n) => Holds(t, n)'
    BY NoTxnAssumption DEF IInv, TypeOK, Holds, GetInodeLocked
  <2>3. \A n \in free[t] \cup wr[t] : n \in alloc[t] \/ Holds(t, n)'
    BY <2>2 DEF IInv, TypeOK, Buffers, BuffersOf, GetInodeLocked
  <2>4. \A p \in Owned(t)' : ip'[p] \subseteq (refs[p] \cup alloc[t]) \ free[t]
    BY <1>4, <1>5, <2>1 DEF IInv, Buffers, BuffersOf, GetInodeLocked
  <2>5. \A p, q \in Owned(t)' : p # q => ip'[p] \cap ip'[q] = {}
    BY <1>5, <2>1 DEF IInv, Buffers, BuffersOf, GetInodeLocked
  <2> QED BY <2>3, <2>4, <2>5 DEF BuffersOf, GetInodeLocked
<1>7. ASSUME NEW u \in Txn, u # t PROVE BuffersOf(u)'
  <2>1. Owned(u)' = Owned(u) /\ o \notin Owned(u) /\ \A m : Holds(u, m) => Holds(u, m)'
    BY NoTxnAssumption, <1>7 DEF IInv, TypeOK, Owned, Holds, GetInodeLocked
  <2>2. \A p \in Owned(u) : ip'[p] = ip[p]
    BY <1>1, <2>1 DEF IInv, TypeOK, Owned
  <2>3. BuffersOf(u) BY DEF IInv, Buffers
  <2> QED BY <2>1, <2>2, <2>3, SameBuffers DEF GetInodeLocked
<1> QED BY <1>2, <1>3, <1>6, <1>7 DEF IInv, Buffers

\* An inode released early was not changed, so nothing in the transaction's
\* lists comes from it.
LEMMA ReleaseInodeInv ==
  ASSUME NEW t \in Txn, NEW o \in Obj, IInv, ReleaseInode(t, o)
  PROVE  IInv'
<1>1. TypeOK' /\ CrashConsistent' /\ Claims'
  BY DEF IInv, TypeOK, Store, Committed, CrashConsistent, StoreConsistent,
         Claims, Pending, inodes, ReleaseInode
<1>2. Cached'
  BY NoTxnAssumption DEF IInv, TypeOK, Cached, CacheOf, inodes, ReleaseInode
<1>3. Buffers'
  <2>1. ip[o] = refs[o] /\ ip' = ip
    BY DEF IInv, Cached, CacheOf, inodes, ReleaseInode
  <2>2. \A u \in Txn : Owned(u)' = Owned(u) \ {o}
    BY NoTxnAssumption DEF IInv, TypeOK, Owned, ReleaseInode
  <2>3. \A n \in refs[o] : n \notin free[t] \cup wr[t]
    BY <2>1 DEF IInv, Buffers, BuffersOf, Owned, ReleaseInode
  <2>4. \A n \in free[t] \cup wr[t] : Holds(t, n) => Holds(t, n)'
    BY <2>3 DEF IInv, TypeOK, Holds, ReleaseInode
  <2>5. \A u \in Txn \ {t} : \A n : Holds(u, n) => Holds(u, n)'
    BY DEF IInv, TypeOK, Holds, ReleaseInode
  <2> QED
    BY <2>1, <2>2, <2>4, <2>5 DEF IInv, Buffers, BuffersOf, ReleaseInode
<1> QED BY <1>1, <1>2, <1>3 DEF IInv

\* AllocNum's answer was not taken, so it is new to every other claim.
LEMMA AllocNumInv ==
  ASSUME NEW t \in Txn, NEW n \in Num, IInv, AllocNum(t, n)
  PROVE  IInv'
<1>1. TypeOK' /\ CrashConsistent'
  BY DEF IInv, TypeOK, Store, Committed, CrashConsistent, StoreConsistent, inodes, AllocNum
<1>2. Claims'
  BY DEF IInv, TypeOK, Claims, Pending, AllocNum
<1>3. Cached'
  BY DEF IInv, Cached, CacheOf, inodes, AllocNum
<1>4. Buffers'
  BY DEF IInv, TypeOK, Buffers, BuffersOf, Holds, Owned, inodes, AllocNum
<1> QED BY <1>1, <1>2, <1>3, <1>4 DEF IInv

\* Linking stores a fresh number in one locked inode.
LEMMA LinkInv ==
  ASSUME NEW t \in Txn, NEW o \in Obj, NEW n \in Num, IInv, Link(t, o, n)
  PROVE  IInv'
<1>1. TypeOK' /\ CrashConsistent' /\ Claims'
  BY DEF IInv, TypeOK, Store, Committed, CrashConsistent, StoreConsistent,
         Claims, Pending, Change, Link
<1>2. Cached'
  BY DEF IInv, TypeOK, Cached, CacheOf, Change, Link
<1>3. Buffers'
  BY DEF IInv, TypeOK, Buffers, BuffersOf, Holds, Owned, Change, Link
<1> QED BY <1>1, <1>2, <1>3 DEF IInv

\* Writing a block of a locked inode only extends wr.
LEMMA WriteBlockInv ==
  ASSUME NEW t \in Txn, NEW o \in Obj, NEW n \in Num, IInv, WriteBlock(t, o, n)
  PROVE  IInv'
<1>1. TypeOK' /\ CrashConsistent' /\ Claims'
  BY DEF IInv, TypeOK, Store, Committed, CrashConsistent, StoreConsistent,
         Claims, Pending, inodes, WriteBlock
<1>2. Cached'
  BY DEF IInv, Cached, CacheOf, inodes, WriteBlock
<1>3. Buffers'
  <2>1. n \in alloc[t] \/ Holds(t, n)
    BY DEF IInv, Buffers, BuffersOf, Owned, Holds, WriteBlock
  <2> QED
    BY <2>1 DEF IInv, TypeOK, Buffers, BuffersOf, Holds, Owned, inodes, WriteBlock
<1> QED BY <1>1, <1>2, <1>3 DEF IInv

\* FreeBlock does not change what is taken: free counts as a claim only once
\* the transaction has committed.
LEMMA FreeBlockInv ==
  ASSUME NEW t \in Txn, NEW o \in Obj, NEW n \in Num, IInv, FreeBlock(t, o, n)
  PROVE  IInv'
<1>1. TypeOK' /\ CrashConsistent'
  BY DEF IInv, TypeOK, Store, Committed, CrashConsistent, StoreConsistent, Change, FreeBlock
<1>2. \A u \in Txn : Pending(u)' = Pending(u)
  BY DEF IInv, TypeOK, Pending, FreeBlock
<1>3. Claims'
  BY <1>2 DEF IInv, Claims, FreeBlock
<1>4. Cached'
  BY DEF IInv, TypeOK, Cached, CacheOf, Change, FreeBlock
<1>5. Buffers'
  <2>1. n \in alloc[t] \/ Holds(t, n)
    BY DEF IInv, Buffers, BuffersOf, Owned, Holds, FreeBlock
  <2> QED
    BY <2>1 DEF IInv, TypeOK, Buffers, BuffersOf, Holds, Owned, Change, FreeBlock
<1> QED BY <1>1, <1>3, <1>4, <1>5 DEF IInv

-----------------------------------------------------------------------------
(* Commit, abort and crash.                                                *)

\* A commit installs the buffers, turns the fresh numbers into set bits and
\* makes the freed ones a claim of the committed transaction.
LEMMA CommitWaitInv ==
  ASSUME NEW t \in Txn, NEW wait \in BOOLEAN, IInv, CommitWait(t, wait)
  PROVE  IInv'
<1>1. TypeOK'
  BY DEF IInv, TypeOK, Committed, Store, CommitWait, PreCommit, ZeroBlock
<1>2. pc[t] = "active" /\ bitmap' = (bitmap \cup alloc[t]) \ free[t]
  BY DEF CommitWait, PreCommit
<1>3. /\ free[t] \cup wr[t] \subseteq bitmap \cup alloc[t]
      /\ \A o \in Obj : lock[o] # t => refs[o] \cap (free[t] \cup alloc[t]) = {}
  BY <1>2, ActiveFacts
<1>4. StoreConsistent(Committed)'
  <2>1. \A o \in Obj : refs'[o] = IF lock[o] = t THEN ip[o] ELSE refs[o]
    BY <1>2 DEF IInv, Cached, CacheOf, CommitWait
  <2>2. \A o \in Obj : lock[o] = t => ip[o] \subseteq (refs[o] \cup alloc[t]) \ free[t]
    BY <1>2 DEF IInv, Buffers, BuffersOf, Owned
  <2>3. \A o, p \in Obj : o # p => refs[o] \cap refs[p] = {}
    BY DEF IInv, CrashConsistent, StoreConsistent, Committed
  <2>4. \A o, p \in Obj : o # p /\ lock[o] = t /\ lock[p] = t => ip[o] \cap ip[p] = {}
    BY <1>2 DEF IInv, Buffers, BuffersOf, Owned
  <2>5. \A o, p \in Obj : o # p => refs'[o] \cap refs'[p] = {}
    BY <1>3, <2>1, <2>2, <2>3, <2>4
  <2>6. \A o \in Obj : refs'[o] \subseteq bitmap'
    BY <1>2, <1>3, <2>1, <2>2 DEF IInv, CrashConsistent, StoreConsistent, Committed
  <2>7. data' \subseteq bitmap'
    BY <1>2, <1>3 DEF IInv, CrashConsistent, StoreConsistent, Committed, CommitWait, ZeroBlock
  <2> QED BY <2>5, <2>6, <2>7 DEF StoreConsistent, Committed
<1>5. CrashConsistent'
  <2>1. durable' = Committed' \/ durable' = durable
    BY DEF CommitWait
  <2> QED BY <1>4, <2>1 DEF IInv, CrashConsistent, StoreConsistent
<1>6. Claims'
  <2>1. Pending(t) = alloc[t] /\ Pending(t)' = free[t]
    BY <1>2 DEF IInv, TypeOK, Pending, CommitWait
  <2>2. \A u \in Txn : u # t => Pending(u)' = Pending(u)
    BY DEF IInv, TypeOK, Pending, CommitWait
  <2>3. used' = used /\ lost' = lost
    BY DEF CommitWait
  <2>4. \A n \in Num : n \in used' <=> (n \in bitmap' \/ n \in lost' \/ \E u \in Txn : n \in Pending(u)')
    BY <1>2, <1>3, <2>1, <2>2, <2>3 DEF IInv, Claims
  <2>5. \A u \in Txn : Pending(u)' \cap (bitmap' \cup lost') = {}
    BY <1>2, <1>3, <2>1, <2>2, <2>3 DEF IInv, Claims
  <2>6. \A u, v \in Txn : u # v => Pending(u)' \cap Pending(v)' = {}
    BY <1>2, <1>3, <2>1, <2>2 DEF IInv, Claims
  <2>7. lost' \cap bitmap' = {}
    BY <1>2, <2>1, <2>3 DEF IInv, Claims
  <2> QED BY <2>4, <2>5, <2>6, <2>7 DEF Claims
<1>7. Buffers'
  BY DEF IInv, TypeOK, Buffers, BuffersOf, Holds, Owned, CommitWait
<1>8. Cached'
  BY DEF IInv, TypeOK, Cached, CacheOf, Owned, CommitWait
<1> QED BY <1>1, <1>5, <1>6, <1>7, <1>8 DEF IInv

\* Dropping a transaction's buffers only disturbs the inodes it holds.
LEMMA DropInv ==
  ASSUME NEW t \in Txn, IInv, Drop(t), lock' = lock, refs' = refs,
         pc'[t] # "active", \A u \in Txn \ {t} : pc'[u] = pc[u]
  PROVE  /\ ip' \in [Obj -> SUBSET Num] /\ chg' \subseteq Obj
         /\ \A o \in Obj : lock[o] # t => ip'[o] = ip[o]
         /\ Cached'
<1>1. ip' \in [Obj -> SUBSET Num] /\ chg' \subseteq Obj
  BY DEF IInv, TypeOK, Drop
<1>2. \A o \in Obj : lock[o] # t => ip'[o] = ip[o]
  BY DEF Drop, Kept
<1>3. ASSUME NEW o \in Obj PROVE CacheOf(o)'
  <2>1. CacheOf(o) /\ (o \in chg' <=> o \in chg /\ lock[o] # t)
    BY DEF IInv, Cached, Drop, Owned
  <2>2. CASE lock[o] = t
    BY <2>1, <2>2 DEF CacheOf
  <2>3. CASE lock[o] # t
    BY <1>2, <2>1, <2>3, SameCache
  <2> QED BY <2>2, <2>3
<1> QED BY <1>1, <1>2, <1>3 DEF Cached

\* A refused commit only moves its fresh numbers to lost.
LEMMA CommitFailsInv ==
  ASSUME FreesFit, NEW t \in Txn, IInv, CommitFails(t)
  PROVE  IInv'
<1>1. /\ UNCHANGED <<bitmap, refs, data, durable, used, lock, wr, free>>
      /\ pc' = [pc EXCEPT ![t] = "commit"] /\ alloc' = [alloc EXCEPT ![t] = {}]
      /\ Drop(t)
  BY DEF CommitFails
<1>2. /\ ip' \in [Obj -> SUBSET Num] /\ chg' \subseteq Obj
      /\ \A o \in Obj : lock[o] # t => ip'[o] = ip[o]
      /\ Cached'
  BY <1>1, DropInv DEF IInv, TypeOK
<1>3. TypeOK' /\ CrashConsistent'
  BY <1>2 DEF IInv, TypeOK, Store, Committed, CrashConsistent, StoreConsistent, CommitFails
<1>4. Claims'
  BY DEF IInv, TypeOK, Claims, Pending, CommitFails
<1>5. BuffersOf(t)'
  BY <1>1 DEF IInv, TypeOK, BuffersOf
<1>6. ASSUME NEW u \in Txn, u # t PROVE BuffersOf(u)'
  <2>1. Owned(u)' = Owned(u) /\ \A m : Holds(u, m) => Holds(u, m)'
    BY <1>1 DEF Owned, Holds
  <2>2. \A o \in Owned(u) : ip'[o] = ip[o]
    BY <1>2, <1>6 DEF Owned
  <2>3. pc'[u] = pc[u] /\ alloc'[u] = alloc[u]
    BY <1>1, <1>6 DEF IInv, TypeOK
  <2>4. BuffersOf(u) BY DEF IInv, Buffers
  <2> QED BY <1>1, <2>1, <2>2, <2>3, <2>4, SameBuffers
<1> QED BY <1>2, <1>3, <1>4, <1>5, <1>6 DEF IInv, Buffers

\* CommitFh makes the committed state durable.
LEMMA CommitFhInv ==
  ASSUME NEW t \in Txn, IInv, CommitFh(t)
  PROVE  IInv'
<1>1. TypeOK' /\ CrashConsistent'
  BY DEF IInv, TypeOK, Store, Committed, CrashConsistent, StoreConsistent, inodes, CommitFh
<1>2. \A u \in Txn : Pending(u)' = Pending(u)
  BY DEF IInv, TypeOK, Pending, CommitFh
<1>3. Claims' /\ Buffers'
  BY <1>2 DEF IInv, TypeOK, Claims, Buffers, BuffersOf, Holds, Owned, inodes, CommitFh
<1>4. Cached'
  BY DEF IInv, TypeOK, Cached, CacheOf, Owned, inodes, CommitFh
<1> QED BY <1>1, <1>3, <1>4 DEF IInv

\* The steps after the decision to commit or abort: each gives up a lock or
\* one claim.
LEMMA FinishInv ==
  ASSUME NEW t \in Txn, IInv,
         \/ Abort(t) \/ End(t)
         \/ \E o \in Obj : ReleaseInodes(t, o)
         \/ \E n \in Num : PostCommit(t, n) \/ PostAbort(t, n)
  PROVE  IInv'
<1>1. CASE Abort(t)
  <2>0. /\ ip' \in [Obj -> SUBSET Num] /\ chg' \subseteq Obj
        /\ \A o \in Obj : lock[o] # t => ip'[o] = ip[o]
        /\ Cached'
    BY <1>1, DropInv DEF IInv, TypeOK, Abort
  <2>1. TypeOK'
    BY <1>1, <2>0 DEF IInv, TypeOK, Store, Committed, Abort
  <2>2. CrashConsistent'
    BY <1>1 DEF IInv, Committed, CrashConsistent, StoreConsistent, Abort
  <2>3. \A u \in Txn : Pending(u)' = Pending(u)
    BY <1>1 DEF IInv, TypeOK, Pending, Abort
  <2>4. Claims'
    BY <1>1, <2>3 DEF IInv, Claims, Abort
  <2>5. BuffersOf(t)'
    BY <1>1 DEF IInv, TypeOK, BuffersOf, Abort
  <2>6. ASSUME NEW u \in Txn, u # t PROVE BuffersOf(u)'
    <3>1. /\ UNCHANGED <<refs, alloc, free, wr, lock>>
          /\ pc'[u] = pc[u]
      BY <1>1, <2>6 DEF IInv, TypeOK, Abort
    <3>2. Owned(u)' = Owned(u) /\ \A m : Holds(u, m) => Holds(u, m)'
      BY <3>1 DEF Owned, Holds
    <3>3. \A o \in Owned(u) : ip'[o] = ip[o]
      BY <2>0, <2>6 DEF Owned
    <3>4. BuffersOf(u) BY DEF IInv, Buffers
    <3> QED BY <3>1, <3>2, <3>3, <3>4, SameBuffers
  <2> QED BY <2>0, <2>1, <2>2, <2>4, <2>5, <2>6 DEF IInv, Buffers
<1>2. CASE End(t)
  <2>1. TypeOK' /\ CrashConsistent' /\ Buffers'
    <3>1. TypeOK'
      BY <1>2 DEF IInv, TypeOK, Store, Committed, inodes, End
    <3>2. CrashConsistent'
      BY <1>2 DEF IInv, Committed, CrashConsistent, StoreConsistent, End
    <3>3. Buffers'
      <4>1. BuffersOf(t)'
        BY <1>2 DEF IInv, TypeOK, BuffersOf, Owned, End
      <4>2. ASSUME NEW u \in Txn, u # t PROVE BuffersOf(u)'
        <5>1. /\ refs' = refs /\ ip' = ip /\ lock' = lock
              /\ pc'[u] = pc[u] /\ alloc'[u] = alloc[u] /\ free'[u] = free[u] /\ wr'[u] = wr[u]
          BY <1>2, <4>2 DEF IInv, TypeOK, inodes, End
        <5>2. Owned(u)' = Owned(u) /\ \A m : Holds(u, m) => Holds(u, m)'
          BY <5>1 DEF Owned, Holds
        <5>3. BuffersOf(u) BY DEF IInv, Buffers
        <5> QED BY <5>1, <5>2, <5>3, SameBuffers
      <4> QED BY <4>1, <4>2 DEF Buffers
    <3> QED BY <3>1, <3>2, <3>3
  <2>2. \A u \in Txn : Pending(u)' = Pending(u)
    BY <1>2 DEF IInv, TypeOK, Pending, End
  <2>3. Claims'
    BY <1>2, <2>2 DEF IInv, Claims, End
  <2>4. Cached'
    BY <1>2 DEF IInv, TypeOK, Cached, CacheOf, Owned, inodes, End
  <2> QED BY <2>1, <2>3, <2>4 DEF IInv
<1>3. ASSUME NEW o \in Obj, ReleaseInodes(t, o) PROVE IInv'
  <2>1. TypeOK'
    BY <1>3 DEF IInv, TypeOK, Store, Committed, inodes, ReleaseInodes
  <2>2. CrashConsistent'
    BY <1>3 DEF IInv, Committed, CrashConsistent, StoreConsistent, ReleaseInodes
  <2>3. \A u \in Txn : Pending(u)' = Pending(u)
    BY <1>3 DEF Pending, ReleaseInodes
  <2>4. Claims'
    BY <1>3, <2>3 DEF IInv, Claims, ReleaseInodes
  <2>5. BuffersOf(t)'
    BY <1>3 DEF BuffersOf, ReleaseInodes
  <2>6. ASSUME NEW u \in Txn, u # t PROVE BuffersOf(u)'
    <3>1. /\ refs' = refs /\ ip' = ip
          /\ pc'[u] = pc[u] /\ alloc'[u] = alloc[u] /\ free'[u] = free[u] /\ wr'[u] = wr[u]
      BY <1>3, <2>6 DEF IInv, TypeOK, inodes, ReleaseInodes
    <3>2. Owned(u)' = Owned(u) /\ \A m : Holds(u, m) => Holds(u, m)'
      BY <1>3, <2>6, NoTxnAssumption DEF IInv, TypeOK, Owned, Holds, ReleaseInodes
    <3>3. BuffersOf(u) BY DEF IInv, Buffers
    <3> QED BY <3>1, <3>2, <3>3, SameBuffers
  <2>7. Buffers'
    BY <2>5, <2>6 DEF Buffers
  <2>8. Cached'
    BY <1>3, NoTxnAssumption DEF IInv, TypeOK, Cached, CacheOf, inodes, ReleaseInodes
  <2> QED BY <2>1, <2>2, <2>4, <2>7, <2>8 DEF IInv
<1>4. ASSUME NEW n \in Num, PostCommit(t, n) \/ PostAbort(t, n) PROVE IInv'
  <2>0. UNCHANGED <<bitmap, refs, data, durable, lock, pc, ip, chg, wr, lost>>
    BY <1>4 DEF inodes, PostCommit, PostAbort
  <2>1. TypeOK'
    <3>1. CASE PostCommit(t, n)
      BY <2>0, <3>1 DEF IInv, TypeOK, Store, Committed, PostCommit
    <3>2. CASE PostAbort(t, n)
      BY <2>0, <3>2 DEF IInv, TypeOK, Store, Committed, PostAbort
    <3> QED BY <1>4, <3>1, <3>2
  <2>2. CrashConsistent'
    BY <2>0 DEF IInv, Committed, CrashConsistent, StoreConsistent
  <2>3. Buffers'
    <3>1. \A u \in Txn : /\ pc[u] # "commit" => free'[u] = free[u]
                         /\ pc[u] # "abort" => alloc'[u] = alloc[u]
      BY <1>4 DEF IInv, TypeOK, PostCommit, PostAbort
    <3>2. \A u \in Txn : Owned(u)' = Owned(u)
      BY <2>0 DEF Owned
    <3>3. \A u \in Txn : \A m : Holds(u, m) => Holds(u, m)'
      BY <2>0 DEF Holds
    <3>4. ASSUME NEW u \in Txn, pc[u] \in {"idle", "active"} PROVE BuffersOf(u)'
      <4>1. alloc'[u] = alloc[u] /\ free'[u] = free[u]
        BY <3>1, <3>4
      <4>2. BuffersOf(u) BY DEF IInv, Buffers
      <4> QED BY <2>0, <3>2, <3>3, <4>1, <4>2, SameBuffers
    <3>5. ASSUME NEW u \in Txn, pc[u] \notin {"idle", "active"} PROVE BuffersOf(u)'
      BY <2>0, <3>5 DEF BuffersOf
    <3> QED BY <3>4, <3>5 DEF Buffers
  <2>4. n \in Pending(t) /\ Pending(t)' = Pending(t) \ {n} /\ used' = used \ {n}
    BY <1>4 DEF IInv, TypeOK, Pending, PostCommit, PostAbort
  <2>5. \A u \in Txn : u # t => Pending(u)' = Pending(u)
    BY <1>4 DEF IInv, TypeOK, Pending, PostCommit, PostAbort
  <2>6. Claims'
    BY <2>0, <2>4, <2>5 DEF IInv, Claims
  <2>7. Cached'
    BY <2>0 DEF IInv, Cached, CacheOf
  <2> QED BY <2>1, <2>2, <2>3, <2>6, <2>7 DEF IInv
<1> QED BY <1>1, <1>2, <1>3, <1>4

\* The journal writing committed transactions to disk.
LEMMA FlushInv ==
  ASSUME IInv, Flush
  PROVE  IInv'
<1>1. TypeOK' /\ CrashConsistent'
  BY DEF IInv, TypeOK, Store, Committed, CrashConsistent, StoreConsistent, inodes, Flush
<1>2. Claims'
  BY DEF IInv, Claims, Pending, Flush
<1>3. ASSUME NEW u \in Txn PROVE BuffersOf(u)'
  <2>1. Owned(u)' = Owned(u) /\ \A m : Holds(u, m) => Holds(u, m)'
    BY DEF Owned, Holds, Flush
  <2>2. BuffersOf(u) BY DEF IInv, Buffers
  <2> QED BY <2>1, <2>2, SameBuffers DEF inodes, Flush
<1>4. Cached'
  BY DEF IInv, Cached, CacheOf, inodes, Flush
<1> QED BY <1>1, <1>2, <1>3, <1>4 DEF IInv, Buffers

\* Restart rebuilds the allocator from a consistent durable state.
LEMMA RestartInv ==
  ASSUME IInv, Restart
  PROVE  IInv'
<1>1. TypeOK' /\ CrashConsistent'
  BY DEF IInv, TypeOK, Store, Committed, CrashConsistent, StoreConsistent, Restart
<1>2. Claims'
  BY DEF IInv, TypeOK, Store, Claims, Pending, Restart
<1>3. Buffers'
  BY NoTxnAssumption DEF Buffers, BuffersOf, Owned, Restart
<1>4. Cached'
  BY NoTxnAssumption DEF Cached, CacheOf, Restart
<1> QED BY <1>1, <1>2, <1>3, <1>4 DEF IInv

-----------------------------------------------------------------------------

\* Every step of the system preserves the inductive invariant.
LEMMA NextInv == ASSUME FreesFit, ~StaleHits PROVE IInv /\ [Next]_vars => IInv'
<1> SUFFICES ASSUME IInv, [Next]_vars PROVE IInv'
  OBVIOUS
<1>1. ASSUME NEW t \in Txn, Step(t) PROVE IInv'
  BY <1>1, BeginInv, GetInodeLockedInv, ReleaseInodeInv, AllocNumInv, LinkInv, WriteBlockInv,
     FreeBlockInv, CommitWaitInv, CommitFailsInv, CommitFhInv, FinishInv
  DEF Step
<1>2. CASE UNCHANGED vars
  <2>1. TypeOK' /\ CrashConsistent'
    BY <1>2 DEF IInv, TypeOK, Store, Committed, CrashConsistent, StoreConsistent, inodes, vars
  <2>2. Claims'
    BY <1>2 DEF IInv, Claims, Pending, vars
  <2>3. ASSUME NEW u \in Txn PROVE BuffersOf(u)'
    <3>1. Owned(u)' = Owned(u) /\ \A m : Holds(u, m) => Holds(u, m)'
      BY <1>2 DEF Owned, Holds, vars
    <3>2. BuffersOf(u) BY DEF IInv, Buffers
    <3> QED BY <1>2, <3>1, <3>2, SameBuffers DEF inodes, vars
  <2>4. Cached'
    BY <1>2 DEF IInv, Cached, CacheOf, inodes, vars
  <2> QED BY <2>1, <2>2, <2>3, <2>4 DEF IInv, Buffers
<1> QED BY <1>1, <1>2, FlushInv, RestartInv DEF Next

\* The inductive invariant holds throughout every execution.
THEOREM Invariance == ASSUME FreesFit, ~StaleHits PROVE Spec => []IInv
  BY InitInv, NextInv, PTL DEF Spec

\* The type invariant.
THEOREM TypeCorrect == ASSUME FreesFit, ~StaleHits PROVE Spec => []TypeOK
<1>1. IInv => TypeOK
  BY DEF IInv
<1> QED BY <1>1, Invariance, PTL

\* Whatever is committed, aborted, flushed or lost in a crash, both the
\* committed state and the state recovery would find are consistent.
THEOREM CrashSafety == ASSUME FreesFit, ~StaleHits PROVE Spec => []CrashConsistent
<1>1. IInv => CrashConsistent
  BY DEF IInv
<1> QED BY <1>1, Invariance, PTL

\* A number handed out by the allocator belongs to one transaction alone.
THEOREM ExclusiveAllocation == ASSUME FreesFit, ~StaleHits PROVE Spec => []AllocExclusive
<1>1. IInv => AllocExclusive
  <2> SUFFICES ASSUME IInv, NEW t \in Txn, pc[t] = "active", NEW n \in alloc[t]
               PROVE  /\ \A o \in Obj : n \notin refs[o]
                      /\ \A u \in Txn \ {t} :
                           /\ pc[u] \in {"active", "abort"} => n \notin alloc[u]
                           /\ pc[u] \in {"active", "commit"} => n \notin free[u]
    BY DEF AllocExclusive
  <2>1. n \in Pending(t) /\ n \notin bitmap
    BY DEF IInv, Claims, Pending
  <2>2. \A o \in Obj : n \notin refs[o]
    BY <2>1 DEF IInv, CrashConsistent, StoreConsistent, Committed
  <2>3. ASSUME NEW u \in Txn, u # t
        PROVE  /\ pc[u] \in {"active", "abort"} => n \notin alloc[u]
               /\ pc[u] \in {"active", "commit"} => n \notin free[u]
    <3>1. n \notin Pending(u)
      BY <2>1, <2>3 DEF IInv, Claims
    <3>2. pc[u] = "active" => free[u] \subseteq bitmap \cup alloc[u]
      BY ActiveFacts
    <3> QED BY <2>1, <3>1, <3>2 DEF Pending
  <2> QED BY <2>2, <2>3
<1> QED BY <1>1, Invariance, PTL

\* A block just allocated reads as zeros although AllocBlock does not clear it.
THEOREM FreshZero == ASSUME FreesFit, ~StaleHits PROVE Spec => []FreshBlockIsZero
<1>1. IInv => FreshBlockIsZero
  BY DEF IInv, CrashConsistent, StoreConsistent, Committed, Claims, Pending, FreshBlockIsZero
<1> QED BY <1>1, Invariance, PTL

\* The allocator never offers a number whose bit is set on disk.
THEOREM AllocatorCovers == ASSUME FreesFit, ~StaleHits PROVE Spec => []AllocatorCoversDisk
<1>1. IInv => AllocatorCoversDisk
  BY DEF IInv, TypeOK, Committed, Store, Claims, AllocatorCoversDisk
<1> QED BY <1>1, Invariance, PTL

\* With no transaction running, memory and disk agree on what is allocated.
THEOREM NoLeak == ASSUME FreesFit, ~StaleHits PROVE Spec => []NoLeakAtRest
<1>1. IInv => NoLeakAtRest
  <2> SUFFICES ASSUME IInv, \A t \in Txn : pc[t] = "idle"
               PROVE  used = bitmap \cup lost
    BY DEF NoLeakAtRest
  <2>1. \A t \in Txn : Pending(t) = {}
    BY DEF IInv, Buffers, BuffersOf, Pending
  <2> QED BY <2>1 DEF IInv, TypeOK, Committed, Store, Claims
<1> QED BY <1>1, Invariance, PTL
=============================================================================
