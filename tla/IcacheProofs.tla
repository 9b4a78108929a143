---------------------------- MODULE IcacheProofs ----------------------------
(***************************************************************************)
(* Proofs about Icache, for every number of inodes, threads and slots: as  *)
(* long as no transaction is aborted or refused by the log after it has    *)
(* changed an inode, what is in the cache is what is on disk, and the      *)
(* cache cannot be told from none.                                         *)
(*                                                                         *)
(* CacheCurrent is not inductive. IInv adds that the pointers a            *)
(* transaction has and the locks it holds are the same, that an entry      *)
(* knows its inode, and that a locked inode's entry in the map, if it has  *)
(* one, is the one its holder points to.                                   *)
(***************************************************************************)
EXTENDS Icache, TLAPS

\* Most leaves are first-order; the ones with arithmetic, records or long case
\* splits name SMT.
USE Zenon

IType ==
  /\ disk \in [Inum -> Val]
  /\ entries \in [Inum -> Entry \cup {None}]
  /\ slot \in [Entry -> [id : Inum, Obj : Val \cup {None}] \cup {Unused}]
  /\ lock \in [Inum -> Thread \cup {None}]
  /\ op \in [Thread -> OpState]

\* A transaction has a pointer to the inodes it has locked, and no other; it has
\* written only inodes it has.
LocksMatch ==
  \A t \in Thread, i \in Inum :
    /\ op[t].ptr[i] # None <=> lock[i] = t
    /\ i \in op[t].inodes => op[t].ptr[i] # None
    /\ op[t].buf[i] # None => i \in op[t].inodes

\* Entries know their inodes, in the map and in transactions.
IdsMatch ==
  \A i \in Inum :
    /\ entries[i] # None => slot[entries[i]].id = i
    /\ \A t \in Thread : op[t].ptr[i] # None => slot[op[t].ptr[i]].id = i

\* The map and the holder of the lock agree on the entry.
OneEntry ==
  \A t \in Thread, i \in Inum :
    op[t].ptr[i] # None /\ entries[i] # None => entries[i] = op[t].ptr[i]

\* An entry just looked up is empty, or as on disk.
GettingCurrent ==
  \A t \in Thread, i \in Inum :
    op[t].ptr[i] # None /\ i \notin op[t].inodes => slot[op[t].ptr[i]].Obj \in {None, disk[i]}

IInv == IType /\ LocksMatch /\ IdsMatch /\ OneEntry /\ GettingCurrent /\ CacheCurrent

LEMMA InitIInv == IcacheInit => IInv
<1> SUFFICES ASSUME IcacheInit PROVE IInv OBVIOUS
<1>1. \A t \in Thread, i \in Inum : op[t].ptr[i] = None /\ op[t].buf[i] = None /\ op[t].inodes = {}
  BY DEF IcacheInit, NoOp
<1>2. \A i \in Inum : entries[i] = None /\ lock[i] = None
  BY DEF IcacheInit
<1>3. IType
  BY DEF IcacheInit, IType, NoOp, OpState, Unused
<1>4. LocksMatch /\ IdsMatch /\ OneEntry /\ GettingCurrent
  BY <1>1, <1>2, IcacheAssumption DEF LocksMatch, IdsMatch, OneEntry, GettingCurrent
<1>5. CacheCurrent
  BY <1>1, <1>2 DEF CacheCurrent
<1> QED BY <1>3, <1>4, <1>5 DEF IInv

\* Transactions stay transactions when one of their parts changes.
LEMMA OpUpdate ==
  ASSUME NEW o \in OpState, NEW p \in [Inum -> Entry \cup {None}], NEW is \in SUBSET Inum,
         NEW b \in [Inum -> Val \cup {None}]
  PROVE  /\ [o EXCEPT !.ptr = p] \in OpState
         /\ [o EXCEPT !.inodes = is] \in OpState
         /\ [o EXCEPT !.buf = b] \in OpState
BY DEF OpState

\* Entries the collector keeps are unchanged.
LEMMA CollectKeeps ==
  ASSUME NEW s, NEW live, NEW e \in Entry, e \in live
  PROVE  Collect(s, live)[e] = s[e]
BY DEF Collect

\* A new entry is one nothing points to.
LEMMA FreshIsFresh ==
  ASSUME ~(Entry \subseteq Reachable(entries))
  PROVE  Fresh \in Entry /\ Fresh \notin Reachable(entries)
<1>1. \E e \in Entry : e \notin Reachable(entries) OBVIOUS
<1> QED BY <1>1 DEF Fresh

LEMMA CollectType ==
  ASSUME NEW live, slot \in [Entry -> [id : Inum, Obj : Val \cup {None}] \cup {Unused}]
  PROVE  Collect(slot, live) \in [Entry -> [id : Inum, Obj : Val \cup {None}] \cup {Unused}]
BY DEF Collect

\* LookupSlot of a missing inode, seen from outside: the other inodes keep their
\* entry or lose it, the entries pointed to keep their contents, and the new one
\* is empty.
LEMMA MissEffect ==
  ASSUME IInv, NEW i \in Inum, LookupSlotMiss(i)
  PROVE  /\ entries' \in [Inum -> Entry \cup {None}]
         /\ slot' \in [Entry -> [id : Inum, Obj : Val \cup {None}] \cup {Unused}]
         /\ entries'[i] \in Entry /\ slot'[entries'[i]] = [id |-> i, Obj |-> None]
         /\ \A j \in Inum \ {i} :
              entries'[j] \in {entries[j], None}
              /\ (entries'[j] # None => slot'[entries'[j]] = slot[entries[j]])
         /\ \A t \in Thread, j \in Inum :
              op[t].ptr[j] # None => slot'[op[t].ptr[j]] = slot[op[t].ptr[j]]
<1> DEFINE c == IF cnt >= ICACHESZ THEN evict ELSE [entries |-> entries, lru |-> lru, cnt |-> cnt]
           e == Fresh
           live == Reachable(c.entries)
<1>1. IType BY DEF IInv
<1>2. /\ ~(Entry \subseteq Reachable(entries))
      /\ entries' = [c.entries EXCEPT ![i] = e]
      /\ slot' = [Collect(slot, live) EXCEPT ![e] = [id |-> i, Obj |-> None]]
  BY DEF LookupSlotMiss
<1>3. e \in Entry /\ e \notin Reachable(entries) BY <1>2, FreshIsFresh
<1>4. /\ c.entries \in [Inum -> Entry \cup {None}]
      /\ \A j \in Inum : c.entries[j] \in {entries[j], None}
  <2>1. entries \in [Inum -> Entry \cup {None}] BY <1>1 DEF IType
  <2>2. CASE cnt >= ICACHESZ
    <3>1. c.entries = [entries EXCEPT ![slot[Head(lru)].id] = None] BY <2>2 DEF evict
    <3> HIDE DEF c
    <3> QED BY <2>1, <3>1
  <2>3. CASE ~(cnt >= ICACHESZ)
    <3>1. c.entries = entries BY <2>3
    <3> HIDE DEF c
    <3> QED BY <2>1, <3>1
  <2> QED BY <2>2, <2>3
<1> HIDE DEF c, e
<1>5. /\ entries' \in [Inum -> Entry \cup {None}]
      /\ entries'[i] = e
      /\ \A j \in Inum \ {i} : entries'[j] = c.entries[j]
  BY <1>2, <1>3, <1>4
<1>6. Collect(slot, live) \in [Entry -> [id : Inum, Obj : Val \cup {None}] \cup {Unused}]
  BY <1>1, CollectType DEF IType
<1>7. /\ slot' \in [Entry -> [id : Inum, Obj : Val \cup {None}] \cup {Unused}]
      /\ slot'[e] = [id |-> i, Obj |-> None]
      /\ \A x \in Entry : x # e /\ x \in live => slot'[x] = slot[x]
  <2>1. slot' = [Collect(slot, live) EXCEPT ![e] = [id |-> i, Obj |-> None]] BY <1>2
  <2>2. \A x \in Entry : x \in live => Collect(slot, live)[x] = slot[x] BY CollectKeeps
  <2>3. slot'[e] = [id |-> i, Obj |-> None] BY <2>1, <1>3, <1>6
  <2>4. \A x \in Entry : x # e /\ x \in live => slot'[x] = slot[x] BY <2>1, <2>2, <1>6
  <2>5. slot' \in [Entry -> [id : Inum, Obj : Val \cup {None}] \cup {Unused}]
    <3>1. [id |-> i, Obj |-> None] \in [id : Inum, Obj : Val \cup {None}] OBVIOUS
    <3> QED BY <2>1, <1>6, <1>3, <3>1
  <2> QED BY <2>3, <2>4, <2>5
<1>8. ASSUME NEW j \in Inum \ {i}, entries'[j] # None
      PROVE  slot'[entries'[j]] = slot[entries[j]]
  <2>1. entries'[j] = entries[j] /\ c.entries[j] = entries[j] /\ entries[j] \in Entry
    BY <1>8, <1>5, <1>4, <1>1 DEF IType
  <2>2. entries[j] \in Reachable(entries) /\ entries[j] \in live
    BY <2>1, <1>8 DEF Reachable
  <2> QED BY SMT, <2>1, <2>2, <1>3, <1>7
<1>9. ASSUME NEW t \in Thread, NEW j \in Inum, op[t].ptr[j] # None
      PROVE  slot'[op[t].ptr[j]] = slot[op[t].ptr[j]]
  <2>1. op[t].ptr[j] \in Entry BY SMT, <1>9, <1>1 DEF IType, OpState
  <2>2. op[t].ptr[j] \in Held BY SMT DEF Held
  <2>3. op[t].ptr[j] \in Reachable(entries) /\ op[t].ptr[j] \in live BY <2>2, <1>9 DEF Reachable
  <2> QED BY <2>1, <2>3, <1>3, <1>7
<1> QED BY <1>3, <1>4, <1>5, <1>7, <1>8, <1>9

-----------------------------------------------------------------------------
(* What each step of a transaction does to the transactions.               *)

LEMMA LockInodeOp ==
  ASSUME IInv, NEW t \in Thread, NEW i \in Inum, LockInode(t, i)
  PROVE  \A u \in Thread :
           /\ op'[u].inodes = op[u].inodes /\ op'[u].buf = op[u].buf
           /\ \A j \in Inum : op'[u].ptr[j] = IF u = t /\ j = i THEN entries'[i] ELSE op[u].ptr[j]
<1>1. op \in [Thread -> OpState] BY DEF IInv, IType
<1>2. op' = [op EXCEPT ![t] = [op[t] EXCEPT !.ptr = [op[t].ptr EXCEPT ![i] = entries'[i]]]]
  BY <1>1 DEF LockInode, OpState
<1>3. /\ op'[t].ptr = [op[t].ptr EXCEPT ![i] = entries'[i]]
      /\ op'[t].inodes = op[t].inodes /\ op'[t].buf = op[t].buf
  BY <1>1, <1>2 DEF OpState
<1>4. \A u \in Thread \ {t} : op'[u] = op[u] BY <1>1, <1>2
<1> QED BY SMT, <1>1, <1>3, <1>4 DEF OpState

LEMMA GetInodeLockedOp ==
  ASSUME IInv, NEW t \in Thread, NEW i \in Inum, GetInodeLocked(t, i)
  PROVE  \A u \in Thread :
           /\ op'[u].ptr = op[u].ptr /\ op'[u].buf = op[u].buf
           /\ \A j \in Inum : j \in op'[u].inodes <=> j \in op[u].inodes \/ (u = t /\ j = i)
<1>1. op \in [Thread -> OpState] BY DEF IInv, IType
<1>2. op' = [op EXCEPT ![t].inodes = op[t].inodes \cup {i}] BY DEF GetInodeLocked
<1> QED BY <1>1, <1>2 DEF OpState

LEMMA WriteInodeOp ==
  ASSUME IInv, NEW t \in Thread, NEW i \in Inum, NEW v \in Val, WriteInode(t, i, v)
  PROVE  \A u \in Thread :
           /\ op'[u].ptr = op[u].ptr /\ op'[u].inodes = op[u].inodes
           /\ \A j \in Inum : op'[u].buf[j] = IF u = t /\ j = i THEN v ELSE op[u].buf[j]
<1>1. op \in [Thread -> OpState] BY DEF IInv, IType
<1>2. op' = [op EXCEPT ![t].buf[i] = v] BY DEF WriteInode
<1> QED BY <1>1, <1>2 DEF OpState

-----------------------------------------------------------------------------
(* Each action preserves the invariant.                                    *)

LEMMA LockInodeIInv ==
  ASSUME IInv, NEW t \in Thread, NEW i \in Inum, LockInode(t, i)
  PROVE  IInv'
<1>1. IType /\ LocksMatch /\ IdsMatch /\ OneEntry /\ GettingCurrent /\ CacheCurrent BY DEF IInv
<1>2. lock[i] = None /\ disk' = disk BY DEF LockInode
<1>3. \A j \in Inum : lock'[j] = IF j = i THEN t ELSE lock[j]
  BY <1>1 DEF LockInode, IType
<1>4. \A u \in Thread :
        /\ op'[u].inodes = op[u].inodes /\ op'[u].buf = op[u].buf
        /\ \A j \in Inum : op'[u].ptr[j] = IF u = t /\ j = i THEN entries'[i] ELSE op[u].ptr[j]
  BY SMT, LockInodeOp
\* What LookupSlot did, hit or miss.
<1>5. /\ entries' \in [Inum -> Entry \cup {None}]
      /\ slot' \in [Entry -> [id : Inum, Obj : Val \cup {None}] \cup {Unused}]
      /\ entries'[i] \in Entry
      /\ slot'[entries'[i]].id = i /\ slot'[entries'[i]].Obj \in {None, disk[i]}
      /\ \A j \in Inum \ {i} :
           entries'[j] \in {entries[j], None}
           /\ (entries'[j] # None => slot'[entries'[j]] = slot[entries[j]])
      /\ \A u \in Thread, j \in Inum :
           op[u].ptr[j] # None => slot'[op[u].ptr[j]] = slot[op[u].ptr[j]]
  <2>1. CASE LookupSlotHit(i)
    <3>1. entries' = entries /\ slot' = slot /\ entries[i] # None BY <2>1 DEF LookupSlotHit
    <3>2. slot[entries[i]].id = i BY <3>1, <1>1 DEF IdsMatch
    <3>3. slot[entries[i]].Obj = disk[i] BY <3>1, <1>1, <1>2 DEF CacheCurrent
    <3> QED BY <3>1, <3>2, <3>3, <1>1 DEF IType
  <2>2. CASE LookupSlotMiss(i)
    <3>1. slot'[entries'[i]] = [id |-> i, Obj |-> None] BY <2>2, MissEffect
    <3>2. slot'[entries'[i]].id = i /\ slot'[entries'[i]].Obj = None BY SMT, <3>1
    <3>3. /\ entries' \in [Inum -> Entry \cup {None}]
          /\ slot' \in [Entry -> [id : Inum, Obj : Val \cup {None}] \cup {Unused}]
          /\ entries'[i] \in Entry
      BY <2>2, MissEffect
    <3>4. \A j \in Inum \ {i} :
            entries'[j] \in {entries[j], None}
            /\ (entries'[j] # None => slot'[entries'[j]] = slot[entries[j]])
      BY <2>2, MissEffect
    <3>5. \A u \in Thread, j \in Inum :
            op[u].ptr[j] # None => slot'[op[u].ptr[j]] = slot[op[u].ptr[j]]
      BY <2>2, MissEffect
    <3> QED BY <3>2, <3>3, <3>4, <3>5
  <2> QED BY <2>1, <2>2 DEF LockInode
\* Nobody has inode i yet.
<1>6. \A u \in Thread : op[u].ptr[i] = None /\ i \notin op[u].inodes
  BY SMT, <1>1, <1>2, IcacheAssumption DEF LocksMatch
<1>7. IType'
  <2>1. op' \in [Thread -> OpState]
    <3>1. [op[t].ptr EXCEPT ![i] = entries'[i]] \in [Inum -> Entry \cup {None}]
      BY <1>1, <1>5 DEF IType, OpState
    <3>2. [op[t] EXCEPT !.ptr = [op[t].ptr EXCEPT ![i] = entries'[i]]] \in OpState
      <4>1. op[t] \in OpState /\ op[t].inodes \in SUBSET Inum /\ op[t].buf \in [Inum -> Val \cup {None}]
        BY <1>1 DEF IType, OpState
      <4> QED BY <4>1, <3>1, OpUpdate
    <3>3. op' = [op EXCEPT ![t] = [op[t] EXCEPT !.ptr = [op[t].ptr EXCEPT ![i] = entries'[i]]]]
      BY <1>1 DEF LockInode, IType, OpState
    <3> QED BY <1>1, <3>2, <3>3 DEF IType
  <2>2. lock' \in [Inum -> Thread \cup {None}] BY <1>1 DEF LockInode, IType
  <2> QED BY <1>1, <1>2, <1>5, <2>1, <2>2 DEF IType
<1>8. LocksMatch'
  <2> SUFFICES ASSUME NEW u \in Thread, NEW j \in Inum
               PROVE  /\ op'[u].ptr[j] # None <=> lock'[j] = u
                      /\ j \in op'[u].inodes => op'[u].ptr[j] # None
                      /\ op'[u].buf[j] # None => j \in op'[u].inodes
    BY DEF LocksMatch
  <2>1. CASE j = i
    BY SMT, <2>1, <1>1, <1>3, <1>4, <1>5, <1>6, IcacheAssumption DEF LocksMatch
  <2>2. CASE j # i
    BY SMT, <2>2, <1>1, <1>3, <1>4 DEF LocksMatch
  <2> QED BY <2>1, <2>2
<1>9. IdsMatch'
  <2>1. \A j \in Inum : entries'[j] # None => slot'[entries'[j]].id = j
    BY <1>1, <1>5 DEF IdsMatch
  <2>2. \A j \in Inum, u \in Thread : op'[u].ptr[j] # None => slot'[op'[u].ptr[j]].id = j
    BY SMT, <1>1, <1>4, <1>5 DEF IdsMatch
  <2> QED BY <2>1, <2>2 DEF IdsMatch
<1>10. OneEntry'
  BY SMT, <1>1, <1>4, <1>5, <1>6 DEF OneEntry
<1>11. GettingCurrent'
  <2> SUFFICES ASSUME NEW u \in Thread, NEW j \in Inum, op'[u].ptr[j] # None, j \notin op'[u].inodes
               PROVE  slot'[op'[u].ptr[j]].Obj \in {None, disk'[j]}
    BY DEF GettingCurrent
  <2> QED BY SMT, <1>1, <1>2, <1>4, <1>5 DEF GettingCurrent
<1>12. CacheCurrent'
  <2>1. ASSUME NEW u \in Thread, NEW j \in Inum, j \in op'[u].inodes
        PROVE  slot'[op'[u].ptr[j]].Obj = IF op'[u].buf[j] # None THEN op'[u].buf[j] ELSE disk'[j]
    <3>1. j \in op[u].inodes /\ j # i /\ op[u].ptr[j] # None /\ op'[u].ptr[j] = op[u].ptr[j]
      BY SMT, <2>1, <1>1, <1>4, <1>6 DEF LocksMatch
    <3>2. slot'[op'[u].ptr[j]] = slot[op[u].ptr[j]] BY <3>1, <1>5
    <3> QED BY SMT, <3>1, <3>2, <1>1, <1>2, <1>4 DEF CacheCurrent
  <2>2. ASSUME NEW j \in Inum, lock'[j] = None, entries'[j] # None
        PROVE  slot'[entries'[j]].Obj = disk'[j]
    <3>1. j # i /\ lock[j] = None BY <2>2, <1>3, IcacheAssumption
    <3>2. entries[j] # None /\ slot'[entries'[j]] = slot[entries[j]] BY <3>1, <2>2, <1>5
    <3> QED BY <3>1, <3>2, <1>1, <1>2 DEF CacheCurrent
  <2> QED BY <2>1, <2>2 DEF CacheCurrent
<1> QED BY <1>7, <1>8, <1>9, <1>10, <1>11, <1>12 DEF IInv

\* Two inodes in use never share an entry: entries know their inodes.
LEMMA Apart ==
  ASSUME IInv, NEW t \in Thread, NEW i \in Inum, op[t].ptr[i] # None
  PROVE  /\ op[t].ptr[i] \in Entry
         /\ \A j \in Inum : entries[j] = op[t].ptr[i] => j = i
         /\ \A u \in Thread, j \in Inum : op[u].ptr[j] = op[t].ptr[i] => u = t /\ j = i
<1>1. IType /\ LocksMatch /\ IdsMatch BY DEF IInv
<1>2. op[t].ptr[i] \in Entry /\ lock[i] = t BY SMT, <1>1 DEF IType, OpState, LocksMatch
<1>3. slot[op[t].ptr[i]].id = i BY <1>1 DEF IdsMatch
<1>4. \A j \in Inum : entries[j] = op[t].ptr[i] => j = i BY <1>1, <1>3 DEF IdsMatch
<1>5. \A u \in Thread, j \in Inum : op[u].ptr[j] = op[t].ptr[i] => u = t /\ j = i
  <2> SUFFICES ASSUME NEW u \in Thread, NEW j \in Inum, op[u].ptr[j] = op[t].ptr[i]
               PROVE  u = t /\ j = i
    OBVIOUS
  <2>1. j = i BY SMT, <1>1, <1>3 DEF IdsMatch
  <2>2. lock[j] = u BY <1>1 DEF LocksMatch
  <2> QED BY <2>1, <2>2, <1>2
<1> QED BY <1>2, <1>4, <1>5

WithObj(e, v) == [slot EXCEPT ![e].Obj = v]

\* A change of Obj of an entry in hand, as the other inodes see it: not at all.
LEMMA ObjUpdate ==
  ASSUME IInv, NEW t \in Thread, NEW i \in Inum, op[t].ptr[i] # None, NEW v \in Val,
         slot' = WithObj(op[t].ptr[i], v)
  PROVE  /\ slot' \in [Entry -> [id : Inum, Obj : Val \cup {None}] \cup {Unused}]
         /\ slot'[op[t].ptr[i]].id = i /\ slot'[op[t].ptr[i]].Obj = v
         /\ \A e \in Entry : e # op[t].ptr[i] => slot'[e] = slot[e]
<1>1. IType /\ IdsMatch BY DEF IInv
<1>2. op[t].ptr[i] \in Entry BY Apart
<1>3. slot[op[t].ptr[i]].id = i BY <1>1 DEF IdsMatch
<1>4. slot \in [Entry -> [id : Inum, Obj : Val \cup {None}] \cup {Unused}] BY <1>1 DEF IType
<1> DEFINE e == op[t].ptr[i]
<1>5. slot[e] \in [id : Inum, Obj : Val \cup {None}]
  <2>1. CASE slot[e] = Unused
    <3>1. i = None /\ [slot[e] EXCEPT !.Obj = v] = [id |-> None, Obj |-> v] BY SMT, <2>1, <1>3 DEF Unused
    <3>2. slot[e] = [id |-> i, Obj |-> None] BY <2>1, <3>1 DEF Unused
    <3> QED BY SMT, <3>2
  <2> QED BY <2>1, <1>2, <1>4
<1>6. [slot[e] EXCEPT !.Obj = v] = [id |-> i, Obj |-> v] BY SMT, <1>3, <1>5
<1> HIDE DEF e
<1>7. slot' = [slot EXCEPT ![e] = [id |-> i, Obj |-> v]]
  BY <1>6, <1>4, <1>2 DEF e, WithObj
<1>8. slot'[e] = [id |-> i, Obj |-> v] BY <1>7, <1>2, <1>4 DEF e
<1>9. \A x \in Entry : x # e => slot'[x] = slot[x] BY <1>7, <1>4
<1>10. slot' \in [Entry -> [id : Inum, Obj : Val \cup {None}] \cup {Unused}]
  <2>1. [id |-> i, Obj |-> v] \in [id : Inum, Obj : Val \cup {None}] OBVIOUS
  <2> QED BY <2>1, <1>7, <1>4
<1>11. slot'[e].id = i /\ slot'[e].Obj = v BY SMT, <1>8
<1> QED BY <1>9, <1>10, <1>11 DEF e

\* The same, when the change leaves the map and the pointers alone.
LEMMA EntryUpdate ==
  ASSUME IInv, NEW t \in Thread, NEW i \in Inum, op[t].ptr[i] # None, entries' = entries,
         \A u \in Thread : op'[u].ptr = op[u].ptr,
         slot'[op[t].ptr[i]].id = i,
         \A e \in Entry : e # op[t].ptr[i] => slot'[e] = slot[e]
  PROVE  /\ IdsMatch' /\ OneEntry'
         /\ \A u \in Thread, j \in Inum :
              op[u].ptr[j] # None /\ (u # t \/ j # i) => slot'[op[u].ptr[j]] = slot[op[u].ptr[j]]
         /\ \A j \in Inum : entries[j] # None /\ j # i => slot'[entries[j]] = slot[entries[j]]
<1>1. IType /\ LocksMatch /\ IdsMatch /\ OneEntry BY DEF IInv
<1>2. /\ \A j \in Inum : entries[j] = op[t].ptr[i] => j = i
      /\ \A u \in Thread, j \in Inum : op[u].ptr[j] = op[t].ptr[i] => u = t /\ j = i
  BY Apart
<1>3. \A u \in Thread, j \in Inum : op[u].ptr[j] \in Entry \cup {None}
  BY <1>1 DEF IType, OpState
<1>4. \A j \in Inum : entries[j] \in Entry \cup {None} BY <1>1 DEF IType
<1>5. \A u \in Thread, j \in Inum :
        op[u].ptr[j] # None /\ (u # t \/ j # i) => slot'[op[u].ptr[j]] = slot[op[u].ptr[j]]
  BY <1>2, <1>3
<1>6. \A j \in Inum : entries[j] # None /\ j # i => slot'[entries[j]] = slot[entries[j]]
  BY <1>2, <1>4
<1>7. OneEntry' BY SMT, <1>1 DEF OneEntry
<1>8. ASSUME NEW j \in Inum, entries[j] # None PROVE slot'[entries[j]].id = j
  <2>1. CASE j = i
    <3>1. entries[i] = op[t].ptr[i] BY <2>1, <1>8, <1>1 DEF OneEntry
    <3> QED BY <2>1, <3>1
  <2>2. CASE j # i BY <2>2, <1>8, <1>6, <1>1 DEF IdsMatch
  <2> QED BY <2>1, <2>2
<1>9. ASSUME NEW j \in Inum, NEW u \in Thread, op[u].ptr[j] # None PROVE slot'[op[u].ptr[j]].id = j
  <2>1. CASE u = t /\ j = i BY <2>1
  <2>2. CASE u # t \/ j # i BY SMT, <2>2, <1>9, <1>5, <1>1 DEF IdsMatch
  <2> QED BY <2>1, <2>2
<1>10. IdsMatch' BY SMT, <1>8, <1>9 DEF IdsMatch
<1> QED BY <1>5, <1>6, <1>7, <1>10

LEMMA GetInodeLockedIInv ==
  ASSUME IInv, NEW t \in Thread, NEW i \in Inum, GetInodeLocked(t, i)
  PROVE  IInv'
<1>1. IType /\ LocksMatch /\ IdsMatch /\ OneEntry /\ GettingCurrent /\ CacheCurrent BY DEF IInv
<1>2. /\ op[t].ptr[i] # None /\ i \notin op[t].inodes
      /\ UNCHANGED <<disk, entries, lock>>
  BY DEF GetInodeLocked
<1>w. op' = [op EXCEPT ![t].inodes = op[t].inodes \cup {i}] BY DEF GetInodeLocked
<1>3. lock[i] = t BY <1>1, <1>2 DEF LocksMatch
<1>4. op' \in [Thread -> OpState]
  <2>1. op[t] \in OpState /\ op[t].inodes \cup {i} \in SUBSET Inum
        /\ op[t].ptr \in [Inum -> Entry \cup {None}] /\ op[t].buf \in [Inum -> Val \cup {None}]
    BY <1>1 DEF IType, OpState
  <2>2. [op[t] EXCEPT !.inodes = op[t].inodes \cup {i}] \in OpState BY <2>1, OpUpdate
  <2>3. op' = [op EXCEPT ![t] = [op[t] EXCEPT !.inodes = op[t].inodes \cup {i}]]
    BY <1>1, <1>w DEF IType
  <2> QED BY <1>1, <2>2, <2>3 DEF IType
<1>5. \A u \in Thread :
        /\ op'[u].ptr = op[u].ptr /\ op'[u].buf = op[u].buf
        /\ \A j \in Inum : j \in op'[u].inodes <=> j \in op[u].inodes \/ (u = t /\ j = i)
  BY GetInodeLockedOp
<1>6. op[t].buf[i] = None BY <1>1, <1>2 DEF LocksMatch
\* The entry holds the committed inode now; the other entries are as before.
<1>7. /\ slot' \in [Entry -> [id : Inum, Obj : Val \cup {None}] \cup {Unused}]
      /\ slot'[op[t].ptr[i]].id = i /\ slot'[op[t].ptr[i]].Obj = disk[i]
      /\ \A e \in Entry : e # op[t].ptr[i] => slot'[e] = slot[e]
  <2>1. CASE slot[op[t].ptr[i]].Obj = None
    <3>1. slot' = WithObj(op[t].ptr[i], disk[i]) BY <2>1 DEF GetInodeLocked, WithObj
    <3>2. disk[i] \in Val BY <1>1 DEF IType
    <3> QED BY ZenonT(40), <3>1, <3>2, <1>2, ObjUpdate
  <2>2. CASE slot[op[t].ptr[i]].Obj # None
    <3>1. slot' = slot BY <2>2 DEF GetInodeLocked
    <3>2. slot[op[t].ptr[i]].Obj = disk[i] BY <2>2, <1>1, <1>2 DEF GettingCurrent
    <3> QED BY <3>1, <3>2, <1>1, <1>2 DEF IType, IdsMatch
  <2> QED BY <2>1, <2>2
<1>9. /\ IdsMatch' /\ OneEntry'
      /\ \A u \in Thread, j \in Inum :
           op[u].ptr[j] # None /\ (u # t \/ j # i) => slot'[op[u].ptr[j]] = slot[op[u].ptr[j]]
      /\ \A j \in Inum : entries[j] # None /\ j # i => slot'[entries[j]] = slot[entries[j]]
  BY SMT, <1>2, <1>3, <1>5, <1>7, EntryUpdate
<1>11. IType' BY <1>1, <1>2, <1>4, <1>7 DEF IType
<1>12. LocksMatch' BY SMT, <1>1, <1>2, <1>5 DEF LocksMatch
<1>15. GettingCurrent'
  <2> SUFFICES ASSUME NEW u \in Thread, NEW j \in Inum, op'[u].ptr[j] # None, j \notin op'[u].inodes
               PROVE  slot'[op'[u].ptr[j]].Obj \in {None, disk'[j]}
    BY DEF GettingCurrent
  <2>1. op[u].ptr[j] # None /\ j \notin op[u].inodes /\ (u # t \/ j # i) BY <1>2, <1>5
  <2>2. slot'[op'[u].ptr[j]] = slot[op[u].ptr[j]] BY SMT, <2>1, <1>5, <1>9
  <2> QED BY <2>1, <2>2, <1>1, <1>2 DEF GettingCurrent
<1>16. CacheCurrent'
  <2>1. ASSUME NEW u \in Thread, NEW j \in Inum, j \in op'[u].inodes
        PROVE  slot'[op'[u].ptr[j]].Obj = IF op'[u].buf[j] # None THEN op'[u].buf[j] ELSE disk'[j]
    <3>1. CASE u = t /\ j = i BY <3>1, <1>2, <1>5, <1>6, <1>7
    <3>2. CASE u # t \/ j # i
      <4>1. j \in op[u].inodes /\ op[u].ptr[j] # None BY SMT, <2>1, <3>2, <1>1, <1>5 DEF LocksMatch
      <4>2. slot'[op'[u].ptr[j]] = slot[op[u].ptr[j]] BY SMT, <4>1, <3>2, <1>5, <1>9
      <4> QED BY SMT, <4>1, <4>2, <1>1, <1>2, <1>5 DEF CacheCurrent
    <3> QED BY <3>1, <3>2
  <2>2. ASSUME NEW j \in Inum, lock'[j] = None, entries'[j] # None
        PROVE  slot'[entries'[j]].Obj = disk'[j]
    <3>1. j # i /\ lock[j] = None BY <2>2, <1>2, <1>3, IcacheAssumption
    <3> QED BY <3>1, <2>2, <1>1, <1>2, <1>9 DEF CacheCurrent
  <2> QED BY <2>1, <2>2 DEF CacheCurrent
<1> QED BY <1>9, <1>11, <1>12, <1>15, <1>16 DEF IInv

LEMMA WriteInodeIInv ==
  ASSUME IInv, NEW t \in Thread, NEW i \in Inum, NEW v \in Val, WriteInode(t, i, v)
  PROVE  IInv'
<1>1. IType /\ LocksMatch /\ IdsMatch /\ OneEntry /\ GettingCurrent /\ CacheCurrent BY DEF IInv
<1>2. /\ i \in op[t].inodes
      /\ UNCHANGED <<disk, entries, lock>>
  BY DEF WriteInode
<1>w. op' = [op EXCEPT ![t].buf[i] = v] BY DEF WriteInode
<1>3. op[t].ptr[i] # None /\ lock[i] = t BY <1>1, <1>2 DEF LocksMatch
<1>4. op' \in [Thread -> OpState]
  <2>1. op[t] \in OpState /\ op[t].inodes \in SUBSET Inum
        /\ op[t].ptr \in [Inum -> Entry \cup {None}] /\ [op[t].buf EXCEPT ![i] = v] \in [Inum -> Val \cup {None}]
    BY <1>1 DEF IType, OpState
  <2>2. [op[t] EXCEPT !.buf = [op[t].buf EXCEPT ![i] = v]] \in OpState BY <2>1, OpUpdate
  <2>3. op' = [op EXCEPT ![t] = [op[t] EXCEPT !.buf = [op[t].buf EXCEPT ![i] = v]]]
    BY <1>1, <1>w DEF IType, OpState
  <2> QED BY <1>1, <2>2, <2>3 DEF IType
<1>5. \A u \in Thread :
        /\ op'[u].ptr = op[u].ptr /\ op'[u].inodes = op[u].inodes
        /\ \A j \in Inum : op'[u].buf[j] = IF u = t /\ j = i THEN v ELSE op[u].buf[j]
  BY SMT, WriteInodeOp
<1>6. v # None BY IcacheAssumption
<1>s. slot' = WithObj(op[t].ptr[i], v) BY DEF WriteInode, WithObj
<1>7. /\ slot' \in [Entry -> [id : Inum, Obj : Val \cup {None}] \cup {Unused}]
      /\ slot'[op[t].ptr[i]].id = i /\ slot'[op[t].ptr[i]].Obj = v
      /\ \A e \in Entry : e # op[t].ptr[i] => slot'[e] = slot[e] BY ZenonT(40), <1>s, <1>3, ObjUpdate
<1>9. /\ IdsMatch' /\ OneEntry'
      /\ \A u \in Thread, j \in Inum :
           op[u].ptr[j] # None /\ (u # t \/ j # i) => slot'[op[u].ptr[j]] = slot[op[u].ptr[j]]
      /\ \A j \in Inum : entries[j] # None /\ j # i => slot'[entries[j]] = slot[entries[j]]
  BY SMT, <1>2, <1>3, <1>5, <1>7, EntryUpdate
<1>11. IType' BY <1>1, <1>2, <1>4, <1>7 DEF IType
<1>12. LocksMatch' BY SMT, <1>1, <1>2, <1>5 DEF LocksMatch
<1>15. GettingCurrent'
  <2> SUFFICES ASSUME NEW u \in Thread, NEW j \in Inum, op'[u].ptr[j] # None, j \notin op'[u].inodes
               PROVE  slot'[op'[u].ptr[j]].Obj \in {None, disk'[j]}
    BY DEF GettingCurrent
  <2>1. op[u].ptr[j] # None /\ j \notin op[u].inodes /\ (u # t \/ j # i) BY <1>2, <1>5
  <2>2. slot'[op'[u].ptr[j]] = slot[op[u].ptr[j]] BY SMT, <2>1, <1>5, <1>9
  <2> QED BY <2>1, <2>2, <1>1, <1>2 DEF GettingCurrent
<1>16. CacheCurrent'
  <2>1. ASSUME NEW u \in Thread, NEW j \in Inum, j \in op'[u].inodes
        PROVE  slot'[op'[u].ptr[j]].Obj = IF op'[u].buf[j] # None THEN op'[u].buf[j] ELSE disk'[j]
    <3>1. CASE u = t /\ j = i BY <3>1, <1>2, <1>5, <1>6, <1>7
    <3>2. CASE u # t \/ j # i
      <4>1. j \in op[u].inodes /\ op[u].ptr[j] # None BY <2>1, <1>1, <1>5 DEF LocksMatch
      <4>2. slot'[op'[u].ptr[j]] = slot[op[u].ptr[j]] BY SMT, <4>1, <3>2, <1>5, <1>9
      <4> QED BY SMT, <4>1, <4>2, <3>2, <1>1, <1>2, <1>5 DEF CacheCurrent
    <3> QED BY <3>1, <3>2
  <2>2. ASSUME NEW j \in Inum, lock'[j] = None, entries'[j] # None
        PROVE  slot'[entries'[j]].Obj = disk'[j]
    <3>1. j # i /\ lock[j] = None BY <2>2, <1>2, <1>3, IcacheAssumption
    <3> QED BY <3>1, <2>2, <1>1, <1>2, <1>9 DEF CacheCurrent
  <2> QED BY <2>1, <2>2 DEF CacheCurrent
<1> QED BY <1>9, <1>11, <1>12, <1>15, <1>16 DEF IInv

\* What stays pointed to stays as it is when a transaction lets go of inodes.
LEMMA ReleaseEffect ==
  ASSUME IInv, NEW t \in Thread, NEW is \in SUBSET Inum, NEW o \in OpState, ReleaseInodes(t, is, o)
  PROVE  /\ entries' = entries /\ op' \in [Thread -> OpState]
         /\ op'[t] = o /\ \A u \in Thread : u # t => op'[u] = op[u]
         /\ lock' \in [Inum -> Thread \cup {None}]
         /\ \A j \in Inum : lock'[j] = IF j \in is THEN None ELSE lock[j]
         /\ slot' \in [Entry -> [id : Inum, Obj : Val \cup {None}] \cup {Unused}]
         /\ \A j \in Inum : entries[j] # None => slot'[entries[j]] = slot[entries[j]]
         /\ \A u \in Thread, j \in Inum :
              op'[u].ptr[j] # None => slot'[op'[u].ptr[j]] = slot[op'[u].ptr[j]]
<1> DEFINE live == {entries[j] : j \in Inum}
                   \cup {op[u].ptr[j] : u \in Thread \ {t}, j \in Inum}
                   \cup {o.ptr[j] : j \in Inum}
<1>1. IType BY DEF IInv
<1>2. /\ op' = [op EXCEPT ![t] = o] /\ entries' = entries
      /\ lock' = [j \in Inum |-> IF j \in is THEN None ELSE lock[j]]
      /\ slot' = Collect(slot, live)
  BY SMT DEF ReleaseInodes
<1>3. op' \in [Thread -> OpState] /\ op'[t] = o /\ \A u \in Thread : u # t => op'[u] = op[u]
  BY <1>1, <1>2 DEF IType
<1>4. /\ lock' \in [Inum -> Thread \cup {None}]
      /\ \A j \in Inum : lock'[j] = IF j \in is THEN None ELSE lock[j]
  BY <1>1, <1>2 DEF IType
<1>5. slot' \in [Entry -> [id : Inum, Obj : Val \cup {None}] \cup {Unused}]
  BY SMT, <1>1, <1>2, CollectType DEF IType
<1>6. \A e \in Entry : e \in live => slot'[e] = slot[e]
  <2> HIDE DEF live
  <2> QED BY <1>2, CollectKeeps
<1>7. ASSUME NEW j \in Inum, entries[j] # None PROVE slot'[entries[j]] = slot[entries[j]]
  <2>1. entries[j] \in Entry BY <1>7, <1>1 DEF IType
  <2>2. entries[j] \in live BY SMT
  <2> QED BY SMT, <2>1, <2>2, <1>6
<1>8. ASSUME NEW u \in Thread, NEW j \in Inum, op'[u].ptr[j] # None
      PROVE  slot'[op'[u].ptr[j]] = slot[op'[u].ptr[j]]
  <2>1. op'[u].ptr[j] \in Entry BY SMT, <1>8, <1>3 DEF OpState
  <2>2. op'[u].ptr[j] \in live
    <3>1. CASE u = t
      <4>1. op'[u].ptr[j] = o.ptr[j] BY <3>1, <1>3
      <4> QED BY SMT, <4>1
    <3>2. CASE u # t
      <4>1. op'[u].ptr[j] = op[u].ptr[j] BY <3>2, <1>3
      <4>2. u \in Thread \ {t} BY <3>2
      <4> QED BY SMT, <4>1, <4>2
    <3> QED BY SMT, <3>1, <3>2
  <2> QED BY SMT, <2>1, <2>2, <1>6
<1> QED BY <1>2, <1>3, <1>4, <1>5, <1>7, <1>8

LEMMA ReleaseKeeps ==
  ASSUME IInv, NEW t \in Thread, NEW is \in SUBSET Inum, NEW o \in OpState, ReleaseInodes(t, is, o),
         NEW u \in Thread, NEW j \in Inum, op'[u].ptr[j] # None
  PROVE  slot'[op'[u].ptr[j]] = slot[op'[u].ptr[j]]
BY ZenonT(40), ReleaseEffect

\* Letting go of inodes keeps the invariant if what the transaction had written
\* of them is on disk.
LEMMA ReleaseIInv ==
  ASSUME IInv, NEW t \in Thread, NEW is \in SUBSET Inum, NEW o \in OpState, ReleaseInodes(t, is, o),
         \A j \in is : j \in op[t].inodes,
         \A j \in Inum :
           /\ o.ptr[j] = IF j \in is THEN None ELSE op[t].ptr[j]
           /\ o.buf[j] = IF j \in is THEN None ELSE op[t].buf[j]
           /\ j \in o.inodes <=> j \in op[t].inodes /\ j \notin is,
         disk' \in [Inum -> Val],
         \A j \in Inum : disk'[j] = IF j \in is /\ op[t].buf[j] # None THEN op[t].buf[j] ELSE disk[j]
  PROVE  IInv'
<1>1. IType /\ LocksMatch /\ IdsMatch /\ OneEntry /\ GettingCurrent /\ CacheCurrent BY DEF IInv
<1>2. /\ entries' = entries /\ op' \in [Thread -> OpState]
      /\ lock' \in [Inum -> Thread \cup {None}]
      /\ slot' \in [Entry -> [id : Inum, Obj : Val \cup {None}] \cup {Unused}]
  BY ReleaseEffect
<1>3. \A j \in Inum : lock'[j] = IF j \in is THEN None ELSE lock[j] BY ReleaseEffect
<1>4. \A j \in Inum : entries[j] # None => slot'[entries[j]] = slot[entries[j]] BY ReleaseEffect
<1>5. \A u \in Thread, j \in Inum : op'[u].ptr[j] # None => slot'[op'[u].ptr[j]] = slot[op'[u].ptr[j]]
  BY ReleaseEffect
<1>o. op'[t] = o /\ \A u \in Thread : u # t => op'[u] = op[u]
  <2>1. op' = [op EXCEPT ![t] = o] BY DEF ReleaseInodes
  <2>2. op \in [Thread -> OpState] BY <1>1 DEF IType
  <2> QED BY <2>1, <2>2
<1>6. \A u \in Thread, j \in Inum :
        /\ op'[u].ptr[j] = IF u = t /\ j \in is THEN None ELSE op[u].ptr[j]
        /\ op'[u].buf[j] = IF u = t /\ j \in is THEN None ELSE op[u].buf[j]
        /\ j \in op'[u].inodes <=> j \in op[u].inodes /\ (u # t \/ j \notin is)
  <2> SUFFICES ASSUME NEW u \in Thread, NEW j \in Inum
               PROVE  /\ op'[u].ptr[j] = IF u = t /\ j \in is THEN None ELSE op[u].ptr[j]
                      /\ op'[u].buf[j] = IF u = t /\ j \in is THEN None ELSE op[u].buf[j]
                      /\ j \in op'[u].inodes <=> j \in op[u].inodes /\ (u # t \/ j \notin is)
    OBVIOUS
  <2>1. CASE u = t BY <2>1, <1>o
  <2>2. CASE u # t BY <2>2, <1>o
  <2> QED BY <2>1, <2>2
\* The inodes let go are locked by t, and nobody else's.
<1>7. \A j \in is : lock[j] = t /\ op[t].ptr[j] # None BY SMT, <1>1 DEF LocksMatch
<1>8. \A u \in Thread, j \in Inum : op[u].ptr[j] # None /\ u # t => j \notin is
  BY SMT, <1>1, <1>7 DEF LocksMatch
<1>9. IType'
  <2>1. disk' \in [Inum -> Val] OBVIOUS
  <2>2. entries' \in [Inum -> Entry \cup {None}] BY <1>1, <1>2 DEF IType
  <2> QED BY <2>1, <2>2, <1>2 DEF IType
<1>10. LocksMatch'
  <2> SUFFICES ASSUME NEW u \in Thread, NEW j \in Inum
               PROVE  /\ op'[u].ptr[j] # None <=> lock'[j] = u
                      /\ j \in op'[u].inodes => op'[u].ptr[j] # None
                      /\ op'[u].buf[j] # None => j \in op'[u].inodes
    BY DEF LocksMatch
  <2>1. CASE j \in is
    <3>1. lock'[j] # u BY <2>1, <1>3, IcacheAssumption
    <3>2. u # t => op[u].ptr[j] = None BY <2>1, <1>8
    <3>3. u # t => j \notin op[u].inodes /\ op[u].buf[j] = None BY SMT, <3>2, <1>1 DEF LocksMatch
    <3>4. CASE u = t BY <2>1, <3>1, <3>4, <1>6
    <3>5. CASE u # t BY <3>1, <3>2, <3>3, <3>5, <1>6
    <3> QED BY <3>4, <3>5
  <2>2. CASE j \notin is BY SMT, <2>2, <1>1, <1>3, <1>6 DEF LocksMatch
  <2> QED BY <2>1, <2>2
<1>11. IdsMatch'
  <2>1. ASSUME NEW j \in Inum, entries'[j] # None PROVE slot'[entries'[j]].id = j
    BY <2>1, <1>1, <1>2, <1>4 DEF IdsMatch
  <2>2. ASSUME NEW j \in Inum, NEW u \in Thread, op'[u].ptr[j] # None PROVE slot'[op'[u].ptr[j]].id = j
    <3>1. op'[u].ptr[j] = op[u].ptr[j] BY <2>2, <1>6
    <3>2. slot[op[u].ptr[j]].id = j BY <3>1, <2>2, <1>1 DEF IdsMatch
    <3> QED BY SMT, <3>1, <3>2, <2>2, <1>5
  <2> QED BY <2>1, <2>2 DEF IdsMatch
<1>12. OneEntry'
  <2>1. \A u \in Thread, j \in Inum : op'[u].ptr[j] # None => op'[u].ptr[j] = op[u].ptr[j] BY <1>6
  <2> QED BY SMT, <2>1, <1>1, <1>2 DEF OneEntry
<1>13. GettingCurrent'
  <2> SUFFICES ASSUME NEW u \in Thread, NEW j \in Inum, op'[u].ptr[j] # None, j \notin op'[u].inodes
               PROVE  slot'[op'[u].ptr[j]].Obj \in {None, disk'[j]}
    BY DEF GettingCurrent
  <2>1. op'[u].ptr[j] = op[u].ptr[j] /\ j \notin is BY SMT, <1>6, <1>8
  <2>2. j \notin op[u].inodes BY <2>1, <1>6
  <2> QED BY SMT, <2>1, <2>2, <1>1, <1>5 DEF GettingCurrent
<1>14. CacheCurrent'
  <2>1. ASSUME NEW u \in Thread, NEW j \in Inum, j \in op'[u].inodes
        PROVE  slot'[op'[u].ptr[j]].Obj = IF op'[u].buf[j] # None THEN op'[u].buf[j] ELSE disk'[j]
    <3>1. j \in op[u].inodes /\ op[u].ptr[j] # None BY SMT, <2>1, <1>1, <1>6 DEF LocksMatch
    <3>2. j \notin is BY <2>1, <3>1, <1>6, <1>8
    <3>3. op'[u].ptr[j] = op[u].ptr[j] /\ op'[u].buf[j] = op[u].buf[j] /\ disk'[j] = disk[j]
      BY <3>2, <1>6
    <3>4. slot'[op'[u].ptr[j]] = slot[op[u].ptr[j]] BY SMT, <3>1, <3>3, <1>5
    <3>5. slot[op[u].ptr[j]].Obj = IF op[u].buf[j] # None THEN op[u].buf[j] ELSE disk[j]
      BY <3>1, <1>1 DEF CacheCurrent
    <3> QED BY <3>3, <3>4, <3>5
  <2>2. ASSUME NEW j \in Inum, lock'[j] = None, entries'[j] # None
        PROVE  slot'[entries'[j]].Obj = disk'[j]
    <3>1. entries'[j] = entries[j] /\ slot'[entries[j]] = slot[entries[j]] BY <2>2, <1>2, <1>4
    <3>2. CASE j \in is
      <4>1. entries[j] = op[t].ptr[j] BY <3>1, <3>2, <2>2, <1>1, <1>7 DEF OneEntry
      <4> QED BY SMT, <4>1, <3>1, <3>2, <1>1 DEF CacheCurrent
    <3>3. CASE j \notin is
      <4>1. lock[j] = None BY <3>3, <2>2, <1>3
      <4> QED BY SMT, <4>1, <3>1, <3>3, <2>2, <1>1 DEF CacheCurrent
    <3> QED BY <3>2, <3>3
  <2> QED BY <2>1, <2>2 DEF CacheCurrent
<1> QED BY <1>9, <1>10, <1>11, <1>12, <1>13, <1>14 DEF IInv

LEMMA ReleaseInodeIInv ==
  ASSUME IInv, NEW t \in Thread, NEW i \in Inum, ReleaseInode(t, i)
  PROVE  IInv'
<1> DEFINE o == [op[t] EXCEPT !.ptr[i] = None, !.inodes = @ \ {i}]
<1>1. IType BY DEF IInv
<1>2. /\ i \in op[t].inodes /\ op[t].buf[i] = None
      /\ ReleaseInodes(t, {i}, o) /\ disk' = disk
  BY DEF ReleaseInode
<1>3. op[t] \in OpState BY <1>1 DEF IType
<1>4. /\ o.ptr = [op[t].ptr EXCEPT ![i] = None]
      /\ o.inodes = op[t].inodes \ {i} /\ o.buf = op[t].buf
  BY <1>3 DEF OpState
<1>6. o \in OpState BY <1>3 DEF OpState
<1>7. \A j \in Inum :
        /\ o.ptr[j] = IF j \in {i} THEN None ELSE op[t].ptr[j]
        /\ o.buf[j] = IF j \in {i} THEN None ELSE op[t].buf[j]
        /\ j \in o.inodes <=> j \in op[t].inodes /\ j \notin {i}
  BY <1>2, <1>3, <1>4 DEF OpState
<1> HIDE DEF o
<1>8. disk' \in [Inum -> Val] BY <1>1, <1>2 DEF IType
<1>9. \A j \in Inum : disk'[j] = IF j \in {i} /\ op[t].buf[j] # None THEN op[t].buf[j] ELSE disk[j]
  BY <1>2
<1>10. {i} \in SUBSET Inum /\ \A j \in {i} : j \in op[t].inodes BY <1>2
<1> QED BY <1>2, <1>6, <1>7, <1>8, <1>9, <1>10, ReleaseIInv

\* Both ends of a transaction let go of all its inodes.
LEMMA EndIInv ==
  ASSUME IInv, NEW t \in Thread, ~Getting(t), ReleaseInodes(t, op[t].inodes, NoOp),
         disk' = [j \in Inum |-> IF op[t].buf[j] # None THEN op[t].buf[j] ELSE disk[j]]
  PROVE  IInv'
<1>1. IType /\ LocksMatch BY DEF IInv
<1>2. op[t] \in OpState /\ op[t].inodes \in SUBSET Inum BY <1>1 DEF IType, OpState
<1>3. NoOp \in OpState BY DEF NoOp, OpState
<1>4. \A j \in Inum : j \notin op[t].inodes => op[t].ptr[j] = None /\ op[t].buf[j] = None
  BY <1>1 DEF Getting, LocksMatch
<1>5. \A j \in Inum :
        /\ NoOp.ptr[j] = IF j \in op[t].inodes THEN None ELSE op[t].ptr[j]
        /\ NoOp.buf[j] = IF j \in op[t].inodes THEN None ELSE op[t].buf[j]
        /\ j \in NoOp.inodes <=> j \in op[t].inodes /\ j \notin op[t].inodes
  BY <1>4 DEF NoOp
<1>6. disk' \in [Inum -> Val] BY <1>1, <1>2 DEF IType, OpState
<1>7. \A j \in Inum :
        disk'[j] = IF j \in op[t].inodes /\ op[t].buf[j] # None THEN op[t].buf[j] ELSE disk[j]
  BY <1>4
<1> DEFINE is == op[t].inodes
<1>8. is \in SUBSET Inum /\ \A j \in is : j \in op[t].inodes BY <1>2
<1> QED BY <1>3, <1>5, <1>6, <1>7, <1>8, ReleaseIInv

LEMMA RestartIInv ==
  ASSUME IInv, Restart
  PROVE  IInv'
<1>1. \A t \in Thread, i \in Inum : op'[t].ptr[i] = None /\ op'[t].buf[i] = None /\ op'[t].inodes = {}
  BY DEF Restart, NoOp
<1>2. \A i \in Inum : entries'[i] = None /\ lock'[i] = None BY DEF Restart
<1>3. IType' BY DEF Restart, IType, NoOp, OpState, Unused, IInv
<1>4. LocksMatch' BY <1>1, <1>2, IcacheAssumption DEF LocksMatch
<1>5. IdsMatch' /\ OneEntry' /\ GettingCurrent'
  BY <1>1, <1>2 DEF IdsMatch, OneEntry, GettingCurrent
<1>6. CacheCurrent' BY <1>1, <1>2 DEF CacheCurrent
<1> QED BY <1>3, <1>4, <1>5, <1>6 DEF IInv

LEMMA NextIInv ==
  ASSUME IInv, [IcacheNext]_icacheVars, ~DirtyAborts
  PROVE  IInv'
<1>1. CASE UNCHANGED icacheVars
  <2>1. UNCHANGED <<disk, entries, slot, lock, op>> BY <1>1 DEF icacheVars
  <2>2. IType' BY <2>1 DEF IInv, IType
  <2>3. LocksMatch' BY <2>1 DEF IInv, LocksMatch
  <2>4. IdsMatch' /\ OneEntry' BY <2>1 DEF IInv, IdsMatch, OneEntry
  <2>5. GettingCurrent' BY <2>1 DEF IInv, GettingCurrent
  <2>6. CacheCurrent' BY <2>1 DEF IInv, CacheCurrent
  <2> QED BY <2>2, <2>3, <2>4, <2>5, <2>6 DEF IInv
<1>2. ASSUME NEW t \in Thread, NEW i \in Inum, LockInode(t, i) PROVE IInv' BY <1>2, LockInodeIInv
<1>3. ASSUME NEW t \in Thread, NEW i \in Inum, GetInodeLocked(t, i) PROVE IInv' BY <1>3, GetInodeLockedIInv
<1>4. ASSUME NEW t \in Thread, NEW i \in Inum, ReleaseInode(t, i) PROVE IInv' BY <1>4, ReleaseInodeIInv
<1>5. ASSUME NEW t \in Thread, NEW i \in Inum, NEW v \in Val, WriteInode(t, i, v) PROVE IInv'
  BY <1>5, WriteInodeIInv
<1>6. ASSUME NEW t \in Thread, commitWait(t) PROVE IInv'
  BY <1>6, EndIInv DEF commitWait
<1>7. ASSUME NEW t \in Thread, Abort(t) PROVE IInv'
  <2>1. IType BY DEF IInv
  <2>2. ~Getting(t) /\ ReleaseInodes(t, op[t].inodes, NoOp) /\ disk' = disk /\ op[t].buf = NoOp.buf
    BY <1>7 DEF Abort
  <2>3. \A j \in Inum : op[t].buf[j] = None BY <2>2 DEF NoOp
  <2>4. disk' = [j \in Inum |-> IF op[t].buf[j] # None THEN op[t].buf[j] ELSE disk[j]]
    BY <2>1, <2>2, <2>3 DEF IType
  <2> QED BY <2>2, <2>4, EndIInv
<1>8. CASE Restart BY <1>8, RestartIInv
<1> QED BY <1>1, <1>2, <1>3, <1>4, <1>5, <1>6, <1>7, <1>8 DEF IcacheNext

-----------------------------------------------------------------------------

\* If no transaction is aborted or refused with a changed inode (the rule commit.go
\* leaves to its callers), the cache agrees with the disk: an inode a transaction has in
\* hand is the committed one or its own change of it, though its entry may have
\* been evicted, and one nobody has locked is the committed one.
THEOREM CacheIsCurrent ==
  ASSUME ~DirtyAborts
  PROVE  IcacheSpec => []CacheCurrent
<1>1. IInv /\ [IcacheNext]_icacheVars => IInv' BY NextIInv
<1>2. IInv => CacheCurrent BY DEF IInv
<1> QED BY InitIInv, <1>1, <1>2, PTL DEF IcacheSpec

-----------------------------------------------------------------------------
(* The refinement. By CacheCurrent, what a transaction sees follows from   *)
(* its buffers and the disk, without the cache.                            *)

View == [t \in Thread |-> [i \in Inum |->
           IF i \in op[t].inodes THEN slot[op[t].ptr[i]].Obj ELSE None]]
Dirty == [t \in Thread |-> {i \in Inum : op[t].buf[i] # None}]

LEMMA ViewValue ==
  ASSUME IInv
  PROVE  \A u \in Thread, j \in Inum :
           /\ View[u][j] = IF j \notin op[u].inodes THEN None
                           ELSE IF op[u].buf[j] # None THEN op[u].buf[j] ELSE disk[j]
           /\ j \in Dirty[u] <=> op[u].buf[j] # None
<1>1. CacheCurrent BY DEF IInv
<1> QED BY <1>1 DEF CacheCurrent, View, Dirty

LEMMA ViewValuePrime ==
  ASSUME IInv'
  PROVE  \A u \in Thread, j \in Inum :
           /\ View'[u][j] = IF j \notin op'[u].inodes THEN None
                            ELSE IF op'[u].buf[j] # None THEN op'[u].buf[j] ELSE disk'[j]
           /\ j \in Dirty'[u] <=> op'[u].buf[j] # None
<1>1. CacheCurrent' BY DEF IInv
<1> QED BY <1>1 DEF CacheCurrent, View, Dirty

\* Views and sets of changed inodes are equal when they agree everywhere.
LEMMA ViewType ==
  /\ View = [u \in Thread |-> [j \in Inum |-> View[u][j]]]
  /\ View' = [u \in Thread |-> [j \in Inum |-> View'[u][j]]]
BY DEF View

LEMMA SameView ==
  ASSUME \A u \in Thread, j \in Inum : View'[u][j] = View[u][j]
  PROVE  View' = View
<1> DEFINE f == View
           g == View'
<1>1. f = [u \in Thread |-> [j \in Inum |-> f[u][j]]] /\ g = [u \in Thread |-> [j \in Inum |-> g[u][j]]]
  BY ViewType
<1>2. \A u \in Thread : [j \in Inum |-> f[u][j]] = [j \in Inum |-> g[u][j]] OBVIOUS
<1> HIDE DEF f, g
<1>3. f = g BY <1>1, <1>2
<1> QED BY <1>3 DEF f, g

LEMMA ViewAt ==
  ASSUME NEW t \in Thread, NEW i \in Inum, NEW x,
         \A u \in Thread, j \in Inum : View'[u][j] = IF u = t /\ j = i THEN x ELSE View[u][j]
  PROVE  View' = [View EXCEPT ![t][i] = x]
<1> DEFINE f == View
           g == View'
           h == [f EXCEPT ![t][i] = x]
<1>1. f = [u \in Thread |-> [j \in Inum |-> f[u][j]]] /\ g = [u \in Thread |-> [j \in Inum |-> g[u][j]]]
  BY ViewType
<1>2. \A u \in Thread, j \in Inum : g[u][j] = IF u = t /\ j = i THEN x ELSE f[u][j] OBVIOUS
<1> HIDE DEF f, g
<1>3. h = [u \in Thread |-> IF u = t THEN [f[t] EXCEPT ![i] = x] ELSE f[u]] BY <1>1
<1>4. [f[t] EXCEPT ![i] = x] = [j \in Inum |-> g[t][j]] BY SMT, <1>1, <1>2
<1>5. \A u \in Thread : u # t => f[u] = [j \in Inum |-> g[u][j]] BY SMT, <1>1, <1>2
<1>6. h = g
  <2> HIDE DEF h
  <2>1. \A u \in Thread : (IF u = t THEN [f[t] EXCEPT ![i] = x] ELSE f[u]) = [j \in Inum |-> g[u][j]]
    BY <1>4, <1>5
  <2>2. h = [u \in Thread |-> [j \in Inum |-> g[u][j]]] BY <1>3, <2>1
  <2> QED BY <2>2, <1>1
<1> QED BY <1>6 DEF f, g

LEMMA ViewNothing ==
  ASSUME NEW t \in Thread,
         \A u \in Thread, j \in Inum : View'[u][j] = IF u = t THEN None ELSE View[u][j]
  PROVE  View' = [View EXCEPT ![t] = [j \in Inum |-> None]]
<1> DEFINE f == View
           g == View'
<1>1. f = [u \in Thread |-> [j \in Inum |-> f[u][j]]] /\ g = [u \in Thread |-> [j \in Inum |-> g[u][j]]]
  BY ViewType
<1>2. \A u \in Thread, j \in Inum : g[u][j] = IF u = t THEN None ELSE f[u][j] OBVIOUS
<1> HIDE DEF f, g
<1>3. g[t] = [j \in Inum |-> None] BY SMT, <1>1, <1>2
<1>4. \A u \in Thread : u # t => g[u] = f[u] BY SMT, <1>1, <1>2
<1>5. g = [f EXCEPT ![t] = [j \in Inum |-> None]] BY <1>1, <1>3, <1>4
<1> QED BY <1>5 DEF f, g

LEMMA DirtyAt ==
  ASSUME NEW t \in Thread, NEW d \in SUBSET Inum,
         \A u \in Thread, j \in Inum : j \in Dirty'[u] <=> IF u = t THEN j \in d ELSE j \in Dirty[u]
  PROVE  Dirty' = [Dirty EXCEPT ![t] = d]
<1>1. Dirty \in [Thread -> SUBSET Inum] /\ Dirty' \in [Thread -> SUBSET Inum] BY DEF Dirty
<1>2. Dirty'[t] = d BY <1>1
<1>3. \A u \in Thread : u # t => Dirty'[u] = Dirty[u] BY <1>1
<1> QED BY <1>1, <1>2, <1>3

LEMMA GetStep ==
  ASSUME IInv, IInv', NEW t \in Thread, NEW i \in Inum, GetInodeLocked(t, i)
  PROVE  Txn!Get(t, i)
<1>1. LocksMatch BY DEF IInv
<1>2. op[t].ptr[i] # None /\ i \notin op[t].inodes /\ disk' = disk BY DEF GetInodeLocked
<1>3. \A u \in Thread : op[u].ptr[i] # None => u = t BY SMT, <1>1, <1>2 DEF LocksMatch
<1>4. \A u \in Thread : View[u][i] = None
  <2>1. \A u \in Thread : i \notin op[u].inodes BY SMT, <1>1, <1>2, <1>3 DEF LocksMatch
  <2> QED BY <2>1, ViewValue
<1>5. op[t].buf[i] = None BY <1>1, <1>2 DEF LocksMatch
<1>6. \A u \in Thread, j \in Inum : View'[u][j] = IF u = t /\ j = i THEN disk[i] ELSE View[u][j]
  BY SMT, <1>2, <1>5, GetInodeLockedOp, ViewValue, ViewValuePrime
<1>7. View' = [View EXCEPT ![t][i] = disk[i]] BY SMT, <1>6, ViewAt
<1>8. Dirty' = Dirty BY SMT, GetInodeLockedOp DEF Dirty
<1> QED BY <1>2, <1>4, <1>7, <1>8 DEF Txn!Get, View, Dirty

LEMMA ChangeStep ==
  ASSUME IInv, IInv', NEW t \in Thread, NEW i \in Inum, NEW v \in Val, WriteInode(t, i, v)
  PROVE  Txn!Change(t, i, v)
<1>1. IType BY DEF IInv
<1>2. i \in op[t].inodes /\ disk' = disk BY DEF WriteInode
<1>3. View[t][i] # None
  <2>1. op[t].buf[i] \in Val \cup {None} /\ disk[i] \in Val BY <1>1 DEF IType, OpState
  <2> QED BY SMT, <1>2, <2>1, ViewValue, IcacheAssumption
<1>4. v # None BY IcacheAssumption
<1>5. \A u \in Thread, j \in Inum : View'[u][j] = IF u = t /\ j = i THEN v ELSE View[u][j]
  BY SMT, <1>2, <1>4, WriteInodeOp, ViewValue, ViewValuePrime
<1>6. View' = [View EXCEPT ![t][i] = v] BY <1>5, ViewAt
<1>7. Dirty' = [Dirty EXCEPT ![t] = Dirty[t] \cup {i}]
  <2>1. Dirty[t] \cup {i} \in SUBSET Inum BY DEF Dirty
  <2>2. \A u \in Thread, j \in Inum :
          j \in Dirty'[u] <=> IF u = t THEN j \in Dirty[t] \cup {i} ELSE j \in Dirty[u]
    <3>1. \A u \in Thread, j \in Inum : j \in Dirty'[u] <=> op'[u].buf[j] # None BY ViewValuePrime
    <3>2. \A u \in Thread, j \in Inum : j \in Dirty[u] <=> op[u].buf[j] # None BY ViewValue
    <3>3. \A u \in Thread, j \in Inum : op'[u].buf[j] = IF u = t /\ j = i THEN v ELSE op[u].buf[j]
      BY SMT, WriteInodeOp
    <3> QED BY SMT, <1>4, <3>1, <3>2, <3>3
  <2> QED BY <2>1, <2>2, DirtyAt
<1> QED BY <1>2, <1>3, <1>6, <1>7 DEF Txn!Change, View, Dirty

LEMMA ReleaseStep ==
  ASSUME IInv, IInv', NEW t \in Thread, NEW i \in Inum, ReleaseInode(t, i)
  PROVE  Txn!Release(t, i)
<1> DEFINE o == [op[t] EXCEPT !.ptr[i] = None, !.inodes = @ \ {i}]
<1>1. IType BY DEF IInv
<1>2. op[t].buf[i] = None /\ op' = [op EXCEPT ![t] = o] /\ disk' = disk
  BY DEF ReleaseInode, ReleaseInodes
<1>3. op[t] \in OpState BY <1>1 DEF IType
<1>4. o.inodes = op[t].inodes \ {i} /\ o.buf = op[t].buf BY <1>3 DEF OpState
<1> HIDE DEF o
<1>5. op'[t] = o /\ \A u \in Thread : u # t => op'[u] = op[u] BY <1>1, <1>2 DEF IType
<1>6. \A u \in Thread :
        /\ op'[u].buf = op[u].buf
        /\ \A j \in Inum : j \in op'[u].inodes <=> j \in op[u].inodes /\ (u # t \/ j # i)
  BY <1>4, <1>5
<1>7. \A u \in Thread, j \in Inum : View'[u][j] = IF u = t /\ j = i THEN None ELSE View[u][j]
  BY SMT, <1>2, <1>6, ViewValue, ViewValuePrime
<1>8. View' = [View EXCEPT ![t][i] = None] BY <1>7, ViewAt
<1>9. Dirty' = Dirty BY <1>6 DEF Dirty
<1>10. i \notin Dirty[t] BY <1>2, ViewValue
<1> QED BY <1>2, <1>8, <1>9, <1>10 DEF Txn!Release, View, Dirty

LEMMA EndStep ==
  ASSUME IInv, IInv', NEW t \in Thread, ReleaseInodes(t, op[t].inodes, NoOp)
  PROVE  Txn!End(t)
<1>1. IType BY DEF IInv
<1>2. op' = [op EXCEPT ![t] = NoOp] BY DEF ReleaseInodes
<1>3. op'[t] = NoOp /\ \A u \in Thread : u # t => op'[u] = op[u] BY <1>1, <1>2 DEF IType
<1>4. op'[t].inodes = {} /\ \A j \in Inum : op'[t].buf[j] = None BY SMT, <1>3 DEF NoOp
<1>5. ASSUME NEW u \in Thread, NEW j \in Inum
      PROVE  View'[u][j] = IF u = t THEN None ELSE View[u][j]
  <2>1. CASE u = t BY <2>1, <1>4, ViewValuePrime
  <2>2. CASE u # t
    <3>1. j \in op[u].inodes => slot'[op'[u].ptr[j]] = slot[op[u].ptr[j]]
      <4>1. LocksMatch BY DEF IInv
      <4>2. op[t].inodes \in SUBSET Inum /\ NoOp \in OpState BY <1>1 DEF IType, OpState, NoOp
      <4>3. ASSUME NEW is \in SUBSET Inum, NEW o \in OpState, ReleaseInodes(t, is, o)
            PROVE  op'[u].ptr[j] # None => slot'[op'[u].ptr[j]] = slot[op'[u].ptr[j]]
        BY <4>3, ReleaseKeeps
      <4>4. op'[u].ptr[j] # None => slot'[op'[u].ptr[j]] = slot[op'[u].ptr[j]] BY <4>2, <4>3
      <4> QED BY SMT, <4>1, <4>4, <2>2, <1>3 DEF LocksMatch
    <3> QED BY <3>1, <2>2, <1>3 DEF View
  <2> QED BY <2>1, <2>2
<1>6. View' = [View EXCEPT ![t] = [j \in Inum |-> None]] BY <1>5, ViewNothing
<1>7. Dirty' = [Dirty EXCEPT ![t] = {}]
  <2>1. ASSUME NEW u \in Thread, NEW j \in Inum
        PROVE  j \in Dirty'[u] <=> IF u = t THEN j \in {} ELSE j \in Dirty[u]
    <3>1. CASE u = t BY <3>1, <1>4, ViewValuePrime
    <3>2. CASE u # t BY <3>2, <1>3 DEF Dirty
    <3> QED BY <3>1, <3>2
  <2>2. {} \in SUBSET Inum OBVIOUS
  <2> QED BY <2>1, <2>2, DirtyAt
<1> QED BY <1>6, <1>7 DEF Txn!End, Txn!Nothing, View, Dirty

LEMMA CommitStep ==
  ASSUME IInv, IInv', NEW t \in Thread, commitWait(t)
  PROVE  Txn!Commit(t)
<1>1. LocksMatch BY DEF IInv
<1>2. /\ ReleaseInodes(t, op[t].inodes, NoOp)
      /\ disk' = [i \in Inum |-> IF op[t].buf[i] # None THEN op[t].buf[i] ELSE disk[i]]
  BY DEF commitWait
<1>3. Txn!End(t) BY <1>2, EndStep
<1>4. \A i \in Inum :
        (IF i \in Dirty[t] THEN View[t][i] ELSE disk[i])
          = IF op[t].buf[i] # None THEN op[t].buf[i] ELSE disk[i]
  BY <1>1, ViewValue DEF LocksMatch
<1>5. disk' = [i \in Inum |-> IF i \in Dirty[t] THEN View[t][i] ELSE disk[i]] BY <1>2, <1>4
<1> QED BY <1>3, <1>5 DEF Txn!Commit, View, Dirty

LEMMA RestartStep ==
  ASSUME Restart
  PROVE  Txn!Restart
<1>1. \A t \in Thread : op'[t].inodes = {} /\ \A i \in Inum : op'[t].buf[i] = None
  BY DEF Restart, NoOp
<1>2. View' = [t \in Thread |-> [i \in Inum |-> None]] BY <1>1 DEF View
<1>3. Dirty' = [t \in Thread |-> {}] BY <1>1 DEF Dirty
<1> QED BY <1>2, <1>3 DEF Restart, Txn!Restart, Txn!Nothing, View, Dirty

\* LockInode only gets at the entry: a transaction without a cache waits.
LEMMA LockInodeStep ==
  ASSUME IInv, IInv', NEW t \in Thread, NEW i \in Inum, LockInode(t, i)
  PROVE  UNCHANGED Txn!vars
<1>1. disk' = disk BY DEF LockInode
<1>2. \A u \in Thread : op'[u].inodes = op[u].inodes /\ op'[u].buf = op[u].buf BY LockInodeOp
<1>3. \A u \in Thread, j \in Inum : View'[u][j] = View[u][j]
  BY SMT, <1>1, <1>2, ViewValue, ViewValuePrime
<1>4. View' = View BY <1>3, SameView
<1>5. Dirty' = Dirty BY <1>2 DEF Dirty
<1> QED BY <1>1, <1>4, <1>5 DEF Txn!vars, View, Dirty

\* The same assumption makes the cache invisible: what transactions see and
\* commit through it, with evictions and hits on entries others have filled, is
\* a behaviour of transactions that read every inode from disk.
THEOREM CacheRefinesTxn ==
  ASSUME ~DirtyAborts
  PROVE  IcacheSpec => CacheTransparent
<1>1. IcacheInit => Txn!Init
  <2> SUFFICES ASSUME IcacheInit PROVE Txn!Init OBVIOUS
  <2>1. \A t \in Thread : op[t].inodes = {} /\ \A i \in Inum : op[t].buf[i] = None
    BY DEF IcacheInit, NoOp
  <2>2. View = [t \in Thread |-> [i \in Inum |-> None]] BY <2>1 DEF View
  <2>3. Dirty = [t \in Thread |-> {}] BY <2>1 DEF Dirty
  <2> QED BY <2>2, <2>3 DEF IcacheInit, Txn!Init, Txn!Nothing, View, Dirty
<1>2. IInv /\ IInv' /\ [IcacheNext]_icacheVars => [Txn!Next]_Txn!vars
  <2> SUFFICES ASSUME IInv, IInv', [IcacheNext]_icacheVars
               PROVE  Txn!Next \/ UNCHANGED Txn!vars
    OBVIOUS
  <2>1. CASE UNCHANGED icacheVars BY <2>1 DEF icacheVars, Txn!vars
  <2>2. ASSUME NEW t \in Thread, NEW i \in Inum, LockInode(t, i) PROVE UNCHANGED Txn!vars
    BY <2>2, LockInodeStep
  <2>3. ASSUME NEW t \in Thread, NEW i \in Inum, GetInodeLocked(t, i) PROVE Txn!Next
    <3>1. Txn!Get(t, i) BY <2>3, GetStep
    <3> QED BY <3>1 DEF Txn!Next
  <2>4. ASSUME NEW t \in Thread, NEW i \in Inum, ReleaseInode(t, i) PROVE Txn!Next
    <3>1. Txn!Release(t, i) BY <2>4, ReleaseStep
    <3> QED BY <3>1 DEF Txn!Next
  <2>5. ASSUME NEW t \in Thread, NEW i \in Inum, NEW v \in Val, WriteInode(t, i, v) PROVE Txn!Next
    <3>1. Txn!Change(t, i, v) BY <2>5, ChangeStep
    <3> QED BY <3>1 DEF Txn!Next
  <2>6. ASSUME NEW t \in Thread, commitWait(t) PROVE Txn!Next
    <3>1. Txn!Commit(t) BY <2>6, CommitStep
    <3> QED BY <3>1 DEF Txn!Next
  <2>7. ASSUME NEW t \in Thread, Abort(t) PROVE Txn!Next
    <3>1. Txn!End(t) BY <2>7, EndStep DEF Abort
    <3>2. disk' = disk BY <2>7 DEF Abort
    <3>3. Txn!Abort(t) BY <3>1, <3>2 DEF Txn!Abort
    <3> QED BY <3>3 DEF Txn!Next
  <2>8. CASE Restart
    <3>1. Txn!Restart BY <2>8, RestartStep
    <3> QED BY <3>1 DEF Txn!Next
  <2> QED BY <2>1, <2>2, <2>3, <2>4, <2>5, <2>6, <2>7, <2>8 DEF IcacheNext
<1>3. IInv /\ [IcacheNext]_icacheVars => IInv' BY NextIInv
<1> QED BY InitIInv, <1>1, <1>2, <1>3, PTL DEF IcacheSpec, CacheTransparent, Txn!Spec
=============================================================================
