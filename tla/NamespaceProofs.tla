--------------------------- MODULE NamespaceProofs ---------------------------
(***************************************************************************)
(* Proofs about Namespace, for any number of threads, inodes and names: the *)
(* procedures but RENAME. What RENAME does to the lock order and to the     *)
(* caches when it aborts is what NoRename and its runs are about.           *)
(*                                                                         *)
(* The inductive invariant NInv says that the disk is a tree, that every    *)
(* cached inode is what is on disk, what handles may be, whose the numbers  *)
(* are that the allocator has given out, and for every thread which locks   *)
(* it has where it is, and what it knows of the inodes it has locked.       *)
(***************************************************************************)
EXTENDS Namespace, TLAPS

\* Most leaves are first-order; the ones with arithmetic, records or long
\* case splits name SMT.
USE Zenon

-----------------------------------------------------------------------------
(* What clients call. MKDIR that fails after it has counted the new         *)
(* directory leaves the count in the cache, and a directory REMOVE has freed *)
(* leaves its names in the Dcache for the next MKDIR.                       *)

NoRename == "RENAME" \notin Rpcs
CleanMkdir == "MKDIR" \in Rpcs => "REMOVE" \notin Rpcs /\ ~NoSpace /\ ~AnyHandle /\ LongName = {}

Lookers == {"LOOKUP", "REMOVE", "RMDIR"}

-----------------------------------------------------------------------------
(* The invariant.                                                          *)

\* A cached inode is the one on disk, its Dcache the entries on disk. A free
\* one may be ahead of the disk in generations, and a Dcache it keeps is that
\* of an empty directory if a directory may be made of it.
CacheOK(i) ==
  LET c == icache[i] IN
  /\ lock[i] # None \/ ~ColdCaches => c # None
  /\ c # None =>
       /\ c.kind = disk[i].kind
       /\ c.kind # "free" => c.gen = disk[i].gen /\ c.nlink = disk[i].nlink
       /\ c.kind = "free" => c.gen >= disk[i].gen
       /\ c.kind = "dir" /\ c.dc # None =>
            \A n \in NamesAll, j \in Inum : (n \in DOMAIN c.dc /\ c.dc[n] = j) <=> <<n, j>> \in disk[i].ents
       /\ c.kind = "dir" /\ ~ColdCaches => c.dc # None
       /\ c.kind # "dir" /\ c.dc # None /\ "MKDIR" \in Rpcs => DOMAIN c.dc \subseteq {".", ".."}

\* A handle is of the present inode of that number, of the same kind, or of an
\* earlier one.
HandleOK(h) ==
  /\ h.fh.gen <= disk[h.fh.ino].gen
  /\ h.fh.gen = disk[h.fh.ino].gen => h.kind = disk[h.fh.ino].kind

\* The numbers a thread has taken from the allocator or will give back.
Holds(t) ==
  IF th[t].pc = "post" THEN th[t].frees
  ELSE IF th[t].pc \in {"alloc", "body"} /\ th[t].rpc \in Creating THEN {th[t].inm} ELSE {}

AllocOK ==
  /\ \A i \in Inum : i \in ialloc <=> disk[i].kind # "free" \/ \E t \in Thread : i \in Holds(t)
  /\ \A t \in Thread : \A i \in Holds(t) : i \in Inum /\ disk[i].kind = "free"
  /\ \A t, u \in Thread : \A i \in Inum : i \in Holds(t) /\ i \in Holds(u) => t = u

\* The thread has locked the directory of its request.
AtDir == {"list", "listing", "lookup", "child", "alloc"}

\* Where a thread is, for which request, and which locks it has there.
Place(t) ==
  LET s == th[t]
      d == s.dfh.ino
      i == s.inm
  IN
  /\ s.pc \in AtDir \cup {"idle", "dir", "ordered", "body", "post"}
  /\ s.pc \in {"idle", "dir", "post"} => Owned(t) = {}
  /\ s.pc \in AtDir => Owned(t) = {d}
  /\ s.pc = "body" => Owned(t) = {d, i}
  /\ s.pc = "ordered" =>
       /\ i < d
       /\ \/ s.want = <<i, d>> /\ Owned(t) = {}
          \/ s.want = <<d>> /\ Owned(t) = {i}
          \/ s.want = <<>> /\ Owned(t) = {i, d}
  /\ s.pc = "child" => d < i
  /\ s.pc \in {"child", "ordered", "alloc", "body"} => i \in Inum
  /\ s.pc \in {"list", "listing"} => s.rpc = "READDIRPLUS"
  /\ s.pc = "lookup" => s.rpc # "READDIRPLUS"
  /\ s.pc \in {"child", "ordered"} => s.rpc \in Lookers
  /\ s.pc = "alloc" => s.rpc \in Creating
  /\ s.pc = "body" => s.rpc \in Lookers \cup Creating
  /\ s.scan # {} =>
       /\ s.pc \in {"lookup", "listing", "ordered"}
       /\ s.pc = "ordered" => s.want = <<>>
       /\ s.pc # "listing" => ColdCaches

\* What it is asked to do.
Asked(t) ==
  th[t].pc \notin {"idle", "post"} =>
    /\ th[t].dfh \in DirHandles /\ th[t].rpc \in Rpcs
    /\ th[t].rpc \in Creating \cup {"REMOVE", "RMDIR"} => th[t].name \in ClientName
    /\ th[t].rpc \in {"REMOVE", "RMDIR"} /\ th[t].pc # "dir" => th[t].name \in Name

\* What it knows of the inodes it has locked.
Knows(t) ==
  LET s == th[t]
      d == s.dfh.ino
      i == s.inm
  IN
  /\ s.pc \in AtDir \cup {"body"} => disk[d].kind # "free" /\ disk[d].gen = s.dfh.gen
  /\ s.pc \in {"child", "body"} /\ s.rpc \in Lookers => Entry(disk, d, s.name, i)
  /\ s.pc = "ordered" /\ s.want # <<i, d>> => disk[i].kind # "free"
  /\ s.pc = "ordered" /\ s.want = <<>> => disk[d].kind # "free"
  /\ s.pc \in {"alloc", "body"} /\ s.rpc \in Creating => \A j \in Inum : ~Entry(disk, d, s.name, j)
  /\ s.pc \in {"child", "alloc", "body"} => ~NoDcache(d)
  /\ \A j \in s.scan : \E n \in NamesAll : Entry(disk, d, n, j)

ThreadOK(t) == Place(t) /\ Asked(t) /\ Knows(t)

NInv ==
  /\ TypeOK /\ Tree(disk) /\ AllocOK
  /\ \A i \in Inum : CacheOK(i)
  /\ \A h \in fhs : HandleOK(h)
  /\ \A t \in Thread : ThreadOK(t)

-----------------------------------------------------------------------------
(* Types, the cache and the lock map.                                      *)

LEMMA NoneFacts ==
  /\ None \notin CachedInode /\ None \notin Dcache /\ None \notin Thread
  /\ NULLINUM \notin Inum /\ Inum \subseteq Nat /\ ROOTINUM \in Inum
  /\ "." \notin Name /\ ".." \notin Name /\ "." \in NamesAll /\ ".." \in NamesAll
  /\ Name \subseteq NamesAll
BY NamespaceAssumption DEF NULLINUM, NamesAll

\* The fields of a thread's state.
LEMMA ThreadFields ==
  ASSUME TypeOK, NEW t \in Thread
  PROVE  /\ th[t] \in ThreadState /\ th[t].dfh \in Fh /\ th[t].dfh.ino \in Inum
         /\ th[t].dfh.gen \in Nat /\ th[t].name \in NamesAll
         /\ th[t].inm \in Inum \cup {NULLINUM}
         /\ th[t].scan \subseteq Inum /\ th[t].frees \subseteq Inum
         /\ th[t].rpc \in Rpcs \cup {"NULL"} /\ th[t].want \in Seq(Inum)
<1>1. th[t] \in ThreadState BY DEF TypeOK
<1>2. th[t].dfh \in Fh BY <1>1 DEF ThreadState
<1> QED BY <1>1, <1>2 DEF ThreadState, Fh

LEMMA IdleType == Idle \in ThreadState
<1>1. NoFh \in Fh BY NoneFacts DEF NoFh, Fh
<1>2. <<>> \in Seq(Inum) BY SMT
<1> QED BY <1>1, <1>2, NoneFacts DEF Idle, ThreadState

LEMMA PostType == \A S \in SUBSET Inum : [Idle EXCEPT !.pc = "post", !.frees = S] \in ThreadState
BY IdleType DEF ThreadState

\* The inode GetInodeLocked finds is the one on disk.
LEMMA CachedFacts ==
  ASSUME TypeOK, NEW i \in Inum, CacheOK(i)
  PROVE  /\ Cached(i) \in CachedInode /\ Cached(i) # None
         /\ Cached(i).kind = disk[i].kind
         /\ Cached(i).kind # "free" => Cached(i).gen = disk[i].gen /\ Cached(i).nlink = disk[i].nlink
         /\ Cached(i).gen >= disk[i].gen
         /\ icache[i] # None => Cached(i) = icache[i]
<1>1. disk[i] \in DiskInode /\ icache[i] \in CachedInode \cup {None} BY DEF TypeOK
<1>2. disk[i].kind \in Kind /\ disk[i].gen \in Nat /\ disk[i].nlink \in Nat BY <1>1 DEF DiskInode
<1>3. Decode(i) \in CachedInode BY <1>2 DEF Decode, CachedInode
<1>4. CASE icache[i] = None
  BY SMT, <1>2, <1>3, <1>4, NoneFacts DEF Cached, Decode
<1>5. CASE icache[i] # None
  BY SMT, <1>1, <1>2, <1>5, NoneFacts DEF Cached, CacheOK
<1> QED BY <1>4, <1>5

\* A slot that is filled from the disk, or was filled already, is as good as before.
LEMMA FillKeeps ==
  ASSUME TypeOK, NEW i \in Inum, CacheOK(i), icache'[i] = Cached(i), disk'[i] = disk[i]
  PROVE  CacheOK(i)' /\ icache'[i] \in CachedInode
<1>1. Cached(i) \in CachedInode /\ Cached(i) # None BY CachedFacts
<1>2. CASE icache[i] = None
  <2>1. icache'[i] = Decode(i) BY <1>2 DEF Cached
  <2>2. ColdCaches BY <1>2 DEF CacheOK
  <2>3. Decode(i).kind = disk[i].kind /\ Decode(i).gen = disk[i].gen /\ Decode(i).nlink = disk[i].nlink
        /\ Decode(i).dc = None
    BY DEF Decode
  <2>4. disk[i].gen >= disk[i].gen
    <3>1. disk[i] \in DiskInode BY DEF TypeOK
    <3>2. disk[i].gen \in Nat BY <3>1 DEF DiskInode
    <3> QED BY SMT, <3>2
  <2> QED BY <1>1, <2>1, <2>2, <2>3, <2>4 DEF CacheOK
<1>3. CASE icache[i] # None
  <2>1. icache'[i] = icache[i] BY <1>3 DEF Cached
  <2> QED BY SMT, <1>1, <1>3, <2>1 DEF CacheOK
<1> QED BY <1>2, <1>3

\* The same for a slot that is left alone; the lock may change hands unless the slot is empty.
LEMMA SlotKeeps ==
  ASSUME NEW i \in Inum, CacheOK(i), icache'[i] = icache[i], disk'[i] = disk[i],
         lock'[i] # None => icache[i] # None
  PROVE  CacheOK(i)'
BY SMT DEF CacheOK

\* A directory cached with the names it has on disk.
LEMMA DirSlot ==
  ASSUME NEW i \in Inum, icache'[i] # None, icache'[i].kind = "dir", disk'[i].kind = "dir",
         icache'[i].gen = disk'[i].gen, icache'[i].nlink = disk'[i].nlink, NEW f, icache'[i].dc = f, f # None,
         \A n \in NamesAll, j \in Inum : (n \in DOMAIN f /\ f[n] = j) <=> <<n, j>> \in disk'[i].ents
  PROVE  CacheOK(i)'
<1>1. icache'[i].kind # "free" BY SMT
<1> QED BY <1>1 DEF CacheOK

\* LookupName tells what is on disk.
LEMMA LookupFacts ==
  ASSUME TypeOK, NEW d \in Inum, CacheOK(d), icache[d] # None, ~NoDcache(d), NEW n \in NamesAll
  PROVE  /\ LookupName(d, n) # NULLINUM => LookupName(d, n) \in Inum /\ Entry(disk, d, n, LookupName(d, n))
         /\ LookupName(d, n) = NULLINUM => \A j \in Inum : ~Entry(disk, d, n, j)
<1> DEFINE c == icache[d]
<1>1. c \in CachedInode /\ c.kind = disk[d].kind BY DEF TypeOK, CacheOK
<1>2. CASE c.kind # "dir"
  <2>1. LookupName(d, n) = NULLINUM BY <1>2 DEF LookupName
  <2> QED BY <2>1, <1>1, <1>2 DEF Entry
<1>3. CASE c.kind = "dir"
  <2>1. c.dc # None BY <1>3 DEF NoDcache
  <2>2. c.dc \in Dcache BY <1>1, <2>1 DEF CachedInode
  <2>3. PICK S \in SUBSET NamesAll : c.dc \in [S -> Inum] BY <2>2 DEF Dcache
  <2>4. \A j \in Inum : (n \in DOMAIN c.dc /\ c.dc[n] = j) <=> <<n, j>> \in disk[d].ents
    BY <1>3, <2>1 DEF CacheOK
  <2>5. CASE n \in DOMAIN c.dc
    <3>1. c.dc[n] \in Inum /\ LookupName(d, n) = c.dc[n] BY <1>3, <2>3, <2>5 DEF LookupName
    <3> QED BY <1>1, <1>3, <2>4, <2>5, <3>1, NoneFacts DEF Entry
  <2>6. CASE n \notin DOMAIN c.dc
    <3>1. LookupName(d, n) = NULLINUM BY <2>6 DEF LookupName
    <3> QED BY <2>4, <2>6, <3>1 DEF Entry
  <2> QED BY <2>5, <2>6
<1> QED BY <1>2, <1>3

\* A Dcache that mkDcache builds is the entries on disk.
LEMMA DcachesExact ==
  ASSUME TypeOK, Tree(disk), NEW d \in Inum, disk[d].kind = "dir", NEW f \in Dcaches(disk[d].ents)
  PROVE  /\ f \in Dcache
         /\ \A n \in NamesAll, j \in Inum : (n \in DOMAIN f /\ f[n] = j) <=> <<n, j>> \in disk[d].ents
<1> DEFINE ents == disk[d].ents
           ns == {e[1] : e \in ents}
<1>1. ents \subseteq NamesAll \X Inum
  <2>1. disk[d] \in DiskInode BY DEF TypeOK
  <2> QED BY <2>1 DEF DiskInode
<1>2. ns \subseteq NamesAll BY <1>1
<1>3. f \in [ns -> Inum] /\ \A n \in ns : <<n, f[n]>> \in ents BY DEF Dcaches
<1>4. f \in Dcache BY <1>2, <1>3 DEF Dcache
<1>5. \A n \in NamesAll, i, j \in Inum : <<n, i>> \in ents /\ <<n, j>> \in ents => i = j
  BY DEF Tree, Entry
<1>6. ASSUME NEW n \in NamesAll, NEW j \in Inum, <<n, j>> \in ents
      PROVE  n \in DOMAIN f /\ f[n] = j
  <2>1. n \in ns
    <3>1. <<n, j>>[1] = n OBVIOUS
    <3> QED BY <3>1, <1>6
  <2>2. <<n, f[n]>> \in ents /\ f[n] \in Inum BY <2>1, <1>3
  <2> HIDE DEF ents, ns
  <2> QED BY <2>1, <2>2, <1>3, <1>5, <1>6
<1>7. \A n \in DOMAIN f : <<n, f[n]>> \in ents BY <1>3
<1> QED BY <1>4, <1>6, <1>7

\* There is one.
LEMMA DcachesExist ==
  ASSUME NEW ents \in SUBSET (NamesAll \X Inum)
  PROVE  \E f \in Dcaches(ents) : TRUE
<1> DEFINE ns == {e[1] : e \in ents}
           f == [n \in ns |-> CHOOSE j \in Inum : <<n, j>> \in ents]
<1>1. ASSUME NEW n \in ns PROVE \E j \in Inum : <<n, j>> \in ents
  <2>1. PICK e \in ents : n = e[1] OBVIOUS
  <2>2. e = <<e[1], e[2]>> /\ e[2] \in Inum BY SMT
  <2> QED BY <2>1, <2>2
<1>2. \A n \in ns : f[n] \in Inum /\ <<n, f[n]>> \in ents BY <1>1
<1>3. f \in [ns -> Inum] BY <1>2
<1> QED BY <1>2, <1>3 DEF Dcaches

-----------------------------------------------------------------------------
(* What a step of one thread leaves to the others.                         *)

\* A step leaves thread u, its locks and the inodes it has locked alone;
\* handles are only added.
Untouched(u) ==
  /\ th'[u] = th[u] /\ Owned(u)' = Owned(u)
  /\ fhs \subseteq fhs'
  /\ \A i \in Owned(u) : disk'[i] = disk[i] /\ icache'[i] = icache[i]

LEMMA OthersOK ==
  ASSUME NEW u \in Thread, Untouched(u), ThreadOK(u)
  PROVE  ThreadOK(u)'
<1>1. /\ th'[u] = th[u] /\ Owned(u)' = Owned(u)
      /\ \A i \in Owned(u) : disk'[i] = disk[i] /\ icache'[i] = icache[i]
  BY DEF Untouched
<1>2. Place(u)' BY <1>1 DEF Place, ThreadOK
<1>3. Asked(u)'
  <2>1. DirHandles \subseteq DirHandles' BY DEF Untouched, DirHandles
  <2> QED BY <1>1, <2>1 DEF Asked, ThreadOK
<1>4. Knows(u)'
  <2> DEFINE s == th[u]
             d == s.dfh.ino
             i == s.inm
  <2>1. s.pc \in AtDir \cup {"body"} => disk'[d] = disk[d]
    BY <1>1 DEF ThreadOK, Place
  <2>2. s.pc = "ordered" /\ s.want # <<i, d>> => disk'[i] = disk[i]
    BY <1>1 DEF ThreadOK, Place
  <2>3. s.pc = "ordered" /\ s.want = <<>> => disk'[d] = disk[d]
    <3>1. <<>> # <<i, d>> /\ <<>> # <<d>> OBVIOUS
    <3> QED BY <1>1, <3>1 DEF ThreadOK, Place
  <2>0. s.scan # {} => disk'[d] = disk[d]
    BY <2>1, <2>3 DEF ThreadOK, Place, AtDir
  <2>4. /\ s.pc \in AtDir \cup {"body"} => disk'[d].kind # "free" /\ disk'[d].gen = s.dfh.gen
        /\ s.pc = "ordered" /\ s.want # <<i, d>> => disk'[i].kind # "free"
        /\ s.pc = "ordered" /\ s.want = <<>> => disk'[d].kind # "free"
    BY <2>1, <2>2, <2>3 DEF ThreadOK, Knows
  <2>5. /\ s.pc \in {"child", "body"} /\ s.rpc \in Lookers => Entry(disk', d, s.name, i)
        /\ s.pc \in {"alloc", "body"} /\ s.rpc \in Creating => \A j \in Inum : ~Entry(disk', d, s.name, j)
    BY <2>1 DEF ThreadOK, Knows, Entry, AtDir
  <2>6. \A j \in s.scan : \E n \in NamesAll : Entry(disk', d, n, j)
    BY <2>0 DEF ThreadOK, Knows, Entry
  <2>7. s.pc \in {"child", "alloc", "body"} => ~NoDcache(d)'
    <3>1. s.pc \in AtDir \cup {"body"} => d \in Owned(u) BY DEF ThreadOK, Place
    <3> QED BY <1>1, <3>1 DEF ThreadOK, Knows, AtDir, NoDcache
  <2> QED BY <1>1, <2>4, <2>5, <2>6, <2>7 DEF Knows
<1> QED BY <1>2, <1>3, <1>4 DEF ThreadOK

\* A step that changes no inode on disk.
LEMMA QuietStep ==
  ASSUME NInv, NEW t \in Thread, UNCHANGED <<disk, up>>, fhs \subseteq fhs',
         \A h \in fhs' \ fhs : h \in [fh : Fh, kind : Kind] /\ HandleOK(h),
         icache' \in [Inum -> CachedInode \cup {None}], \A i \in Inum : CacheOK(i)',
         lock' \in [Inum -> Thread \cup {None}],
         \A i \in Inum : lock'[i] = lock[i] \/ {lock[i], lock'[i]} \subseteq {t, None},
         \A i \in Inum : icache'[i] = icache[i] \/ lock[i] \in {t, None},
         NEW s \in ThreadState, th' = [th EXCEPT ![t] = s], ThreadOK(t)',
         ialloc' \subseteq Inum, AllocOK'
  PROVE  NInv'
<1>1. TypeOK' BY DEF NInv, TypeOK
<1>2. th \in [Thread -> ThreadState] BY DEF NInv, TypeOK
<1>3. ASSUME NEW u \in Thread \ {t}
      PROVE  th'[u] = th[u] /\ Owned(u)' = Owned(u) /\ \A i \in Owned(u) : icache'[i] = icache[i]
  <2>1. th'[u] = th[u] BY <1>2
  <2>2. u # None BY NoneFacts
  <2>3. \A i \in Inum : lock'[i] = u <=> lock[i] = u BY <2>2
  <2>4. Owned(u)' = Owned(u) BY <2>3 DEF Owned
  <2>5. \A i \in Owned(u) : icache'[i] = icache[i] BY <2>2 DEF Owned
  <2> QED BY <2>1, <2>4, <2>5
<1>4. \A u \in Thread \ {t} : Untouched(u) BY <1>3 DEF Untouched
<1>5. \A u \in Thread : ThreadOK(u)' BY <1>4, OthersOK DEF NInv
<1>6. \A h \in fhs' : HandleOK(h)' BY DEF HandleOK, NInv
<1>7. Tree(disk)' BY DEF NInv
<1> QED BY <1>1, <1>5, <1>6, <1>7 DEF NInv

\* One that leaves the numbers to those who have them, too.
LEMMA CalmStep ==
  ASSUME NInv, NEW t \in Thread, UNCHANGED <<disk, ialloc, up>>, fhs \subseteq fhs',
         \A h \in fhs' \ fhs : h \in [fh : Fh, kind : Kind] /\ HandleOK(h),
         icache' \in [Inum -> CachedInode \cup {None}], \A i \in Inum : CacheOK(i)',
         lock' \in [Inum -> Thread \cup {None}],
         \A i \in Inum : lock'[i] = lock[i] \/ {lock[i], lock'[i]} \subseteq {t, None},
         \A i \in Inum : icache'[i] = icache[i] \/ lock[i] \in {t, None},
         NEW s \in ThreadState, th' = [th EXCEPT ![t] = s], Holds(t)' = Holds(t), ThreadOK(t)'
  PROVE  NInv'
<1>1. th \in [Thread -> ThreadState] /\ ialloc \subseteq Inum BY DEF NInv, TypeOK
<1>2. \A u \in Thread \ {t} : Holds(u)' = Holds(u) BY <1>1 DEF Holds
<1>3. \A u \in Thread : Holds(u)' = Holds(u) BY <1>2
<1>4. AllocOK' BY SMT, <1>3 DEF AllocOK, NInv
<1> QED BY <1>1, <1>4, QuietStep

\* The locks after a release of all of them, and after one more.
LEMMA Released ==
  ASSUME TypeOK, NEW t \in Thread, lock' = NoneOwned(t)
  PROVE  /\ Owned(t)' = {} /\ lock' \in [Inum -> Thread \cup {None}]
         /\ \A i \in Inum : lock'[i] = lock[i] \/ {lock[i], lock'[i]} \subseteq {t, None}
         /\ \A i \in Inum : lock'[i] # None => lock[i] # None
BY NoneFacts DEF TypeOK, NoneOwned, Owned

LEMMA Acquired ==
  ASSUME TypeOK, NEW t \in Thread, NEW i \in Inum, GetInodeLocked(t, i)
  PROVE  /\ Owned(t)' = Owned(t) \cup {i} /\ lock' \in [Inum -> Thread \cup {None}]
         /\ \A j \in Inum : lock'[j] = lock[j] \/ {lock[j], lock'[j]} \subseteq {t, None}
         /\ \A j \in Inum \ {i} : lock'[j] = lock[j]
BY DEF TypeOK, GetInodeLocked, Owned

\* The cache after a slot has been filled.
LEMMA Filled ==
  ASSUME NInv, NEW i \in Inum, icache' = [icache EXCEPT ![i] = Cached(i)], UNCHANGED disk,
         \A j \in Inum \ {i} : lock'[j] # None => lock[j] # None
  PROVE  /\ icache' \in [Inum -> CachedInode \cup {None}] /\ icache'[i] = Cached(i) /\ icache'[i] # None
         /\ \A j \in Inum : CacheOK(j)'
         /\ \A j \in Inum : icache[j] # None \/ j # i => icache'[j] = icache[j]
<1>1. icache'[i] = Cached(i) /\ \A j \in Inum \ {i} : icache'[j] = icache[j] BY DEF NInv, TypeOK
<1>2. CacheOK(i)' /\ icache'[i] \in CachedInode BY <1>1, FillKeeps DEF NInv
<1>3. icache'[i] # None BY <1>2, NoneFacts
<1>4. ASSUME NEW j \in Inum \ {i} PROVE CacheOK(j)'
  <2>1. CacheOK(j) /\ icache'[j] = icache[j] BY <1>1 DEF NInv
  <2>2. lock'[j] # None => icache[j] # None BY <2>1 DEF CacheOK
  <2> QED BY <2>1, <2>2, SlotKeeps
<1>5. icache' \in [Inum -> CachedInode \cup {None}] BY <1>2 DEF NInv, TypeOK
<1> QED BY <1>1, <1>2, <1>3, <1>4, <1>5 DEF Cached

\* A step that only changes the thread, and one that also releases its locks.
LEMMA StayStep ==
  ASSUME NInv, NEW t \in Thread, UNCHANGED <<disk, icache, ialloc, lock, fhs, up>>,
         NEW s \in ThreadState, th' = [th EXCEPT ![t] = s], Holds(t)' = Holds(t), ThreadOK(t)'
  PROVE  NInv'
<1>1. \A i \in Inum : CacheOK(i)' BY SMT DEF NInv, CacheOK
<1>2. /\ icache' \in [Inum -> CachedInode \cup {None}] /\ lock' \in [Inum -> Thread \cup {None}]
      /\ fhs' = fhs
  BY DEF NInv, TypeOK
<1> QED BY <1>1, <1>2, CalmStep

LEMMA ReleaseStep ==
  ASSUME NInv, NEW t \in Thread, lock' = NoneOwned(t), UNCHANGED <<disk, icache, ialloc, fhs, up>>,
         NEW s \in ThreadState, th' = [th EXCEPT ![t] = s], Holds(t)' = Holds(t), ThreadOK(t)'
  PROVE  NInv'
<1>1. TypeOK BY DEF NInv
<1>2. /\ lock' \in [Inum -> Thread \cup {None}]
      /\ \A i \in Inum : lock'[i] = lock[i] \/ {lock[i], lock'[i]} \subseteq {t, None}
      /\ \A i \in Inum : lock'[i] # None => lock[i] # None
  BY <1>1, Released
<1>3. \A i \in Inum : CacheOK(i)' BY SMT, <1>2 DEF NInv, CacheOK
<1>4. icache' \in [Inum -> CachedInode \cup {None}] /\ fhs' = fhs BY <1>1 DEF TypeOK
<1> QED BY <1>2, <1>3, <1>4, CalmStep

\* A thread that is idle, or whose locks are released, satisfies its part.
LEMMA IdleOK ==
  ASSUME NEW t \in Thread, th'[t] = Idle, Owned(t)' = {}
  PROVE  ThreadOK(t)' /\ Holds(t)' = {}
BY SMT DEF ThreadOK, Place, Asked, Knows, Holds, Idle, AtDir

\* errRet where no number has been taken from the allocator.
LEMMA ErrRetStep ==
  ASSUME NInv, NEW t \in Thread, errRet(t), Holds(t) = {}
  PROVE  NInv'
<1>1. TypeOK BY DEF NInv
<1>2. th' = [th EXCEPT ![t] = Idle] /\ lock' = NoneOwned(t) /\ UNCHANGED <<disk, icache, ialloc, fhs, up>>
  BY DEF errRet, Finish
<1>3. th'[t] = Idle BY <1>1, <1>2 DEF TypeOK
<1>4. Owned(t)' = {} BY <1>1, <1>2, Released
<1>5. ThreadOK(t)' /\ Holds(t)' = {} BY <1>3, <1>4, IdleOK
<1> QED BY <1>2, <1>5, IdleType, ReleaseStep

-----------------------------------------------------------------------------
(* The first steps of a procedure, and the directory listings.             *)

LEMMA PanicStep == ASSUME NInv, Panic PROVE NInv'
<1>1. UNCHANGED <<disk, icache, ialloc, lock, th, fhs>> /\ up' \in BOOLEAN BY DEF Panic
<1>2. TypeOK' BY <1>1 DEF NInv, TypeOK
<1>3. (\A i \in Inum : CacheOK(i)') /\ (\A h \in fhs' : HandleOK(h)') BY SMT, <1>1 DEF NInv, CacheOK, HandleOK
<1>4. AllocOK' BY SMT, <1>1 DEF NInv, AllocOK, Holds
<1>5. ASSUME NEW t \in Thread PROVE ThreadOK(t)'
  <2>1. Untouched(t) BY <1>1 DEF Untouched, Owned
  <2> QED BY <2>1, OthersOK DEF NInv
<1>6. Tree(disk)' BY <1>1 DEF NInv
<1> QED BY <1>2, <1>3, <1>4, <1>5, <1>6 DEF NInv

\* What a reply tells of an inode in use.
LEMMA NewHandle ==
  ASSUME TypeOK, NEW i \in Inum, NEW c \in CachedInode, c.kind = disk[i].kind, c.gen = disk[i].gen
  PROVE  Handle(i, c) \in [fh : Fh, kind : Kind] /\ HandleOK(Handle(i, c))
<1>1. c.gen \in Nat /\ c.kind \in Kind BY DEF CachedInode
<1>2. Handle(i, c).fh.ino = i /\ Handle(i, c).fh.gen = c.gen /\ Handle(i, c).kind = c.kind BY DEF Handle
<1>3. c.gen <= disk[i].gen BY SMT, <1>1
<1>4. Handle(i, c) \in [fh : Fh, kind : Kind] BY <1>1 DEF Handle, Fh
<1> QED BY <1>2, <1>3, <1>4 DEF HandleOK

\* Apply visits inodes in use.
LEMMA ScanInUse ==
  ASSUME NInv, NEW t \in Thread, NEW i \in th[t].scan
  PROVE  i \in Inum /\ disk[i].kind # "free" /\ Cached(i).kind # "free"
<1>1. TypeOK /\ Tree(disk) BY DEF NInv
<1>2. i \in Inum /\ th[t].dfh.ino \in Inum BY <1>1, ThreadFields
<1>3. \E n \in NamesAll : Entry(disk, th[t].dfh.ino, n, i) BY DEF NInv, ThreadOK, Knows
<1>4. disk[i].kind # "free" BY <1>1, <1>2, <1>3 DEF Tree
<1>5. CacheOK(i) BY <1>2 DEF NInv
<1> QED BY <1>1, <1>2, <1>4, <1>5, CachedFacts

LEMMA ApplyStep == ASSUME NInv, NEW t \in Thread, th[t].scan # {}, Apply(t) PROVE NInv'
<1>1. PICK i \in th[t].scan :
        /\ lock[i] = None /\ icache' = [icache EXCEPT ![i] = Cached(i)]
        /\ th' = [th EXCEPT ![t].scan = @ \ {i}]
        /\ fhs' = IF th[t].rpc = "READDIRPLUS" THEN fhs \cup {Handle(i, Cached(i))} ELSE fhs
        /\ UNCHANGED <<disk, ialloc, lock, up>>
  BY ScanInUse DEF Apply
<1> DEFINE s == [th[t] EXCEPT !.scan = th[t].scan \ {i}]
<1>2. TypeOK /\ th[t] \in ThreadState /\ th \in [Thread -> ThreadState] /\ ThreadOK(t)
  BY DEF NInv, TypeOK
<1>3. i \in Inum /\ CacheOK(i) /\ Cached(i).kind # "free" BY ScanInUse DEF NInv
<1>4. /\ icache' \in [Inum -> CachedInode \cup {None}] /\ \A j \in Inum : CacheOK(j)'
      /\ \A j \in Inum : icache[j] # None \/ j # i => icache'[j] = icache[j]
  BY <1>1, <1>3, Filled
<1>5. s \in ThreadState /\ th' = [th EXCEPT ![t] = s] BY <1>1, <1>2 DEF ThreadState
<1>6. th'[t] = s BY <1>2, <1>5
<1>7. /\ th'[t].pc = th[t].pc /\ th'[t].rpc = th[t].rpc /\ th'[t].dfh = th[t].dfh
      /\ th'[t].name = th[t].name /\ th'[t].inm = th[t].inm /\ th'[t].want = th[t].want
      /\ th'[t].scan = th[t].scan \ {i} /\ th'[t].frees = th[t].frees
  BY <1>2, <1>6 DEF ThreadState
<1>8. Holds(t)' = Holds(t) BY <1>7 DEF Holds
<1>9. fhs \subseteq fhs' /\ \A h \in fhs' \ fhs : h \in [fh : Fh, kind : Kind] /\ HandleOK(h)
  <2>1. Cached(i) \in CachedInode /\ Cached(i).kind = disk[i].kind /\ Cached(i).gen = disk[i].gen
    BY <1>2, <1>3, CachedFacts
  <2>2. Handle(i, Cached(i)) \in [fh : Fh, kind : Kind] /\ HandleOK(Handle(i, Cached(i)))
    BY <2>1, <1>2, <1>3, NewHandle
  <2> QED BY <1>1, <2>2
<1>10. ThreadOK(t)'
  <2>1. Owned(t)' = Owned(t) BY <1>1 DEF Owned
  <2>2. Place(t)' BY <1>2, <1>7, <2>1 DEF ThreadOK, Place
  <2>3. Asked(t)'
    <3>1. DirHandles \subseteq DirHandles' BY <1>9 DEF DirHandles
    <3> QED BY <1>2, <1>7, <3>1 DEF ThreadOK, Asked
  <2>4. th[t].pc \notin {"child", "alloc", "body"} BY <1>2 DEF ThreadOK, Place
  <2>5. Knows(t)' BY <1>1, <1>2, <1>7, <2>4 DEF ThreadOK, Knows
  <2> QED BY <2>2, <2>3, <2>5 DEF ThreadOK
<1>11. lock' \in [Inum -> Thread \cup {None}] /\ lock' = lock BY <1>1, <1>2 DEF TypeOK
<1> QED BY <1>1, <1>4, <1>5, <1>8, <1>9, <1>10, <1>11, CalmStep

LEMMA ListDoneStep == ASSUME NInv, NEW t \in Thread, READDIRPLUSDone(t) PROVE NInv'
<1>1. Holds(t) = {} BY DEF READDIRPLUSDone, Holds
<1> QED BY <1>1, ErrRetStep DEF READDIRPLUSDone

LEMMA BeginStep ==
  ASSUME NInv, NoRename, NEW t \in Thread, th[t].scan = {}, Begin(t)
  PROVE  NInv'
<1>1. TypeOK /\ th \in [Thread -> ThreadState] /\ Owned(t) = {} /\ th[t].pc = "idle"
      /\ UNCHANGED <<disk, icache, ialloc, lock, fhs, up>>
  BY DEF Begin, NInv, TypeOK, ThreadOK, Place
<1>2. PICK rpc \in Rpcs, dfh \in DirHandles, n \in NamesAll :
        \/ /\ rpc = "LOOKUP" \/ (rpc \notin {"RENAME", "READDIRPLUS"} /\ n \in ClientName)
           /\ th' = [th EXCEPT ![t] = [Idle EXCEPT !.pc = "dir", !.rpc = rpc, !.dfh = dfh, !.name = n]]
        \/ /\ rpc = "READDIRPLUS"
           /\ th' = [th EXCEPT ![t] = [Idle EXCEPT !.pc = "dir", !.rpc = rpc, !.dfh = dfh]]
  BY DEF Begin, NoRename
<1>3. dfh \in Fh
  <2>1. \A h \in fhs : h.fh \in Fh BY <1>1 DEF TypeOK
  <2> QED BY <2>1 DEF DirHandles
<1>4. PICK s \in ThreadState :
        /\ th' = [th EXCEPT ![t] = s]
        /\ s.pc = "dir" /\ s.rpc = rpc /\ s.dfh = dfh /\ s.scan = {}
        /\ rpc \in Creating \cup {"REMOVE", "RMDIR"} => s.name \in ClientName
  <2>1. CASE /\ rpc = "LOOKUP" \/ (rpc \notin {"RENAME", "READDIRPLUS"} /\ n \in ClientName)
             /\ th' = [th EXCEPT ![t] = [Idle EXCEPT !.pc = "dir", !.rpc = rpc, !.dfh = dfh, !.name = n]]
    <3> DEFINE r == [Idle EXCEPT !.pc = "dir", !.rpc = rpc, !.dfh = dfh, !.name = n]
    <3>1. r \in ThreadState BY <1>3, IdleType DEF ThreadState
    <3>2. r.pc = "dir" /\ r.rpc = rpc /\ r.dfh = dfh /\ r.scan = {} /\ r.name = n BY DEF Idle
    <3> QED BY <2>1, <3>1, <3>2 DEF Creating
  <2>2. CASE /\ rpc = "READDIRPLUS"
             /\ th' = [th EXCEPT ![t] = [Idle EXCEPT !.pc = "dir", !.rpc = rpc, !.dfh = dfh]]
    <3> DEFINE r == [Idle EXCEPT !.pc = "dir", !.rpc = rpc, !.dfh = dfh]
    <3>1. r \in ThreadState BY <1>3, IdleType DEF ThreadState
    <3>2. r.pc = "dir" /\ r.rpc = rpc /\ r.dfh = dfh /\ r.scan = {} BY DEF Idle
    <3> QED BY <2>2, <3>1, <3>2 DEF Creating
  <2> QED BY <1>2, <2>1, <2>2
<1>6. th'[t] = s BY <1>1, <1>4
<1>7. Holds(t)' = Holds(t) BY <1>1, <1>4, <1>6 DEF Holds
<1>8. Place(t)'
  <2>1. Owned(t)' = {} BY <1>1 DEF Owned
  <2> QED BY <1>4, <1>6, <2>1 DEF Place, AtDir
<1>9. Asked(t)'
  <2>1. DirHandles' = DirHandles BY <1>1 DEF DirHandles
  <2> QED BY SMT, <1>4, <1>6, <2>1 DEF Asked
<1>10. Knows(t)' BY <1>4, <1>6 DEF Knows, AtDir
<1> QED BY <1>1, <1>4, <1>7, <1>8, <1>9, <1>10, StayStep DEF ThreadOK

\* FreeNum returns the numbers of inodes that are free, and that no other
\* thread has.
LEMMA PostStep == ASSUME NInv, NEW t \in Thread, th[t].scan = {}, Post(t) PROVE NInv'
<1>1. /\ TypeOK /\ AllocOK /\ Tree(disk) /\ th \in [Thread -> ThreadState] /\ Owned(t) = {}
      /\ th[t].pc = "post" /\ Holds(t) = th[t].frees
  BY DEF NInv, TypeOK, ThreadOK, Place, Holds, Post
<1>2. /\ ialloc' = ialloc \ th[t].frees /\ th' = [th EXCEPT ![t] = Idle]
      /\ UNCHANGED <<disk, icache, lock, fhs, up>>
  BY DEF Post
<1>3. th'[t] = Idle /\ \A u \in Thread \ {t} : th'[u] = th[u] BY <1>1, <1>2
<1>4. \A u \in Thread : Owned(u)' = Owned(u) BY <1>2 DEF Owned
<1>5. TypeOK' BY <1>1, <1>2, IdleType DEF TypeOK
<1>6. ThreadOK(t)' /\ Holds(t)' = {} BY <1>1, <1>3, <1>4, IdleOK
<1>7. \A u \in Thread \ {t} : Holds(u)' = Holds(u) BY <1>3 DEF Holds
<1>8. AllocOK'
  <2>1. ASSUME NEW i \in Inum
        PROVE  i \in ialloc' <=> disk'[i].kind # "free" \/ \E u \in Thread : i \in Holds(u)'
    BY SMT, <1>1, <1>2, <1>6, <1>7 DEF AllocOK
  <2>2. \A u \in Thread : \A i \in Holds(u)' : i \in Inum /\ disk'[i].kind = "free"
    BY SMT, <1>1, <1>2, <1>6, <1>7 DEF AllocOK
  <2>3. \A u, v \in Thread : \A i \in Inum : i \in Holds(u)' /\ i \in Holds(v)' => u = v
    BY SMT, <1>1, <1>6, <1>7 DEF AllocOK
  <2> QED BY <2>1, <2>2, <2>3 DEF AllocOK
<1>9. \A u \in Thread : ThreadOK(u)'
  <2>1. \A u \in Thread \ {t} : Untouched(u) BY <1>2, <1>3, <1>4 DEF Untouched
  <2> QED BY <1>6, <2>1, OthersOK DEF NInv
<1>10. (\A i \in Inum : CacheOK(i)') /\ (\A h \in fhs' : HandleOK(h)') BY SMT, <1>2 DEF NInv, CacheOK, HandleOK
<1>11. Tree(disk)' BY <1>1, <1>2
<1> QED BY <1>5, <1>8, <1>9, <1>10, <1>11 DEF NInv

LEMMA LockDirStep == ASSUME NInv, NEW t \in Thread, th[t].scan = {}, LockDir(t) PROVE NInv'
<1> DEFINE d == th[t].dfh.ino
<1>1. /\ TypeOK /\ th[t] \in ThreadState /\ th \in [Thread -> ThreadState] /\ ThreadOK(t)
      /\ th[t].pc = "dir" /\ Owned(t) = {} /\ Holds(t) = {}
  BY DEF NInv, TypeOK, ThreadOK, Place, Holds, LockDir
<1>2. d \in Inum /\ CacheOK(d) BY <1>1, ThreadFields DEF NInv
<1>3. /\ UNCHANGED <<disk, ialloc, fhs, up>> /\ lock[d] = None
      /\ icache' = [icache EXCEPT ![d] = Cached(d)]
  BY DEF LockDir, GetInodeLocked
<1>4. CASE FhValid(th[t].dfh)
  <2> DEFINE s == [th[t] EXCEPT !.pc = IF th[t].rpc = "READDIRPLUS" THEN "list" ELSE "lookup"]
  <2>1. GetInodeLocked(t, d) /\ th' = [th EXCEPT ![t] = s] BY <1>4 DEF LockDir
  <2>2. /\ Owned(t)' = {d} /\ lock' \in [Inum -> Thread \cup {None}]
        /\ \A j \in Inum : lock'[j] = lock[j] \/ {lock[j], lock'[j]} \subseteq {t, None}
        /\ \A j \in Inum \ {d} : lock'[j] = lock[j]
    BY SMT, <1>1, <1>2, <2>1, Acquired
  <2>3. /\ icache' \in [Inum -> CachedInode \cup {None}] /\ \A j \in Inum : CacheOK(j)'
        /\ \A j \in Inum : icache[j] # None \/ j # d => icache'[j] = icache[j]
    BY <1>2, <1>3, <2>2, Filled
  <2>4. s \in ThreadState BY <1>1 DEF ThreadState
  <2>5. th'[t] = s BY <1>1, <2>1
  <2>6. /\ th'[t].pc = IF th[t].rpc = "READDIRPLUS" THEN "list" ELSE "lookup"
        /\ th'[t].rpc = th[t].rpc /\ th'[t].dfh = th[t].dfh /\ th'[t].name = th[t].name /\ th'[t].scan = {}
    BY <1>1, <2>5 DEF ThreadState
  <2>7. Holds(t)' = Holds(t) BY <1>1, <2>6 DEF Holds
  <2>8. Place(t)' BY <2>2, <2>6 DEF Place, AtDir
  <2>9. Asked(t)'
    <3>1. DirHandles' = DirHandles BY <1>3 DEF DirHandles
    <3>2. th[t].rpc \in {"REMOVE", "RMDIR"} => th[t].name \in Name
      <4>1. th[t].name \in NamesAll BY <1>1, ThreadFields
      <4> QED BY <4>1 DEF LockDir, IllegalName, NamesAll
    <3> QED BY <1>1, <2>6, <3>1, <3>2 DEF ThreadOK, Asked
  <2>10. Knows(t)'
    <3>1. disk[d].kind # "free" /\ disk[d].gen = th[t].dfh.gen BY <1>1, <1>2, <1>4, CachedFacts DEF FhValid
    <3> QED BY <1>3, <2>6, <3>1 DEF Knows, AtDir
  <2> QED BY <1>3, <2>1, <2>2, <2>3, <2>4, <2>7, <2>8, <2>9, <2>10, CalmStep DEF ThreadOK
<1>5. CASE ~FhValid(th[t].dfh)
  <2>1. th' = [th EXCEPT ![t] = Idle] /\ lock' = lock BY <1>5 DEF LockDir
  <2>2. /\ icache' \in [Inum -> CachedInode \cup {None}] /\ \A j \in Inum : CacheOK(j)'
        /\ \A j \in Inum : icache[j] # None \/ j # d => icache'[j] = icache[j]
    BY <1>2, <1>3, <2>1, Filled
  <2>3. th'[t] = Idle /\ Owned(t)' = {} BY <1>1, <2>1 DEF Owned
  <2>4. ThreadOK(t)' /\ Holds(t)' = Holds(t) BY <1>1, <2>3, IdleOK
  <2>5. lock' \in [Inum -> Thread \cup {None}] BY <1>1, <2>1 DEF TypeOK
  <2> QED BY <1>3, <2>1, <2>2, <2>4, <2>5, IdleType, CalmStep
<1> QED BY <1>4, <1>5

LEMMA ReadDirStep == ASSUME NInv, NEW t \in Thread, th[t].scan = {}, READDIRPLUS(t) PROVE NInv'
<1> DEFINE d == th[t].dfh.ino
           s == [th[t] EXCEPT !.pc = "listing", !.scan = {e[2] : e \in disk[d].ents} \ {d}]
<1>1. /\ TypeOK /\ th[t] \in ThreadState /\ th \in [Thread -> ThreadState] /\ ThreadOK(t)
      /\ th[t].pc = "list" /\ Owned(t) = {d} /\ Holds(t) = {} /\ th[t].rpc = "READDIRPLUS"
  BY DEF NInv, TypeOK, ThreadOK, Place, Holds, READDIRPLUS, AtDir
<1>2. CASE errRet(t) BY <1>1, <1>2, ErrRetStep
<1>3. CASE /\ icache[d].kind = "dir" /\ th' = [th EXCEPT ![t] = s]
           /\ UNCHANGED <<disk, icache, ialloc, lock, fhs, up>>
  <2>1. d \in Inum /\ CacheOK(d) /\ disk[d] \in DiskInode BY <1>1, ThreadFields DEF NInv, TypeOK
  <2>2. lock[d] # None BY <1>1, <2>1, NoneFacts DEF Owned
  <2>3. disk[d].kind = "dir" BY <1>3, <2>1, <2>2 DEF CacheOK
  <2>4. \A e \in disk[d].ents : e[1] \in NamesAll /\ e[2] \in Inum /\ e = <<e[1], e[2]>> BY SMT, <2>1 DEF DiskInode
  <2>5. s \in ThreadState
    <3>1. \A S \in SUBSET Inum : [th[t] EXCEPT !.pc = "listing", !.scan = S] \in ThreadState
      BY <1>1 DEF ThreadState
    <3>2. {e[2] : e \in disk[d].ents} \ {d} \in SUBSET Inum BY <2>4
    <3> QED BY <3>1, <3>2
  <2>6. th'[t] = s BY <1>1, <1>3
  <2>7. /\ th'[t].pc = "listing" /\ th'[t].scan = {e[2] : e \in disk[d].ents} \ {d}
        /\ th'[t].rpc = th[t].rpc /\ th'[t].dfh = th[t].dfh /\ th'[t].name = th[t].name
    BY <1>1, <2>6 DEF ThreadState
  <2>8. Holds(t)' = Holds(t) BY <1>1, <2>7 DEF Holds
  <2>9. Place(t)'
    <3>1. Owned(t)' = Owned(t) BY <1>3 DEF Owned
    <3> QED BY <1>1, <2>7, <3>1 DEF Place, AtDir
  <2>10. Asked(t)'
    <3>1. DirHandles' = DirHandles BY <1>3 DEF DirHandles
    <3> QED BY <1>1, <2>7, <3>1 DEF ThreadOK, Asked
  <2>11. Knows(t)'
    <3>1. ASSUME NEW j \in th'[t].scan PROVE \E n \in NamesAll : Entry(disk', d, n, j)
      <4>1. PICK e \in disk[d].ents : j = e[2] BY <2>7
      <4>2. Entry(disk', d, e[1], j) BY <1>3, <2>3, <2>4, <4>1 DEF Entry
      <4> QED BY <2>4, <4>2
    <3> QED BY <1>1, <1>3, <2>7, <3>1 DEF ThreadOK, Knows, AtDir
  <2> QED BY <1>3, <2>5, <2>8, <2>9, <2>10, <2>11, StayStep DEF ThreadOK
<1> QED BY <1>2, <1>3 DEF READDIRPLUS

-----------------------------------------------------------------------------
(* Looking names up.                                                       *)

\* What a thread has locked is cached.
LEMMA OwnedCached ==
  ASSUME NInv, NEW t \in Thread, NEW i \in Owned(t)
  PROVE  /\ i \in Inum /\ icache[i] # None /\ icache[i] \in CachedInode /\ CacheOK(i)
         /\ Cached(i) = icache[i] /\ icache[i].kind = disk[i].kind
<1>1. i \in Inum /\ lock[i] # None BY NoneFacts DEF Owned
<1>2. CacheOK(i) /\ icache[i] \in CachedInode \cup {None} BY <1>1 DEF NInv, TypeOK
<1> QED BY <1>1, <1>2 DEF CacheOK, Cached

\* mkDcache in getInodesLocked, lookupOrdered and getAlloc.
LEMMA MkDcacheStep ==
  ASSUME NInv, NEW t \in Thread, th[t].scan = {}, th[t].pc \in {"lookup", "ordered"},
         th[t].pc = "ordered" => th[t].want = <<>>, mkDcache(t, th[t].dfh.ino)
  PROVE  NInv'
<1> DEFINE d == th[t].dfh.ino
           S == {e[2] : e \in disk[d].ents} \ Owned(t)
           s == [th[t] EXCEPT !.scan = S]
<1>1. TypeOK /\ Tree(disk) /\ th[t] \in ThreadState /\ th \in [Thread -> ThreadState] /\ ThreadOK(t)
  BY DEF NInv, TypeOK
<1>2. d \in Owned(t)
  <2>1. th[t].want = <<>> => th[t].want # <<th[t].inm, d>> /\ th[t].want # <<d>> BY SMT
  <2> QED BY <1>1, <2>1 DEF ThreadOK, Place, AtDir
<1>3. d \in Inum /\ icache[d] \in CachedInode /\ CacheOK(d) /\ icache[d] # None /\ icache[d].kind = disk[d].kind
  BY <1>2, OwnedCached
<1>4. PICK f \in Dcaches(disk[d].ents) : icache' = [icache EXCEPT ![d].dc = f] BY DEF mkDcache
<1>5. /\ disk[d].kind = "dir" /\ icache[d].dc = None
      /\ th' = [th EXCEPT ![t] = s] /\ UNCHANGED <<disk, ialloc, lock, fhs, up>>
  BY <1>3 DEF mkDcache, NoDcache
<1>6. ColdCaches BY <1>3, <1>5 DEF CacheOK
<1>7. /\ f \in Dcache /\ f # None
      /\ \A n \in NamesAll, j \in Inum : (n \in DOMAIN f /\ f[n] = j) <=> <<n, j>> \in disk[d].ents
  <2>1. /\ f \in Dcache
        /\ \A n \in NamesAll, j \in Inum : (n \in DOMAIN f /\ f[n] = j) <=> <<n, j>> \in disk[d].ents
    BY SMT, <1>1, <1>3, <1>5, DcachesExact
  <2> QED BY SMT, <2>1, NoneFacts
<1>8. /\ icache' = [icache EXCEPT ![d] = [icache[d] EXCEPT !.dc = f]]
      /\ [icache[d] EXCEPT !.dc = f] \in CachedInode
  BY <1>3, <1>4, <1>7 DEF CachedInode
<1>9. /\ icache'[d].kind = icache[d].kind /\ icache'[d].gen = icache[d].gen
      /\ icache'[d].nlink = icache[d].nlink /\ icache'[d].dc = f /\ icache'[d] # None
      /\ \A j \in Inum \ {d} : icache'[j] = icache[j]
      /\ icache' \in [Inum -> CachedInode \cup {None}]
  BY <1>1, <1>3, <1>8, NoneFacts DEF TypeOK, CachedInode
<1>10. ASSUME NEW j \in Inum PROVE CacheOK(j)'
  <2>1. CASE j = d
    <3>1. icache[d].gen = disk[d].gen /\ icache[d].nlink = disk[d].nlink BY <1>3, <1>5 DEF CacheOK
    <3>2. /\ icache'[d].kind = "dir" /\ icache'[d].gen = disk'[d].gen /\ icache'[d].nlink = disk'[d].nlink
          /\ disk'[d].kind = "dir" /\ disk'[d].ents = disk[d].ents
      BY <1>3, <1>5, <1>9, <3>1
    <3> QED BY <1>6, <1>7, <1>9, <2>1, <3>2 DEF CacheOK
  <2>2. CASE j # d
    <3>1. icache'[j] = icache[j] /\ disk' = disk /\ lock' = lock BY <1>5, <1>9, <2>2
    <3>2. CacheOK(j) BY DEF NInv
    <3>3. lock'[j] # None => icache[j] # None BY <3>1, <3>2 DEF CacheOK
    <3> QED BY <3>1, <3>2, <3>3, SlotKeeps
  <2> QED BY <2>1, <2>2
<1>11. \A e \in disk[d].ents : e[1] \in NamesAll /\ e[2] \in Inum /\ e = <<e[1], e[2]>>
  <2>1. disk[d] \in DiskInode BY <1>1, <1>3 DEF TypeOK
  <2> QED BY SMT, <2>1 DEF DiskInode
<1>12. s \in ThreadState
  <2>1. \A T \in SUBSET Inum : [th[t] EXCEPT !.scan = T] \in ThreadState BY <1>1 DEF ThreadState
  <2>2. S \in SUBSET Inum BY <1>11
  <2> QED BY <2>1, <2>2
<1>13. /\ th'[t].pc = th[t].pc /\ th'[t].rpc = th[t].rpc /\ th'[t].dfh = th[t].dfh
       /\ th'[t].name = th[t].name /\ th'[t].inm = th[t].inm /\ th'[t].want = th[t].want
       /\ th'[t].scan = S /\ th'[t].frees = th[t].frees
  <2>1. th'[t] = s BY <1>1, <1>5
  <2> QED BY <1>1, <2>1 DEF ThreadState
<1>14. Holds(t)' = Holds(t) BY <1>13 DEF Holds
<1>15. Owned(t)' = Owned(t) /\ DirHandles' = DirHandles BY <1>5 DEF Owned, DirHandles
<1>16. Place(t)' BY <1>1, <1>6, <1>13, <1>15 DEF ThreadOK, Place
<1>17. Asked(t)' BY <1>1, <1>13, <1>15 DEF ThreadOK, Asked
<1>18. Knows(t)'
  <2>1. ASSUME NEW j \in S PROVE \E n \in NamesAll : Entry(disk', d, n, j)
    <3>1. PICK e \in disk[d].ents : j = e[2] OBVIOUS
    <3>2. Entry(disk', d, e[1], j) BY <1>5, <1>11, <3>1 DEF Entry
    <3> QED BY <1>11, <3>2
  <2> HIDE DEF S
  <2> QED BY <1>1, <1>5, <1>13, <2>1 DEF ThreadOK, Knows
<1>19. /\ lock' \in [Inum -> Thread \cup {None}] /\ lock' = lock /\ fhs' = fhs
       /\ \A j \in Inum : icache'[j] = icache[j] \/ lock[j] \in {t, None}
  BY <1>1, <1>2, <1>5, <1>9 DEF TypeOK, Owned
<1>20. ThreadOK(t)' BY <1>16, <1>17, <1>18 DEF ThreadOK
<1> HIDE DEF s
<1> QED BY <1>5, <1>9, <1>10, <1>12, <1>14, <1>19, <1>20, CalmStep

LEMMA GetInodesLockedStep ==
  ASSUME NInv, NEW t \in Thread, th[t].scan = {}, getInodesLocked(t)
  PROVE  NInv'
<1> DEFINE d == th[t].dfh.ino
           i == LookupName(d, th[t].name)
<1>1. /\ TypeOK /\ Tree(disk) /\ th[t] \in ThreadState /\ th \in [Thread -> ThreadState] /\ ThreadOK(t)
      /\ th[t].pc = "lookup" /\ th[t].rpc \in Lookers /\ Owned(t) = {d} /\ Holds(t) = {}
  BY DEF NInv, TypeOK, getInodesLocked, Lookers, ThreadOK, Place, AtDir, Holds
<1>2. CASE mkDcache(t, d) BY <1>1, <1>2, MkDcacheStep
<1>3. CASE ~NoDcache(d) /\ i = NULLINUM
  <2>1. CASE errRet(t) BY <1>1, <2>1, ErrRetStep
  <2> QED BY <1>2, <1>3, <2>1 DEF getInodesLocked
<1>4. ASSUME ~NoDcache(d), i # NULLINUM, ~mkDcache(t, d) PROVE NInv'
  <2>1. d \in Inum /\ icache[d] # None /\ CacheOK(d) /\ th[t].name \in NamesAll
    BY <1>1, OwnedCached, ThreadFields
  <2>2. i \in Inum /\ Entry(disk, d, th[t].name, i) BY <1>1, <1>4, <2>1, LookupFacts
  <2>3. d \in Nat /\ i \in Nat BY <2>1, <2>2, NoneFacts
  <2> HIDE DEF i
  <2>4. CASE i >= d
    <3> DEFINE p == IF i = d THEN "body" ELSE "child"
               s == [th[t] EXCEPT !.pc = p, !.inm = i]
    <3>1. th' = [th EXCEPT ![t] = s] /\ UNCHANGED <<disk, icache, ialloc, lock, fhs, up>>
      BY <1>4, <2>4 DEF getInodesLocked, InOrder, i
    <3>2. s \in ThreadState BY <1>1, <2>2 DEF ThreadState
    <3>3. th'[t] = s BY <1>1, <3>1
    <3>4. /\ th'[t].pc = p /\ th'[t].inm = i /\ th'[t].rpc = th[t].rpc /\ th'[t].dfh = th[t].dfh
          /\ th'[t].name = th[t].name /\ th'[t].scan = {}
      BY <1>1, <3>3 DEF ThreadState
    <3>5. Owned(t)' = {d} /\ DirHandles' = DirHandles BY <1>1, <3>1 DEF Owned, DirHandles
    <3>6. Place(t)' BY SMT, <1>1, <2>2, <2>3, <2>4, <3>4, <3>5 DEF Place, AtDir
    <3>7. Asked(t)' BY <1>1, <3>4, <3>5 DEF ThreadOK, Asked
    <3>8. Knows(t)'
      <4>1. th'[t].rpc \notin Creating BY <1>1, <3>4 DEF Lookers, Creating
      <4>2. ~NoDcache(d)' BY SMT, <1>4, <3>1 DEF NoDcache
      <4> QED BY SMT, <1>1, <2>2, <3>1, <3>4, <4>1, <4>2 DEF ThreadOK, Knows, AtDir
    <3>9. Holds(t)' = Holds(t)
      <4>1. th'[t].rpc \notin Creating BY <1>1, <3>4 DEF Lookers, Creating
      <4> QED BY <1>1, <3>4, <4>1 DEF Holds
    <3> HIDE DEF s
    <3> QED BY <3>1, <3>2, <3>6, <3>7, <3>8, <3>9, StayStep DEF ThreadOK
  <2>5. CASE ~(i >= d)
    <3> DEFINE s == [th[t] EXCEPT !.pc = "ordered", !.inm = i, !.want = <<i, d>>]
    <3>1. /\ th' = [th EXCEPT ![t] = s] /\ lock' = NoneOwned(t)
          /\ UNCHANGED <<disk, icache, ialloc, fhs, up>>
      <4>1. i # d BY SMT, <2>3, <2>5
      <4> QED BY <1>4, <2>5, <4>1 DEF getInodesLocked, InOrder, AbortAndGoto, i
    <3>2. s \in ThreadState
      <4>1. <<i, d>> \in Seq(Inum) BY SMT, <2>1, <2>2
      <4> QED BY <1>1, <2>2, <4>1 DEF ThreadState
    <3>3. th'[t] = s BY <1>1, <3>1
    <3>4. /\ th'[t].pc = "ordered" /\ th'[t].inm = i /\ th'[t].rpc = th[t].rpc /\ th'[t].dfh = th[t].dfh
          /\ th'[t].name = th[t].name /\ th'[t].scan = {} /\ th'[t].want = <<i, d>>
      BY <1>1, <3>3 DEF ThreadState
    <3>5. Owned(t)' = {} /\ DirHandles' = DirHandles BY <1>1, <3>1, Released DEF DirHandles
    <3>6. Place(t)' BY SMT, <1>1, <2>2, <2>3, <2>5, <3>4, <3>5 DEF Place, AtDir
    <3>7. Asked(t)' BY <1>1, <3>4, <3>5 DEF ThreadOK, Asked
    <3>8. Knows(t)'
      <4>1. <<>> # <<i, d>> OBVIOUS
      <4> QED BY <3>4, <4>1 DEF Knows, AtDir
    <3>9. Holds(t)' = Holds(t) BY <1>1, <3>4 DEF Holds
    <3> HIDE DEF s
    <3> QED BY <3>1, <3>2, <3>6, <3>7, <3>8, <3>9, ReleaseStep DEF ThreadOK
  <2> QED BY <2>4, <2>5
<1> QED BY <1>2, <1>3, <1>4 DEF getInodesLocked

LEMMA LockChildStep ==
  ASSUME NInv, NEW t \in Thread, th[t].scan = {}, LockChild(t)
  PROVE  NInv'
<1> DEFINE d == th[t].dfh.ino
           i == th[t].inm
           s == [th[t] EXCEPT !.pc = "body"]
<1>1. /\ TypeOK /\ th[t] \in ThreadState /\ th \in [Thread -> ThreadState] /\ ThreadOK(t)
      /\ th[t].pc = "child" /\ th[t].rpc \in Lookers /\ Owned(t) = {d} /\ i \in Inum
  BY DEF NInv, TypeOK, LockChild, ThreadOK, Place, AtDir
<1>2. GetInodeLocked(t, i) /\ th' = [th EXCEPT ![t] = s] /\ UNCHANGED <<disk, ialloc, fhs, up>>
  BY DEF LockChild
<1>3. /\ Owned(t)' = {d, i} /\ lock' \in [Inum -> Thread \cup {None}]
      /\ \A j \in Inum : lock'[j] = lock[j] \/ {lock[j], lock'[j]} \subseteq {t, None}
      /\ \A j \in Inum \ {i} : lock'[j] = lock[j]
  BY SMT, <1>1, <1>2, Acquired
<1>4. /\ icache' \in [Inum -> CachedInode \cup {None}] /\ \A j \in Inum : CacheOK(j)'
      /\ \A j \in Inum : icache[j] # None \/ j # i => icache'[j] = icache[j]
      /\ lock[i] = None
  BY <1>1, <1>2, <1>3, Filled DEF GetInodeLocked
<1>5. s \in ThreadState BY <1>1 DEF ThreadState
<1>6. th'[t] = s BY <1>1, <1>2
<1>7. /\ th'[t].pc = "body" /\ th'[t].inm = i /\ th'[t].rpc = th[t].rpc /\ th'[t].dfh = th[t].dfh
      /\ th'[t].name = th[t].name /\ th'[t].scan = {}
  BY <1>1, <1>6 DEF ThreadState
<1>8. th[t].rpc \notin Creating BY <1>1 DEF Lookers, Creating
<1>9. Holds(t)' = Holds(t) BY <1>1, <1>7, <1>8 DEF Holds
<1>10. DirHandles' = DirHandles BY <1>2 DEF DirHandles
<1>11. Place(t)' BY <1>1, <1>3, <1>7 DEF Place, AtDir
<1>12. Asked(t)' BY <1>1, <1>7, <1>10 DEF ThreadOK, Asked
<1>13. Knows(t)'
  <2>1. icache'[d] = icache[d] BY <1>1, <1>4, OwnedCached
  <2>2. ~NoDcache(d) BY <1>1 DEF ThreadOK, Knows
  <2>3. ~NoDcache(d)' BY <2>1, <2>2, <1>2, <1>7 DEF NoDcache
  <2> QED BY <1>1, <1>2, <1>7, <1>8, <2>3 DEF ThreadOK, Knows, AtDir
<1>14. ThreadOK(t)' BY <1>11, <1>12, <1>13 DEF ThreadOK
<1> HIDE DEF s
<1> QED BY <1>2, <1>3, <1>4, <1>5, <1>9, <1>14, CalmStep

\* getInodesLocked starts over, without locks.
LEMMA RetryOK ==
  ASSUME NInv, NEW t \in Thread, th[t].pc = "ordered", th[t].scan = {},
         th' = [th EXCEPT ![t] = Retry(t)], Owned(t)' = {}, UNCHANGED fhs
  PROVE  Retry(t) \in ThreadState /\ ThreadOK(t)' /\ Holds(t)' = Holds(t)
<1>1. /\ TypeOK /\ th[t] \in ThreadState /\ th \in [Thread -> ThreadState] /\ ThreadOK(t)
  BY DEF NInv, TypeOK
<1>2. Retry(t) \in ThreadState
  <2>1. <<>> \in Seq(Inum) BY SMT
  <2> QED BY <1>1, <2>1 DEF ThreadState, Retry
<1>3. th'[t] = Retry(t) BY <1>1
<1>4. /\ th'[t].pc = "dir" /\ th'[t].rpc = th[t].rpc /\ th'[t].dfh = th[t].dfh
      /\ th'[t].name = th[t].name /\ th'[t].scan = {}
  BY <1>1, <1>3 DEF ThreadState, Retry
<1>5. Place(t)' BY <1>4 DEF Place, AtDir
<1>6. Asked(t)'
  <2>1. DirHandles' = DirHandles BY DEF DirHandles
  <2> QED BY <1>1, <1>4, <2>1 DEF ThreadOK, Asked
<1>7. Knows(t)' BY <1>4 DEF Knows, AtDir
<1>8. Holds(t)' = Holds(t) BY <1>4 DEF Holds
<1> QED BY <1>2, <1>5, <1>6, <1>7, <1>8 DEF ThreadOK

\* lookupOrdered takes the child's lock, then the parent's.
LEMMA LockNextStep ==
  ASSUME NInv, NEW t \in Thread, th[t].scan = {}, th[t].pc = "ordered", LockNext(t, Retry(t))
  PROVE  NInv'
<1> DEFINE d == th[t].dfh.ino
           i == th[t].inm
           j == Head(th[t].want)
<1>1. /\ TypeOK /\ th[t] \in ThreadState /\ th \in [Thread -> ThreadState] /\ ThreadOK(t)
      /\ th[t].rpc \in Lookers /\ i \in Inum /\ d \in Inum /\ i < d
      /\ \/ th[t].want = <<i, d>> /\ Owned(t) = {}
         \/ th[t].want = <<d>> /\ Owned(t) = {i}
         \/ th[t].want = <<>>
  BY ThreadFields DEF NInv, TypeOK, ThreadOK, Place
<1>2. \/ th[t].want = <<i, d>> /\ j = i /\ Tail(th[t].want) = <<d>> /\ Owned(t) = {}
      \/ th[t].want = <<d>> /\ j = d /\ Tail(th[t].want) = <<>> /\ Owned(t) = {i}
  <2>1. th[t].want # <<>> BY DEF LockNext
  <2>2. Head(<<i, d>>) = i /\ Tail(<<i, d>>) = <<d>> /\ Head(<<d>>) = d /\ Tail(<<d>>) = <<>> BY SMT, <1>1
  <2> QED BY <1>1, <2>1, <2>2
<1>3. j \in Inum /\ CacheOK(j) BY <1>1, <1>2 DEF NInv
<1>4. UNCHANGED <<disk, ialloc, fhs, up>> /\ lock[j] = None /\ icache' = [icache EXCEPT ![j] = Cached(j)]
  BY DEF LockNext, GetInodeLocked
<1> HIDE DEF j
<1>5. CASE Cached(j).kind = "free"
  <2>1. lock' = NoneOwned(t) /\ th' = [th EXCEPT ![t] = Retry(t)] BY <1>5 DEF LockNext, j
  <2>2. /\ Owned(t)' = {} /\ lock' \in [Inum -> Thread \cup {None}]
        /\ \A k \in Inum : lock'[k] = lock[k] \/ {lock[k], lock'[k]} \subseteq {t, None}
        /\ \A k \in Inum : lock'[k] # None => lock[k] # None
    BY <1>1, <2>1, Released
  <2>3. /\ icache' \in [Inum -> CachedInode \cup {None}] /\ \A k \in Inum : CacheOK(k)'
        /\ \A k \in Inum : icache[k] # None \/ k # j => icache'[k] = icache[k]
    BY <1>3, <1>4, <2>2, Filled
  <2>4. Retry(t) \in ThreadState /\ ThreadOK(t)' /\ Holds(t)' = Holds(t) BY <1>4, <2>1, <2>2, RetryOK
  <2> QED BY <1>4, <2>1, <2>2, <2>3, <2>4, CalmStep
<1>6. CASE Cached(j).kind # "free"
  <2> DEFINE s == [th[t] EXCEPT !.want = Tail(th[t].want)]
  <2>1. GetInodeLocked(t, j) /\ th' = [th EXCEPT ![t] = s] BY <1>6 DEF LockNext, j
  <2>2. /\ Owned(t)' = Owned(t) \cup {j} /\ lock' \in [Inum -> Thread \cup {None}]
        /\ \A k \in Inum : lock'[k] = lock[k] \/ {lock[k], lock'[k]} \subseteq {t, None}
        /\ \A k \in Inum \ {j} : lock'[k] = lock[k]
    BY <1>1, <1>3, <2>1, Acquired
  <2>3. /\ icache' \in [Inum -> CachedInode \cup {None}] /\ \A k \in Inum : CacheOK(k)'
        /\ \A k \in Inum : icache[k] # None \/ k # j => icache'[k] = icache[k]
    BY <1>3, <1>4, <2>2, Filled
  <2>4. s \in ThreadState
    <3>1. <<d>> \in Seq(Inum) /\ <<>> \in Seq(Inum) BY SMT, <1>1
    <3>2. Tail(th[t].want) \in Seq(Inum) BY <1>2, <3>1
    <3> QED BY <1>1, <3>2 DEF ThreadState
  <2>5. th'[t] = s BY <1>1, <2>1
  <2>6. /\ th'[t].pc = "ordered" /\ th'[t].inm = i /\ th'[t].rpc = th[t].rpc /\ th'[t].dfh = th[t].dfh
        /\ th'[t].name = th[t].name /\ th'[t].scan = {} /\ th'[t].want = Tail(th[t].want)
    BY <1>1, <2>5 DEF ThreadState
  <2>7. DirHandles' = DirHandles BY <1>4 DEF DirHandles
  <2>8. disk[j].kind # "free" BY <1>1, <1>3, <1>6, CachedFacts
  <2>9. Place(t)'
    <3>1. \/ th'[t].want = <<d>> /\ Owned(t)' = {i}
          \/ th'[t].want = <<>> /\ Owned(t)' = {i, d}
      BY <1>2, <2>2, <2>6
    <3> QED BY <1>1, <2>6, <3>1 DEF Place, AtDir
  <2>10. Asked(t)' BY <1>1, <2>6, <2>7 DEF ThreadOK, Asked
  <2>11. Knows(t)'
    <3>1. <<d>> # <<i, d>> /\ <<d>> # <<>> OBVIOUS
    <3>2. disk[i].kind # "free" BY <1>1, <1>2, <2>8, <3>1 DEF ThreadOK, Knows
    <3>3. th'[t].want = <<>> => disk[d].kind # "free" BY <1>2, <2>6, <2>8, <3>1
    <3> QED BY <1>4, <2>6, <3>2, <3>3 DEF Knows, AtDir
  <2>12. Holds(t)' = Holds(t) BY <2>6 DEF Holds
  <2>13. ThreadOK(t)' BY <2>9, <2>10, <2>11 DEF ThreadOK
  <2> HIDE DEF s
  <2> QED BY <1>4, <2>1, <2>2, <2>3, <2>4, <2>12, <2>13, CalmStep
<1> QED BY <1>5, <1>6

LEMMA LookupOrderedStep ==
  ASSUME NInv, NEW t \in Thread, th[t].scan = {}, lookupOrdered(t)
  PROVE  NInv'
<1> DEFINE d == th[t].dfh.ino
           i == th[t].inm
           s == [th[t] EXCEPT !.pc = "body"]
<1>1. /\ TypeOK /\ th[t] \in ThreadState /\ th \in [Thread -> ThreadState] /\ ThreadOK(t)
      /\ th[t].pc = "ordered" /\ th[t].rpc \in Lookers /\ i \in Inum /\ d \in Inum
      /\ th[t].name \in NamesAll
  BY ThreadFields DEF NInv, TypeOK, ThreadOK, Place, lookupOrdered
<1>2. CASE LockNext(t, Retry(t)) BY <1>1, <1>2, LockNextStep
<1>3. CASE th[t].want = <<>> /\ mkDcache(t, d) BY <1>1, <1>3, MkDcacheStep
<1>4. CASE th[t].want = <<>> /\ AbortAndGoto(t, Retry(t))
  <2>1. lock' = NoneOwned(t) /\ th' = [th EXCEPT ![t] = Retry(t)] /\ UNCHANGED <<disk, icache, ialloc, fhs, up>>
    BY <1>4 DEF AbortAndGoto
  <2>2. Owned(t)' = {} BY <1>1, <2>1, Released
  <2>3. Retry(t) \in ThreadState /\ ThreadOK(t)' /\ Holds(t)' = Holds(t) BY <1>1, <2>1, <2>2, RetryOK
  <2> QED BY <2>1, <2>3, ReleaseStep
<1>5. CASE /\ th[t].want = <<>> /\ ~NoDcache(d) /\ Revalidated(t) /\ th' = [th EXCEPT ![t] = s]
           /\ UNCHANGED <<disk, icache, ialloc, lock, fhs, up>>
  <2>1. Owned(t) = {d, i} /\ disk[d].kind # "free"
    <3>1. <<>> # <<i, d>> /\ <<>> # <<d>> OBVIOUS
    <3> QED BY <1>1, <1>5, <3>1 DEF ThreadOK, Place, Knows
  <2>2. CacheOK(d) /\ icache[d] # None /\ icache[d].kind = disk[d].kind BY <2>1, OwnedCached
  <2>3. disk[d].gen = th[t].dfh.gen BY <1>5, <2>1, <2>2 DEF CacheOK, Revalidated
  <2>4. Entry(disk, d, th[t].name, i) BY SMT, <1>1, <1>5, <2>2, LookupFacts, NoneFacts DEF Revalidated
  <2>5. s \in ThreadState BY <1>1 DEF ThreadState
  <2>6. th'[t] = s BY <1>1, <1>5
  <2>7. /\ th'[t].pc = "body" /\ th'[t].inm = i /\ th'[t].rpc = th[t].rpc /\ th'[t].dfh = th[t].dfh
        /\ th'[t].name = th[t].name /\ th'[t].scan = {}
    BY <1>1, <2>6 DEF ThreadState
  <2>8. th[t].rpc \notin Creating BY <1>1 DEF Lookers, Creating
  <2>9. Holds(t)' = Holds(t) BY <1>1, <2>7, <2>8 DEF Holds
  <2>10. Owned(t)' = Owned(t) /\ DirHandles' = DirHandles BY <1>5 DEF Owned, DirHandles
  <2>11. Place(t)' BY <1>1, <2>1, <2>7, <2>10 DEF Place, AtDir
  <2>12. Asked(t)' BY <1>1, <2>7, <2>10 DEF ThreadOK, Asked
  <2>13. Knows(t)'
    <3>1. ~NoDcache(d)' BY SMT, <1>5 DEF NoDcache
    <3> QED BY SMT, <1>5, <2>1, <2>3, <2>4, <2>7, <2>8, <3>1 DEF Knows, AtDir
  <2>14. ThreadOK(t)' BY <2>11, <2>12, <2>13 DEF ThreadOK
  <2> HIDE DEF s
  <2> QED BY <1>5, <2>5, <2>9, <2>14, StayStep
<1> QED BY <1>2, <1>3, <1>4, <1>5 DEF lookupOrdered

LEMMA LookupStep == ASSUME NInv, NEW t \in Thread, th[t].scan = {}, LOOKUP(t) PROVE NInv'
<1> DEFINE d == th[t].dfh.ino
           i == th[t].inm
<1>1. /\ TypeOK /\ Tree(disk) /\ th \in [Thread -> ThreadState] /\ ThreadOK(t) /\ d \in Inum
      /\ th[t].pc = "body" /\ th[t].rpc = "LOOKUP" /\ Owned(t) = {d, i} /\ th[t].name \in NamesAll
  BY ThreadFields DEF NInv, TypeOK, LOOKUP, ThreadOK, Place
<1>2. /\ fhs' = fhs \cup {Handle(i, icache[i])} /\ lock' = NoneOwned(t) /\ th' = [th EXCEPT ![t] = Idle]
      /\ UNCHANGED <<disk, icache, ialloc, up>>
  BY DEF LOOKUP, Finish
<1>3. i \in Inum /\ icache[i] \in CachedInode /\ CacheOK(i) /\ icache[i] # None /\ icache[i].kind = disk[i].kind
  BY <1>1, OwnedCached
<1>4. Entry(disk, d, th[t].name, i) BY <1>1 DEF ThreadOK, Knows, Lookers
<1>5. disk[i].kind # "free" BY <1>1, <1>3, <1>4 DEF Tree
<1>6. icache[i].gen = disk[i].gen BY <1>3, <1>5 DEF CacheOK
<1>7. Handle(i, icache[i]) \in [fh : Fh, kind : Kind] /\ HandleOK(Handle(i, icache[i]))
  BY <1>1, <1>3, <1>6, NewHandle
<1>8. /\ Owned(t)' = {} /\ lock' \in [Inum -> Thread \cup {None}]
      /\ \A j \in Inum : lock'[j] = lock[j] \/ {lock[j], lock'[j]} \subseteq {t, None}
      /\ \A j \in Inum : lock'[j] # None => lock[j] # None
  BY <1>1, <1>2, Released
<1>9. \A j \in Inum : CacheOK(j)' BY SMT, <1>2, <1>8 DEF NInv, CacheOK
<1>10. ThreadOK(t)' /\ Holds(t)' = {}
  <2>1. th'[t] = Idle BY <1>1, <1>2
  <2> QED BY <1>8, <2>1, IdleOK
<1>11. Holds(t) = {} BY <1>1 DEF Holds, Creating
<1>12. icache' \in [Inum -> CachedInode \cup {None}] BY <1>1, <1>2 DEF TypeOK
<1>13. fhs \subseteq fhs' /\ \A h \in fhs' \ fhs : h \in [fh : Fh, kind : Kind] /\ HandleOK(h) BY <1>2, <1>7
<1> QED BY <1>2, <1>8, <1>9, <1>10, <1>11, <1>12, <1>13, IdleType, CalmStep

-----------------------------------------------------------------------------
(* Allocation of an inode number.                                          *)

LEMMA GetAllocStep ==
  ASSUME NInv, NEW t \in Thread, th[t].scan = {}, getAlloc(t)
  PROVE  NInv'
<1> DEFINE d == th[t].dfh.ino
<1>1. /\ TypeOK /\ AllocOK /\ th[t] \in ThreadState /\ th \in [Thread -> ThreadState] /\ ThreadOK(t)
      /\ th[t].pc = "lookup" /\ th[t].rpc \in Creating /\ Owned(t) = {d} /\ Holds(t) = {}
      /\ th[t].name \in NamesAll
  BY ThreadFields DEF NInv, TypeOK, getAlloc, ThreadOK, Place, AtDir, Holds
<1>2. CASE mkDcache(t, d) BY <1>1, <1>2, MkDcacheStep
<1>3. CASE errRet(t) BY <1>1, <1>3, ErrRetStep
<1>4. ASSUME NEW i \in Usable, ~NoDcache(d), ~NameTaken(d, th[t].name), AllocINum(i),
             th' = [th EXCEPT ![t] = [th[t] EXCEPT !.pc = "alloc", !.inm = i]],
             UNCHANGED <<disk, icache, lock, fhs, up>>
      PROVE  NInv'
  <2> DEFINE s == [th[t] EXCEPT !.pc = "alloc", !.inm = i]
  <2>1. i \in Inum \ ialloc /\ ialloc' = ialloc \cup {i} BY <1>4 DEF Usable, AllocINum
  <2>2. s \in ThreadState BY <1>1, <2>1 DEF ThreadState
  <2>3. th'[t] = s /\ \A u \in Thread \ {t} : th'[u] = th[u] BY <1>1, <1>4
  <2>4. /\ th'[t].pc = "alloc" /\ th'[t].inm = i /\ th'[t].rpc = th[t].rpc /\ th'[t].dfh = th[t].dfh
        /\ th'[t].name = th[t].name /\ th'[t].scan = {}
    BY <1>1, <2>3 DEF ThreadState
  <2>5. Holds(t)' = {i} /\ \A u \in Thread \ {t} : Holds(u)' = Holds(u) BY <1>1, <2>3, <2>4 DEF Holds
  <2>6. disk[i].kind = "free" /\ \A u \in Thread : i \notin Holds(u) BY <1>1, <2>1 DEF AllocOK
  <2>7. AllocOK'
    <3>1. ASSUME NEW j \in Inum
          PROVE  j \in ialloc' <=> disk'[j].kind # "free" \/ \E u \in Thread : j \in Holds(u)'
      BY SMT, <1>1, <1>4, <2>1, <2>5 DEF AllocOK
    <3>2. \A u \in Thread : \A j \in Holds(u)' : j \in Inum /\ disk'[j].kind = "free"
      BY SMT, <1>1, <1>4, <2>1, <2>5, <2>6 DEF AllocOK
    <3>3. \A u, v \in Thread : \A j \in Inum : j \in Holds(u)' /\ j \in Holds(v)' => u = v
      BY SMT, <1>1, <2>5, <2>6 DEF AllocOK
    <3> QED BY <3>1, <3>2, <3>3 DEF AllocOK
  <2>8. Owned(t)' = {d} /\ DirHandles' = DirHandles BY <1>1, <1>4 DEF Owned, DirHandles
  <2>9. Place(t)' BY <1>1, <2>1, <2>4, <2>8 DEF Place, AtDir
  <2>10. Asked(t)' BY <1>1, <2>4, <2>8 DEF ThreadOK, Asked
  <2>11. Knows(t)'
    <3>1. d \in Inum /\ CacheOK(d) /\ icache[d] # None BY <1>1, OwnedCached
    <3>2. \A j \in Inum : ~Entry(disk, d, th[t].name, j) BY <1>1, <1>4, <3>1, LookupFacts DEF NameTaken
    <3>3. ~NoDcache(d)' BY SMT, <1>4 DEF NoDcache
    <3> QED BY <1>1, <1>4, <2>4, <3>2, <3>3 DEF ThreadOK, Knows, AtDir
  <2>12. ThreadOK(t)' BY <2>9, <2>10, <2>11 DEF ThreadOK
  <2>13. \A j \in Inum : CacheOK(j)' BY SMT, <1>4 DEF NInv, CacheOK
  <2>14. /\ icache' \in [Inum -> CachedInode \cup {None}] /\ lock' \in [Inum -> Thread \cup {None}]
         /\ ialloc' \subseteq Inum /\ lock' = lock /\ fhs' = fhs
    BY <1>1, <1>4, <2>1 DEF TypeOK
  <2> HIDE DEF s
  <2> QED BY <1>4, <2>2, <2>7, <2>12, <2>13, <2>14, QuietStep DEF s
<1> QED BY <1>2, <1>3, <1>4 DEF getAlloc

LEMMA LockNewStep == ASSUME NInv, NEW t \in Thread, th[t].scan = {}, LockNew(t) PROVE NInv'
<1> DEFINE d == th[t].dfh.ino
           i == th[t].inm
           s == [th[t] EXCEPT !.pc = "body"]
<1>1. /\ TypeOK /\ th[t] \in ThreadState /\ th \in [Thread -> ThreadState] /\ ThreadOK(t)
      /\ th[t].pc = "alloc" /\ th[t].rpc \in Creating /\ Owned(t) = {d} /\ i \in Inum
  BY DEF NInv, TypeOK, LockNew, ThreadOK, Place, AtDir
<1>2. CASE Panic BY <1>2, PanicStep
<1>3. CASE GetInodeLocked(t, i) /\ th' = [th EXCEPT ![t] = s] /\ UNCHANGED <<disk, ialloc, fhs, up>>
  <2>3. /\ Owned(t)' = {d, i} /\ lock' \in [Inum -> Thread \cup {None}]
        /\ \A j \in Inum : lock'[j] = lock[j] \/ {lock[j], lock'[j]} \subseteq {t, None}
        /\ \A j \in Inum \ {i} : lock'[j] = lock[j]
    BY SMT, <1>1, <1>3, Acquired
  <2>4. /\ icache' \in [Inum -> CachedInode \cup {None}] /\ \A j \in Inum : CacheOK(j)'
        /\ \A j \in Inum : icache[j] # None \/ j # i => icache'[j] = icache[j]
        /\ lock[i] = None
    BY <1>1, <1>3, <2>3, Filled DEF GetInodeLocked
  <2>5. s \in ThreadState BY <1>1 DEF ThreadState
  <2>6. th'[t] = s BY <1>1, <1>3
  <2>7. /\ th'[t].pc = "body" /\ th'[t].inm = i /\ th'[t].rpc = th[t].rpc /\ th'[t].dfh = th[t].dfh
        /\ th'[t].name = th[t].name /\ th'[t].scan = {}
    BY <1>1, <2>6 DEF ThreadState
  <2>8. th[t].rpc \notin Lookers BY <1>1 DEF Lookers, Creating
  <2>9. Holds(t)' = Holds(t) BY <1>1, <2>7 DEF Holds
  <2>10. DirHandles' = DirHandles BY <1>3 DEF DirHandles
  <2>11. Place(t)' BY <1>1, <2>3, <2>7 DEF Place, AtDir
  <2>12. Asked(t)' BY <1>1, <2>7, <2>10 DEF ThreadOK, Asked
  <2>13. Knows(t)'
    <3>1. icache'[d] = icache[d] BY <1>1, <2>4, OwnedCached
    <3>2. ~NoDcache(d) BY <1>1 DEF ThreadOK, Knows
    <3>3. ~NoDcache(d)' BY <3>1, <3>2, <2>7 DEF NoDcache
    <3> QED BY <1>1, <1>3, <2>7, <2>8, <3>3 DEF ThreadOK, Knows, AtDir
  <2>14. ThreadOK(t)' BY <2>11, <2>12, <2>13 DEF ThreadOK
  <2> HIDE DEF s
  <2> QED BY <1>3, <2>3, <2>4, <2>5, <2>9, <2>14, CalmStep
<1> QED BY <1>2, <1>3 DEF LockNew

-----------------------------------------------------------------------------
(* Trees: a without the entry n of d for i is b; a with a new one is b.     *)

\* An inode that loses its name, and is freed if it has no other link, leaves a
\* tree: nothing but the entry names an inode with one link.
LEMMA RemovedTree ==
  ASSUME NEW a \in [Inum -> DiskInode], NEW b \in [Inum -> DiskInode], Tree(a),
         NEW d \in Inum, NEW i \in Inum \ {d}, NEW n \in Name, Entry(a, d, n, i),
         \A k \in Inum \ {d, i} : b[k] = a[k],
         b[d].kind = a[d].kind, b[d].nlink = a[d].nlink, b[d].ents = a[d].ents \ {<<n, i>>},
         \/ a[i].nlink = 1 /\ b[i].kind = "free"
         \/ /\ a[i].nlink # 1 /\ b[i].kind = a[i].kind /\ b[i].nlink = a[i].nlink - 1
            /\ b[i].kind = "dir" => b[i].ents = a[i].ents
  PROVE  Tree(b)
<1> DEFINE freed == b[i].kind = "free"
<1>1. /\ \A k \in Inum : a[k].nlink \in Nat /\ b[k].nlink \in Nat /\ a[k].ents \in SUBSET (NamesAll \X Inum)
      /\ a[d].kind = "dir" /\ a[i].kind # "free" /\ a[i].nlink > 0 /\ n \in NamesAll
  <2>1. \A k \in Inum : a[k] \in DiskInode /\ b[k] \in DiskInode OBVIOUS
  <2>2. n \in NamesAll BY NoneFacts
  <2>3. \A k \in Inum : a[k].nlink \in Nat /\ b[k].nlink \in Nat /\ a[k].ents \in SUBSET (NamesAll \X Inum)
    BY <2>1 DEF DiskInode
  <2> QED BY SMT, <2>2, <2>3 DEF Tree, Entry
<1>2. ASSUME NEW c \in Inum, NEW m \in NamesAll, NEW j \in Inum
      PROVE  Entry(b, c, m, j) <=> Entry(a, c, m, j) /\ ~(c = d /\ m = n) /\ ~(c = i /\ freed)
  <2>1. CASE c = d
    <3>1. Entry(a, d, n, j) => j = i BY <1>1 DEF Tree
    <3>2. <<m, j>> = <<n, i>> <=> m = n /\ j = i OBVIOUS
    <3> QED BY <1>1, <2>1, <3>1, <3>2 DEF Entry
  <2>2. CASE c = i BY <2>2 DEF Entry
  <2>3. CASE c \notin {d, i} BY <2>3 DEF Entry
  <2> QED BY <2>1, <2>2, <2>3
<1>3. ASSUME NEW c \in Inum, NEW m \in NamesAll, NEW j \in Inum, Entry(b, c, m, j) PROVE Entry(a, c, m, j)
  BY <1>2, <1>3
<1>4. ASSUME NEW c \in Inum, NEW m \in NamesAll, Entry(b, c, m, i) PROVE ~freed
  <2>1. Entry(a, c, m, i) /\ ~(c = d /\ m = n) /\ ~(c = i /\ freed) BY <1>2, <1>4
  <2>2. m \notin Name BY SMT, <2>1 DEF Tree
  <2>3. CASE m = "."
    <3>1. a[c].kind = "dir" BY <2>1 DEF Entry
    <3>2. Entry(a, c, ".", c) BY <3>1 DEF Tree
    <3>3. c = i BY SMT, <2>1, <2>3, <3>2, NoneFacts DEF Tree
    <3> QED BY <2>1, <3>3
  <2>4. CASE m = ".."
    <3>1. Named(a, i) BY DEF Named
    <3>2. a[i].nlink > 1 BY <2>1, <2>4, <3>1 DEF Tree
    <3> QED BY SMT, <1>1, <3>2
  <2> QED BY <2>2, <2>3, <2>4 DEF NamesAll
<1>5. ~Named(b, i)
  <2>1. ASSUME NEW c \in Inum, NEW m \in Name, Entry(b, c, m, i) PROVE FALSE
    <3>1. m \in NamesAll BY NoneFacts
    <3>2. Entry(a, c, m, i) /\ ~(c = d /\ m = n) BY <1>2, <2>1, <3>1
    <3> QED BY SMT, <3>2 DEF Tree
  <2> QED BY <2>1 DEF Named
<1>6. ASSUME NEW c \in Inum, b[c].kind = "dir"
      PROVE  Entry(b, c, ".", c) /\ \E p \in Inum : Entry(b, c, "..", p)
  <2>1. a[c].kind = "dir" /\ ~(c = i /\ freed)
    <3>1. CASE c \in {d, i} BY <1>1, <1>6, <3>1
    <3>2. CASE c \notin {d, i} BY <1>6, <3>2
    <3> QED BY <3>1, <3>2
  <2>2. Entry(a, c, ".", c) BY <2>1 DEF Tree
  <2>3. PICK p \in Inum : Entry(a, c, "..", p) BY <2>1 DEF Tree
  <2>4. n # "." /\ n # ".." BY NoneFacts
  <2>5. Entry(b, c, ".", c) /\ Entry(b, c, "..", p) BY <1>2, <2>1, <2>2, <2>3, <2>4, NoneFacts
  <2> QED BY <2>5
<1>7. ASSUME NEW c \in Inum, NEW m \in NamesAll, NEW j \in Inum, Entry(b, c, m, j)
      PROVE  b[j].kind # "free" /\ b[j].nlink > 0
  <2>1. Entry(a, c, m, j) BY <1>3, <1>7
  <2>2. a[j].kind # "free" /\ a[j].nlink > 0 BY <2>1 DEF Tree
  <2>3. CASE j = i
    <3>1. ~freed BY <1>4, <1>7, <2>3
    <3>2. b[i].nlink = a[i].nlink - 1 /\ a[i].nlink # 1 BY <3>1
    <3>3. a[i].nlink \in Nat BY <1>1
    <3> QED BY SMT, <1>1, <2>2, <2>3, <3>1, <3>2, <3>3
  <2>4. CASE j # i BY <2>2, <2>4
  <2> QED BY <2>3, <2>4
<1>8. ASSUME NEW c \in Inum, NEW p \in Inum, Entry(b, c, "..", p)
      PROVE  b[p].kind = "dir" /\ (Named(b, p) => b[p].nlink > 1)
  <2>1. Entry(a, c, "..", p) BY <1>3, <1>8, NoneFacts
  <2>2. a[p].kind = "dir" /\ (Named(a, p) => a[p].nlink > 1) BY <2>1 DEF Tree
  <2>3. CASE p = i
    <3>1. ~freed BY <1>4, <1>8, <2>3, NoneFacts
    <3> QED BY <1>5, <2>2, <2>3, <3>1
  <2>4. CASE p # i
    <3>1. Named(b, p) => Named(a, p) BY <1>3, NoneFacts DEF Named
    <3> QED BY <2>2, <2>4, <3>1
  <2> QED BY <2>3, <2>4
<1>9. \A c, j, k \in Inum, m \in NamesAll : Entry(b, c, m, j) /\ Entry(b, c, m, k) => j = k
  BY SMT, <1>3 DEF Tree
<1>10. /\ \A c, k, j \in Inum, l, m \in Name : Entry(b, c, l, j) /\ Entry(b, k, m, j) => c = k /\ l = m
       /\ \A c \in Inum, m \in Name : ~Entry(b, c, m, c)
  <2>1. \A c, j \in Inum, m \in Name : Entry(b, c, m, j) => Entry(a, c, m, j) BY <1>3, NoneFacts
  <2> QED BY SMT, <2>1 DEF Tree
<1> HIDE DEF freed
<1> QED BY <1>6, <1>7, <1>8, <1>9, <1>10 DEF Tree

\* A new inode with its first name, a directory with "." and "..", leaves a tree.
LEMMA CreatedTree ==
  ASSUME NEW a \in [Inum -> DiskInode], NEW b \in [Inum -> DiskInode], Tree(a),
         NEW d \in Inum, NEW i \in Inum \ {d}, NEW n \in Name, a[d].kind = "dir", a[i].kind = "free",
         \A j \in Inum : ~Entry(a, d, n, j), NEW mkdir \in BOOLEAN,
         \A k \in Inum \ {d, i} : b[k] = a[k],
         b[d].kind = "dir", b[d].nlink = IF mkdir THEN a[d].nlink + 1 ELSE a[d].nlink,
         b[d].ents = a[d].ents \cup {<<n, i>>},
         b[i].kind # "free", b[i].nlink = 1, b[i].kind = "dir" <=> mkdir,
         mkdir => b[i].ents = {<<".", i>>, <<"..", d>>}
  PROVE  Tree(b)
<1>1. /\ \A k \in Inum : a[k].nlink \in Nat /\ b[k].nlink \in Nat
      /\ n \in NamesAll /\ n # "." /\ n # ".."
  <2>1. \A k \in Inum : a[k] \in DiskInode /\ b[k] \in DiskInode OBVIOUS
  <2> QED BY <2>1, NoneFacts DEF DiskInode
<1>2. Entry(a, d, ".", d) /\ a[d].nlink > 0 /\ b[d].nlink > 0
  <2>1. Entry(a, d, ".", d) BY DEF Tree
  <2>2. a[d].nlink > 0 BY SMT, <2>1, NoneFacts DEF Tree
  <2>3. a[d].nlink \in Nat BY <1>1
  <2> QED BY SMT, <2>1, <2>2, <2>3
<1>3. \A c \in Inum, m \in NamesAll : ~Entry(a, c, m, i) BY SMT DEF Tree
<1>4. ASSUME NEW c \in Inum, NEW m \in NamesAll, NEW j \in Inum
      PROVE  Entry(b, c, m, j) <=> \/ Entry(a, c, m, j)
                                   \/ c = d /\ m = n /\ j = i
                                   \/ mkdir /\ c = i /\ ((m = "." /\ j = i) \/ (m = ".." /\ j = d))
  <2>1. CASE c = d
    <3>1. <<m, j>> = <<n, i>> <=> m = n /\ j = i OBVIOUS
    <3> QED BY <2>1, <3>1 DEF Entry
  <2>2. CASE c = i
    <3>1. ~Entry(a, i, m, j) BY DEF Entry
    <3>2. <<m, j>> \in {<<".", i>>, <<"..", d>>} <=> ((m = "." /\ j = i) \/ (m = ".." /\ j = d))
      <4>1. (<<m, j>> = <<".", i>> <=> m = "." /\ j = i) /\ (<<m, j>> = <<"..", d>> <=> m = ".." /\ j = d) OBVIOUS
      <4> QED BY <4>1
    <3>3. Entry(b, i, m, j) <=> mkdir /\ <<m, j>> \in {<<".", i>>, <<"..", d>>} BY DEF Entry
    <3> QED BY <2>2, <3>1, <3>2, <3>3
  <2>3. CASE c \notin {d, i} BY <2>3 DEF Entry
  <2> QED BY <2>1, <2>2, <2>3
<1>5. ASSUME NEW c \in Inum, b[c].kind = "dir"
      PROVE  Entry(b, c, ".", c) /\ \E p \in Inum : Entry(b, c, "..", p)
  <2>1. CASE c = i
    <3>1. mkdir BY <1>5, <2>1
    <3>2. Entry(b, i, ".", i) /\ Entry(b, i, "..", d) BY <3>1 DEF Entry
    <3> QED BY <2>1, <3>2
  <2>2. CASE c # i
    <3>1. a[c].kind = "dir" BY <1>5, <2>2
    <3>2. Entry(a, c, ".", c) BY <3>1 DEF Tree
    <3>3. PICK p \in Inum : Entry(a, c, "..", p) BY <3>1 DEF Tree
    <3> QED BY <1>4, <3>2, <3>3, NoneFacts
  <2> QED BY <2>1, <2>2
<1>6. ASSUME NEW c \in Inum, NEW j \in Inum, NEW k \in Inum, NEW m \in NamesAll,
             Entry(b, c, m, j), Entry(b, c, m, k)
      PROVE  j = k
  <2>1. CASE c = i
    <3>1. \A l \in Inum : ~Entry(a, i, m, l) BY DEF Entry
    <3> QED BY SMT, <1>4, <1>6, <2>1, <3>1
  <2>2. CASE c # i
    <3>1. CASE c = d /\ m = n
      <4>1. \A l \in Inum : ~Entry(a, c, m, l) BY <3>1
      <4> QED BY <1>4, <1>6, <2>2, <3>1, <4>1
    <3>2. CASE ~(c = d /\ m = n)
      <4>1. Entry(a, c, m, j) /\ Entry(a, c, m, k) BY <1>4, <1>6, <2>2, <3>2
      <4> QED BY <4>1 DEF Tree
    <3> QED BY <3>1, <3>2
  <2> QED BY <2>1, <2>2
<1>7. ASSUME NEW c \in Inum, NEW m \in NamesAll, NEW j \in Inum, Entry(b, c, m, j)
      PROVE  b[j].kind # "free" /\ b[j].nlink > 0
  <2>1. CASE j = i BY SMT, <2>1
  <2>2. CASE j = d BY <1>2, <2>2
  <2>3. CASE j \notin {d, i}
    <3>1. Entry(a, c, m, j) BY SMT, <1>4, <1>7, <2>3
    <3> QED BY SMT, <2>3, <3>1 DEF Tree
  <2> QED BY <2>1, <2>2, <2>3
<1>8. ASSUME NEW c \in Inum, NEW m \in Name, NEW j \in Inum
      PROVE  Entry(b, c, m, j) <=> Entry(a, c, m, j) \/ (c = d /\ m = n /\ j = i)
  <2>1. m \in NamesAll /\ m # "." /\ m # ".." BY NoneFacts
  <2> QED BY <1>4, <2>1
<1>9. \A c, k, j \in Inum, l, m \in Name : Entry(b, c, l, j) /\ Entry(b, k, m, j) => c = k /\ l = m
  <2>1. TAKE c, k, j \in Inum, l, m \in Name
  <2>2. HAVE Entry(b, c, l, j) /\ Entry(b, k, m, j)
  <2>3. CASE j = i
    <3>1. ~Entry(a, c, l, i) /\ ~Entry(a, k, m, i) BY <1>3, NoneFacts
    <3> QED BY SMT, <1>8, <2>2, <2>3, <3>1
  <2>4. CASE j # i
    <3>1. Entry(a, c, l, j) /\ Entry(a, k, m, j) BY <1>8, <2>2, <2>4
    <3> QED BY SMT, <3>1 DEF Tree
  <2> QED BY <2>3, <2>4
<1>10. \A c \in Inum, m \in Name : ~Entry(b, c, m, c) BY SMT, <1>8 DEF Tree
<1>11. ASSUME NEW c \in Inum, NEW p \in Inum, Entry(b, c, "..", p)
       PROVE  b[p].kind = "dir" /\ (Named(b, p) => b[p].nlink > 1)
  <2>1. CASE Entry(a, c, "..", p)
    <3>1. a[p].kind = "dir" /\ (Named(a, p) => a[p].nlink > 1) BY <2>1 DEF Tree
    <3>2. p # i BY <3>1
    <3>3. Named(b, p) => Named(a, p) BY SMT, <1>8, <3>2 DEF Named
    <3>4. b[p].kind = "dir" BY <3>1, <3>2
    <3>5. b[p].nlink >= a[p].nlink
      <4>1. a[p].nlink \in Nat /\ b[p].nlink \in Nat BY <1>1
      <4> QED BY SMT, <3>2, <4>1
    <3> QED BY SMT, <1>1, <3>1, <3>3, <3>4, <3>5
  <2>2. CASE mkdir /\ p = d
    <3>1. a[d].nlink \in Nat BY <1>1
    <3> QED BY SMT, <1>2, <2>2, <3>1
  <2> QED BY SMT, <1>1, <1>4, <1>11, <2>1, <2>2, NoneFacts
<1> QED BY <1>5, <1>6, <1>7, <1>9, <1>10, <1>11 DEF Tree

-----------------------------------------------------------------------------
(* The steps that change inodes, with all their locks held.                 *)

\* The end of a transaction that changed the inodes d and i, both locked.
LEMMA BodyStep ==
  ASSUME NInv, NEW t \in Thread, NEW d \in Inum, NEW i \in Inum, Owned(t) = {d, i},
         disk' \in [Inum -> DiskInode], icache' \in [Inum -> CachedInode \cup {None}],
         \A k \in Inum \ {d, i} : disk'[k] = disk[k] /\ icache'[k] = icache[k],
         Tree(disk'), CacheOK(d)', CacheOK(i)',
         fhs \subseteq fhs', fhs' \subseteq [fh : Fh, kind : Kind], \A h \in fhs' : HandleOK(h)',
         NEW S \in SUBSET Inum, Finish(t, S), UNCHANGED <<ialloc, up>>,
         \A k \in Inum : (disk'[k].kind # "free" \/ k \in S) <=> (disk[k].kind # "free" \/ k \in Holds(t)),
         \A k \in S : disk'[k].kind = "free"
  PROVE  NInv'
<1> DEFINE s == IF S = {} THEN Idle ELSE [Idle EXCEPT !.pc = "post", !.frees = S]
<1>1. TypeOK /\ AllocOK /\ th \in [Thread -> ThreadState] BY DEF NInv, TypeOK
<1>2. lock' = NoneOwned(t) /\ th' = [th EXCEPT ![t] = s] BY DEF Finish
<1>3. /\ Owned(t)' = {} /\ lock' \in [Inum -> Thread \cup {None}]
      /\ \A k \in Inum : lock'[k] = lock[k] \/ {lock[k], lock'[k]} \subseteq {t, None}
      /\ \A k \in Inum : lock'[k] # None => lock[k] # None
  BY <1>1, <1>2, Released
<1>4. s \in ThreadState BY IdleType, PostType
<1>5. th'[t] = s /\ \A u \in Thread \ {t} : th'[u] = th[u] BY <1>1, <1>2
<1>6. ThreadOK(t)' /\ Holds(t)' = S
  <2>1. CASE S = {} BY <1>3, <1>5, <2>1, IdleOK
  <2>2. CASE S # {}
    <3>1. th'[t].pc = "post" /\ th'[t].frees = S /\ th'[t].scan = {} BY <1>5, <2>2 DEF Idle
    <3> QED BY <1>3, <3>1 DEF ThreadOK, Place, Asked, Knows, Holds, AtDir
  <2> QED BY <2>1, <2>2
<1> HIDE DEF s
<1>7. \A u \in Thread \ {t} : Holds(u)' = Holds(u) BY <1>5 DEF Holds
<1>8. AllocOK'
  <2>1. ASSUME NEW k \in Inum
        PROVE  k \in ialloc' <=> disk'[k].kind # "free" \/ \E u \in Thread : k \in Holds(u)'
    BY SMT, <1>1, <1>6, <1>7 DEF AllocOK
  <2>2. ASSUME NEW u \in Thread, NEW k \in Holds(u)' PROVE k \in Inum /\ disk'[k].kind = "free"
    <3>1. CASE u = t BY <1>6, <2>2, <3>1
    <3>2. CASE u # t
      <4>1. k \in Holds(u) /\ k \in Inum /\ disk[k].kind = "free" BY SMT, <1>1, <1>7, <2>2, <3>2 DEF AllocOK
      <4>2. k \notin Holds(t) BY <1>1, <3>2, <4>1 DEF AllocOK
      <4> QED BY <4>1, <4>2
    <3> QED BY <3>1, <3>2
  <2>3. ASSUME NEW u \in Thread \ {t}, NEW k \in Inum, k \in Holds(u), k \in S PROVE FALSE
    <3>1. disk[k].kind = "free" /\ k \notin Holds(t) BY <1>1, <2>3 DEF AllocOK
    <3> QED BY <2>3, <3>1
  <2>4. \A u, v \in Thread : \A k \in Inum : k \in Holds(u)' /\ k \in Holds(v)' => u = v
    BY SMT, <1>1, <1>6, <1>7, <2>3 DEF AllocOK
  <2> QED BY <2>1, <2>2, <2>4 DEF AllocOK
<1>9. ASSUME NEW u \in Thread PROVE ThreadOK(u)'
  <2>1. ASSUME NEW v \in Thread \ {t} PROVE Owned(v)' = Owned(v) /\ \A k \in Owned(v) : k \notin {d, i}
    <3>1. v # None BY NoneFacts
    <3>2. \A k \in Inum : lock'[k] = v <=> lock[k] = v BY <1>3, <3>1
    <3>3. Owned(v)' = Owned(v) BY <3>2 DEF Owned
    <3>4. lock[d] = t /\ lock[i] = t BY DEF Owned
    <3> QED BY <3>3, <3>4 DEF Owned
  <2>2. \A v \in Thread \ {t} : \A k \in Owned(v) : k \in Inum BY DEF Owned
  <2>3. \A v \in Thread \ {t} : Untouched(v) BY <1>5, <2>1, <2>2 DEF Untouched
  <2> QED BY <1>6, <2>3, OthersOK DEF NInv
<1>10. ASSUME NEW k \in Inum PROVE CacheOK(k)'
  <2>1. CASE k \in {d, i} BY <2>1
  <2>2. CASE k \notin {d, i}
    <3>1. CacheOK(k) /\ disk'[k] = disk[k] /\ icache'[k] = icache[k] BY <2>2 DEF NInv
    <3>2. lock'[k] # None => icache[k] # None BY <1>3, <3>1 DEF CacheOK
    <3> QED BY <3>1, <3>2, SlotKeeps
  <2> QED BY <2>1, <2>2
<1>11. TypeOK' BY <1>1, <1>2, <1>3, <1>4 DEF TypeOK
<1> QED BY <1>8, <1>9, <1>10, <1>11 DEF NInv

\* A Dcache is a map from names to inode numbers.
LEMMA DcacheMap ==
  ASSUME NEW f \in Dcache
  PROVE  /\ DOMAIN f \subseteq NamesAll /\ \A n \in DOMAIN f : f[n] \in Inum
BY DEF Dcache

LEMMA RemoveStep ==
  ASSUME NInv, CleanMkdir, NEW t \in Thread, th[t].scan = {}, doRemove(t)
  PROVE  NInv'
<1>0. PICK d, i, n, c, S : d = th[t].dfh.ino /\ i = th[t].inm /\ n = th[t].name /\ c = DecLink(icache[i])
                           /\ S = IF c.kind = "free" THEN {i} ELSE {}
  OBVIOUS
<1>1. /\ TypeOK /\ Tree(disk) /\ ThreadOK(t) /\ d \in Inum /\ n \in Name /\ n \in NamesAll
      /\ th[t].pc = "body" /\ th[t].rpc \in {"REMOVE", "RMDIR"} /\ th[t].rpc \in Rpcs
      /\ Owned(t) = {d, i} /\ Entry(disk, d, n, i) /\ ~NoDcache(d)
  BY <1>0, ThreadFields DEF NInv, doRemove, ThreadOK, Place, Asked, Knows, Lookers
<1>2. Holds(t) = {} BY <1>1 DEF Holds, Creating
<1>3. CASE Panic BY <1>3, PanicStep
<1>4. CASE errRet(t) BY <1>2, <1>4, ErrRetStep
<1>5. ASSUME i # d, th[t].rpc = "RMDIR" => icache[i].kind = "dir" /\ IsDirEmpty(i),
             icache' = [icache EXCEPT ![d] = RemName(icache[d], n), ![i] = c],
             disk' = [disk EXCEPT ![d] = ToDisk(icache[d], RemEnt(disk[d].ents, icache[d], n)),
                                  ![i] = ToDisk(c, disk[i].ents)],
             Finish(t, S), UNCHANGED <<ialloc, fhs, up>>
      PROVE  NInv'
  <2> DEFINE f == icache[d].dc
             g == [m \in DOMAIN f \ {n} |-> f[m]]
  <2>1. /\ i \in Inum /\ icache[i] \in CachedInode /\ CacheOK(i) /\ icache[i] # None
        /\ icache[i].kind = disk[i].kind
        /\ icache[d] \in CachedInode /\ CacheOK(d) /\ icache[d] # None /\ icache[d].kind = disk[d].kind
    BY <1>1, OwnedCached
  <2>2. disk[d].kind = "dir" /\ <<n, i>> \in disk[d].ents /\ disk[d] \in DiskInode /\ disk[i] \in DiskInode
    BY <1>1, <2>1 DEF Entry, TypeOK
  <2>3. disk[i].kind # "free" /\ disk[i].nlink > 0 BY <1>1, <2>1 DEF Tree
  <2>4. /\ icache[i].gen = disk[i].gen /\ icache[i].nlink = disk[i].nlink
        /\ icache[d].gen = disk[d].gen /\ icache[d].nlink = disk[d].nlink
    BY <2>1, <2>2, <2>3 DEF CacheOK
  <2>5. /\ f \in Dcache
        /\ \A m \in NamesAll, j \in Inum : (m \in DOMAIN f /\ f[m] = j) <=> <<m, j>> \in disk[d].ents
    <3>1. f # None BY <1>1, <2>1, <2>2 DEF NoDcache
    <3> QED BY <2>1, <2>2, <3>1 DEF CacheOK, CachedInode
  <2>6. n \in DOMAIN f /\ f[n] = i BY <1>1, <2>1, <2>2, <2>5
  <2>7. g \in Dcache
    <3>1. DOMAIN f \subseteq NamesAll /\ \A m \in DOMAIN f : f[m] \in Inum BY <2>5, DcacheMap
    <3>2. g \in [DOMAIN f \ {n} -> Inum] BY <3>1
    <3> QED BY <3>1, <3>2 DEF Dcache
  <2>8. /\ disk[i].kind \in Kind /\ disk[i].gen \in Nat /\ disk[i].nlink \in Nat
        /\ disk[i].ents \in SUBSET (NamesAll \X Inum)
        /\ disk[d].kind \in Kind /\ disk[d].gen \in Nat /\ disk[d].nlink \in Nat
        /\ disk[d].ents \in SUBSET (NamesAll \X Inum)
        /\ icache[i].dc \in Dcache \cup {None}
    BY <2>1, <2>2 DEF DiskInode, CachedInode
  <2>9. \/ /\ disk[i].nlink = 1
           /\ c.kind = "free" /\ c.gen = disk[i].gen + 1 /\ c.nlink = 0 /\ c.dc = icache[i].dc
           /\ c \in CachedInode
        \/ /\ disk[i].nlink # 1
           /\ c.kind = disk[i].kind /\ c.gen = disk[i].gen /\ c.nlink = disk[i].nlink - 1
           /\ c.dc = icache[i].dc /\ c \in CachedInode
    <3>1. CASE disk[i].nlink = 1
      <4>1. c = [icache[i] EXCEPT !.nlink = 0, !.kind = "free", !.gen = icache[i].gen + 1]
        BY <1>0, <2>4, <3>1 DEF DecLink
      <4>2. \A x \in Nat : x + 1 \in Nat BY SMT
      <4> QED BY <2>1, <2>4, <2>8, <3>1, <4>1, <4>2 DEF CachedInode, Kind
    <3>2. CASE disk[i].nlink # 1
      <4>1. c = [icache[i] EXCEPT !.nlink = icache[i].nlink - 1] BY <1>0, <2>4, <3>2 DEF DecLink
      <4>2. disk[i].nlink - 1 \in Nat BY SMT, <2>3, <2>8
      <4> QED BY <2>1, <2>4, <2>8, <3>2, <4>1, <4>2 DEF CachedInode
    <3> QED BY <3>1, <3>2
  <2>10. /\ icache'[d] = RemName(icache[d], n) /\ icache'[i] = c
         /\ \A k \in Inum \ {d, i} : icache'[k] = icache[k]
         /\ disk'[d] = ToDisk(icache[d], RemEnt(disk[d].ents, icache[d], n))
         /\ disk'[i] = ToDisk(c, disk[i].ents)
         /\ \A k \in Inum \ {d, i} : disk'[k] = disk[k]
    BY <1>1, <1>5, <2>1 DEF TypeOK
  <2>11. /\ icache'[d].kind = "dir" /\ icache'[d].gen = disk[d].gen /\ icache'[d].nlink = disk[d].nlink
         /\ icache'[d].dc = g /\ icache'[d] \in CachedInode
    <3>1. icache'[d] = [icache[d] EXCEPT !.dc = g] BY <2>10 DEF RemName
    <3> QED BY <2>1, <2>2, <2>4, <2>7, <3>1 DEF CachedInode
  <2>12. /\ disk'[d].kind = "dir" /\ disk'[d].gen = disk[d].gen /\ disk'[d].nlink = disk[d].nlink
         /\ disk'[d].ents = disk[d].ents \ {<<n, i>>} /\ disk'[d] \in DiskInode
    <3>1. disk'[d] = [kind |-> "dir", gen |-> disk[d].gen, nlink |-> disk[d].nlink,
                      ents |-> disk[d].ents \ {<<n, i>>}]
      BY <2>1, <2>2, <2>4, <2>6, <2>10 DEF ToDisk, RemEnt
    <3> QED BY SMT, <2>8, <3>1 DEF DiskInode, Kind
  <2>13. /\ disk'[i].kind = c.kind /\ disk'[i].gen = c.gen /\ disk'[i].nlink = c.nlink
         /\ disk'[i].ents = (IF c.kind = "dir" THEN disk[i].ents ELSE {}) /\ disk'[i] \in DiskInode
    <3>1. c.kind \in Kind /\ c.gen \in Nat /\ c.nlink \in Nat BY <2>9 DEF CachedInode
    <3> QED BY SMT, <2>8, <2>10, <3>1 DEF ToDisk, DiskInode
  <2>14. disk' \in [Inum -> DiskInode] /\ icache' \in [Inum -> CachedInode \cup {None}]
    <3>1. \A k \in Inum : disk'[k] \in DiskInode BY <1>1, <2>10, <2>12, <2>13 DEF TypeOK
    <3>2. \A k \in Inum : icache'[k] \in CachedInode \cup {None} BY <1>1, <2>9, <2>10, <2>11 DEF TypeOK
    <3>3. DOMAIN disk' = Inum /\ DOMAIN icache' = Inum BY <1>1, <1>5 DEF TypeOK
    <3>4. disk' = [k \in DOMAIN disk' |-> disk'[k]] /\ icache' = [k \in DOMAIN icache' |-> icache'[k]]
      BY <1>1, <1>5 DEF TypeOK
    <3> QED BY <3>1, <3>2, <3>3, <3>4
  <2>15. Tree(disk')
    <3>1. disk \in [Inum -> DiskInode] BY <1>1 DEF TypeOK
    <3>2. \/ disk[i].nlink = 1 /\ disk'[i].kind = "free"
          \/ /\ disk[i].nlink # 1 /\ disk'[i].kind = disk[i].kind /\ disk'[i].nlink = disk[i].nlink - 1
             /\ disk'[i].kind = "dir" => disk'[i].ents = disk[i].ents
      BY <2>9, <2>13
    <3>3. disk'[d].kind = disk[d].kind BY <2>2, <2>12
    <3>4. i \in Inum \ {d} BY <1>5, <2>1
    <3> QED BY <1>1, <2>10, <2>12, <2>14, <3>1, <3>2, <3>3, <3>4, RemovedTree
  <2>16. CacheOK(d)'
    <3>1. ASSUME NEW m \in NamesAll, NEW j \in Inum
          PROVE  (m \in DOMAIN g /\ g[m] = j) <=> <<m, j>> \in disk'[d].ents
      <4>1. <<m, j>> = <<n, i>> <=> m = n /\ j = i OBVIOUS
      <4> QED BY SMT, <2>5, <2>6, <2>12, <4>1
    <3> HIDE DEF g
    <3>2. g # None BY <2>7, NoneFacts
    <3> QED BY SMT, <2>11, <2>12, <3>1, <3>2, NoneFacts DEF CacheOK
  <2>17. CacheOK(i)'
    <3>1. c.kind = "dir" => c.kind = disk[i].kind BY <2>9
    <3>2. c # None BY <2>9, NoneFacts
    <3>3. ASSUME c.kind = "dir", c.dc # None, NEW m \in NamesAll, NEW j \in Inum
          PROVE  (m \in DOMAIN c.dc /\ c.dc[m] = j) <=> <<m, j>> \in disk'[i].ents
      <4>1. c.dc = icache[i].dc /\ disk'[i].ents = disk[i].ents BY <2>9, <2>13, <3>3
      <4> QED BY SMT, <2>1, <3>1, <3>3, <4>1 DEF CacheOK
    <3>4. c.kind = "dir" /\ ~ColdCaches => c.dc # None BY <2>1, <2>9, <3>1 DEF CacheOK
    <3>5. ASSUME c.kind # "dir", c.dc # None, "MKDIR" \in Rpcs PROVE DOMAIN c.dc \subseteq {".", ".."}
      <4>1. CASE disk[i].kind # "dir" BY <2>1, <2>9, <3>5, <4>1 DEF CacheOK
      <4>2. CASE disk[i].kind = "dir"
        <5>1. th[t].rpc = "RMDIR" BY <1>1, <3>5 DEF CleanMkdir
        <5>2. \A e \in disk[i].ents : e[1] \in {".", ".."} BY <1>5, <5>1 DEF IsDirEmpty
        <5>3. c.dc = icache[i].dc /\ icache[i].dc \in Dcache BY <2>8, <2>9, <3>5
        <5>4. ASSUME NEW m \in DOMAIN c.dc PROVE m \in {".", ".."}
          <6>1. m \in NamesAll /\ c.dc[m] \in Inum BY <5>3, DcacheMap
          <6>2. <<m, c.dc[m]>> \in disk[i].ents BY <2>1, <3>5, <4>2, <5>3, <6>1 DEF CacheOK
          <6>3. <<m, c.dc[m]>>[1] = m OBVIOUS
          <6> QED BY <5>2, <6>2, <6>3
        <5> QED BY <5>4
      <4> QED BY <4>1, <4>2
    <3>6. c.gen >= disk'[i].gen
      <4>1. c.gen \in Nat BY <2>9 DEF CachedInode
      <4> QED BY SMT, <2>13, <4>1
    <3> QED BY SMT, <2>10, <2>13, <3>2, <3>3, <3>4, <3>5, <3>6 DEF CacheOK
  <2>18. ASSUME NEW h \in fhs' PROVE HandleOK(h)'
    <3>1. HandleOK(h) /\ h.fh.ino \in Inum /\ h.fh.gen \in Nat
      <4>1. h \in fhs BY <1>5, <2>18
      <4>2. h.fh \in Fh BY <1>1, <4>1 DEF TypeOK
      <4> QED BY <4>1, <4>2 DEF NInv, Fh
    <3>2. CASE h.fh.ino = i BY SMT, <2>8, <2>9, <2>13, <3>1, <3>2 DEF HandleOK
    <3>3. CASE h.fh.ino = d BY <2>2, <2>12, <3>1, <3>3 DEF HandleOK
    <3>4. CASE h.fh.ino \notin {d, i} BY <2>10, <3>1, <3>4 DEF HandleOK
    <3> QED BY <3>2, <3>3, <3>4
  <2>19. S \in SUBSET Inum BY <1>0, <2>1
  <2>20. ASSUME NEW k \in Inum
         PROVE  (disk'[k].kind # "free" \/ k \in S) <=> (disk[k].kind # "free" \/ k \in Holds(t))
    <3>1. CASE k = i BY <1>0, <2>3, <2>13, <3>1
    <3>2. CASE k = d BY <2>2, <2>12, <3>2
    <3>3. CASE k \notin {d, i} BY <1>0, <1>2, <2>10, <3>3
    <3> QED BY <3>1, <3>2, <3>3
  <2>21. \A k \in S : disk'[k].kind = "free" BY <1>0, <2>13
  <2>22. fhs \subseteq fhs' /\ fhs' \subseteq [fh : Fh, kind : Kind] BY <1>1, <1>5 DEF TypeOK
  <2>23. \A k \in Inum \ {d, i} : disk'[k] = disk[k] /\ icache'[k] = icache[k] BY <2>10
  <2>24. d \in Inum /\ i \in Inum /\ Owned(t) = {d, i} /\ Finish(t, S) /\ UNCHANGED <<ialloc, up>>
    BY <1>1, <1>5, <2>1
  <2> QED BY <2>14, <2>15, <2>16, <2>17, <2>18, <2>19, <2>20, <2>21, <2>22, <2>23, <2>24, BodyStep
<1> QED BY <1>0, <1>3, <1>4, <1>5 DEF doRemove

\* Every map from names to inode numbers is one.
LEMMA MapDcache == \A S \in SUBSET NamesAll : \A f \in [S -> Inum] : f \in Dcache
BY DEF Dcache

\* A directory that InitDir has filled has "." and "..", provided the slot it
\* reuses kept no other names.
LEMMA InitDirFacts ==
  ASSUME NEW c \in CachedInode, NEW i \in Inum, NEW d \in Inum,
         c.dc # None => DOMAIN c.dc \subseteq {".", ".."}
  PROVE  LET r == InitDir(c, i, d) IN
         /\ r \in CachedInode /\ r.kind = c.kind /\ r.gen = c.gen /\ r.nlink = c.nlink
         /\ r.dc # None /\ DOMAIN r.dc = {".", ".."} /\ r.dc["."] = i /\ r.dc[".."] = d
<1> DEFINE f == IF c.dc = None THEN <<>> ELSE c.dc
           e == IF c.dc = None THEN [c EXCEPT !.dc = <<>>] ELSE c
           g == [m \in DOMAIN f \cup {"."} |-> IF m = "." THEN i ELSE f[m]]
           h == [m \in DOMAIN g \cup {".."} |-> IF m = ".." THEN d ELSE g[m]]
<1>1. /\ c = [kind |-> c.kind, gen |-> c.gen, nlink |-> c.nlink, dc |-> c.dc]
      /\ c.kind \in Kind /\ c.gen \in Nat /\ c.nlink \in Nat
  BY DEF CachedInode
<1>2. e = [kind |-> c.kind, gen |-> c.gen, nlink |-> c.nlink, dc |-> f] BY <1>1
<1>3. DOMAIN f \subseteq {".", ".."}
  <2>1. DOMAIN <<>> = {} BY SMT
  <2> QED BY <2>1
<1> HIDE DEF e, f
<1>4. AddName(e, ".", i) = [kind |-> c.kind, gen |-> c.gen, nlink |-> c.nlink, dc |-> g]
  <2>1. e.dc = f BY <1>2
  <2>2. AddName(e, ".", i) = [e EXCEPT !.dc = g] BY <2>1 DEF AddName
  <2> HIDE DEF g
  <2> QED BY <1>2, <2>2
<1> HIDE DEF g
<1>5. AddName(AddName(e, ".", i), "..", d) = [kind |-> c.kind, gen |-> c.gen, nlink |-> c.nlink, dc |-> h]
  <2> DEFINE e1 == AddName(e, ".", i)
  <2>1. e1 = [kind |-> c.kind, gen |-> c.gen, nlink |-> c.nlink, dc |-> g] BY <1>4
  <2> HIDE DEF e1
  <2>2. e1.dc = g BY <2>1
  <2>3. AddName(e1, "..", d) = [e1 EXCEPT !.dc = h] BY <2>2 DEF AddName
  <2> HIDE DEF h
  <2> QED BY SMT, <2>1, <2>3 DEF e1
<1>6. InitDir(c, i, d) = [kind |-> c.kind, gen |-> c.gen, nlink |-> c.nlink, dc |-> h]
  BY <1>5 DEF InitDir, e
<1>7. DOMAIN g \subseteq {".", ".."} /\ "." \in DOMAIN g /\ g["."] = i BY <1>3 DEF g
<1>8. DOMAIN h = {".", ".."} /\ h["."] = i /\ h[".."] = d BY <1>7
<1>9. h \in Dcache
  <2>1. h \in [{".", ".."} -> Inum] BY <1>7
  <2> HIDE DEF h
  <2> QED BY <2>1, NoneFacts, MapDcache
<1> HIDE DEF h
<1> DEFINE r == InitDir(c, i, d)
<1>10. r.kind = c.kind /\ r.gen = c.gen /\ r.nlink = c.nlink /\ r.dc = h BY SMT, <1>6
<1>11. r \in CachedInode BY SMT, <1>1, <1>6, <1>9 DEF CachedInode
<1> HIDE DEF r
<1>12. /\ r \in CachedInode /\ r.kind = c.kind /\ r.gen = c.gen /\ r.nlink = c.nlink
       /\ r.dc # None /\ DOMAIN r.dc = {".", ".."} /\ r.dc["."] = i /\ r.dc[".."] = d
  BY <1>8, <1>9, <1>10, <1>11, NoneFacts
<1> QED BY <1>12 DEF r

\* The new inode before and after InitDir.
LEMMA InitInodeFacts ==
  ASSUME NEW c \in CachedInode, NEW rpc \in Creating
  PROVE  LET r == InitInode(c, rpc) IN
         /\ r \in CachedInode /\ r.kind # "free" /\ (r.kind = "dir" <=> rpc = "MKDIR")
         /\ r.gen = c.gen + 1 /\ r.nlink = 1 /\ r.dc = c.dc
<1>1. NewKind[rpc] \in {"reg", "lnk", "dir"} /\ (NewKind[rpc] = "dir" <=> rpc = "MKDIR")
  <2>1. CASE rpc = "CREATE" BY <2>1 DEF NewKind
  <2>2. CASE rpc = "SYMLINK" BY <2>2 DEF NewKind
  <2>3. CASE rpc = "MKDIR" BY <2>3 DEF NewKind
  <2> QED BY <2>1, <2>2, <2>3 DEF Creating
<1>2. c.gen \in Nat /\ c.gen + 1 \in Nat BY SMT DEF CachedInode
<1> DEFINE r == InitInode(c, rpc)
<1>3. r = [c EXCEPT !.kind = NewKind[rpc], !.nlink = 1, !.gen = c.gen + 1] BY DEF InitInode
<1> HIDE DEF r
<1>4. ASSUME NEW k \in {"reg", "lnk", "dir"}, NEW g \in Nat,
             r = [c EXCEPT !.kind = k, !.nlink = 1, !.gen = g]
      PROVE  r \in CachedInode /\ r.kind = k /\ r.nlink = 1 /\ r.gen = g /\ r.dc = c.dc
  BY <1>4 DEF CachedInode, Kind
<1>5. r \in CachedInode /\ r.kind = NewKind[rpc] /\ r.nlink = 1 /\ r.gen = c.gen + 1 /\ r.dc = c.dc
  BY <1>1, <1>2, <1>3, <1>4
<1>6. /\ r \in CachedInode /\ r.kind # "free" /\ (r.kind = "dir" <=> rpc = "MKDIR")
      /\ r.gen = c.gen + 1 /\ r.nlink = 1 /\ r.dc = c.dc
  BY <1>1, <1>5
<1> QED BY <1>6 DEF r

\* FreeInode of a new inode.
LEMMA UndoFacts ==
  ASSUME NEW c \in CachedInode, c.nlink = 1
  PROVE  LET r == DecLink(c) IN
         r \in CachedInode /\ r.kind = "free" /\ r.gen = c.gen + 1 /\ r.nlink = 0 /\ r.dc = c.dc
<1>1. c.gen \in Nat /\ c.gen + 1 \in Nat BY SMT DEF CachedInode
<1> DEFINE r == DecLink(c)
<1>2. r = [c EXCEPT !.nlink = 0, !.kind = "free", !.gen = c.gen + 1] BY DEF DecLink
<1> HIDE DEF r
<1>3. r \in CachedInode /\ r.kind = "free" /\ r.gen = c.gen + 1 /\ r.nlink = 0 /\ r.dc = c.dc
  BY <1>1, <1>2 DEF CachedInode, Kind
<1> QED BY <1>3 DEF r

\* What doCreate finds: the directory d, the new inode i.
CreateReady(t, d, i) ==
  /\ d \in Inum /\ i \in Inum /\ i # d /\ Owned(t) = {d, i} /\ Holds(t) = {i}
  /\ disk[i].kind = "free" /\ disk[d].kind # "free" /\ icache[d].kind = disk[d].kind
  /\ \A j \in Inum : ~Entry(disk, d, th[t].name, j)
  /\ icache[i] \in CachedInode /\ CacheOK(i) /\ icache[i] # None /\ icache[i].kind = "free"
  /\ icache[d] \in CachedInode /\ CacheOK(d) /\ icache[d] # None
  /\ icache[d].gen = disk[d].gen /\ icache[d].nlink = disk[d].nlink
  /\ disk[d].kind = "dir" => icache[d].dc # None /\ th[t].name \in Name
  /\ th[t].rpc = "MKDIR" => disk[d].kind = "dir" /\ ~NoSpace /\ LongName = {}

\* What doCreate finds: a new name, a new inode, and the directory of the request.
LEMMA CreateFinds ==
  ASSUME NInv, CleanMkdir, NEW t \in Thread, th[t].pc = "body", th[t].rpc \in Creating,
         NEW d, NEW i, d = th[t].dfh.ino, i = th[t].inm
  PROVE  CreateReady(t, d, i)
<1>1. /\ TypeOK /\ Tree(disk) /\ AllocOK /\ ThreadOK(t) /\ d \in Inum /\ th[t].name \in NamesAll
  BY ThreadFields DEF NInv
<1>2. /\ Owned(t) = {d, i} /\ Holds(t) = {i} /\ i \in Inum /\ disk[d].kind # "free" /\ disk[d].gen = th[t].dfh.gen
      /\ \A j \in Inum : ~Entry(disk, d, th[t].name, j)
      /\ ~NoDcache(d)
  BY <1>1 DEF ThreadOK, Place, Knows, Holds
<1>3. disk[i].kind = "free" /\ i # d BY <1>1, <1>2 DEF AllocOK
<1>4. /\ icache[i] \in CachedInode /\ CacheOK(i) /\ icache[i] # None /\ icache[i].kind = disk[i].kind
      /\ icache[d] \in CachedInode /\ CacheOK(d) /\ icache[d] # None /\ icache[d].kind = disk[d].kind
  BY <1>2, OwnedCached
<1>5. icache[d].gen = disk[d].gen /\ icache[d].nlink = disk[d].nlink BY <1>2, <1>4 DEF CacheOK
<1>6. ASSUME disk[d].kind = "dir" PROVE icache[d].dc # None /\ th[t].name \in Name
  <2>1. icache[d].dc # None BY <1>2, <1>4, <1>6 DEF NoDcache
  <2>2. Entry(disk, d, ".", d) /\ \E p \in Inum : Entry(disk, d, "..", p) BY <1>1, <1>6 DEF Tree
  <2>3. th[t].name # "." /\ th[t].name # ".." BY <1>1, <1>2, <2>2
  <2> QED BY <1>1, <2>1, <2>3 DEF NamesAll
<1>7. ASSUME th[t].rpc = "MKDIR" PROVE disk[d].kind = "dir" /\ ~NoSpace /\ LongName = {}
  <2>1. "MKDIR" \in Rpcs /\ th[t].dfh \in DirHandles BY <1>1, <1>7 DEF ThreadOK, Asked
  <2>2. ~NoSpace /\ ~AnyHandle /\ LongName = {} BY <2>1 DEF CleanMkdir
  <2>3. PICK h \in fhs : h.kind = "dir" /\ h.fh = th[t].dfh BY <2>1, <2>2 DEF DirHandles
  <2>4. HandleOK(h) BY DEF NInv
  <2>5. disk[d].kind = "dir" BY <1>2, <2>3, <2>4 DEF HandleOK
  <2> QED BY <2>2, <2>5
<1> QED BY <1>1, <1>2, <1>3, <1>4, <1>5, <1>6, <1>7 DEF CreateReady

\* A doCreate that fails leaves the new inode free, at a later generation.
LEMMA CreateFails ==
  ASSUME NInv, CleanMkdir, NEW t \in Thread, th[t].pc = "body", th[t].rpc \in Creating, th[t].rpc # "MKDIR",
         NEW d, NEW i, d = th[t].dfh.ino, i = th[t].inm,
         icache' = [icache EXCEPT ![i] = DecLink(InitInode(icache[i], th[t].rpc))],
         Finish(t, {i}), UNCHANGED <<disk, ialloc, fhs, up>>
  PROVE  NInv'
<1>1. /\ d \in Inum /\ i \in Inum /\ i # d /\ Owned(t) = {d, i} /\ Holds(t) = {i} /\ disk[i].kind = "free"
      /\ icache[i] \in CachedInode /\ CacheOK(i) /\ icache[i] # None /\ icache[i].kind = "free"
      /\ TypeOK /\ Tree(disk) /\ CacheOK(d) /\ icache[d] # None
  <2>1. CreateReady(t, d, i) BY CreateFinds
  <2> QED BY <2>1 DEF CreateReady, NInv
<1>2. PICK ip : ip = InitInode(icache[i], th[t].rpc) OBVIOUS
<1>3. /\ ip \in CachedInode /\ ip.gen = icache[i].gen + 1 /\ ip.nlink = 1 /\ ip.dc = icache[i].dc
  <2>1. icache[i] \in CachedInode /\ th[t].rpc \in Creating BY <1>1
  <2> QED BY <1>2, <2>1, InitInodeFacts
<1>4. PICK c : c = DecLink(ip) OBVIOUS
<1>5. c \in CachedInode /\ c.kind = "free" /\ c.gen = ip.gen + 1 /\ c.dc = ip.dc BY <1>3, <1>4, UndoFacts
<1>6. /\ icache'[i] = c /\ \A k \in Inum \ {i} : icache'[k] = icache[k]
      /\ icache' \in [Inum -> CachedInode \cup {None}]
  BY <1>1, <1>2, <1>4, <1>5 DEF TypeOK
<1>7. CacheOK(i)'
  <2>1. c # None BY <1>5, NoneFacts
  <2>2. c.gen >= disk[i].gen
    <3>1. icache[i].gen \in Nat BY <1>1 DEF CachedInode
    <3>2. disk[i] \in DiskInode BY <1>1 DEF TypeOK
    <3>3. disk[i].gen \in Nat BY <3>2 DEF DiskInode
    <3>4. icache[i].gen >= disk[i].gen BY <1>1 DEF CacheOK
    <3>5. c.gen = icache[i].gen + 1 + 1 BY <1>3, <1>5
    <3> QED BY SMT, <3>1, <3>3, <3>4, <3>5
  <2>3. c.dc # None /\ "MKDIR" \in Rpcs => DOMAIN c.dc \subseteq {".", ".."}
    <3>1. c.dc = icache[i].dc BY <1>3, <1>5
    <3>2. icache[i].dc # None /\ "MKDIR" \in Rpcs => DOMAIN icache[i].dc \subseteq {".", ".."}
      BY <1>1 DEF CacheOK
    <3> QED BY <3>1, <3>2
  <2> QED BY <1>1, <1>5, <1>6, <2>1, <2>2, <2>3 DEF CacheOK
<1>8. CacheOK(d)' BY <1>1, <1>6, SlotKeeps
<1>9. /\ disk' \in [Inum -> DiskInode] /\ Tree(disk') /\ fhs \subseteq fhs' /\ fhs' \subseteq [fh : Fh, kind : Kind]
  BY <1>1 DEF TypeOK
<1>10. \A h \in fhs' : HandleOK(h)' BY DEF NInv, HandleOK
<1>11. \A k \in Inum \ {d, i} : disk'[k] = disk[k] /\ icache'[k] = icache[k] BY <1>6
<1>12. \A k \in Inum : (disk'[k].kind # "free" \/ k \in {i}) <=> (disk[k].kind # "free" \/ k \in Holds(t))
  BY <1>1
<1>13. {i} \in SUBSET Inum /\ \A k \in {i} : disk'[k].kind = "free" BY <1>1
<1>14. d \in Inum /\ i \in Inum /\ Owned(t) = {d, i} BY <1>1
<1>15. icache' \in [Inum -> CachedInode \cup {None}] BY <1>6
<1> QED BY SMTT(20), <1>7, <1>8, <1>9, <1>10, <1>11, <1>12, <1>13, <1>14, <1>15, BodyStep

\* A doCreate that succeeds: the first disjunct of doCreate, its local
\* definitions as parameters.
Creates(t, d, i, n, mkdir, ip, ipd, dip) ==
  /\ d = th[t].dfh.ino /\ i = th[t].inm /\ n = th[t].name /\ mkdir = (th[t].rpc = "MKDIR")
  /\ ip = InitInode(icache[i], th[t].rpc) /\ ipd = IF mkdir THEN InitDir(ip, i, d) ELSE ip
  /\ dip = IF mkdir THEN [icache[d] EXCEPT !.nlink = @ + 1] ELSE icache[d]
  /\ icache[d].kind = "dir"
  /\ icache' = [icache EXCEPT ![d] = AddName(dip, n, i), ![i] = ipd]
  /\ disk' = [disk EXCEPT ![d] = ToDisk(dip, disk[d].ents \cup {<<n, i>>}),
                          ![i] = ToDisk(ipd, {<<".", i>>, <<"..", d>>})]
  /\ fhs' = fhs \cup {Handle(i, ip)} /\ Finish(t, {}) /\ UNCHANGED <<ialloc, up>>

LEMMA CreateSucceeds ==
  ASSUME NInv, CleanMkdir, NEW t \in Thread, th[t].pc = "body", th[t].rpc \in Creating,
         NEW d, NEW i, NEW n, NEW mkdir, NEW ip, NEW ipd, NEW dip,
         Creates(t, d, i, n, mkdir, ip, ipd, dip)
  PROVE  NInv'
<1>0. d = th[t].dfh.ino /\ i = th[t].inm /\ n = th[t].name /\ icache[d].kind = "dir" BY DEF Creates
<1>m. mkdir \in BOOLEAN /\ (mkdir <=> th[t].rpc = "MKDIR") BY DEF Creates
<1>1. /\ d \in Inum /\ i \in Inum /\ i # d /\ Owned(t) = {d, i} /\ Holds(t) = {i} /\ disk[i].kind = "free"
      /\ icache[i] \in CachedInode /\ CacheOK(i) /\ icache[i] # None /\ icache[i].kind = "free"
      /\ TypeOK /\ Tree(disk)
      /\ icache[d] \in CachedInode /\ CacheOK(d) /\ icache[d] # None
      /\ disk[d].kind = "dir" /\ icache[d].gen = disk[d].gen /\ icache[d].nlink = disk[d].nlink
      /\ n \in Name /\ n \in NamesAll /\ icache[d].dc # None
      /\ \A j \in Inum : ~Entry(disk, d, n, j)
  <2>1. /\ d \in Inum /\ i \in Inum /\ i # d /\ Owned(t) = {d, i} /\ Holds(t) = {i} /\ disk[i].kind = "free"
        /\ icache[i] \in CachedInode /\ CacheOK(i) /\ icache[i] # None /\ icache[i].kind = "free"
        /\ icache[d] \in CachedInode /\ CacheOK(d) /\ icache[d] # None
        /\ icache[d].kind = disk[d].kind /\ icache[d].gen = disk[d].gen /\ icache[d].nlink = disk[d].nlink
        /\ disk[d].kind = "dir" => icache[d].dc # None /\ th[t].name \in Name
        /\ \A j \in Inum : ~Entry(disk, d, th[t].name, j)
    <3>1. d = th[t].dfh.ino /\ i = th[t].inm BY <1>0
    <3>2. CreateReady(t, d, i) BY <3>1, CreateFinds
    <3> QED BY <3>2 DEF CreateReady
  <2>2. TypeOK /\ Tree(disk) BY DEF NInv
  <2>3. disk[d].kind = "dir" BY <1>0, <2>1
  <2>4. n \in Name /\ n \in NamesAll BY <1>0, <2>1, <2>3, NoneFacts
  <2> QED BY <1>0, <2>1, <2>2, <2>3, <2>4
<1>2. /\ disk[d] \in DiskInode /\ disk[i] \in DiskInode
      /\ disk[d].gen \in Nat /\ disk[d].nlink \in Nat /\ disk[d].nlink + 1 \in Nat
      /\ disk[d].ents \in SUBSET (NamesAll \X Inum)
      /\ disk[i].gen \in Nat /\ icache[i].gen \in Nat
  <2>1. disk[d] \in DiskInode /\ disk[i] \in DiskInode BY <1>1 DEF TypeOK
  <2>2. \A x \in Nat : x + 1 \in Nat BY SMT
  <2> QED BY <1>1, <2>1, <2>2 DEF DiskInode, CachedInode
<1> DEFINE f == icache[d].dc
           g == [m \in DOMAIN f \cup {n} |-> IF m = n THEN i ELSE f[m]]
           l == IF mkdir THEN disk[d].nlink + 1 ELSE disk[d].nlink
<1>3. /\ ip \in CachedInode /\ ip.kind # "free" /\ (ip.kind = "dir" <=> mkdir)
      /\ ip.gen = icache[i].gen + 1 /\ ip.nlink = 1 /\ ip.dc = icache[i].dc
  <2>1. ip = InitInode(icache[i], th[t].rpc) BY DEF Creates
  <2>2. icache[i] \in CachedInode /\ th[t].rpc \in Creating BY <1>1
  <2>3. /\ ip \in CachedInode /\ ip.kind # "free" /\ (ip.kind = "dir" <=> th[t].rpc = "MKDIR")
        /\ ip.gen = icache[i].gen + 1 /\ ip.nlink = 1 /\ ip.dc = icache[i].dc
    BY <2>1, <2>2, InitInodeFacts
  <2> QED BY <1>m, <2>3
<1>4. mkdir => "MKDIR" \in Rpcs BY <1>m DEF NInv, ThreadOK, Asked
<1>5. "MKDIR" \in Rpcs /\ ip.dc # None => DOMAIN ip.dc \subseteq {".", ".."}
  <2>1. "MKDIR" \in Rpcs /\ icache[i].dc # None => DOMAIN icache[i].dc \subseteq {".", ".."} BY <1>1 DEF CacheOK
  <2> QED BY <1>3, <2>1
<1>6. /\ ipd \in CachedInode /\ ipd.kind = ip.kind /\ ipd.gen = ip.gen /\ ipd.nlink = 1
      /\ mkdir => ipd.dc # None /\ DOMAIN ipd.dc = {".", ".."} /\ ipd.dc["."] = i /\ ipd.dc[".."] = d
      /\ ~mkdir => ipd.dc = ip.dc
  <2>1. ipd = IF mkdir THEN InitDir(ip, i, d) ELSE ip BY DEF Creates
  <2>2. CASE mkdir
    <3>1. d \in Inum /\ i \in Inum /\ ip \in CachedInode /\ (ip.dc # None => DOMAIN ip.dc \subseteq {".", ".."})
      BY <1>1, <1>3, <1>4, <1>5, <2>2
    <3>2. ipd = InitDir(ip, i, d) BY <2>1, <2>2
    <3> QED BY SMT, <1>3, <2>2, <3>1, <3>2, InitDirFacts
  <2>3. CASE ~mkdir BY <1>3, <2>1, <2>3
  <2> QED BY <1>1, <2>2, <2>3
<1>7. /\ dip.kind = "dir" /\ dip.gen = disk[d].gen /\ dip.nlink = l /\ dip.dc = f /\ dip \in CachedInode
  <2>1. CASE mkdir
    <3>1. dip = [icache[d] EXCEPT !.nlink = icache[d].nlink + 1] BY <2>1 DEF Creates
    <3>2. l = icache[d].nlink + 1 /\ l \in Nat BY <1>1, <1>2, <2>1
    <3> HIDE DEF l
    <3> QED BY <1>0, <1>1, <3>1, <3>2 DEF CachedInode
  <2>2. CASE ~mkdir BY <1>0, <1>1, <2>2 DEF Creates
  <2> QED BY <1>1, <2>1, <2>2
<1>8. /\ f \in Dcache /\ f # None
      /\ \A m \in NamesAll, j \in Inum : (m \in DOMAIN f /\ f[m] = j) <=> <<m, j>> \in disk[d].ents
  BY <1>0, <1>1 DEF CacheOK, CachedInode
<1>9. g \in Dcache
  <2>1. DOMAIN f \subseteq NamesAll /\ \A m \in DOMAIN f : f[m] \in Inum BY <1>8, DcacheMap
  <2>2. g \in [DOMAIN f \cup {n} -> Inum] BY <1>1, <2>1
  <2>3. DOMAIN f \cup {n} \in SUBSET NamesAll BY <1>1, <2>1
  <2> HIDE DEF g
  <2> QED BY <2>2, <2>3, MapDcache
<1>10. /\ icache'[d] = AddName(dip, n, i) /\ icache'[i] = ipd
       /\ \A k \in Inum \ {d, i} : icache'[k] = icache[k]
       /\ disk'[d] = ToDisk(dip, disk[d].ents \cup {<<n, i>>})
       /\ disk'[i] = ToDisk(ipd, {<<".", i>>, <<"..", d>>})
       /\ \A k \in Inum \ {d, i} : disk'[k] = disk[k]
  BY <1>1 DEF TypeOK, Creates
<1>11. /\ icache'[d].kind = "dir" /\ icache'[d].gen = disk[d].gen /\ icache'[d].nlink = l
       /\ icache'[d].dc = g /\ icache'[d] \in CachedInode
  <2>1. icache'[d] = [dip EXCEPT !.dc = g] BY <1>7, <1>10 DEF AddName
  <2> HIDE DEF g, l
  <2> QED BY <1>7, <1>9, <2>1 DEF CachedInode
<1>12. /\ disk'[d].kind = "dir" /\ disk'[d].gen = disk[d].gen /\ disk'[d].nlink = l
       /\ disk'[d].ents = disk[d].ents \cup {<<n, i>>} /\ disk'[d] \in DiskInode
  <2>1. disk'[d] = [kind |-> "dir", gen |-> disk[d].gen, nlink |-> l, ents |-> disk[d].ents \cup {<<n, i>>}]
    BY <1>7, <1>10 DEF ToDisk
  <2>2. l \in Nat BY <1>2
  <2>3. disk[d].ents \cup {<<n, i>>} \in SUBSET (NamesAll \X Inum)
    <3>1. <<n, i>> \in NamesAll \X Inum BY <1>1
    <3> QED BY <1>2, <3>1
  <2> HIDE DEF l
  <2> QED BY SMT, <1>2, <2>1, <2>2, <2>3 DEF DiskInode, Kind
<1>13. /\ disk'[i].kind = ip.kind /\ disk'[i].gen = icache[i].gen + 1 /\ disk'[i].nlink = 1
       /\ disk'[i].ents = (IF mkdir THEN {<<".", i>>, <<"..", d>>} ELSE {}) /\ disk'[i] \in DiskInode
  <2>1. disk'[i] = [kind |-> ip.kind, gen |-> icache[i].gen + 1, nlink |-> 1,
                    ents |-> IF mkdir THEN {<<".", i>>, <<"..", d>>} ELSE {}]
    BY <1>3, <1>6, <1>10 DEF ToDisk
  <2>2. ip.kind \in Kind /\ icache[i].gen + 1 \in Nat BY <1>2, <1>3 DEF CachedInode
  <2>3. {<<".", i>>, <<"..", d>>} \in SUBSET (NamesAll \X Inum) BY SMT, <1>1, NoneFacts
  <2>4. (IF mkdir THEN {<<".", i>>, <<"..", d>>} ELSE {}) \in SUBSET (NamesAll \X Inum) BY <2>3
  <2>5. 1 \in Nat BY SMT
  <2>6. PICK e \in SUBSET (NamesAll \X Inum) : e = IF mkdir THEN {<<".", i>>, <<"..", d>>} ELSE {} BY <2>4
  <2>7. disk'[i] = [kind |-> ip.kind, gen |-> icache[i].gen + 1, nlink |-> 1, ents |-> e] BY <2>1, <2>6
  <2>8. disk'[i] \in DiskInode BY SMT, <2>2, <2>5, <2>7 DEF DiskInode
  <2> QED BY SMT, <2>6, <2>7, <2>8
<1> HIDE DEF g, l
<1>14. disk' \in [Inum -> DiskInode] /\ icache' \in [Inum -> CachedInode \cup {None}]
  <2>1. \A k \in Inum : disk'[k] \in DiskInode BY <1>1, <1>10, <1>12, <1>13 DEF TypeOK
  <2>2. \A k \in Inum : icache'[k] \in CachedInode \cup {None} BY <1>1, <1>6, <1>10, <1>11 DEF TypeOK
  <2>3. DOMAIN disk' = Inum /\ DOMAIN icache' = Inum BY <1>1 DEF TypeOK, Creates
  <2>4. disk' = [k \in DOMAIN disk' |-> disk'[k]] /\ icache' = [k \in DOMAIN icache' |-> icache'[k]]
    BY <1>1 DEF TypeOK, Creates
  <2> QED BY <2>1, <2>2, <2>3, <2>4
<1>15. Tree(disk')
  <2>1. disk \in [Inum -> DiskInode] BY <1>1 DEF TypeOK
  <2>2. i \in Inum \ {d} BY <1>1
  <2>3. /\ disk'[d].nlink = IF mkdir THEN disk[d].nlink + 1 ELSE disk[d].nlink
        /\ disk'[i].kind # "free" /\ (disk'[i].kind = "dir" <=> mkdir)
        /\ mkdir => disk'[i].ents = {<<".", i>>, <<"..", d>>}
    BY <1>3, <1>12, <1>13 DEF l
  <2>4. /\ d \in Inum /\ n \in Name /\ Tree(disk) /\ disk[d].kind = "dir" /\ disk[i].kind = "free"
        /\ \A j \in Inum : ~Entry(disk, d, n, j)
    BY <1>1
  <2>5. /\ disk' \in [Inum -> DiskInode] /\ \A k \in Inum \ {d, i} : disk'[k] = disk[k]
        /\ disk'[d].kind = "dir" /\ disk'[d].ents = disk[d].ents \cup {<<n, i>>} /\ disk'[i].nlink = 1
    BY <1>10, <1>12, <1>13, <1>14
  <2> QED BY SMTT(20), <1>m, <2>1, <2>2, <2>3, <2>4, <2>5, CreatedTree
<1>16. CacheOK(d)'
  <2>1. ASSUME NEW m \in NamesAll, NEW j \in Inum
        PROVE  (m \in DOMAIN g /\ g[m] = j) <=> <<m, j>> \in disk'[d].ents
    <3>1. <<m, j>> = <<n, i>> <=> m = n /\ j = i OBVIOUS
    <3>2. <<n, j>> \notin disk[d].ents BY <1>1 DEF Entry
    <3> QED BY <1>8, <1>12, <3>1, <3>2 DEF g
  <2>2. g # None BY <1>9, NoneFacts
  <2>3. icache'[d] # None BY <1>11, NoneFacts
  <2>4. d \in Inum BY <1>1
  <2>5. icache'[d].kind = "dir" /\ disk'[d].kind = "dir" /\ icache'[d].dc = g BY <1>11, <1>12
  <2>6. icache'[d].gen = disk'[d].gen /\ icache'[d].nlink = disk'[d].nlink BY <1>11, <1>12
  <2> QED BY SMTT(20), <2>1, <2>2, <2>3, <2>4, <2>5, <2>6, DirSlot
<1>17. CacheOK(i)'
  <2>1. ipd # None BY <1>6, NoneFacts
  <2>2. ASSUME ipd.kind = "dir", NEW m \in NamesAll, NEW j \in Inum
        PROVE  (m \in DOMAIN ipd.dc /\ ipd.dc[m] = j) <=> <<m, j>> \in disk'[i].ents
    <3>1. mkdir BY <1>3, <1>6, <2>2
    <3>2. (<<m, j>> = <<".", i>> <=> m = "." /\ j = i) /\ (<<m, j>> = <<"..", d>> <=> m = ".." /\ j = d) OBVIOUS
    <3> QED BY <1>6, <1>13, <3>1, <3>2
  <2>3. ipd.kind = "dir" => ipd.dc # None BY <1>3, <1>6
  <2>4. ipd.kind # "dir" /\ ipd.dc # None /\ "MKDIR" \in Rpcs => DOMAIN ipd.dc \subseteq {".", ".."}
    BY <1>3, <1>5, <1>6
  <2> QED BY <1>3, <1>6, <1>10, <1>13, <2>1, <2>2, <2>3, <2>4 DEF CacheOK
<1>18. fhs' = fhs \cup {Handle(i, ip)} /\ Finish(t, {}) /\ UNCHANGED <<ialloc, up>> BY DEF Creates
<1>19. /\ Handle(i, ip) \in [fh : Fh, kind : Kind]
       /\ Handle(i, ip).fh.ino = i /\ Handle(i, ip).fh.gen = ip.gen /\ Handle(i, ip).kind = ip.kind
  <2>1. ip.gen \in Nat /\ ip.kind \in Kind BY <1>3 DEF CachedInode
  <2> QED BY <1>1, <2>1 DEF Handle, Fh
<1>20. fhs \subseteq fhs' /\ fhs' \subseteq [fh : Fh, kind : Kind]
  <2>1. fhs \subseteq [fh : Fh, kind : Kind] BY <1>1 DEF TypeOK
  <2> QED BY <1>18, <1>19, <2>1
<1>21. ASSUME NEW h \in fhs' PROVE HandleOK(h)'
  <2>1. CASE h = Handle(i, ip)
    <3>1. ip.gen \in Nat BY <1>3 DEF CachedInode
    <3>2. ip.gen <= disk'[i].gen BY SMT, <1>3, <1>13, <3>1
    <3> QED BY <1>13, <1>19, <2>1, <3>2 DEF HandleOK
  <2>2. CASE h \in fhs
    <3>1. HandleOK(h) /\ h.fh.ino \in Inum /\ h.fh.gen \in Nat
      <4>1. h.fh \in Fh BY <1>1, <2>2 DEF TypeOK
      <4> QED BY <2>2, <4>1 DEF NInv, Fh
    <3>2. CASE h.fh.ino = i
      <4>1. icache[i].gen >= disk[i].gen BY <1>1 DEF CacheOK
      <4> QED BY SMT, <1>2, <1>13, <3>1, <3>2, <4>1 DEF HandleOK
    <3>3. CASE h.fh.ino = d BY <1>1, <1>12, <3>1, <3>3 DEF HandleOK
    <3>4. CASE h.fh.ino \notin {d, i} BY <1>10, <3>1, <3>4 DEF HandleOK
    <3> QED BY <3>2, <3>3, <3>4
  <2> QED BY <1>18, <2>1, <2>2
<1>22. ASSUME NEW k \in Inum
       PROVE  (disk'[k].kind # "free" \/ k \in {}) <=> (disk[k].kind # "free" \/ k \in Holds(t))
  <2>1. CASE k = i BY <1>1, <1>3, <1>13, <2>1
  <2>2. CASE k = d BY <1>1, <1>12, <2>2
  <2>3. CASE k \notin {d, i} BY <1>1, <1>10, <2>3
  <2> QED BY <2>1, <2>2, <2>3
<1>23. (\A k \in {} : disk'[k].kind = "free") /\ {} \in SUBSET Inum OBVIOUS
<1>24. \A k \in Inum \ {d, i} : disk'[k] = disk[k] /\ icache'[k] = icache[k] BY <1>10
<1>25. d \in Inum /\ i \in Inum /\ Owned(t) = {d, i} BY <1>1
<1> QED BY <1>14, <1>15, <1>16, <1>17, <1>18, <1>20, <1>21, <1>22, <1>23, <1>24, <1>25, BodyStep

LEMMA CreateStep ==
  ASSUME NInv, CleanMkdir, NEW t \in Thread, doCreate(t)
  PROVE  NInv'
<1>1. th[t].pc = "body" /\ th[t].rpc \in Creating BY DEF doCreate
<1>2. PICK d, i, n, mkdir : d = th[t].dfh.ino /\ i = th[t].inm /\ n = th[t].name /\ mkdir = (th[t].rpc = "MKDIR")
  OBVIOUS
<1>3. PICK ip : ip = InitInode(icache[i], th[t].rpc) OBVIOUS
<1>4. PICK ipd, dip : /\ ipd = IF mkdir THEN InitDir(ip, i, d) ELSE ip
                      /\ dip = IF mkdir THEN [icache[d] EXCEPT !.nlink = @ + 1] ELSE icache[d]
  OBVIOUS
<1>5. CASE Creates(t, d, i, n, mkdir, ip, ipd, dip) BY <1>1, <1>5, CreateSucceeds
<1>6. CASE /\ NoSpace \/ icache[d].kind # "dir" \/ n \in LongName
           /\ icache' = [icache EXCEPT ![d] = dip, ![i] = DecLink(ipd)]
           /\ Finish(t, {i}) /\ UNCHANGED <<disk, ialloc, fhs, up>>
  <2>1. /\ d \in Inum /\ i \in Inum /\ i # d /\ icache[d].kind = disk[d].kind
        /\ th[t].rpc = "MKDIR" => disk[d].kind = "dir" /\ ~NoSpace /\ LongName = {}
    <3>1. CreateReady(t, d, i) BY <1>1, <1>2, CreateFinds
    <3> QED BY <3>1 DEF CreateReady
  <2>2. th[t].rpc # "MKDIR" BY <1>6, <2>1
  <2>3. ipd = ip /\ dip = icache[d] BY <1>2, <1>4, <2>2
  <2>4. icache' = [icache EXCEPT ![i] = DecLink(ip)]
    <3>1. icache \in [Inum -> CachedInode \cup {None}] BY DEF NInv, TypeOK
    <3> QED BY <1>6, <2>1, <2>3, <3>1
  <2> QED BY <1>1, <1>2, <1>3, <1>6, <2>2, <2>4, CreateFails
<1>7. CASE /\ NoSpace /\ icache' = [icache EXCEPT ![i] = DecLink(ip)]
           /\ Finish(t, {i}) /\ UNCHANGED <<disk, ialloc, fhs, up>>
  <2>1. th[t].rpc = "MKDIR" => ~NoSpace
    <3>1. CreateReady(t, d, i) BY <1>1, <1>2, CreateFinds
    <3> QED BY <3>1 DEF CreateReady
  <2>2. th[t].rpc # "MKDIR" BY <1>7, <2>1
  <2> QED BY <1>1, <1>2, <1>3, <1>7, <2>2, CreateFails
<1> QED BY <1>2, <1>3, <1>4, <1>5, <1>6, <1>7 DEF doCreate, Creates

-----------------------------------------------------------------------------
(* The server as a whole, and the invariant.                               *)

LEMMA EvictStep == ASSUME NInv, NEW i \in Inum, Evict(i) PROVE NInv'
<1>1. /\ ColdCaches /\ lock[i] = None /\ icache' = [icache EXCEPT ![i] = None]
      /\ UNCHANGED <<disk, ialloc, lock, th, fhs, up>>
  BY DEF Evict
<1>2. /\ icache'[i] = None /\ \A k \in Inum \ {i} : icache'[k] = icache[k]
      /\ icache' \in [Inum -> CachedInode \cup {None}]
  BY <1>1 DEF NInv, TypeOK
<1>3. TypeOK' BY <1>1, <1>2 DEF NInv, TypeOK
<1>4. ASSUME NEW k \in Inum PROVE CacheOK(k)'
  <2>1. CASE k = i BY <1>1, <1>2, <2>1 DEF CacheOK
  <2>2. CASE k # i
    <3>1. icache'[k] = icache[k] /\ disk'[k] = disk[k] /\ lock' = lock BY <1>1, <1>2, <2>2
    <3>2. CacheOK(k) BY DEF NInv
    <3>3. lock'[k] # None => icache[k] # None BY <3>1, <3>2 DEF CacheOK
    <3> QED BY <3>1, <3>2, <3>3, SlotKeeps
  <2> QED BY <2>1, <2>2
<1>5. ASSUME NEW t \in Thread PROVE ThreadOK(t)'
  <2>1. i \notin Owned(t) BY <1>1, NoneFacts DEF Owned
  <2>2. Owned(t)' = Owned(t) /\ Owned(t) \subseteq Inum BY <1>1 DEF Owned
  <2>3. Untouched(t) BY <1>1, <1>2, <2>1, <2>2 DEF Untouched
  <2> QED BY <2>3, OthersOK DEF NInv
<1>6. AllocOK' BY SMT, <1>1 DEF NInv, AllocOK, Holds
<1>7. (\A h \in fhs' : HandleOK(h)') /\ Tree(disk)' BY <1>1 DEF NInv, HandleOK
<1> QED BY <1>3, <1>4, <1>5, <1>6, <1>7 DEF NInv

\* Threads that have just started, with no locks.
LEMMA FreshThreads ==
  ASSUME th = [t \in Thread |-> Idle], lock = [i \in Inum |-> None], NEW t \in Thread
  PROVE  ThreadOK(t) /\ Holds(t) = {}
<1>1. th[t] = Idle BY DEF Idle
<1>2. Owned(t) = {} BY NoneFacts DEF Owned
<1> QED BY <1>1, <1>2 DEF ThreadOK, Place, Asked, Knows, Holds, Idle, AtDir

LEMMA RestartStep == ASSUME NInv, Restart PROVE NInv'
<1>1. /\ ColdCaches /\ icache' = [i \in Inum |-> None] /\ ialloc' = Allocated
      /\ lock' = [i \in Inum |-> None] /\ th' = [t \in Thread |-> Idle] /\ up' = TRUE
      /\ UNCHANGED <<disk, fhs>>
  BY DEF Restart
<1>2. TypeOK' BY <1>1, IdleType DEF NInv, TypeOK, Allocated
<1>3. \A i \in Inum : CacheOK(i)' BY <1>1 DEF CacheOK
<1>4. ASSUME NEW t \in Thread PROVE ThreadOK(t)' /\ Holds(t)' = {}
  <2>1. th'[t] = Idle BY <1>1
  <2>2. Owned(t)' = {} BY <1>1, NoneFacts DEF Owned
  <2> QED BY <2>1, <2>2, IdleOK
<1>5. AllocOK'
  <2>1. \A i \in Inum : i \in ialloc' <=> disk'[i].kind # "free" BY <1>1 DEF Allocated
  <2> QED BY <1>4, <2>1 DEF AllocOK
<1>6. (\A h \in fhs' : HandleOK(h)') /\ Tree(disk)' BY <1>1 DEF NInv, HandleOK
<1> QED BY <1>2, <1>3, <1>4, <1>5, <1>6 DEF NInv

LEMMA InitNInv == ASSUME Init PROVE NInv
<1>1. /\ disk = InitDisk /\ icache = [i \in Inum |-> IF ColdCaches THEN None ELSE Warm(i)]
      /\ ialloc = Allocated /\ lock = [i \in Inum |-> None] /\ th = [t \in Thread |-> Idle]
      /\ fhs = {Handle(i, disk[i]) : i \in Allocated} /\ up = TRUE
  BY DEF Init
<1>2. disk \in [Inum -> DiskInode] /\ Tree(disk) BY <1>1, InitDiskAssumption
<1>3. ASSUME NEW i \in Inum
      PROVE  disk[i].kind \in Kind /\ disk[i].gen \in Nat /\ disk[i].nlink \in Nat
             /\ disk[i].ents \in SUBSET (NamesAll \X Inum)
  <2>1. disk[i] \in DiskInode BY <1>2
  <2> QED BY <2>1 DEF DiskInode
<1>4. ASSUME NEW i \in Inum
      PROVE  /\ Warm(i) \in CachedInode /\ Warm(i).kind = disk[i].kind /\ Warm(i).gen = disk[i].gen
             /\ Warm(i).nlink = disk[i].nlink
             /\ disk[i].kind # "dir" => Warm(i).dc = None
             /\ disk[i].kind = "dir" => Warm(i).dc \in Dcaches(disk[i].ents) /\ Warm(i).dc \in Dcache
  <2>1. /\ Decode(i).kind = disk[i].kind /\ Decode(i).gen = disk[i].gen /\ Decode(i).nlink = disk[i].nlink
        /\ Decode(i).dc = None /\ Decode(i) \in CachedInode
    BY <1>3 DEF Decode, CachedInode
  <2>2. CASE disk[i].kind # "dir" BY <2>1, <2>2 DEF Warm
  <2>3. CASE disk[i].kind = "dir"
    <3> DEFINE f == CHOOSE f \in Dcaches(disk[i].ents) : TRUE
    <3>1. f \in Dcaches(disk[i].ents) BY <1>3, DcachesExist
    <3> HIDE DEF f
    <3>2. f \in Dcache
      <4>1. {e[1] : e \in disk[i].ents} \in SUBSET NamesAll BY <1>3
      <4>2. f \in [{e[1] : e \in disk[i].ents} -> Inum] BY <3>1 DEF Dcaches
      <4> QED BY <4>1, <4>2, MapDcache
    <3>3. Warm(i) = [Decode(i) EXCEPT !.dc = f] BY <2>3 DEF Warm, f
    <3> QED BY <2>1, <2>3, <3>1, <3>2, <3>3 DEF CachedInode
  <2> QED BY <2>2, <2>3
<1>5. TypeOK
  <2>1. icache \in [Inum -> CachedInode \cup {None}] BY <1>1, <1>4
  <2>2. ASSUME NEW h \in fhs PROVE h \in [fh : Fh, kind : Kind]
    <3>1. PICK i \in Allocated : h = Handle(i, disk[i]) BY <1>1
    <3>2. i \in Inum /\ disk[i].gen \in Nat /\ disk[i].kind \in Kind BY <1>3 DEF Allocated
    <3> QED BY SMT, <3>1, <3>2 DEF Handle, Fh
  <2> QED BY <1>1, <1>2, <2>1, <2>2, IdleType DEF TypeOK, Allocated
<1>6. ASSUME NEW i \in Inum PROVE CacheOK(i)
  <2>1. lock[i] = None BY <1>1
  <2>2. CASE ColdCaches BY <1>1, <2>1, <2>2 DEF CacheOK
  <2>3. CASE ~ColdCaches
    <3>1. icache[i] = Warm(i) /\ icache[i] # None BY <1>1, <1>4, <2>3, NoneFacts
    <3>2. disk[i].gen >= disk[i].gen BY SMT, <1>3
    <3>3. CASE disk[i].kind # "dir" BY <1>4, <3>1, <3>2, <3>3 DEF CacheOK
    <3>4. CASE disk[i].kind = "dir"
      <4>1. \A n \in NamesAll, j \in Inum :
              (n \in DOMAIN Warm(i).dc /\ Warm(i).dc[n] = j) <=> <<n, j>> \in disk[i].ents
        <5>1. PICK f \in Dcaches(disk[i].ents) : f = Warm(i).dc BY <1>4, <3>4
        <5>2. \A n \in NamesAll, j \in Inum : (n \in DOMAIN f /\ f[n] = j) <=> <<n, j>> \in disk[i].ents
          BY <1>2, <1>5, <3>4, DcachesExact
        <5> QED BY <5>1, <5>2
      <4>2. Warm(i).dc # None BY <1>4, <3>4, NoneFacts
      <4> QED BY <1>4, <3>1, <3>2, <3>4, <4>1, <4>2 DEF CacheOK
    <3> QED BY <3>3, <3>4
  <2> QED BY <2>2, <2>3
<1>7. \A t \in Thread : ThreadOK(t) /\ Holds(t) = {} BY <1>1, FreshThreads
<1>8. AllocOK BY <1>1, <1>7 DEF AllocOK, Allocated
<1>9. ASSUME NEW h \in fhs PROVE HandleOK(h)
  <2>1. PICK i \in Allocated : h = Handle(i, disk[i]) BY <1>1
  <2>2. h.fh.ino = i /\ h.fh.gen = disk[i].gen /\ h.kind = disk[i].kind BY <2>1 DEF Handle
  <2>3. disk[i].gen \in Nat BY <1>3 DEF Allocated
  <2> QED BY SMT, <2>2, <2>3 DEF HandleOK
<1> QED BY <1>2, <1>5, <1>6, <1>7, <1>8, <1>9 DEF NInv

LEMMA StutterStep == ASSUME NInv, UNCHANGED vars PROVE NInv'
<1>1. UNCHANGED <<disk, icache, ialloc, lock, th, fhs, up>> BY DEF vars
<1>2. TypeOK' /\ Tree(disk)' BY <1>1 DEF NInv, TypeOK
<1>3. AllocOK'
  <2>1. \A t \in Thread : Holds(t)' = Holds(t) BY <1>1 DEF Holds
  <2> QED BY SMT, <1>1, <2>1 DEF NInv, AllocOK
<1>4. \A i \in Inum : CacheOK(i)' BY SMT, <1>1 DEF NInv, CacheOK
<1>5. \A h \in fhs' : HandleOK(h)' BY <1>1 DEF NInv, HandleOK
<1>6. ASSUME NEW t \in Thread PROVE ThreadOK(t)'
  <2>1. Untouched(t) BY <1>1 DEF Untouched, Owned
  <2> QED BY <2>1, OthersOK DEF NInv
<1> QED BY <1>2, <1>3, <1>4, <1>5, <1>6 DEF NInv

\* The steps of RENAME start from places no thread gets to without it.
LEMMA NotRenaming ==
  ASSUME NInv, NEW t \in Thread
  PROVE  ~(LockRename(t) \/ LockTwoDirs(t) \/ RenameNames(t) \/ LockAll(t) \/ RenameOver(t))
<1>1. th[t].pc \in AtDir \cup {"idle", "dir", "ordered", "body", "post"} BY DEF NInv, ThreadOK, Place
<1>2. th[t].pc \notin {"rename", "twodirs", "names", "all", "validate"} BY <1>1 DEF AtDir
<1> QED BY <1>2 DEF LockRename, LockTwoDirs, RenameNames, LockAll, RenameOver

LEMMA NextNInv == ASSUME NoRename, CleanMkdir, NInv, [Next]_vars PROVE NInv'
<1>1. CASE UNCHANGED vars BY <1>1, StutterStep
<1>2. CASE Restart BY <1>2, RestartStep
<1>3. CASE \E i \in Inum : Evict(i) BY <1>3, EvictStep
<1>4. ASSUME NEW t \in Thread, Step(t) PROVE NInv'
  <2>1. CASE th[t].scan # {} /\ Apply(t) BY <2>1, ApplyStep
  <2>2. CASE READDIRPLUSDone(t) BY <2>2, ListDoneStep
  <2>3. ASSUME th[t].scan = {},
               \/ Begin(t) \/ Post(t) \/ RemoveIllegal(t) \/ LockDir(t) \/ READDIRPLUS(t)
               \/ getInodesLocked(t) \/ LockChild(t) \/ lookupOrdered(t) \/ LOOKUP(t) \/ doRemove(t)
               \/ getAlloc(t) \/ LockNew(t) \/ doCreate(t)
        PROVE  NInv'
    <3>1. CASE Begin(t) BY <2>3, <3>1, BeginStep
    <3>2. CASE Post(t) BY <2>3, <3>2, PostStep
    <3>3. CASE RemoveIllegal(t) BY <3>3, PanicStep DEF RemoveIllegal
    <3>4. CASE LockDir(t) BY <2>3, <3>4, LockDirStep
    <3>5. CASE READDIRPLUS(t) BY <2>3, <3>5, ReadDirStep
    <3>6. CASE getInodesLocked(t) BY <2>3, <3>6, GetInodesLockedStep
    <3>7. CASE LockChild(t) BY <2>3, <3>7, LockChildStep
    <3>8. CASE lookupOrdered(t) BY <2>3, <3>8, LookupOrderedStep
    <3>9. CASE LOOKUP(t) BY <2>3, <3>9, LookupStep
    <3>10. CASE doRemove(t) BY <2>3, <3>10, RemoveStep
    <3>11. CASE getAlloc(t) BY <2>3, <3>11, GetAllocStep
    <3>12. CASE LockNew(t) BY <2>3, <3>12, LockNewStep
    <3>13. CASE doCreate(t) BY <3>13, CreateStep
    <3> QED BY <2>3, <3>1, <3>2, <3>3, <3>4, <3>5, <3>6, <3>7, <3>8, <3>9, <3>10, <3>11, <3>12, <3>13
  <2> QED BY <1>4, <2>1, <2>2, <2>3, NotRenaming DEF Step
<1> QED BY <1>1, <1>2, <1>3, <1>4 DEF Next

LEMMA AlwaysNInv == ASSUME NoRename, CleanMkdir PROVE Spec => []NInv
<1>1. NInv /\ [Next]_vars => NInv' BY NextNInv
<1> QED BY <1>1, InitNInv, PTL DEF Spec

-----------------------------------------------------------------------------
(* What the invariant gives.                                               *)

\* On disk, and so after any crash, an entry names an inode in use, no inode
\* has two names and no directory two entries of one name, whatever CREATE,
\* SYMLINK, MKDIR, REMOVE, RMDIR and LOOKUP do at the same time (doCreate,
\* doRemove, getInodesLocked).
THEOREM DiskNamesConsistent == ASSUME NoRename, CleanMkdir PROVE Spec => []NamesConsistent
<1>1. NInv => NamesConsistent
  <2> SUFFICES ASSUME NInv PROVE NamesConsistent OBVIOUS
  <2>1. Tree(disk) /\ Dirs \subseteq Inum BY DEF NInv, Dirs
  <2>2. ASSUME NEW d \in Dirs, NEW e \in disk[d].ents
        PROVE  /\ e = <<e[1], e[2]>> /\ e[1] \in NamesAll /\ e[2] \in Inum /\ Entry(disk, d, e[1], e[2])
               /\ e \in Files(d) => e[1] \in Name
    <3>1. disk[d] \in DiskInode BY <2>1 DEF NInv, TypeOK
    <3>2. disk[d].ents \subseteq NamesAll \X Inum BY <3>1 DEF DiskInode
    <3>3. e = <<e[1], e[2]>> /\ e[1] \in NamesAll /\ e[2] \in Inum BY SMT, <3>2
    <3>4. disk[d].kind = "dir" BY DEF Dirs
    <3> QED BY <3>3, <3>4 DEF Entry, Files, NamesAll
  <2>3. ASSUME NEW d \in Dirs, NEW e \in disk[d].ents
        PROVE  disk[e[2]].kind # "free" /\ disk[e[2]].nlink > 0
    BY SMT, <2>1, <2>2 DEF Tree
  <2>4. ASSUME NEW d \in Dirs, NEW d2 \in Dirs, NEW e \in Files(d), NEW e2 \in Files(d2),
               e[2] = e2[2] \/ (d = d2 /\ e[1] = e2[1])
        PROVE  d = d2 /\ e = e2
    <3>1. e \in disk[d].ents /\ e2 \in disk[d2].ents BY DEF Files
    <3>2. /\ e = <<e[1], e[2]>> /\ e[1] \in Name /\ e[2] \in Inum /\ Entry(disk, d, e[1], e[2])
          /\ e2 = <<e2[1], e2[2]>> /\ e2[1] \in Name /\ e2[2] \in Inum /\ Entry(disk, d2, e2[1], e2[2])
      BY <2>2, <3>1
    <3>3. d \in Inum /\ d2 \in Inum BY <2>1
    <3>4. CASE e[2] = e2[2]
      <4>1. d = d2 /\ e[1] = e2[1] BY SMT, <2>1, <3>2, <3>3, <3>4 DEF Tree
      <4> QED BY <3>2, <3>4, <4>1
    <3>5. CASE d = d2 /\ e[1] = e2[1]
      <4>1. e[2] = e2[2] BY SMT, <2>1, <3>2, <3>3, <3>5, NoneFacts DEF Tree
      <4> QED BY <3>2, <3>5, <4>1
    <3> QED BY <2>4, <3>4, <3>5
  <2> QED BY <2>3, <2>4 DEF NamesConsistent
<1> QED BY <1>1, AlwaysNInv, PTL

\* An inode nobody has locked is cached, Dcache included, as it is on disk,
\* although threads drop their locks and inodes are evicted at any time, and
\* after any restart (GetInodeLocked, mkDcache, RemName, AddName).
THEOREM CachesCurrent == ASSUME NoRename, CleanMkdir PROVE Spec => []CacheMatchesDisk
<1>1. NInv => CacheMatchesDisk
  <2> SUFFICES ASSUME NInv, NEW i \in Inum, icache[i] # None, lock[i] = None
               PROVE  /\ icache[i].kind = disk[i].kind
                      /\ icache[i].kind # "free" =>
                           icache[i].gen = disk[i].gen /\ icache[i].nlink = disk[i].nlink
                      /\ icache[i].kind = "dir" /\ icache[i].dc # None =>
                           {<<n, icache[i].dc[n]>> : n \in DOMAIN icache[i].dc} = disk[i].ents
    BY DEF CacheMatchesDisk
  <2>1. CacheOK(i) BY DEF NInv
  <2>2. ASSUME icache[i].kind = "dir", icache[i].dc # None
        PROVE  {<<n, icache[i].dc[n]>> : n \in DOMAIN icache[i].dc} = disk[i].ents
    <3>1. icache[i] \in CachedInode /\ disk[i] \in DiskInode BY SMT DEF NInv, TypeOK
    <3>2. PICK f : f = icache[i].dc OBVIOUS
    <3>3. f \in Dcache BY <2>2, <3>1, <3>2 DEF CachedInode
    <3>4. DOMAIN f \subseteq NamesAll /\ \A n \in DOMAIN f : f[n] \in Inum BY <3>3 DEF Dcache
    <3>5. disk[i].ents \subseteq NamesAll \X Inum BY <3>1 DEF DiskInode
    <3>6. \A n \in NamesAll, j \in Inum : (n \in DOMAIN f /\ f[n] = j) <=> <<n, j>> \in disk[i].ents
      BY <2>1, <2>2, <3>2 DEF CacheOK
    <3>7. \A n \in DOMAIN f : <<n, f[n]>> \in disk[i].ents BY <3>4, <3>6
    <3>8. ASSUME NEW e \in disk[i].ents PROVE e \in {<<n, f[n]>> : n \in DOMAIN f}
      <4>1. e = <<e[1], e[2]>> /\ e[1] \in NamesAll /\ e[2] \in Inum BY SMT, <3>5
      <4>2. e[1] \in DOMAIN f /\ f[e[1]] = e[2] BY SMT, <3>6, <4>1
      <4> QED BY <4>1, <4>2
    <3> QED BY <3>2, <3>7, <3>8
  <2> QED BY <2>1, <2>2 DEF CacheOK
<1> QED BY <1>1, AlwaysNInv, PTL

\* The allocator never hands out an inode number that is on disk, or that a
\* thread has for an inode it is making, and nothing is lost: at rest it has
\* exactly the numbers of the inodes on disk (AllocINum, PostCommit, PostAbort).
THEOREM AllocatorIsSound == ASSUME NoRename, CleanMkdir PROVE Spec => []AllocatorSound
<1>1. NInv => AllocatorSound
  <2> SUFFICES ASSUME NInv PROVE AllocatorSound OBVIOUS
  <2>1. AllocOK /\ ialloc \subseteq Inum BY DEF NInv, TypeOK
  <2>2. Allocated \subseteq ialloc BY <2>1 DEF AllocOK, Allocated
  <2>3. ASSUME NEW t \in Thread, th[t].pc \in {"alloc", "body"}, th[t].rpc \in Creating
        PROVE  th[t].inm \in ialloc \ Allocated
    <3>1. th[t].inm \in Holds(t) BY <2>3 DEF Holds
    <3> QED BY <2>1, <3>1 DEF AllocOK, Allocated
  <2>4. ASSUME \A t \in Thread : th[t].pc = "idle" PROVE ialloc = Allocated
    <3>1. \A t \in Thread : Holds(t) = {} BY <2>4 DEF Holds
    <3> QED BY <2>1, <3>1 DEF AllocOK, Allocated
  <2> QED BY <2>2, <2>3, <2>4 DEF AllocatorSound
<1> QED BY <1>1, AlwaysNInv, PTL

\* When LOOKUP, REMOVE or RMDIR act, the directory is the one of the client's
\* handle and its entry of that name is the inode they have locked, however
\* often the locks were dropped and taken again (lookupOrdered).
THEOREM LookupsAreCurrent == ASSUME NoRename, CleanMkdir PROVE Spec => []LookupsCurrent
<1>1. NInv => LookupsCurrent
  <2> SUFFICES ASSUME NInv, NEW t \in Thread, th[t].pc = "body", th[t].rpc \in Lookers
               PROVE  /\ disk[th[t].dfh.ino].gen = th[t].dfh.gen
                      /\ <<th[t].name, th[t].inm>> \in disk[th[t].dfh.ino].ents
                      /\ disk[th[t].inm].kind # "free"
    BY DEF LookupsCurrent, Lookers
  <2>1. Place(t) /\ Knows(t) /\ TypeOK /\ Tree(disk) BY DEF NInv, ThreadOK
  <2>2. disk[th[t].dfh.ino].gen = th[t].dfh.gen /\ Entry(disk, th[t].dfh.ino, th[t].name, th[t].inm)
    BY <2>1 DEF Knows
  <2>3. th[t].dfh.ino \in Inum /\ th[t].name \in NamesAll /\ th[t].inm \in Inum
    BY <2>1, ThreadFields DEF Place
  <2>4. disk[th[t].inm].kind # "free" BY SMTT(20), <2>1, <2>2, <2>3 DEF Tree
  <2> QED BY <2>2, <2>4 DEF Entry
<1> QED BY <1>1, AlwaysNInv, PTL

\* Only a REMOVE or RMDIR of "." or ".." takes the server down.
LEMMA OnlyDotPanics ==
  ASSUME NInv, NEW t \in Thread, Step(t)
  PROVE  up' = up \/ (th[t].rpc \in {"REMOVE", "RMDIR"} /\ IllegalName(th[t].name) /\ Asked(t) /\ th[t].pc = "dir")
<1>1. TypeOK /\ Tree(disk) /\ AllocOK /\ ThreadOK(t) BY DEF NInv
<1>2. CASE Apply(t)
  <2>1. PICK i \in th[t].scan : Cached(i).kind # "free" => up' = up BY <1>2 DEF Apply
  <2> QED BY <2>1, ScanInUse
<1>3. CASE RemoveIllegal(t) BY <1>1, <1>3 DEF RemoveIllegal, ThreadOK
<1>4. CASE doRemove(t)
  <2>1. th[t].pc = "body" /\ th[t].rpc \in {"REMOVE", "RMDIR"} BY <1>4 DEF doRemove
  <2>2. /\ Entry(disk, th[t].dfh.ino, th[t].name, th[t].inm) /\ th[t].name \in Name
        /\ th[t].dfh.ino \in Inum
    BY <1>1, <2>1, ThreadFields DEF ThreadOK, Asked, Knows, Lookers
  <2>3. th[t].inm # th[t].dfh.ino
    <3>1. ~Entry(disk, th[t].dfh.ino, th[t].name, th[t].dfh.ino) BY SMT, <1>1, <2>2 DEF Tree
    <3> QED BY <2>2, <3>1
  <2> QED BY <1>4, <2>3 DEF doRemove, errRet
<1>5. CASE LockNew(t)
  <2>1. th[t].pc = "alloc" BY <1>5 DEF LockNew
  <2>2. th[t].inm \in Holds(t) BY <1>1, <2>1 DEF ThreadOK, Place, Holds
  <2>3. th[t].inm \in Inum /\ disk[th[t].inm].kind = "free" BY <1>1, <2>2 DEF AllocOK
  <2>4. Cached(th[t].inm).kind = "free" BY <1>1, <2>3, CachedFacts DEF NInv
  <2> QED BY <1>5, <2>4 DEF LockNew
<1>6. CASE READDIRPLUSDone(t) BY <1>6 DEF READDIRPLUSDone, errRet
<1>7. CASE Begin(t) \/ Post(t) \/ LockDir(t) \/ LOOKUP(t) \/ LockChild(t)
  BY <1>7 DEF Begin, Post, LockDir, LOOKUP, LockChild
<1>8. CASE READDIRPLUS(t) BY <1>8 DEF READDIRPLUS, errRet
<1>9. CASE getInodesLocked(t) BY <1>9 DEF getInodesLocked, mkDcache, errRet, AbortAndGoto
<1>10. CASE lookupOrdered(t) BY <1>10 DEF lookupOrdered, LockNext, mkDcache, AbortAndGoto
<1>11. CASE getAlloc(t) BY <1>11 DEF getAlloc, mkDcache, errRet
<1>12. CASE doCreate(t) BY <1>12 DEF doCreate
<1> QED BY <1>2, <1>3, <1>4, <1>5, <1>6, <1>7, <1>8, <1>9, <1>10, <1>11, <1>12, NotRenaming DEF Step

\* No thread runs into AllocInode's panic, releases a free inode in Apply or
\* removes a directory from itself, unless a client asks REMOVE or RMDIR for
\* "." or "..": doRemove then returns a nil transaction.
THEOREM NeverPanics ==
  ASSUME NoRename, CleanMkdir, DotNames => Rpcs \cap {"REMOVE", "RMDIR"} = {}
  PROVE  Spec => []NoPanic
<1>1. ASSUME NInv, NoPanic, [Next]_vars PROVE NoPanic'
  <2>1. CASE UNCHANGED vars BY <1>1, <2>1 DEF NoPanic, vars
  <2>2. CASE Restart BY <2>2 DEF Restart, NoPanic
  <2>3. CASE \E i \in Inum : Evict(i) BY <1>1, <2>3 DEF Evict, NoPanic
  <2>4. ASSUME NEW t \in Thread, Step(t) PROVE NoPanic'
    <3>1. CASE up' = up BY <1>1, <3>1 DEF NoPanic
    <3>2. CASE th[t].rpc \in {"REMOVE", "RMDIR"} /\ IllegalName(th[t].name) /\ Asked(t) /\ th[t].pc = "dir"
      <4>1. th[t].rpc \in Rpcs /\ th[t].name \in ClientName BY <3>2 DEF Asked
      <4> QED BY <3>2, <4>1, NoneFacts DEF ClientName, IllegalName
    <3> QED BY <1>1, <2>4, <3>1, <3>2, OnlyDotPanics
  <2> QED BY <1>1, <2>1, <2>2, <2>3, <2>4 DEF Next
<1>2. Init => NoPanic BY DEF Init, NoPanic
<1>3. Spec => []NInv BY AlwaysNInv
<1> QED BY <1>1, <1>2, <1>3, PTL DEF Spec

\* Only doRemove and doCreate write inodes.
LEMMA WhoWrites ==
  ASSUME NInv, NEW t \in Thread, Step(t)
  PROVE  disk' = disk \/ doRemove(t) \/ doCreate(t)
<1>1. CASE Apply(t) BY <1>1 DEF Apply, Panic
<1>2. CASE RemoveIllegal(t) BY <1>2 DEF RemoveIllegal, Panic
<1>3. CASE LockNew(t) BY <1>3 DEF LockNew, Panic
<1>4. CASE READDIRPLUSDone(t) BY <1>4 DEF READDIRPLUSDone, errRet
<1>5. CASE Begin(t) \/ Post(t) \/ LockDir(t) \/ LOOKUP(t) \/ LockChild(t)
  BY <1>5 DEF Begin, Post, LockDir, LOOKUP, LockChild
<1>6. CASE READDIRPLUS(t) BY <1>6 DEF READDIRPLUS, errRet
<1>7. CASE getInodesLocked(t) BY <1>7 DEF getInodesLocked, mkDcache, errRet, AbortAndGoto
<1>8. CASE lookupOrdered(t) BY <1>8 DEF lookupOrdered, LockNext, mkDcache, AbortAndGoto
<1>9. CASE getAlloc(t) BY <1>9 DEF getAlloc, mkDcache, errRet
<1> QED BY <1>1, <1>2, <1>3, <1>4, <1>5, <1>6, <1>7, <1>8, <1>9, NotRenaming DEF Step

\* A directory changes only on behalf of a thread whose request names it with
\* its present generation, or because it is removed: a handle that was valid
\* when the request began and is stale when its locks are taken is not acted
\* upon (GetInodeFh, lookupOrdered).
THEOREM StaleHandlesRefused == ASSUME NoRename, CleanMkdir PROVE Spec => StaleHandleRefused
<1> DEFINE Refuses ==
             \A d \in Dirs : disk'[d].ents # disk[d].ents =>
               \E t \in Thread :
                 \/ disk'[d].kind = "free"
                 \/ [ino |-> d, gen |-> disk[d].gen] = th[t].dfh /\ th[t].pc \in {"body", "names", "validate"}
                 \/ [ino |-> d, gen |-> disk[d].gen] = th[t].dfh2 /\ th[t].pc \in {"names", "validate"}
<1>1. ASSUME NInv, NEW t \in Thread, th[t].pc = "body", NEW v, NEW w,
             disk' = [disk EXCEPT ![th[t].dfh.ino] = v, ![th[t].inm] = w],
             disk[th[t].inm].kind # "dir" \/ w.kind = "free" \/ w.ents = disk[th[t].inm].ents
      PROVE  Refuses
  <2> SUFFICES ASSUME NEW d \in Dirs, disk'[d].ents # disk[d].ents
               PROVE  disk'[d].kind = "free" \/ [ino |-> d, gen |-> disk[d].gen] = th[t].dfh
    BY <1>1
  <2>1. /\ TypeOK /\ d \in Inum /\ disk[d].kind = "dir" /\ th[t].dfh \in Fh /\ th[t].dfh.ino \in Inum
        /\ disk[th[t].dfh.ino].gen = th[t].dfh.gen /\ DOMAIN disk = Inum
    BY <1>1, ThreadFields DEF NInv, TypeOK, ThreadOK, Knows, Dirs
  <2>2. CASE d = th[t].dfh.ino BY <2>1, <2>2 DEF Fh
  <2>3. CASE d # th[t].dfh.ino
    <3>1. d = th[t].inm /\ disk'[d] = w BY <1>1, <2>1, <2>3
    <3> QED BY <1>1, <2>1, <3>1
  <2> QED BY <2>2, <2>3
<1> HIDE DEF Refuses
<1>2. ASSUME disk' = disk PROVE Refuses BY <1>2 DEF Refuses
<1>3. ASSUME NInv, NEW t \in Thread, doRemove(t) PROVE Refuses
  <2>1. th[t].pc = "body" BY <1>3 DEF doRemove
  <2>2. CASE disk' = disk BY <1>2, <2>2
  <2>3. CASE disk' # disk
    <3> DEFINE c == DecLink(icache[th[t].inm])
               v == ToDisk(icache[th[t].dfh.ino],
                           RemEnt(disk[th[t].dfh.ino].ents, icache[th[t].dfh.ino], th[t].name))
    <3>1. disk' = [disk EXCEPT ![th[t].dfh.ino] = v, ![th[t].inm] = ToDisk(c, disk[th[t].inm].ents)]
      BY <1>3, <2>3 DEF doRemove, errRet, Panic
    <3>2. Owned(t) = {th[t].dfh.ino, th[t].inm} BY <1>3, <2>1 DEF NInv, ThreadOK, Place
    <3>3. icache[th[t].inm].kind = disk[th[t].inm].kind /\ icache[th[t].inm] \in CachedInode
      BY <1>3, <3>2, OwnedCached
    <3>4. c.kind = "free" \/ c.kind = disk[th[t].inm].kind BY <3>3 DEF DecLink, CachedInode
    <3> HIDE DEF c, v
    <3>5. /\ ToDisk(c, disk[th[t].inm].ents).kind = c.kind
          /\ c.kind = "dir" => ToDisk(c, disk[th[t].inm].ents).ents = disk[th[t].inm].ents
      BY DEF ToDisk
    <3> QED BY <1>1, <1>3, <2>1, <3>1, <3>4, <3>5
  <2> QED BY <2>2, <2>3
<1>4. ASSUME NInv, NEW t \in Thread, doCreate(t) PROVE Refuses
  <2>1. th[t].pc = "body" /\ th[t].rpc \in Creating BY <1>4 DEF doCreate
  <2>2. th[t].inm \in Holds(t) BY <2>1 DEF Holds
  <2>3. disk[th[t].inm].kind = "free" BY <1>4, <2>2 DEF NInv, AllocOK
  <2>4. CASE disk' = disk BY <1>2, <2>4
  <2>5. CASE disk' # disk
    <3> DEFINE d == th[t].dfh.ino
               i == th[t].inm
               mkdir == th[t].rpc = "MKDIR"
               ip == InitInode(icache[i], th[t].rpc)
               ipd == IF mkdir THEN InitDir(ip, i, d) ELSE ip
               dip == IF mkdir THEN [icache[d] EXCEPT !.nlink = @ + 1] ELSE icache[d]
               v == ToDisk(dip, disk[d].ents \cup {<<th[t].name, i>>})
               w == ToDisk(ipd, {<<".", i>>, <<"..", d>>})
    <3>1. disk' = [disk EXCEPT ![th[t].dfh.ino] = v, ![th[t].inm] = w]
      BY <1>4, <2>5 DEF doCreate
    <3> HIDE DEF v, w
    <3> QED BY <1>1, <1>4, <2>1, <2>3, <3>1
  <2> QED BY <2>4, <2>5
<1>5. ASSUME NInv, [Next]_vars PROVE [Refuses]_vars
  <2>1. CASE UNCHANGED vars BY <2>1
  <2>2. CASE Restart BY <1>2, <2>2 DEF Restart
  <2>3. CASE \E i \in Inum : Evict(i) BY <1>2, <2>3 DEF Evict
  <2>4. ASSUME NEW t \in Thread, Step(t) PROVE Refuses BY <1>2, <1>3, <1>4, <1>5, <2>4, WhoWrites
  <2> QED BY <1>5, <2>1, <2>2, <2>3, <2>4 DEF Next
<1>6. Spec => []NInv BY AlwaysNInv
<1>7. Spec => [][Refuses]_vars BY <1>5, <1>6, PTL DEF Spec
<1> QED BY <1>7 DEF Refuses, StaleHandleRefused

=============================================================================
