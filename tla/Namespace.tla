------------------------------ MODULE Namespace ------------------------------
(***************************************************************************)
(* The name-space procedures of nfs/nfs_ops.go (LOOKUP, CREATE, SYMLINK,   *)
(* MKDIR, REMOVE, RMDIR, RENAME, READDIRPLUS) run by concurrent threads:   *)
(* the order in which they lock inodes (nfs/lorder.go), what they do when  *)
(* the order is wrong (abort, lock in order, revalidate, retry), and what  *)
(* they change on disk, in the inode cache and in the directory caches.    *)
(*                                                                         *)
(* A step of a thread is the acquisition of one lock together with what    *)
(* the code does up to the next acquisition; what it does with all its     *)
(* locks held (the body and the commit or abort) is one step.  Names,      *)
(* inode numbers and generations are kept; file contents are not.          *)
(***************************************************************************)
EXTENDS Naturals, FiniteSets, Sequences

CONSTANTS
  Thread,     \* server threads, one RPC each at a time
  Inum,       \* inode numbers, a subset of Nat \ {0}; the root is ROOTINUM
  Name,       \* the names clients use, besides "." and ".."
  Rpcs,       \* the procedures clients call
  LongName,   \* the names of MAXNAMELEN bytes or more
  DotNames,   \* BOOLEAN: clients also create, remove or rename to "." and ".."
  AnyHandle,  \* BOOLEAN: clients also send handles of files where a directory belongs
  NoSpace,    \* BOOLEAN: AddName may run out of blocks
  ColdCaches, \* BOOLEAN: caches start empty, are evicted from and lost in restarts
  MaxGen,     \* bound on generation numbers: CREATE and MKDIR stop there
  InitDisk,   \* the inodes on disk at the start
  None        \* no thread; also: not cached

ROOTINUM == 1
NULLINUM == 0
NamesAll == Name \cup {".", ".."}
Kind == {"free", "reg", "lnk", "dir"}
Fh == [ino : Inum, gen : Nat]
NoFh == [ino |-> ROOTINUM, gen |-> 0]

\* An inode on disk; a Dcache, and an inode in the cache, which may have none.
DiskInode == [kind : Kind, gen : Nat, nlink : Nat, ents : SUBSET (NamesAll \X Inum)]
Dcache == UNION {[S -> Inum] : S \in SUBSET NamesAll}
CachedInode == [kind : Kind, gen : Nat, nlink : Nat, dc : Dcache \cup {None}]

ASSUME NamespaceAssumption ==
  /\ Inum \subseteq Nat \ {0} /\ ROOTINUM \in Inum /\ IsFiniteSet(Inum)
  /\ Name \cap {".", ".."} = {} /\ LongName \subseteq Name
  /\ None \notin Thread \cup Dcache /\ None \notin CachedInode
  /\ {DotNames, AnyHandle, NoSpace, ColdCaches} \subseteq BOOLEAN /\ MaxGen \in Nat

\* Directory d has an entry n for i, and i has a name of its own.
Entry(dsk, d, n, i) == dsk[d].kind = "dir" /\ <<n, i>> \in dsk[d].ents
Named(dsk, i) == \E d \in Inum, n \in Name : Entry(dsk, d, n, i)

\* A tree as makeFs makes it and the procedures extend it: a directory has "."
\* and "..", its names are different, they name inodes in use, and an inode has
\* one name. A parent that could be removed has a link for its subdirectory.
Tree(dsk) ==
  /\ \A d \in Inum : dsk[d].kind = "dir" =>
       Entry(dsk, d, ".", d) /\ \E p \in Inum : Entry(dsk, d, "..", p)
  /\ \A d, i, j \in Inum, n \in NamesAll : Entry(dsk, d, n, i) /\ Entry(dsk, d, n, j) => i = j
  /\ \A d, i \in Inum, n \in NamesAll : Entry(dsk, d, n, i) => dsk[i].kind # "free" /\ dsk[i].nlink > 0
  /\ \A c, d, i \in Inum, m, n \in Name : Entry(dsk, c, m, i) /\ Entry(dsk, d, n, i) => c = d /\ m = n
  /\ \A d \in Inum, n \in Name : ~Entry(dsk, d, n, d)
  /\ \A d, p \in Inum : Entry(dsk, d, "..", p) =>
       dsk[p].kind = "dir" /\ (Named(dsk, p) => dsk[p].nlink > 1)

ASSUME InitDiskAssumption == InitDisk \in [Inum -> DiskInode] /\ Tree(InitDisk)

VARIABLES
  disk,    \* committed inodes: kind, gen, nlink, and the directory entries
  icache,  \* cached inodes: kind, gen, nlink and the Dcache; or None
  ialloc,  \* inode numbers taken in the in-memory allocator
  lock,    \* lock map
  th,      \* the threads' local state
  fhs,     \* file handles given to clients, with the kind in the attributes
  up       \* FALSE after a panic, until the server is restarted

vars == <<disk, icache, ialloc, lock, th, fhs, up>>

\* Local state of a thread between two RPCs. inm is the child (RENAME: the
\* source), inm2 the target of a RENAME, want the locks lockInodes has yet to
\* take, scan the inodes Apply has yet to visit, frees what FreeNum gets.
Idle == [pc |-> "idle", rpc |-> "NULL", dfh |-> NoFh, name |-> ".", dfh2 |-> NoFh, name2 |-> ".",
         inm |-> NULLINUM, inm2 |-> NULLINUM, want |-> <<>>, scan |-> {}, frees |-> {}]

ThreadState ==
  [pc : {"idle", "dir", "list", "listing", "lookup", "ordered", "child", "alloc", "body", "post",
         "rename", "twodirs", "names", "all", "validate"},
   rpc : Rpcs \cup {"NULL"}, dfh : Fh, name : NamesAll, dfh2 : Fh, name2 : NamesAll,
   inm : Inum \cup {NULLINUM}, inm2 : Inum \cup {NULLINUM},
   want : Seq(Inum), scan : SUBSET Inum, frees : SUBSET Inum]

TypeOK ==
  /\ disk \in [Inum -> DiskInode] /\ icache \in [Inum -> CachedInode \cup {None}]
  /\ ialloc \subseteq Inum
  /\ lock \in [Inum -> Thread \cup {None}]
  /\ th \in [Thread -> ThreadState]
  /\ fhs \subseteq [fh : Fh, kind : Kind]
  /\ up \in BOOLEAN

\* Post_op_fh3 and Post_op_attr of a reply about inode i, cached as c.
Handle(i, c) == [fh |-> [ino |-> i, gen |-> c.gen], kind |-> c.kind]

Allocated == {i \in Inum : disk[i].kind # "free"}

\* Decode: an inode read from disk has no Dcache.
Decode(i) == [kind |-> disk[i].kind, gen |-> disk[i].gen, nlink |-> disk[i].nlink, dc |-> None]

\* The maps mkDcache can build from a directory's entries (one unless a name
\* occurs twice).
Dcaches(ents) ==
  LET ns == {e[1] : e \in ents} IN
  {f \in [ns -> Inum] : \A n \in ns : <<n, f[n]>> \in ents}

\* The inode as a server that has looked at every directory caches it.
Warm(i) ==
  IF disk[i].kind # "dir" THEN Decode(i)
  ELSE [Decode(i) EXCEPT !.dc = CHOOSE f \in Dcaches(disk[i].ents) : TRUE]

Init ==
  /\ disk = InitDisk
  /\ icache = [i \in Inum |-> IF ColdCaches THEN None ELSE Warm(i)]
  /\ ialloc = Allocated
  /\ lock = [i \in Inum |-> None]
  /\ th = [t \in Thread |-> Idle]
  /\ fhs = {Handle(i, disk[i]) : i \in Allocated}
  /\ up = TRUE

-----------------------------------------------------------------------------
(* Locks, the inode cache and directory lookups.                           *)

Owned(t) == {i \in Inum : lock[i] = t}
NoneOwned(t) == [i \in Inum |-> IF lock[i] = t THEN None ELSE lock[i]]

\* The inode as GetInodeLocked finds it: the cached one, or the one on disk.
Cached(i) == IF icache[i] # None THEN icache[i] ELSE Decode(i)

\* GetInodeLocked: Acquire, then LookupSlot and Decode if the slot is empty.
GetInodeLocked(t, i) ==
  /\ lock[i] = None
  /\ lock' = [lock EXCEPT ![i] = t]
  /\ icache' = [icache EXCEPT ![i] = Cached(i)]

\* Faulty variant: the generation is not compared.
FhLive(fh) == Cached(fh.ino).kind # "free"

\* GetInodeFh refuses a free inode or one of another generation.
FhValid(fh) == Cached(fh.ino).kind # "free" /\ Cached(fh.ino).gen = fh.gen

\* LookupName on a directory whose Dcache has been built.
LookupName(d, n) ==
  LET ip == icache[d] IN
  IF ip.kind = "dir" /\ n \in DOMAIN ip.dc THEN ip.dc[n] ELSE NULLINUM

\* LookupName has to build the Dcache first.
NoDcache(d) == icache[d].kind = "dir" /\ icache[d].dc = None

-----------------------------------------------------------------------------
(* Ends of transactions.                                                   *)

\* PostCommit or PostAbort have numbers to return after the locks are released.
Finish(t, frees) ==
  /\ lock' = NoneOwned(t)
  /\ th' = [th EXCEPT ![t] = IF frees = {} THEN Idle ELSE [Idle EXCEPT !.pc = "post", !.frees = frees]]

\* errRet without changes to any inode.
errRet(t) ==
  /\ Finish(t, {})
  /\ UNCHANGED <<disk, icache, ialloc, fhs, up>>

\* Abort and go on at another point of the procedure.
AbortAndGoto(t, s) ==
  /\ lock' = NoneOwned(t)
  /\ th' = [th EXCEPT ![t] = s]
  /\ UNCHANGED <<disk, icache, ialloc, fhs, up>>

Panic ==
  /\ up' = FALSE
  /\ UNCHANGED <<disk, icache, ialloc, lock, th, fhs>>

\* FreeNum for every number the transaction freed (or had allocated).
Post(t) ==
  /\ th[t].pc = "post"
  /\ ialloc' = ialloc \ th[t].frees
  /\ th' = [th EXCEPT ![t] = Idle]
  /\ UNCHANGED <<disk, icache, lock, fhs, up>>

-----------------------------------------------------------------------------
(* Changes to inodes and directories, as new values of <<icache, disk>>    *)
(* restricted to one inode: c is a cached inode, e the entries the         *)
(* transaction sees on disk.                                               *)

\* Faulty variant: the Dcache keeps the name.
RemNameDirOnly(c, n) == c

\* RemName: the slot is cleared and the name leaves the Dcache.
RemName(c, n) == [c EXCEPT !.dc = [m \in DOMAIN c.dc \ {n} |-> c.dc[m]]]
RemEnt(e, c, n) == e \ {<<n, c.dc[n]>>}

\* AddName: a slot is written and the name enters the Dcache.
AddName(c, n, i) == [c EXCEPT !.dc = [m \in DOMAIN c.dc \cup {n} |-> IF m = n THEN i ELSE c.dc[m]]]

\* DecLink, and FreeInode when the last link is gone. The Dcache stays.
DecLink(c) ==
  IF c.nlink = 1 THEN [c EXCEPT !.nlink = 0, !.kind = "free", !.gen = @ + 1]
                 ELSE [c EXCEPT !.nlink = @ - 1]

\* WriteInode and the directory blocks: what a commit puts on disk.
ToDisk(c, e) == [kind |-> c.kind, gen |-> c.gen, nlink |-> c.nlink,
                 ents |-> IF c.kind = "dir" THEN e ELSE {}]

-----------------------------------------------------------------------------
(* A client sends a request about a directory it has a handle for.         *)

DirHandles == {h.fh : h \in {g \in fhs : AnyHandle \/ g.kind = "dir"}}

ClientName == IF DotNames THEN NamesAll ELSE Name

Begin(t) ==
  /\ th[t].pc = "idle"
  /\ \E rpc \in Rpcs, dfh \in DirHandles, n \in NamesAll :
       \/ /\ rpc = "LOOKUP" \/ (rpc \notin {"RENAME", "READDIRPLUS"} /\ n \in ClientName)
          /\ th' = [th EXCEPT ![t] = [Idle EXCEPT !.pc = "dir", !.rpc = rpc, !.dfh = dfh, !.name = n]]
       \/ /\ rpc = "READDIRPLUS"
          /\ th' = [th EXCEPT ![t] = [Idle EXCEPT !.pc = "dir", !.rpc = rpc, !.dfh = dfh]]
       \/ /\ rpc = "RENAME"
          /\ \E dfh2 \in DirHandles, n2 \in ClientName :
               th' = [th EXCEPT ![t] = [Idle EXCEPT !.pc = "rename", !.rpc = rpc, !.dfh = dfh,
                                                    !.name = n, !.dfh2 = dfh2, !.name2 = n2]]
  /\ UNCHANGED <<disk, icache, ialloc, lock, fhs, up>>

IllegalName(n) == n \in {".", ".."}

\* doRemove returns no transaction then, and its callers abort what it returned.
RemoveIllegal(t) ==
  /\ th[t].pc = "dir" /\ th[t].rpc \in {"REMOVE", "RMDIR"} /\ IllegalName(th[t].name)
  /\ Panic

\* GetInodeFh of the directory: the first lock of every procedure but RENAME.
LockDir(t) ==
  LET d == th[t].dfh.ino IN
  /\ th[t].pc = "dir" /\ ~(th[t].rpc \in {"REMOVE", "RMDIR"} /\ IllegalName(th[t].name))
  /\ lock[d] = None
  /\ IF FhValid(th[t].dfh)
     THEN /\ GetInodeLocked(t, d)
          /\ th' = [th EXCEPT ![t].pc = IF th[t].rpc = "READDIRPLUS" THEN "list" ELSE "lookup"]
     ELSE /\ icache' = [icache EXCEPT ![d] = Cached(d)]
          /\ th' = [th EXCEPT ![t] = Idle]
          /\ UNCHANGED lock
  /\ UNCHANGED <<disk, ialloc, fhs, up>>

\* mkDcache: the map is filled while Apply visits, and locks, every entry.
mkDcache(t, d) ==
  /\ NoDcache(d)
  /\ \E f \in Dcaches(disk[d].ents) : icache' = [icache EXCEPT ![d].dc = f]
  /\ th' = [th EXCEPT ![t].scan = {e[2] : e \in disk[d].ents} \ Owned(t)]
  /\ UNCHANGED <<disk, ialloc, lock, fhs, up>>

\* One iteration of Apply: lock the entry's inode, look at it, release it.
\* ReleaseInode of a free inode dereferences nil.
Apply(t) ==
  \E i \in th[t].scan :
    /\ lock[i] = None
    /\ IF Cached(i).kind = "free"
       THEN Panic
       ELSE /\ icache' = [icache EXCEPT ![i] = Cached(i)]
            /\ th' = [th EXCEPT ![t].scan = @ \ {i}]
            /\ fhs' = IF th[t].rpc = "READDIRPLUS"
                      THEN fhs \cup {Handle(i, Cached(i))} ELSE fhs
            /\ UNCHANGED <<disk, ialloc, lock, up>>

\* READDIRPLUS: Ls3 runs Apply over the entries whatever the Dcache holds, and
\* stops when the reply is full.
READDIRPLUS(t) ==
  LET d == th[t].dfh.ino IN
  /\ th[t].pc = "list"
  /\ IF icache[d].kind # "dir"
     THEN errRet(t)
     ELSE /\ th' = [th EXCEPT ![t].pc = "listing",
                              ![t].scan = {e[2] : e \in disk[d].ents} \ {d}]
          /\ UNCHANGED <<disk, icache, ialloc, lock, fhs, up>>

READDIRPLUSDone(t) ==
  /\ th[t].pc = "listing"
  /\ errRet(t)

\* Faulty variant: the child is locked whatever its number.
AnyOrder(i, d) == TRUE

\* The child may be locked after the directory.
InOrder(i, d) == i >= d

\* getInodesLocked after the directory is locked.
getInodesLocked(t) ==
  LET d == th[t].dfh.ino
      i == LookupName(d, th[t].name) IN
  /\ th[t].pc = "lookup" /\ th[t].rpc \in {"LOOKUP", "REMOVE", "RMDIR"}
  /\ \/ mkDcache(t, d)
     \/ /\ ~NoDcache(d)
        /\ IF i = NULLINUM
           THEN errRet(t)
           ELSE IF i = d
           THEN /\ th' = [th EXCEPT ![t].pc = "body", ![t].inm = i]
                /\ UNCHANGED <<disk, icache, ialloc, lock, fhs, up>>
           ELSE IF ~InOrder(i, d)
           THEN AbortAndGoto(t, [th[t] EXCEPT !.pc = "ordered", !.inm = i, !.want = <<i, d>>])
           ELSE /\ th' = [th EXCEPT ![t].pc = "child", ![t].inm = i]
                /\ UNCHANGED <<disk, icache, ialloc, lock, fhs, up>>

LockChild(t) ==
  /\ th[t].pc = "child"
  /\ GetInodeLocked(t, th[t].inm)
  /\ th' = [th EXCEPT ![t].pc = "body"]
  /\ UNCHANGED <<disk, ialloc, fhs, up>>

\* One iteration of lockInodes: GetInodeInum of the next inode in want; a free
\* one makes it abort and return nil, and nil leads to the state onNil.
LockNext(t, onNil) ==
  LET i == Head(th[t].want) IN
  /\ th[t].want # <<>>
  /\ lock[i] = None
  /\ IF Cached(i).kind = "free"
     THEN /\ lock' = NoneOwned(t)
          /\ icache' = [icache EXCEPT ![i] = Cached(i)]
          /\ th' = [th EXCEPT ![t] = onNil]
     ELSE /\ GetInodeLocked(t, i)
          /\ th' = [th EXCEPT ![t].want = Tail(@)]
  /\ UNCHANGED <<disk, ialloc, fhs, up>>

\* getInodesLocked starts over.
Retry(t) == [th[t] EXCEPT !.pc = "dir", !.inm = NULLINUM, !.want = <<>>]

\* Faulty variant: the name is not looked up again.
SameDirectory(t) == icache[th[t].dfh.ino].gen = th[t].dfh.gen

\* lookupOrdered's checks once both inodes are locked.
Revalidated(t) ==
  /\ icache[th[t].dfh.ino].gen = th[t].dfh.gen
  /\ LookupName(th[t].dfh.ino, th[t].name) = th[t].inm

\* lookupOrdered: child first, then the parent, then revalidate.
lookupOrdered(t) ==
  LET d == th[t].dfh.ino IN
  /\ th[t].pc = "ordered"
  /\ \/ LockNext(t, Retry(t))
     \/ /\ th[t].want = <<>>
        /\ \/ mkDcache(t, d)
           \/ /\ ~NoDcache(d)
              /\ IF Revalidated(t)
                 THEN /\ th' = [th EXCEPT ![t].pc = "body"]
                      /\ UNCHANGED <<disk, icache, ialloc, lock, fhs, up>>
                 ELSE AbortAndGoto(t, Retry(t))

-----------------------------------------------------------------------------
(* Bodies.                                                                 *)

LOOKUP(t) ==
  /\ th[t].pc = "body" /\ th[t].rpc = "LOOKUP"
  /\ fhs' = fhs \cup {Handle(th[t].inm, icache[th[t].inm])}
  /\ Finish(t, {})
  /\ UNCHANGED <<disk, icache, ialloc, up>>

\* IsDirEmpty looks at the slots after "." and "..".
IsDirEmpty(d) == \A e \in disk[d].ents : e[1] \in {".", ".."}

\* doRemove: a REMOVE takes any kind, an RMDIR an empty directory.
doRemove(t) ==
  LET d == th[t].dfh.ino
      i == th[t].inm
      n == th[t].name
      c == DecLink(icache[i]) IN
  /\ th[t].pc = "body" /\ th[t].rpc \in {"REMOVE", "RMDIR"}
  /\ IF i = d
     THEN Panic
     ELSE IF \/ th[t].rpc = "RMDIR" /\ (icache[i].kind # "dir" \/ ~IsDirEmpty(i))
             \/ LookupName(d, n) = NULLINUM
     THEN errRet(t)
     ELSE /\ icache' = [icache EXCEPT ![d] = RemName(icache[d], n), ![i] = c]
          /\ disk' = [disk EXCEPT ![d] = ToDisk(icache[d], RemEnt(disk[d].ents, icache[d], n)),
                                  ![i] = ToDisk(c, disk[i].ents)]
          /\ Finish(t, IF c.kind = "free" THEN {i} ELSE {})
          /\ UNCHANGED <<ialloc, fhs, up>>

\* What AllocINum may return (numbers at the generation bound are left out).
Usable == {i \in Inum \ ialloc : Cached(i).gen < MaxGen}

\* Faulty variant: the number is not marked.
AllocINumUnmarked(i) == ialloc' = ialloc

\* AllocNum marks the number in the in-memory bitmap before it returns it.
AllocINum(i) == ialloc' = ialloc \cup {i}

\* Faulty variant: an existing name is not noticed.
NameNotChecked(d, n) == FALSE

NameTaken(d, n) == LookupName(d, n) # NULLINUM

Creating == {"CREATE", "SYMLINK", "MKDIR"}

\* getAlloc: the name must be new, then AllocINum picks a free number.
getAlloc(t) ==
  LET d == th[t].dfh.ino IN
  /\ th[t].pc = "lookup" /\ th[t].rpc \in Creating
  /\ \/ mkDcache(t, d)
     \/ /\ ~NoDcache(d)
        /\ IF NameTaken(d, th[t].name) \/ Usable = {}
           THEN errRet(t)
           ELSE /\ \E i \in Usable :
                     /\ AllocINum(i)
                     /\ th' = [th EXCEPT ![t].pc = "alloc", ![t].inm = i]
                /\ UNCHANGED <<disk, icache, lock, fhs, up>>

\* AllocInode locks the new inode and insists that it is free.
LockNew(t) ==
  LET i == th[t].inm IN
  /\ th[t].pc = "alloc"
  /\ lock[i] = None
  /\ IF Cached(i).kind # "free"
     THEN Panic
     ELSE /\ GetInodeLocked(t, i)
          /\ th' = [th EXCEPT ![t].pc = "body"]
          /\ UNCHANGED <<disk, ialloc, fhs, up>>

\* InitInode keeps the Dcache the slot had. InitDir adds "." and "..".
NewKind == [CREATE |-> "reg", SYMLINK |-> "lnk", MKDIR |-> "dir"]
InitInode(c, rpc) == [c EXCEPT !.kind = NewKind[rpc], !.nlink = 1, !.gen = @ + 1]
InitDir(c, i, d) ==
  LET e == IF c.dc = None THEN [c EXCEPT !.dc = <<>>] ELSE c
  IN  AddName(AddName(e, ".", i), "..", d)

\* doCreate. A failure after AllocInode frees the new inode again, in the
\* cache, and aborts; dip.Nlink is not restored.
doCreate(t) ==
  LET d == th[t].dfh.ino
      i == th[t].inm
      n == th[t].name
      mkdir == th[t].rpc = "MKDIR"
      ip == InitInode(icache[i], th[t].rpc)
      ipd == IF mkdir THEN InitDir(ip, i, d) ELSE ip
      dip == IF mkdir THEN [icache[d] EXCEPT !.nlink = @ + 1] ELSE icache[d] IN
  /\ th[t].pc = "body" /\ th[t].rpc \in Creating
  /\ \/ /\ icache[d].kind = "dir" /\ n \notin LongName
        /\ icache' = [icache EXCEPT ![d] = AddName(dip, n, i), ![i] = ipd]
        /\ disk' = [disk EXCEPT ![d] = ToDisk(dip, disk[d].ents \cup {<<n, i>>}),
                                ![i] = ToDisk(ipd, {<<".", i>>, <<"..", d>>})]
        /\ fhs' = fhs \cup {Handle(i, ip)}
        /\ Finish(t, {})
        /\ UNCHANGED <<ialloc, up>>
     \/ /\ NoSpace \/ icache[d].kind # "dir" \/ n \in LongName
        /\ icache' = [icache EXCEPT ![d] = dip, ![i] = DecLink(ipd)]
        /\ Finish(t, {i})
        /\ UNCHANGED <<disk, ialloc, fhs, up>>
     \/ /\ NoSpace /\ th[t].rpc # "CREATE"    \* InitDir, or Write of the link's data
        /\ icache' = [icache EXCEPT ![i] = DecLink(ip)]
        /\ Finish(t, {i})
        /\ UNCHANGED <<disk, ialloc, fhs, up>>

-----------------------------------------------------------------------------
(* RENAME.                                                                 *)

\* Faulty variant: the locks are taken in the caller's order.
lockInodesUnsorted(inums) == inums

\* The order in which lockInodes takes its locks. sort.Slice sorts fewer than
\* 12 elements by insertion; its comparison function looks at positions of
\* inums, which stays as it was, instead of positions of sorted.
Swaps(inums, i) ==
  Cardinality({j \in 2 .. i : \A m \in j .. i : inums[m] < inums[m - 1]})

lockInodes(inums) ==
  LET Insert(sorted, i, k) ==   \* the i-th element moves down to position k
        [j \in DOMAIN inums |->
           IF j = k THEN sorted[i] ELSE IF j \in k + 1 .. i THEN sorted[j - 1] ELSE sorted[j]]
      Sorted[i \in DOMAIN inums] ==
        IF i = 1 THEN inums ELSE Insert(Sorted[i - 1], i, i - Swaps(inums, i))
  IN  Sorted[Len(inums)]

\* The first locks: the one directory, or the two of them without a look at
\* the generations.
LockRename(t) ==
  LET fh == th[t].dfh IN
  /\ th[t].pc = "rename"
  /\ \/ /\ IllegalName(th[t].name)
        /\ errRet(t)
     \/ /\ ~IllegalName(th[t].name) /\ fh = th[t].dfh2
        /\ lock[fh.ino] = None
        /\ IF FhValid(fh)
           THEN /\ GetInodeLocked(t, fh.ino)
                /\ th' = [th EXCEPT ![t].pc = "names"]
           ELSE /\ icache' = [icache EXCEPT ![fh.ino] = Cached(fh.ino)]
                /\ th' = [th EXCEPT ![t] = Idle]
                /\ UNCHANGED lock
        /\ UNCHANGED <<disk, ialloc, fhs, up>>
     \/ /\ ~IllegalName(th[t].name) /\ fh # th[t].dfh2
        /\ th' = [th EXCEPT ![t].pc = "twodirs", ![t].want = lockInodes(<<fh.ino, th[t].dfh2.ino>>)]
        /\ UNCHANGED <<disk, icache, ialloc, lock, fhs, up>>

LockTwoDirs(t) ==
  /\ th[t].pc = "twodirs"
  /\ \/ LockNext(t, Idle)
     \/ /\ th[t].want = <<>>
        /\ th' = [th EXCEPT ![t].pc = "names"]
        /\ UNCHANGED <<disk, icache, ialloc, lock, fhs, up>>

\* The end of RENAME, from cached inodes c and entries e in which an existing
\* target has already been removed. When RemName or AddName fails the transaction aborts:
\* what RemName did to the Dcache stays.
RenameTail(t, c, e, frees) ==
  LET d == th[t].dfh.ino
      d2 == th[t].dfh2.ino
      from == c[d].dc[th[t].name]
      c1 == [c EXCEPT ![d] = RemName(c[d], th[t].name)]
      e1 == [e EXCEPT ![d] = RemEnt(e[d], c[d], th[t].name)]
      c2 == [c1 EXCEPT ![d2] = AddName(c1[d2], th[t].name2, from)]
      e2 == [e1 EXCEPT ![d2] = @ \cup {<<th[t].name2, from>>}] IN
  \/ /\ th[t].name \notin DOMAIN c[d].dc
     /\ icache' = c
     /\ Finish(t, {})
     /\ UNCHANGED <<disk, ialloc, fhs, up>>
  \/ /\ th[t].name \in DOMAIN c[d].dc /\ c[d2].kind = "dir" /\ th[t].name2 \notin LongName
     /\ icache' = c2
     /\ disk' = [i \in Inum |-> IF lock[i] = t THEN ToDisk(c2[i], e2[i]) ELSE disk[i]]
     /\ Finish(t, frees)
     /\ UNCHANGED <<ialloc, fhs, up>>
  \/ /\ th[t].name \in DOMAIN c[d].dc
     /\ c[d2].kind # "dir" \/ th[t].name2 \in LongName \/ (NoSpace /\ d # d2 /\ th[t].inm2 = NULLINUM)
     /\ icache' = c1
     /\ Finish(t, {})
     /\ UNCHANGED <<disk, ialloc, fhs, up>>

Entries == [i \in Inum |-> disk[i].ents]

\* With the directories locked: look both names up.
RenameNames(t) ==
  LET d == th[t].dfh.ino
      d2 == th[t].dfh2.ino
      from == LookupName(d, th[t].name)
      to == LookupName(d2, th[t].name2) IN
  /\ th[t].pc = "names"
  /\ \/ mkDcache(t, d)
     \/ /\ ~NoDcache(d) /\ from = NULLINUM
        /\ errRet(t)
     \/ /\ ~NoDcache(d) /\ from # NULLINUM
        /\ mkDcache(t, d2)
     \/ /\ ~NoDcache(d) /\ from # NULLINUM /\ ~NoDcache(d2)
        /\ IF d = d2 /\ to = from
           THEN errRet(t)    \* Commit of an empty transaction, the same effect
           ELSE IF to = NULLINUM
           THEN RenameTail(t, icache, Entries, {})
           ELSE AbortAndGoto(t, [th[t] EXCEPT !.pc = "all", !.inm = from, !.inm2 = to,
                  !.want = lockInodes(IF d # d2 THEN <<d, d2, from, to>> ELSE <<d, from, to>>)])

\* lockInodes of three or four inodes; a nil result is indexed.
LockAll(t) ==
  /\ th[t].pc = "all"
  /\ \/ /\ th[t].want # <<>> /\ lock[Head(th[t].want)] = None
        /\ Cached(Head(th[t].want)).kind = "free"
        /\ Panic
     \/ /\ th[t].want # <<>> /\ Cached(Head(th[t].want)).kind # "free"
        /\ LockNext(t, Idle)
     \/ /\ th[t].want = <<>>
        /\ th' = [th EXCEPT ![t].pc = "validate"]
        /\ UNCHANGED <<disk, icache, ialloc, lock, fhs, up>>

\* Faulty variant: the names are not looked up again.
NotValidated(t) == TRUE

\* The second half of validateRename: both names still mean the same inodes.
validateRename(t) ==
  /\ LookupName(th[t].dfh.ino, th[t].name) = th[t].inm
  /\ LookupName(th[t].dfh2.ino, th[t].name2) = th[t].inm2

\* validateRename, and the removal of the target.
RenameOver(t) ==
  LET d == th[t].dfh.ino
      d2 == th[t].dfh2.ino
      to == th[t].inm2
      from == th[t].inm
      c == DecLink(icache[to])
      gens == icache[d].gen = th[t].dfh.gen /\ icache[d2].gen = th[t].dfh2.gen
      retry == [th[t] EXCEPT !.pc = "rename", !.inm = NULLINUM, !.inm2 = NULLINUM] IN
  /\ th[t].pc = "validate"
  /\ \/ /\ ~gens
        /\ AbortAndGoto(t, retry)
     \/ /\ gens
        /\ mkDcache(t, d) \/ (~NoDcache(d) /\ mkDcache(t, d2))
     \/ /\ gens /\ ~NoDcache(d) /\ ~NoDcache(d2)
        /\ IF ~validateRename(t)
           THEN AbortAndGoto(t, retry)
           ELSE IF \/ icache[to].kind # icache[from].kind
                   \/ icache[to].kind = "dir" /\ ~IsDirEmpty(to)
                   \/ LookupName(d2, th[t].name2) = NULLINUM
           THEN errRet(t)
           ELSE RenameTail(t, [icache EXCEPT ![d2] = RemName(icache[d2], th[t].name2), ![to] = c],
                           [Entries EXCEPT ![d2] = RemEnt(Entries[d2], icache[d2], th[t].name2)],
                           IF c.kind = "free" THEN {to} ELSE {})

-----------------------------------------------------------------------------
(* The cache and the server as a whole.                                    *)

\* The LRU inode cache drops an inode. Dropping one that is locked takes
\* effect when its lock is released, since the holder keeps its pointer.
Evict(i) ==
  /\ ColdCaches
  /\ lock[i] = None /\ icache[i] # None
  /\ icache' = [icache EXCEPT ![i] = None]
  /\ UNCHANGED <<disk, ialloc, lock, th, fhs, up>>

\* The server dies (a panic or a crash) and starts again: MkFsState reads the
\* inode bitmap, the caches and the lock map are empty.
Restart ==
  /\ ColdCaches
  /\ icache' = [i \in Inum |-> None]
  /\ ialloc' = Allocated
  /\ lock' = [i \in Inum |-> None]
  /\ th' = [t \in Thread |-> Idle]
  /\ up' = TRUE
  /\ UNCHANGED <<disk, fhs>>

Step(t) ==
  \/ /\ th[t].scan # {}
     /\ Apply(t)
  \/ READDIRPLUSDone(t)
  \/ /\ th[t].scan = {}
     /\ \/ Begin(t) \/ Post(t) \/ RemoveIllegal(t) \/ LockDir(t) \/ READDIRPLUS(t)
        \/ getInodesLocked(t) \/ LockChild(t) \/ lookupOrdered(t) \/ LOOKUP(t) \/ doRemove(t)
        \/ getAlloc(t) \/ LockNew(t) \/ doCreate(t)
        \/ LockRename(t) \/ LockTwoDirs(t) \/ RenameNames(t) \/ LockAll(t) \/ RenameOver(t)

Next ==
  \/ up /\ \E t \in Thread : Step(t)
  \/ up /\ \E i \in Inum : Evict(i)
  \/ Restart

Spec == Init /\ [][Next]_vars

-----------------------------------------------------------------------------
(* Properties.                                                             *)

Files(d) == {e \in disk[d].ents : e[1] \notin {".", ".."}}
Dirs == {d \in Inum : disk[d].kind = "dir"}

\* On disk, and so after any crash, a directory entry names an inode that is
\* allocated and has a link, no inode has two names, and no directory two
\* entries of one name: no thread ever removes, replaces or re-creates an inode
\* that another has linked meanwhile (doRemove, doCreate, RENAME).
NamesConsistent ==
  /\ \A d \in Dirs : \A e \in disk[d].ents : disk[e[2]].kind # "free" /\ disk[e[2]].nlink > 0
  /\ \A d, d2 \in Dirs : \A e \in Files(d), e2 \in Files(d2) :
       (e[2] = e2[2] \/ (d = d2 /\ e[1] = e2[1])) => d = d2 /\ e = e2

\* While no thread holds an inode, its cached copy, Dcache included, is what is
\* on disk: the next thread to lock it acts on the truth (GetInodeLocked).
CacheMatchesDisk ==
  \A i \in Inum : icache[i] # None /\ lock[i] = None =>
    /\ icache[i].kind = disk[i].kind
    /\ icache[i].kind # "free" => icache[i].gen = disk[i].gen /\ icache[i].nlink = disk[i].nlink
    /\ icache[i].kind = "dir" /\ icache[i].dc # None =>
         {<<n, icache[i].dc[n]>> : n \in DOMAIN icache[i].dc} = disk[i].ents

\* No inode number the allocator may hand out is in use on disk or being used
\* by a transaction that has not finished (AllocINum, PostCommit, PostAbort).
AllocatorSound ==
  /\ Allocated \subseteq ialloc
  /\ \A t \in Thread : th[t].pc \in {"alloc", "body"} /\ th[t].rpc \in Creating =>
       th[t].inm \in ialloc \ Allocated
  /\ up /\ (\A t \in Thread : th[t].pc = "idle") => ialloc = Allocated

\* The lock thread t waits for, if it waits.
Wants(t) ==
  IF th[t].scan # {} THEN th[t].scan
  ELSE IF th[t].pc \in {"ordered", "twodirs", "all"} /\ th[t].want # <<>> THEN {Head(th[t].want)}
  ELSE IF th[t].pc \in {"child", "alloc"} THEN {th[t].inm}
  ELSE IF th[t].pc = "dir" \/ (th[t].pc = "rename" /\ th[t].dfh = th[t].dfh2) THEN {th[t].dfh.ino}
  ELSE {}

\* Everyone waiting on everyone never happens: no set of threads waits only for
\* locks its own members hold. This is what the lock order of getInodesLocked
\* and lockInodes is for.
NoDeadlock ==
  ~ \E S \in SUBSET Thread : S # {} /\
      \A t \in S : Wants(t) # {} /\ \A i \in Wants(t) : lock[i] \in S

\* When LOOKUP, REMOVE or RMDIR act, the directory is the one the client's
\* handle names and its entry of that name is the inode they act on, although
\* the locks were dropped and taken again on the way (getInodesLocked,
\* lookupOrdered).
LookupsCurrent ==
  \A t \in Thread : th[t].pc = "body" /\ th[t].rpc \in {"LOOKUP", "REMOVE", "RMDIR"} =>
    /\ disk[th[t].dfh.ino].gen = th[t].dfh.gen
    /\ <<th[t].name, th[t].inm>> \in disk[th[t].dfh.ino].ents
    /\ disk[th[t].inm].kind # "free"

\* A directory changes only on behalf of a thread whose request names it with
\* its present generation: a stale handle is never acted upon. What the request
\* changes is the name in the request (doRemove, doCreate, RENAME).
StaleHandleRefused ==
  [][\A d \in Dirs : disk'[d].ents # disk[d].ents =>
       \E t \in Thread :
         \/ disk'[d].kind = "free"
         \/ [ino |-> d, gen |-> disk[d].gen] = th[t].dfh /\ th[t].pc \in {"body", "names", "validate"}
         \/ [ino |-> d, gen |-> disk[d].gen] = th[t].dfh2 /\ th[t].pc \in {"names", "validate"}]_vars

\* No thread runs into one of the code's panics or dereferences a nil result:
\* AllocInode, lockInodes' callers, Apply.
NoPanic == up
=============================================================================
