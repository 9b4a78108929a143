--------------------------------- MODULE Dir ---------------------------------
(***************************************************************************)
(* The contents of one directory: its slots of DIRENTSZ bytes on disk      *)
(* (dir/dir.go), the map from names to slots kept with the cached inode    *)
(* (dir/dcache.go, dcache/dcache.go), and a client that lists it with      *)
(* READDIR or READDIRPLUS (nfs/nfs_ls.go), call by call and cookie by      *)
(* cookie, while other clients change it.                                  *)
(*                                                                         *)
(* A procedure holds the directory's lock from its first look to its       *)
(* commit, so each is one step here; how it gets the lock, and the inodes  *)
(* the entries name, are in Namespace. An offset is counted in slots.      *)
(***************************************************************************)
EXTENDS Naturals, Sequences, FiniteSets, FiniteSetsExt

CONSTANTS
  Name,         \* the names clients use, besides "." and ".."
  NameLen,      \* their lengths in bytes
  Inum,         \* numbers of the inodes clients' names may name
  Parent,       \* numbers of the directories it may be in
  Self,         \* the directory's own inode number
  BlockSlots,   \* slots in a block
  MaxSlots,     \* bound on the directory's size
  MaxGen,       \* bound on its generation
  Counts,       \* the counts clients pass to READDIR
  PlusCounts,   \* the pairs <<dircount, maxcount>> clients pass to READDIRPLUS
  CacheMax,     \* the maxcount mkDcache passes to Apply
  DirSizes,     \* the sizes in slots clients set on the directory with SETATTR
  RemoveAny,    \* BOOLEAN: clients remove the directory with REMOVE too
  OthersFull,   \* BOOLEAN: a RENAME to another directory may run out of blocks there
  None          \* no Dcache, no directory

DIRENTSZ == 128
MAXNAMELEN == DIRENTSZ - 16
NULLINUM == 0
NamesAll == Name \cup {".", ".."}
len(n) == IF n = "." THEN 1 ELSE IF n = ".." THEN 2 ELSE NameLen[n]

ASSUME DirAssumption ==
  /\ Name \cap {".", "..", ""} = {} /\ NameLen \in [Name -> Nat \ {0}]
  /\ Inum \cup Parent \cup {Self} \subseteq Nat \ {NULLINUM}
  /\ BlockSlots \in Nat \ {0} /\ BlockSlots >= 2 /\ MaxSlots \in Nat /\ MaxSlots >= 2 /\ MaxGen \in Nat
  /\ Counts \subseteq Nat /\ PlusCounts \subseteq Nat \X Nat /\ CacheMax \in Nat
  /\ DirSizes \subseteq Nat /\ RemoveAny \in BOOLEAN /\ OthersFull \in BOOLEAN
  /\ \A N \in SUBSET NamesAll : None \notin [N -> Inum \cup Parent \cup {Self}]

VARIABLES
  slots,  \* the directory's slots on disk, <<>> while the inode is free
  gen,    \* its generation: odd while it is a directory
  dc,     \* the Dcache of the cached inode: entries and Lastoff, or None
  rd      \* the client that lists

vars == <<slots, gen, dc, rd>>

Free == [name |-> "", inum |-> NULLINUM]
Slot == [name : NamesAll, inum : Inum \cup Parent \cup {Self}] \cup {Free}
Dentry == [inum : Inum \cup Parent \cup {Self}, off : 0 .. MaxSlots]
Live == gen % 2 = 1

\* The directory as the transaction of a procedure sees it.
Size(s) == Len(s)
At(s, k) == s[k + 1]
Used(s) == {k \in 0 .. Size(s) - 1 : At(s, k).inum # NULLINUM}
Entries(s) == {At(s, k) : k \in Used(s)}

\* The calls a client lists with: READDIR or READDIRPLUS, and the counts it passes.
Calls == {<<c>> : c \in Counts} \cup PlusCounts

TypeOK ==
  /\ slots \in Seq(Slot) /\ Size(slots) <= MaxSlots
  /\ gen \in 0 .. MaxGen /\ (~Live => slots = <<>>)
  /\ dc # None =>
       /\ DOMAIN dc.cache \subseteq NamesAll
       /\ \A n \in DOMAIN dc.cache : dc.cache[n] \in Dentry
       /\ dc.Lastoff \in 0 .. MaxSlots
  /\ rd \in [on : BOOLEAN, how : Calls \cup {<<>>}, gen : 0 .. MaxGen, cookie : 0 .. MaxSlots,
             twice : BOOLEAN, owed : SUBSET Slot, had : SUBSET Slot]

-----------------------------------------------------------------------------
(* Reading the slots.                                                      *)

\* ScanName: the first slot with the name.
ScanName(s, n) ==
  LET ks == {k \in Used(s) : At(s, k).name = n} IN
  IF ks = {} THEN [inum |-> NULLINUM, off |-> 0]
  ELSE [inum |-> At(s, Min(ks)).inum, off |-> Min(ks)]

\* Faulty variant: the listing resumes at the last slot the client has.
beginAgain(cookie) == cookie

\* The cookie names the last slot the client has.
begin(cookie) == IF cookie # 0 THEN cookie + 1 ELSE 0

\* The used slots from b on, and those a loop over the slots ks visits when it
\* leaves after the first one in full.
UsedFrom(s, b) == {k \in Used(s) : k >= b}
UpToFirst(ks, full) == {k \in ks : \A j \in full : k <= j}

\* A counter to which a loop adds w[j] at slot j, as it is after each slot.
Running(w) ==
  LET n[j \in Nat] == (IF j = 0 THEN 0 ELSE n[j - 1]) + w[j] IN n

\* The bytes a loop from slot b has counted after slot k: per bytes and the name
\* for each entry.
Counted(s, b, k, per) ==
  Running([j \in Nat |-> IF j \in Used(s) /\ j >= b THEN per + len(At(s, j).name) ELSE 0])[k]

entryplus3Baggage == 8 + 4 + 8 + (4 + 84) + 16 + 8

ApplyFull(s, b, k, dircount, maxcount) ==
  \/ Counted(s, b, k, 8) >= dircount
  \/ 64 + Counted(s, b, k, entryplus3Baggage) >= maxcount

\* Apply: the slots it calls f for. READDIRPLUS and mkDcache run it.
Apply(s, start, dircount, maxcount) ==
  LET ks == UsedFrom(s, begin(start))
  IN  UpToFirst(ks, {k \in ks : ApplyFull(s, begin(start), k, dircount, maxcount)})

\* ApplyEnts, which READDIR runs.
ApplyEntsFull(s, b, k, count) == 64 + Counted(s, b, k, 16 + 8 + 8) >= count
ApplyEnts(s, start, count) ==
  LET ks == UsedFrom(s, begin(start))
  IN  UpToFirst(ks, {k \in ks : ApplyEntsFull(s, begin(start), k, count)})

\* Faulty variant: the slot after "." and ".." is not looked at.
IsDirEmptyFrom3(s) == \A k \in Used(s) : k < 3

\* IsDirEmpty looks at the slots after "." and "..".
IsDirEmpty(s) == \A k \in Used(s) : k < 2

-----------------------------------------------------------------------------
(* The Dcache. c is the Dcache, s the slots the transaction sees.          *)

\* Dcache.Add for the slots ks in turn: of two slots of one name the later wins.
DcacheOf(s, ks) ==
  LET Last(n) == CHOOSE k \in ks : At(s, k).name = n /\ \A j \in ks : At(s, j).name = n => j <= k IN
  [cache |-> [n \in {At(s, k).name : k \in ks} |-> [inum |-> At(s, Last(n)).inum, off |-> Last(n)]],
   Lastoff |-> 0]

\* Faulty variant: the size is passed in slots, not in bytes.
mkDcacheSlots(s) == DcacheOf(s, Apply(s, 0, Size(s), CacheMax))

\* mkDcache: Apply with the size of the directory as dircount.
mkDcache(s) == DcacheOf(s, Apply(s, 0, Size(s) * DIRENTSZ, CacheMax))

\* The Dcache, made first if there is none.
Dcache == IF dc = None THEN mkDcache(slots) ELSE dc

LookupName(c, n) == IF n \in DOMAIN c.cache THEN c.cache[n] ELSE [inum |-> NULLINUM, off |-> 0]

\* AddNameDir: the first free slot from Lastoff on; offset 0 stands for none,
\* and none means a new slot at the end.
AddNameDir(s, lastoff) ==
  LET free == {k \in lastoff .. Size(s) - 1 : At(s, k).inum = NULLINUM}
  IN  IF free = {} \/ Min(free) = 0 THEN Size(s) ELSE Min(free)

\* Write of one slot: in place or at the end.
Write(s, k, e) == IF k = Size(s) THEN Append(s, e) ELSE [s EXCEPT ![k + 1] = e]

\* The slot at the end starts a block: the write allocates, and may fail.
NeedsBlock(s, k) == k = Size(s) /\ k % BlockSlots = 0

\* AddName, as the new slots and the new Dcache.
AddName(s, c, n, i) ==
  LET k == AddNameDir(s, c.Lastoff) IN
  [slots |-> Write(s, k, [name |-> n, inum |-> i]),
   dc    |-> [cache |-> [x \in DOMAIN c.cache \cup {n} |->
                           IF x = n THEN [inum |-> i, off |-> k] ELSE c.cache[x]],
              Lastoff |-> k]]
AddMayFail(s, c) == NeedsBlock(s, AddNameDir(s, c.Lastoff))
LongName(n) == len(n) >= MAXNAMELEN

\* Faulty variant: Lastoff stays where it was.
RemNameKeepsLastoff(s, c, n) ==
  LET k == c.cache[n].off IN
  [slots |-> Write(s, k, Free),
   dc    |-> [cache |-> [x \in DOMAIN c.cache \ {n} |-> c.cache[x]], Lastoff |-> c.Lastoff]]

\* RemName of a name the Dcache has, as the new slots and the new Dcache.
RemName(s, c, n) ==
  LET k == c.cache[n].off IN
  [slots |-> Write(s, k, Free),
   dc    |-> [cache |-> [x \in DOMAIN c.cache \ {n} |-> c.cache[x]], Lastoff |-> k]]

\* InitDir: ".", then "..". The Dcache an earlier directory of this inode left
\* behind is used again.
InitDir(c, p) ==
  LET a == AddName(<<>>, c, ".", Self) IN AddName(a.slots, a.dc, "..", p)
-----------------------------------------------------------------------------
(* The procedures. A change to the slots is what the procedure commits; the *)
(* Dcache is changed at once and stays as it is when the procedure aborts. *)

NoList == [on |-> FALSE, how |-> <<>>, gen |-> 0, cookie |-> 0, twice |-> FALSE, owed |-> {}, had |-> {}]

Init ==
  /\ \E p \in Parent : slots = <<[name |-> ".", inum |-> Self], [name |-> "..", inum |-> p]>>
  /\ gen = 1
  /\ dc = None
  /\ rd = NoList

\* The slots become s, the Dcache c. A listing in progress owes its client the
\* entries that have been there since it began, and not again those it had.
Commit(s, c) ==
  /\ Size(s) <= MaxSlots
  /\ slots' = s /\ dc' = c
  /\ rd' = IF rd.on THEN [rd EXCEPT !.owed = @ \cap Entries(s), !.had = @ \cap Entries(s)] ELSE NoList
  /\ UNCHANGED gen

\* errRet, with the Dcache as the procedure leaves it.
errRet(c) ==
  /\ dc' = c
  /\ UNCHANGED <<slots, gen, rd>>

\* LOOKUP leaves the Dcache behind that it has used; what it answers is
\* LookupName, which LookupMatchesScan is about.
LOOKUP(c) ==
  /\ Live
  /\ dc' = c
  /\ UNCHANGED <<slots, gen, rd>>

\* The numbers no entry has: those AllocInode, or another directory, may supply.
Others == Inum \ {e.inum : e \in Entries(slots)}

\* CREATE, MKDIR and SYMLINK of a new name.
CREATE(c, n) ==
  /\ Live
  /\ \/ /\ LookupName(c, n).inum # NULLINUM
        /\ errRet(c)
     \/ /\ LookupName(c, n).inum = NULLINUM
        /\ LongName(n) \/ AddMayFail(slots, c)
        /\ errRet(c)
     \/ /\ LookupName(c, n).inum = NULLINUM
        /\ ~LongName(n)
        /\ \E i \in Others : LET a == AddName(slots, c, n, i) IN Commit(a.slots, a.dc)

\* REMOVE, or RMDIR of an empty directory. A RENAME to another directory takes
\* the name away in the same way; when its AddName fails there, the slots are as
\* before and the Dcache is not.
REMOVE(c, n) ==
  LET r == RemName(slots, c, n) IN
  /\ Live
  /\ \/ /\ LookupName(c, n).inum = NULLINUM
        /\ errRet(c)
     \/ /\ LookupName(c, n).inum # NULLINUM
        /\ Commit(r.slots, r.dc)
     \/ /\ LookupName(c, n).inum # NULLINUM /\ OthersFull
        /\ errRet(r.dc)

\* A RENAME from another directory to name m of this one. An existing m must be
\* of the same kind and empty.
RENAMEInto(c, m) ==
  LET to == LookupName(c, m).inum
      r  == IF to = NULLINUM THEN [slots |-> slots, dc |-> c] ELSE RemName(slots, c, m)
  IN
  /\ Live
  /\ \/ /\ to # NULLINUM
        /\ errRet(c)
     \/ /\ LongName(m) \/ AddMayFail(r.slots, r.dc)
        /\ errRet(r.dc)
     \/ /\ ~LongName(m)
        /\ \E i \in Others : LET a == AddName(r.slots, r.dc, m, i) IN Commit(a.slots, a.dc)

\* A RENAME within the directory: an existing target goes first, then the
\* source is removed and added under its new name.
RENAME(c, n, m) ==
  LET from == LookupName(c, n).inum
      to   == LookupName(c, m).inum
      r    == IF to = NULLINUM THEN [slots |-> slots, dc |-> c] ELSE RemName(slots, c, m)
      q    == RemName(r.slots, r.dc, n)
      a    == AddName(q.slots, q.dc, m, from)
  IN
  /\ Live
  /\ \/ /\ from = NULLINUM
        /\ errRet(c)
     \/ /\ from # NULLINUM /\ to = from
        /\ Commit(slots, c)
     \/ /\ from # NULLINUM /\ to \notin {NULLINUM, from}
        /\ errRet(c)
     \/ /\ from # NULLINUM /\ to # from
        /\ LongName(m) \/ AddMayFail(q.slots, q.dc)
        /\ errRet(q.dc)
     \/ /\ from # NULLINUM /\ to # from /\ ~LongName(m)
        /\ Commit(a.slots, a.dc)

\* SETATTR of a size the directory has: Resize does not ask what kind of inode
\* this is, and leaves the Dcache alone.
SETATTR(k) ==
  /\ Live /\ k <= Size(slots)
  /\ Commit(SubSeq(slots, 1, k), dc)

\* The directory itself is removed: RMDIR, and RENAME over it, insist that it is
\* empty, REMOVE does not. The cached inode keeps its Dcache.
RMDIR ==
  /\ Live /\ gen < MaxGen
  /\ \/ /\ ~IsDirEmpty(slots)
        /\ errRet(dc)
     \/ /\ IsDirEmpty(slots) \/ RemoveAny
        /\ slots' = <<>> /\ gen' = gen + 1
        /\ UNCHANGED <<dc, rd>>

\* MKDIR gives the inode number to a new directory in directory p.
MKDIR(c, p) ==
  LET d == InitDir(c, p) IN
  /\ ~Live /\ gen < MaxGen
  /\ \/ errRet(c)      \* no block for the first slot
     \/ errRet(d.dc)   \* no room for the name in the parent
     \/ /\ slots' = d.slots /\ dc' = d.dc /\ gen' = gen + 1
        /\ UNCHANGED rd

\* The inode is evicted from the cache, or the server restarts.
Drop ==
  /\ dc # None
  /\ dc' = None
  /\ UNCHANGED <<slots, gen, rd>>

-----------------------------------------------------------------------------
(* Listing.                                                                *)

\* The listing as the next call finds it: the one in progress or a new one.
Listing(how) ==
  IF rd.on THEN rd
  ELSE [on |-> TRUE, how |-> how, gen |-> gen, cookie |-> 0, twice |-> FALSE,
        owed |-> Entries(slots), had |-> {}]

\* Ls3 and Readdir3: the reply holds the entries of the slots ks, each with its
\* offset as the cookie; eof unless the loop was left early. The client goes
\* on from the last cookie until it sees eof.
Reply(l, ks, eof) ==
  LET new == {At(slots, k) : k \in ks} IN
  rd' = [l EXCEPT !.on = ~eof, !.cookie = IF ks = {} THEN @ ELSE Max(ks),
                  !.owed = @ \ new, !.had = @ \cup new, !.twice = @ \/ l.had \cap new # {}]

\* GetInodeFh refuses the handle of a directory that is gone, even when a new
\* one has its number.
Stale ==
  /\ rd.on /\ rd.gen # gen
  /\ rd' = NoList
  /\ UNCHANGED <<slots, gen, dc>>

READDIR(l, count) ==
  \E ks \in {ApplyEnts(slots, l.cookie, count)} :
    Reply(l, ks, \A k \in ks : ~ApplyEntsFull(slots, begin(l.cookie), k, count))

READDIRPLUS(l, dircount, maxcount) ==
  \E ks \in {Apply(slots, l.cookie, dircount, maxcount)} :
    Reply(l, ks, \A k \in ks : ~ApplyFull(slots, begin(l.cookie), k, dircount, maxcount))

\* A client begins to list, or goes on with the call it has begun with.
List(how) ==
  LET l == Listing(how) IN
  /\ Live /\ l.gen = gen /\ l.how = how
  /\ \/ Len(how) = 1 /\ READDIR(l, how[1])
     \/ Len(how) = 2 /\ READDIRPLUS(l, how[1], how[2])
  /\ UNCHANGED <<slots, gen, dc>>

\* The procedures that use the Dcache c, found or made.
UseDcache(c) ==
  \/ LOOKUP(c)
  \/ \E n \in Name : CREATE(c, n) \/ REMOVE(c, n) \/ RENAMEInto(c, n)
  \/ \E n, m \in Name : RENAME(c, n, m)
  \/ \E p \in Parent : MKDIR(c, p)

Next ==
  \/ \E c \in {Dcache} : UseDcache(c)
  \/ \E k \in DirSizes : SETATTR(k)
  \/ RMDIR \/ Drop \/ Stale
  \/ \E how \in Calls : List(how)

\* A client that has begun to list goes on until it is told eof or stale.
Fairness == WF_vars(Stale) /\ \A how \in Calls : WF_vars(rd.on /\ List(how))

Spec == Init /\ [][Next]_vars /\ Fairness

-----------------------------------------------------------------------------
(* Properties.                                                             *)

\* The Dcache of a directory answers every lookup as a scan of the slots would,
\* number and offset: after insertions into reused slots, removals, a rebuild
\* from disk, and the reuse of the inode for a new directory (mkDcache,
\* AddName, RemName, InitInode).
LookupMatchesScan ==
  Live /\ dc # None => \A n \in NamesAll : LookupName(dc, n) = ScanName(slots, n)

\* A client that lists a directory in several calls is given every entry that
\* was there all the time exactly once, whatever else was added, removed or
\* renamed between the calls (Apply, ApplyEnts, the cookies of Ls3 and
\* Readdir3).
ListedOnce == ~rd.twice /\ (~rd.on => rd.owed = {})

\* Every listing ends: each reply takes the client past the slots of the one
\* before (begin, Apply, ApplyEnts).
ListingEnds == rd.on ~> ~rd.on

\* A directory grows only in a step that adds an entry and takes none away: a
\* RENAME within it, or over one of its names, finds the slot RemName has just
\* freed, so its AddName cannot fail for want of a block when RemName has
\* already changed the Dcache (AddNameDir, Lastoff).
RenameReusesSlot ==
  [][Size(slots') > Size(slots) =>
       Entries(slots) \subseteq Entries(slots') /\ Entries(slots) # Entries(slots')]_vars

Abs == INSTANCE DirSpec WITH
  ents <- IF ~Live THEN None ELSE
            [n \in {e.name : e \in Entries(slots)} |-> (CHOOSE e \in Entries(slots) : e.name = n).inum]

\* The slots and the Dcache together behave like a map from names to numbers.
ImplementsDirSpec == Abs!Spec
=============================================================================
