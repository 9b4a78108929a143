--------------------------- MODULE LockOrderProofs ---------------------------
(***************************************************************************)
(* Threads never wait for each other in a circle, whatever procedures but   *)
(* RENAME they run: from the invariant of NamespaceProofs, which says which *)
(* locks a thread has where it is, and from the order in which the          *)
(* procedures lock inodes.                                                 *)
(***************************************************************************)
EXTENDS NamespaceProofs, FiniteSetTheorems, NaturalsInduction, WellFoundedInduction

-----------------------------------------------------------------------------
(* Deadlock: a thread that has a lock waits only for a larger inode number. *)

LEMMA Least == ASSUME NEW T, T \subseteq Nat, T # {} PROVE \E x \in T : \A y \in T : x <= y
<1> DEFINE R == {ss \in Nat \X Nat : ss[1] < ss[2]}
<1>1. IsWellFoundedOn(R, Nat) BY NatLessThanWellFounded DEF OpToRel
<1>2. \A a, b \in Nat : a < b => <<a, b>> \in R OBVIOUS
<1> HIDE DEF R
<1>3. PICK x \in T : \A y \in T : ~(<<y, x>> \in R) BY <1>1, WFMin
<1>4. ASSUME NEW y \in T PROVE x <= y
  <2>1. x \in Nat /\ y \in Nat OBVIOUS
  <2>2. ~(y < x) BY <1>2, <1>3, <2>1
  <2> QED BY <2>1, <2>2
<1> QED BY <1>4

\* The largest number is the one with the fewest above it.
LEMMA Largest ==
  ASSUME NEW W, W \subseteq Nat, W # {}, IsFiniteSet(W)
  PROVE  \E m \in W : \A k \in W : k <= m
<1> DEFINE Above(m) == {k \in W : k > m}
           T == {Cardinality(Above(m)) : m \in W}
<1>1. ASSUME NEW m \in W PROVE IsFiniteSet(Above(m)) /\ Cardinality(Above(m)) \in Nat
  <2>1. Above(m) \subseteq W OBVIOUS
  <2> HIDE DEF Above
  <2> QED BY <2>1, FS_Subset, FS_CardinalityType
<1>2. T \subseteq Nat /\ T # {} BY <1>1
<1>3. PICK x \in T : \A y \in T : x <= y BY <1>2, Least
<1>4. PICK m \in W : x = Cardinality(Above(m)) OBVIOUS
<1>5. ASSUME NEW k \in W, k > m PROVE FALSE
  <2>1. k \in Nat /\ m \in Nat /\ \A j \in W : j \in Nat OBVIOUS
  <2>2. Above(k) \subseteq Above(m) /\ k \in Above(m) /\ k \notin Above(k)
    <3>1. \A j \in W : j > k => j > m BY <1>5, <2>1
    <3>2. ~(k > k) BY <2>1
    <3> QED BY <1>5, <3>1, <3>2
  <2>3. Cardinality(Above(k)) \in T OBVIOUS
  <2>4. Cardinality(Above(k)) \in Nat /\ Cardinality(Above(m)) \in Nat /\ IsFiniteSet(Above(m)) BY <1>1
  <2>5. Cardinality(Above(m)) <= Cardinality(Above(k)) BY <1>3, <1>4, <2>3
  <2> HIDE DEF Above, T
  <2>6. Cardinality(Above(k)) <= Cardinality(Above(m)) /\ Cardinality(Above(k)) # Cardinality(Above(m))
    BY <2>2, <2>4, FS_Subset
  <2> QED BY <2>4, <2>5, <2>6
<1>6. \A k \in W : k \in Nat /\ m \in Nat OBVIOUS
<1> QED BY <1>5, <1>6

\* No thread is in the middle of an Apply: Dcaches are there and nobody lists.
LEMMA NoScan ==
  ASSUME NInv, ~ColdCaches, "READDIRPLUS" \notin Rpcs, NEW t \in Thread
  PROVE  th[t].scan = {}
<1>1. Place(t) /\ Asked(t) BY DEF NInv, ThreadOK
<1>2. CASE th[t].pc = "listing" BY <1>1, <1>2 DEF Place, Asked
<1>3. CASE th[t].pc # "listing" BY <1>1, <1>3 DEF Place
<1> QED BY <1>2, <1>3

\* The number AllocINum gave a thread is locked by nobody who waits.
LEMMA NewUnlocked ==
  ASSUME NInv, NEW t \in Thread, th[t].pc = "alloc", NEW u \in Thread, th[t].inm \in Owned(u)
  PROVE  th[u].pc = "body" \/ (th[u].pc = "ordered" /\ th[u].want = <<>>)
<1>1. /\ TypeOK /\ Place(t) /\ Place(u) /\ Knows(u) /\ AllocOK BY DEF NInv, ThreadOK
<1>2. th[t].inm \in Holds(t) BY <1>1 DEF Place, Holds
<1>3. disk[th[t].inm].kind = "free" BY <1>1, <1>2 DEF AllocOK
<1>4. th[u].pc \in AtDir \cup {"ordered", "body"} BY <1>1 DEF Place
<1>5. CASE th[u].pc \in AtDir
  <2>1. Owned(u) = {th[u].dfh.ino} BY <1>1, <1>5 DEF Place
  <2>2. disk[th[u].dfh.ino].kind # "free" BY <1>1, <1>5 DEF Knows
  <2> QED BY <1>3, <2>1, <2>2
<1>6. CASE th[u].pc = "ordered"
  <2>1. \/ th[u].want = <<th[u].inm, th[u].dfh.ino>> /\ Owned(u) = {}
        \/ th[u].want = <<th[u].dfh.ino>> /\ Owned(u) = {th[u].inm}
        \/ th[u].want = <<>>
    BY <1>1, <1>6 DEF Place
  <2>2. th[u].want = <<th[u].dfh.ino>> => th[u].want # <<th[u].inm, th[u].dfh.ino>> OBVIOUS
  <2>3. th[u].want = <<th[u].dfh.ino>> => disk[th[u].inm].kind # "free" BY <1>1, <1>6, <2>2 DEF Knows
  <2> QED BY <1>3, <1>6, <2>1, <2>3
<1> QED BY <1>4, <1>5, <1>6

\* A thread that waits while it has a lock waits for a larger number, or for a
\* new inode.
LEMMA WaitsUpwards ==
  ASSUME NInv, NEW t \in Thread, th[t].scan = {}, NEW i \in Owned(t), NEW j \in Wants(t)
  PROVE  th[t].pc = "alloc" \/ i < j
<1>1. TypeOK /\ Place(t) BY DEF NInv, ThreadOK
<1>2. /\ th[t].dfh.ino \in Nat /\ th[t].pc \in AtDir \cup {"idle", "dir", "ordered", "body", "post"}
      /\ th[t].pc \in {"idle", "dir", "post"} => Owned(t) = {}
  BY <1>1, ThreadFields, NoneFacts DEF Place
<1>3. CASE th[t].pc = "ordered"
  <2>1. /\ th[t].inm < th[t].dfh.ino
        /\ \/ th[t].want = <<th[t].inm, th[t].dfh.ino>> /\ Owned(t) = {}
           \/ th[t].want = <<th[t].dfh.ino>> /\ Owned(t) = {th[t].inm}
           \/ th[t].want = <<>>
    BY <1>1, <1>3 DEF Place
  <2>2. th[t].want # <<>> /\ j = Head(th[t].want) BY <1>3 DEF Wants
  <2>3. th[t].want = <<th[t].dfh.ino>> /\ i = th[t].inm BY <2>1, <2>2
  <2> QED BY <2>1, <2>2, <2>3
<1>4. CASE th[t].pc = "child"
  <2>1. Owned(t) = {th[t].dfh.ino} /\ th[t].dfh.ino < th[t].inm BY <1>1, <1>4 DEF Place, AtDir
  <2>2. j = th[t].inm BY <1>4 DEF Wants
  <2> QED BY <2>1, <2>2
<1>5. CASE th[t].pc \in {"list", "listing", "lookup", "body"} BY <1>5 DEF Wants
<1> QED BY <1>2, <1>3, <1>4, <1>5 DEF AtDir

\* No set of threads waits only for locks its members have, with the Dcaches
\* built and nobody listing (mkDcache and Ls3 lock the entries of a directory
\* in the order of its slots, which deadlocks). This is what the lock order of
\* getInodesLocked and lookupOrdered achieves; the inode doCreate makes may
\* have any number, and is safe because nobody can know it.
THEOREM DeadlockFree ==
  ASSUME NoRename, CleanMkdir, ~ColdCaches, "READDIRPLUS" \notin Rpcs
  PROVE  Spec => []NoDeadlock
<1>1. ASSUME NInv, NEW S \in SUBSET Thread, S # {},
             \A t \in S : Wants(t) # {} /\ \A i \in Wants(t) : lock[i] \in S
      PROVE  FALSE
  <2>1. ASSUME NEW t \in S
        PROVE  th[t].scan = {} /\ th[t].pc # "alloc" /\ Wants(t) \subseteq Inum
    <3>1. t \in Thread /\ TypeOK /\ Place(t) BY <1>1 DEF NInv, ThreadOK
    <3>2. th[t].scan = {} BY <1>1, <3>1, NoScan
    <3>3. Wants(t) \subseteq Inum
      <4>1. CASE th[t].pc = "ordered"
        <5>1. th[t].want \in Seq(Inum) BY <3>1, ThreadFields
        <5>2. th[t].want # <<>> => Head(th[t].want) \in Inum BY <5>1
        <5> QED BY <3>2, <4>1, <5>2 DEF Wants
      <4>2. CASE th[t].pc \in {"child", "alloc"}
        <5>1. th[t].inm \in Inum BY <3>1, <4>2 DEF Place
        <5> QED BY <3>2, <4>2, <5>1 DEF Wants
      <4>3. CASE th[t].pc = "dir"
        <5>1. th[t].dfh.ino \in Inum BY <3>1, ThreadFields
        <5> QED BY <3>2, <4>3, <5>1 DEF Wants
      <4>4. CASE th[t].pc \in {"idle", "list", "listing", "lookup", "body", "post"}
        BY <3>2, <4>4 DEF Wants
      <4> QED BY <3>1, <4>1, <4>2, <4>3, <4>4 DEF Place, AtDir
    <3>4. ASSUME th[t].pc = "alloc" PROVE FALSE
      <4>1. Wants(t) = {th[t].inm} /\ th[t].inm \in Inum BY <3>2, <3>3, <3>4 DEF Wants
      <4>2. PICK u \in S : lock[th[t].inm] = u BY <1>1, <4>1
      <4>3. u \in Thread /\ th[t].inm \in Owned(u) BY <1>1, <4>1, <4>2 DEF Owned
      <4>4. th[u].pc = "body" \/ (th[u].pc = "ordered" /\ th[u].want = <<>>)
        BY <1>1, <3>1, <3>4, <4>3, NewUnlocked
      <4>5. th[u].scan = {} BY <1>1, <4>3, NoScan
      <4>6. Wants(u) = {} BY <4>4, <4>5 DEF Wants
      <4> QED BY <1>1, <4>2, <4>6
    <3> QED BY <3>2, <3>3, <3>4
  <2> DEFINE W == {i \in Inum : \E t \in S : i \in Wants(t)}
  <2>2. W # {}
    <3>1. PICK t \in S : TRUE BY <1>1
    <3>2. PICK i : i \in Wants(t) BY <1>1
    <3> QED BY <2>1, <3>2
  <2>3. W \subseteq Nat /\ IsFiniteSet(W)
    <3>1. W \subseteq Inum /\ IsFiniteSet(Inum) BY NamespaceAssumption
    <3> HIDE DEF W
    <3> QED BY <3>1, FS_Subset, NoneFacts
  <2> HIDE DEF W
  <2>4. PICK m \in W : \A k \in W : k <= m BY <2>2, <2>3, Largest
  <2>5. PICK t \in S : m \in Inum /\ m \in Wants(t) BY DEF W
  <2>6. PICK u \in S : lock[m] = u BY <1>1, <2>5
  <2>7. u \in Thread /\ m \in Owned(u) BY <1>1, <2>5, <2>6 DEF Owned
  <2>8. PICK j : j \in Wants(u) BY <1>1
  <2>9. m < j BY <1>1, <2>1, <2>7, <2>8, WaitsUpwards
  <2>10. j \in W /\ j \in Nat /\ m \in Nat BY <2>1, <2>3, <2>8 DEF W
  <2> QED BY <2>4, <2>9, <2>10
<1>2. NInv => NoDeadlock BY <1>1 DEF NoDeadlock
<1> QED BY <1>2, AlwaysNInv, PTL
=============================================================================
