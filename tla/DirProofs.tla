------------------------------ MODULE DirProofs ------------------------------
(***************************************************************************)
(* Proofs about Dir, for any names, numbers, sizes and counts: the Dcache   *)
(* answers as a scan would, slots are reused, a listing gives every entry   *)
(* once, and the directory implements DirSpec.                              *)
(*                                                                         *)
(* The inductive invariant DirInv says that a directory has "." and ".." in *)
(* its first slots and every name once, and that the Dcache has exactly its *)
(* entries. Changes lists what a procedure can do to the slots; each        *)
(* theorem then looks at those few kinds of change.                         *)
(***************************************************************************)
EXTENDS Dir, NaturalsInduction, WellFoundedInduction, TLAPS

\* Most leaves are first-order; the ones with arithmetic, records or long
\* case splits name SMT.
USE Zenon

-----------------------------------------------------------------------------
(* Numbers.                                                                *)

LEMMA Least == ASSUME NEW T, T \subseteq Nat, T # {} PROVE \E x \in T : \A y \in T : x <= y
<1> DEFINE R == {ss \in Nat \X Nat : ss[1] < ss[2]}
<1>1. IsWellFoundedOn(R, Nat) BY NatLessThanWellFounded DEF OpToRel
<1>2. \A a, b \in Nat : a < b => <<a, b>> \in R OBVIOUS
<1> HIDE DEF R
<1>3. PICK x \in T : \A y \in T : ~(<<y, x>> \in R) BY <1>1, WFMin
<1>4. ASSUME NEW y \in T PROVE x <= y
  <2>1. x \in Nat /\ y \in Nat OBVIOUS
  <2>2. ~(y < x) BY <1>2, <1>3, <2>1
  <2> QED BY SMT, <2>1, <2>2
<1> QED BY <1>4

\* A set of numbers with 0 and every successor has all of them.
LEMMA Everything ==
  ASSUME NEW P, P \subseteq Nat, 0 \in P, \A n \in P : n + 1 \in P
  PROVE  \A n \in Nat : n \in P
<1> SUFFICES ASSUME NEW k \in Nat, k \notin P PROVE FALSE OBVIOUS
<1>1. Nat \ P \subseteq Nat /\ Nat \ P # {} OBVIOUS
<1>2. PICK m \in Nat \ P : \A y \in Nat \ P : m <= y BY <1>1, Least
<1>3. m # 0 /\ m - 1 \in Nat /\ ~(m <= m - 1) BY SMT
<1>4. m - 1 \in P BY <1>2, <1>3
<1>5. (m - 1) + 1 = m BY SMT
<1> QED BY <1>4, <1>5

\* Min and Max of a set of numbers below a bound.
LEMMA MinFacts ==
  ASSUME NEW T, T \subseteq Nat, T # {}
  PROVE  Min(T) \in T /\ \A y \in T : Min(T) <= y
BY Least DEF Min

LEMMA MaxFacts ==
  ASSUME NEW T, NEW N \in Nat, T \subseteq 0 .. N, T # {}
  PROVE  Max(T) \in T /\ \A y \in T : y <= Max(T)
<1> DEFINE U == {N - y : y \in T}
<1>1. \A y \in T : y \in Nat /\ y <= N /\ N - y \in Nat BY SMT
<1>2. U \subseteq Nat /\ U # {} BY <1>1
<1>3. PICK x \in U : \A z \in U : x <= z BY <1>2, Least
<1>4. PICK m \in T : x = N - m OBVIOUS
<1>5. ASSUME NEW y \in T PROVE y <= m
  <2>1. N - m <= N - y BY <1>3, <1>4
  <2> QED BY SMT, <1>1, <2>1
<1> QED BY <1>5 DEF Max

-----------------------------------------------------------------------------
(* The counters of the loops.                                              *)

\* g is the counter up to slot m.
Counts0(g, w, m) ==
  g \in [0 .. m -> Nat] /\ \A j \in 0 .. m : g[j] = (IF j = 0 THEN 0 ELSE g[j - 1]) + w[j]

LEMMA CounterExists ==
  ASSUME NEW w \in [Nat -> Nat], NEW m \in Nat
  PROVE  \E g : Counts0(g, w, m)
<1> DEFINE P == {k \in Nat : \E g : Counts0(g, w, k)}
<1>1. 0 \in P
  <2> DEFINE g == [j \in 0 .. 0 |-> w[0]]
  <2>1. w[0] \in Nat OBVIOUS
  <2>2. Counts0(g, w, 0) BY SMT, <2>1 DEF Counts0
  <2> QED BY <2>2
<1>2. ASSUME NEW k \in P PROVE k + 1 \in P
  <2>1. PICK g : Counts0(g, w, k) OBVIOUS
  <2> DEFINE h == [j \in 0 .. k + 1 |-> IF j <= k THEN g[j] ELSE g[k] + w[k + 1]]
  <2>2. g \in [0 .. k -> Nat] /\ k \in Nat /\ g[k] \in Nat /\ w[k + 1] \in Nat
    <3>1. k \in Nat /\ k \in 0 .. k /\ k + 1 \in Nat BY SMT
    <3>2. g \in [0 .. k -> Nat] BY <2>1 DEF Counts0
    <3> QED BY <3>1, <3>2
  <2>3. h \in [0 .. k + 1 -> Nat]
    <3>1. \A j \in 0 .. k + 1 : j <= k => j \in 0 .. k BY SMT, <2>2
    <3> HIDE DEF P
    <3>2. \A j \in 0 .. k : g[j] \in Nat BY <2>2
    <3>3. \A a, b \in Nat : a + b \in Nat BY SMT
    <3>4. g[k] + w[k + 1] \in Nat BY <2>2, <3>3
    <3> QED BY <3>1, <3>2, <3>4
  <2>4. ASSUME NEW j \in 0 .. k + 1 PROVE h[j] = (IF j = 0 THEN 0 ELSE h[j - 1]) + w[j]
    <3>1. CASE j <= k
      <4>1. j \in 0 .. k /\ h[j] = g[j] BY SMT, <2>2, <3>1
      <4>2. j # 0 => j - 1 \in 0 .. k /\ h[j - 1] = g[j - 1] BY SMT, <2>2, <3>1
      <4> QED BY <2>1, <4>1, <4>2 DEF Counts0
    <3>2. CASE j = k + 1
      <4>1. h[j] = g[k] + w[k + 1] /\ h[k] = g[k] /\ j # 0 /\ j - 1 = k BY SMT, <2>2, <3>2
      <4> QED BY <3>2, <4>1
    <3> QED BY SMT, <2>2, <3>1, <3>2
  <2>5. Counts0(h, w, k + 1) BY <2>3, <2>4 DEF Counts0
  <2> QED BY SMT, <2>2, <2>5
<1> HIDE DEF P
<1>3. P \subseteq Nat BY DEF P
<1>4. m \in P BY <1>1, <1>2, <1>3, Everything
<1> QED BY <1>4 DEF P

LEMMA CounterUnique ==
  ASSUME NEW w \in [Nat -> Nat], NEW m \in Nat, NEW k \in Nat, m <= k, NEW g, NEW h,
         Counts0(g, w, m), Counts0(h, w, k)
  PROVE  \A j \in 0 .. m : g[j] = h[j]
<1> DEFINE P == {j \in Nat : j <= m => g[j] = h[j]}
<1>1. 0 \in P
  <2>1. 0 \in 0 .. m /\ 0 \in 0 .. k BY SMT
  <2> QED BY <2>1 DEF Counts0
<1>2. ASSUME NEW j \in P PROVE j + 1 \in P
  <2>1. CASE ~(j + 1 <= m) BY SMT, <2>1
  <2>2. CASE j + 1 <= m
    <3>1. j \in Nat /\ j <= m /\ j + 1 \in 0 .. m /\ j + 1 \in 0 .. k /\ j + 1 # 0 /\ (j + 1) - 1 = j BY SMT, <2>2
    <3>2. g[j] = h[j] BY <3>1
    <3>3. g[j + 1] = g[j] + w[j + 1] /\ h[j + 1] = h[j] + w[j + 1] BY <3>1 DEF Counts0
    <3> QED BY SMT, <3>1, <3>2, <3>3
  <2> QED BY <2>1, <2>2
<1> HIDE DEF P
<1>3. P \subseteq Nat BY DEF P
<1>4. \A j \in Nat : j \in P BY <1>1, <1>2, <1>3, Everything
<1> QED BY SMT, <1>4 DEF P

\* The recursive definition of Running defines a function.
LEMMA RunningDef ==
  ASSUME NEW w \in [Nat -> Nat]
  PROVE  /\ Running(w) \in [Nat -> Nat]
         /\ Running(w)[0] = w[0]
         /\ \A j \in Nat : Running(w)[j + 1] = Running(w)[j] + w[j + 1]
<1> DEFINE G(m) == CHOOSE g : Counts0(g, w, m)
           f == [m \in Nat |-> G(m)[m]]
<1>1. \A m \in Nat : Counts0(G(m), w, m) BY CounterExists
<1>2. ASSUME NEW m \in Nat PROVE G(m)[m] \in Nat
  <2>1. Counts0(G(m), w, m) BY <1>1
  <2> HIDE DEF G
  <2> QED BY SMT, <2>1 DEF Counts0
<1>3. ASSUME NEW m \in Nat PROVE f[m] = (IF m = 0 THEN 0 ELSE f[m - 1]) + w[m]
  <2>1. Counts0(G(m), w, m) BY <1>1
  <2>2. CASE m = 0
    <3> HIDE DEF G
    <3>1. G(m)[m] = 0 + w[m] BY SMT, <2>1, <2>2 DEF Counts0
    <3> QED BY <2>2, <3>1
  <2>3. CASE m # 0
    <3>1. m - 1 \in Nat /\ m - 1 <= m /\ m \in 0 .. m /\ m - 1 \in 0 .. m - 1 BY SMT, <2>3
    <3>2. Counts0(G(m - 1), w, m - 1) BY <1>1, <3>1
    <3> HIDE DEF G
    <3>3. G(m - 1)[m - 1] = G(m)[m - 1] BY SMT, <2>1, <3>1, <3>2, CounterUnique
    <3>4. G(m)[m] = G(m)[m - 1] + w[m] BY <2>1, <2>3, <3>1 DEF Counts0
    <3> QED BY <2>3, <3>1, <3>3, <3>4
  <2> QED BY <2>2, <2>3
<1>4. f \in [Nat -> Nat] BY <1>2
<1> HIDE DEF f
<1>5. f = [j \in Nat |-> (IF j = 0 THEN 0 ELSE f[j - 1]) + w[j]] BY <1>3, <1>4
<1> DEFINE n == CHOOSE n : n = [j \in Nat |-> (IF j = 0 THEN 0 ELSE n[j - 1]) + w[j]]
<1>6. n = [j \in Nat |-> (IF j = 0 THEN 0 ELSE n[j - 1]) + w[j]] BY <1>5
<1>7. Running(w) = n BY DEF Running
<1> HIDE DEF n
<1>8. n[0] = w[0] BY SMT, <1>6
<1>9. \A j \in Nat : n[j + 1] = n[j] + w[j + 1] BY SMT, <1>6
<1>10. n \in [Nat -> Nat]
  <2> DEFINE P == {j \in Nat : n[j] \in Nat}
  <2>1. 0 \in P BY <1>8
  <2>2. ASSUME NEW j \in P PROVE j + 1 \in P BY SMT, <1>9
  <2>3. \A j \in Nat : j \in P
    <3>1. P \subseteq Nat OBVIOUS
    <3> HIDE DEF P
    <3> QED BY <2>1, <2>2, <3>1, Everything
  <2>4. \A j \in Nat : n[j] \in Nat BY <2>3
  <2>5. n = [j \in Nat |-> n[j]] BY <1>6
  <2> QED BY <2>4, <2>5
<1> QED BY <1>7, <1>8, <1>9, <1>10

\* A counter to which every slot adds at most c.
LEMMA RunningBound ==
  ASSUME NEW w \in [Nat -> Nat], NEW c \in Nat, \A j \in Nat : w[j] <= c
  PROVE  \A k \in Nat : Running(w)[k] \in Nat /\ Running(w)[k] <= c * (k + 1)
<1> DEFINE r == Running(w)
           P == {k \in Nat : r[k] <= c * (k + 1)}
<1>1. r \in [Nat -> Nat] /\ r[0] = w[0] /\ \A j \in Nat : r[j + 1] = r[j] + w[j + 1] BY RunningDef
<1> HIDE DEF r
<1>2. 0 \in P
  <2>1. c * (0 + 1) = c /\ w[0] <= c BY SMT
  <2> QED BY <1>1, <2>1
<1>3. ASSUME NEW k \in P PROVE k + 1 \in P
  <2>1. k \in Nat /\ r[k] \in Nat /\ r[k] <= c * (k + 1) BY <1>1
  <2>2. r[k + 1] = r[k] + w[k + 1] /\ w[k + 1] \in Nat /\ w[k + 1] <= c BY SMT, <1>1, <2>1
  <2>3. c * ((k + 1) + 1) = c * (k + 1) + c BY SMT, <2>1
  <2>4. c * (k + 1) \in Nat BY SMT, <2>1
  <2>5. r[k + 1] <= c * ((k + 1) + 1) BY SMT, <2>1, <2>2, <2>3, <2>4
  <2> QED BY SMT, <2>1, <2>5
<1>4. P \subseteq Nat OBVIOUS
<1> HIDE DEF P
<1>5. \A k \in Nat : k \in P BY <1>2, <1>3, <1>4, Everything
<1> QED BY <1>1, <1>5 DEF P, r

-----------------------------------------------------------------------------
(* Slots.                                                                  *)

Numbers == Inum \cup Parent \cup {Self}

\* A directory has "." and ".." in its first slots, and every name once.
GoodSlots(s) ==
  /\ s \in Seq(Slot) /\ Size(s) >= 2
  /\ {0, 1} \subseteq Used(s) /\ At(s, 0).name = "." /\ At(s, 1).name = ".."
  /\ \A j, k \in Used(s) : At(s, j).name = At(s, k).name => j = k

\* The Dcache c has exactly the entries of s, with their offsets.
Exact(c, s) ==
  /\ c.Lastoff \in Nat /\ DOMAIN c.cache \subseteq NamesAll
  /\ \A n \in DOMAIN c.cache :
       /\ c.cache[n].off \in Used(s) /\ At(s, c.cache[n].off).name = n
       /\ c.cache[n] = [inum |-> At(s, c.cache[n].off).inum, off |-> c.cache[n].off]
  /\ \A k \in Used(s) : At(s, k).name \in DOMAIN c.cache

LEMMA Dots ==
  /\ "." \notin Name /\ ".." \notin Name /\ "" \notin NamesAll /\ Name \subseteq NamesAll
  /\ NULLINUM \notin Numbers /\ Numbers \subseteq Nat
BY DirAssumption DEF NamesAll, Numbers

LEMMA SlotFacts ==
  ASSUME NEW s \in Seq(Slot)
  PROVE  /\ Size(s) \in Nat /\ Used(s) \subseteq 0 .. Size(s) - 1 /\ Used(s) \subseteq Nat
         /\ \A k \in 0 .. Size(s) - 1 : At(s, k) \in Slot
         /\ \A k \in Used(s) :
              /\ At(s, k) = [name |-> At(s, k).name, inum |-> At(s, k).inum]
              /\ At(s, k).name \in NamesAll /\ At(s, k).inum \in Numbers
<1>1. Size(s) \in Nat /\ Used(s) \subseteq 0 .. Size(s) - 1 /\ Used(s) \subseteq Nat BY SMT DEF Size, Used
<1>2. ASSUME NEW k \in 0 .. Size(s) - 1 PROVE At(s, k) \in Slot
  <2>1. k + 1 \in 1 .. Len(s) BY SMT, <1>1 DEF Size
  <2> QED BY SMT, <2>1 DEF At
<1>3. ASSUME NEW k \in Used(s)
      PROVE  /\ At(s, k) = [name |-> At(s, k).name, inum |-> At(s, k).inum]
             /\ At(s, k).name \in NamesAll /\ At(s, k).inum \in Numbers
  <2>1. At(s, k) \in Slot BY <1>1, <1>2
  <2>2. At(s, k).inum # NULLINUM BY DEF Used
  <2>3. Free.inum = NULLINUM BY DEF Free
  <2>4. At(s, k) \in [name : NamesAll, inum : Numbers] BY <2>1, <2>2, <2>3 DEF Slot, Numbers
  <2> QED BY <2>4
<1> QED BY <1>1, <1>2, <1>3

LEMMA WriteFacts ==
  ASSUME NEW s \in Seq(Slot), NEW k \in 0 .. Size(s), NEW e \in Slot
  PROVE  LET t == Write(s, k, e) IN
         /\ t \in Seq(Slot)
         /\ Size(t) = IF k = Size(s) THEN Size(s) + 1 ELSE Size(s)
         /\ At(t, k) = e
         /\ \A j \in 0 .. Size(s) - 1 : j # k => At(t, j) = At(s, j)
         /\ Used(t) = IF e.inum = NULLINUM THEN Used(s) \ {k} ELSE Used(s) \cup {k}
<1> DEFINE t == Write(s, k, e)
<1>1. /\ t \in Seq(Slot) /\ Size(t) = (IF k = Size(s) THEN Size(s) + 1 ELSE Size(s))
      /\ At(t, k) = e /\ \A j \in 0 .. Size(s) - 1 : j # k => At(t, j) = At(s, j)
  <2>0. Len(s) \in Nat /\ k \in Nat BY SMT DEF Size
  <2>1. CASE k = Size(s)
    <3>1. t = Append(s, e) BY <2>1 DEF Write
    <3>2. t \in Seq(Slot) /\ Len(t) = Len(s) + 1 /\ t[Len(s) + 1] = e /\ \A j \in 1 .. Len(s) : t[j] = s[j]
      BY SMT, <3>1
    <3>3. \A j \in 0 .. Len(s) - 1 : j + 1 \in 1 .. Len(s) BY SMT, <2>0
    <3> QED BY <2>1, <3>2, <3>3 DEF Size, At
  <2>2. CASE k # Size(s)
    <3>1. t = [s EXCEPT ![k + 1] = e] /\ k + 1 \in 1 .. Len(s) BY SMT, <2>0, <2>2 DEF Write, Size
    <3>2. t \in Seq(Slot) /\ Len(t) = Len(s) /\ t[k + 1] = e
          /\ \A j \in 1 .. Len(s) : j # k + 1 => t[j] = s[j]
      BY SMT, <3>1
    <3>3. \A j \in 0 .. Len(s) - 1 : j + 1 \in 1 .. Len(s) /\ (j # k => j + 1 # k + 1) BY SMT, <2>0
    <3> QED BY <2>2, <3>2, <3>3 DEF Size, At
  <2> QED BY <2>1, <2>2
<1> HIDE DEF t
<1>2. Size(s) \in Nat /\ Size(t) \in Nat /\ k \in Nat BY SMT, <1>1, SlotFacts
<1>3. Used(t) = IF e.inum = NULLINUM THEN Used(s) \ {k} ELSE Used(s) \cup {k}
  <2>1. ASSUME NEW j \in 0 .. Size(t) - 1, j # k PROVE j \in 0 .. Size(s) - 1 BY SMT, <1>1, <1>2, <2>1
  <2>2. 0 .. Size(s) - 1 \subseteq 0 .. Size(t) - 1 /\ k \in 0 .. Size(t) - 1 BY SMT, <1>1, <1>2
  <2> QED BY <1>1, <2>1, <2>2 DEF Used
<1> QED BY <1>1, <1>3 DEF t

-----------------------------------------------------------------------------
(* The Dcache and the slots.                                               *)

\* t is s with entry e in slot k, which was not in use; t is s without slot k.
Adds(s, t, k, e) ==
  /\ k \in 1 .. Size(s) /\ k \notin Used(s) /\ Used(t) = Used(s) \cup {k} /\ At(t, k) = e
  /\ \A j \in Used(s) : At(t, j) = At(s, j)
  /\ Size(t) = IF k = Size(s) THEN Size(s) + 1 ELSE Size(s)

Removes(s, t, k) ==
  /\ k \in Used(s) /\ Used(t) = Used(s) \ {k} /\ Size(t) = Size(s)
  /\ \A j \in Used(t) : At(t, j) = At(s, j)

\* The name has no entry, or the one in slot k.
Absent(s, n) == \A k \in Used(s) : At(s, k).name # n

LEMMA LookupFacts ==
  ASSUME NEW s \in Seq(Slot), NEW c, Exact(c, s), NEW n
  PROVE  /\ LookupName(c, n).inum # NULLINUM <=> n \in DOMAIN c.cache
         /\ LookupName(c, n).inum = NULLINUM <=> Absent(s, n)
         /\ n \in DOMAIN c.cache => LookupName(c, n) = c.cache[n] /\ LookupName(c, n).inum \in Numbers
<1>1. ASSUME n \in DOMAIN c.cache
      PROVE  LookupName(c, n) = c.cache[n] /\ LookupName(c, n).inum \in Numbers /\ ~Absent(s, n)
  <2>1. LookupName(c, n) = c.cache[n] BY <1>1 DEF LookupName
  <2>2. PICK k \in Used(s) : At(s, k).name = n /\ c.cache[n].inum = At(s, k).inum
    <3>1. c.cache[n].off \in Used(s) /\ At(s, c.cache[n].off).name = n
          /\ c.cache[n] = [inum |-> At(s, c.cache[n].off).inum, off |-> c.cache[n].off]
      BY <1>1 DEF Exact
    <3>2. c.cache[n].inum = At(s, c.cache[n].off).inum BY SMT, <3>1
    <3> QED BY <3>1, <3>2
  <2> QED BY <2>1, <2>2, SlotFacts DEF Absent
<1>2. ASSUME n \notin DOMAIN c.cache PROVE LookupName(c, n).inum = NULLINUM /\ Absent(s, n)
  BY <1>2 DEF LookupName, Exact, Absent
<1> QED BY <1>1, <1>2, Dots

\* An exact Dcache answers as a scan does.
LEMMA ExactScan ==
  ASSUME NEW s, GoodSlots(s), NEW c, Exact(c, s), NEW n
  PROVE  LookupName(c, n) = ScanName(s, n)
<1> DEFINE ks == {k \in Used(s) : At(s, k).name = n}
<1>1. s \in Seq(Slot) BY DEF GoodSlots
<1>2. CASE n \notin DOMAIN c.cache
  <2>1. ks = {} BY <1>2 DEF Exact
  <2> QED BY <1>2, <2>1 DEF LookupName, ScanName
<1>3. CASE n \in DOMAIN c.cache
  <2>1. PICK k \in Used(s) : k = c.cache[n].off /\ At(s, k).name = n
                             /\ c.cache[n] = [inum |-> At(s, k).inum, off |-> k]
    BY <1>3 DEF Exact
  <2>2. \A j \in ks : j = k BY <2>1 DEF GoodSlots
  <2>3. ks \subseteq Nat /\ ks # {} BY <1>1, <2>1, SlotFacts
  <2> HIDE DEF ks
  <2>4. Min(ks) = k BY <2>2, <2>3, MinFacts
  <2> QED BY <1>3, <2>1, <2>3, <2>4 DEF LookupName, ScanName, ks
<1> QED BY <1>2, <1>3

\* AddNameDir finds a slot that is not in use: the one at Lastoff if it is free.
LEMMA AddNameDirFacts ==
  ASSUME NEW s, GoodSlots(s), NEW l \in Nat
  PROVE  /\ AddNameDir(s, l) \in 1 .. Size(s) /\ AddNameDir(s, l) \notin Used(s)
         /\ l \in 0 .. Size(s) - 1 /\ l \notin Used(s) => AddNameDir(s, l) = l
<1> DEFINE free == {k \in l .. Size(s) - 1 : At(s, k).inum = NULLINUM}
<1>1. Size(s) \in Nat /\ Size(s) >= 2 /\ Used(s) \subseteq 0 .. Size(s) - 1 /\ 0 \in Used(s)
  BY SlotFacts DEF GoodSlots
<1>2. free \subseteq Nat /\ 0 \notin free /\ free \subseteq 1 .. Size(s) - 1
  <2>1. At(s, 0).inum # NULLINUM BY <1>1 DEF Used
  <2>2. free \subseteq l .. Size(s) - 1 /\ 0 \notin free BY <2>1
  <2> HIDE DEF free
  <2> QED BY SMT, <1>1, <2>2
<1>3. \A k \in free : k \notin Used(s) BY DEF Used
<1>4. l \in 0 .. Size(s) - 1 /\ l \notin Used(s) => l \in free /\ \A k \in free : l <= k BY SMT, <1>1 DEF Used
<1>5. AddNameDir(s, l) = IF free = {} \/ Min(free) = 0 THEN Size(s) ELSE Min(free) BY DEF AddNameDir
<1> HIDE DEF free
<1>6. CASE free = {} BY SMT, <1>1, <1>4, <1>5, <1>6
<1>7. CASE free # {}
  <2>1. Min(free) \in free /\ \A k \in free : Min(free) <= k BY <1>2, <1>7, MinFacts
  <2>2. AddNameDir(s, l) = Min(free) BY <1>2, <1>5, <1>7, <2>1
  <2>3. PICK x \in free : x = AddNameDir(s, l) /\ \A k \in free : x <= k BY <2>1, <2>2
  <2>4. x \in 1 .. Size(s) - 1 /\ x \in Nat /\ x \notin Used(s) BY <1>2, <1>3
  <2>5. x \in 1 .. Size(s) BY SMT, <1>1, <2>4
  <2>6. l \in free /\ (\A k \in free : l <= k) => x = l
    <3>1. l \in free /\ (\A k \in free : l <= k) => x <= l /\ l <= x BY <2>3
    <3> QED BY SMT, <2>4, <3>1
  <2> QED BY <1>4, <2>3, <2>4, <2>5, <2>6
<1> QED BY <1>6, <1>7

LEMMA AddFacts ==
  ASSUME NEW s, GoodSlots(s), NEW c, Exact(c, s), NEW n \in Name, Absent(s, n), NEW i \in Numbers
  PROVE  LET a == AddName(s, c, n, i)
             k == AddNameDir(s, c.Lastoff)
         IN  GoodSlots(a.slots) /\ Exact(a.dc, a.slots) /\ Adds(s, a.slots, k, [name |-> n, inum |-> i])
<1> DEFINE a == AddName(s, c, n, i)
           k == AddNameDir(s, c.Lastoff)
           e == [name |-> n, inum |-> i]
           t == Write(s, k, e)
           d == [x \in DOMAIN c.cache \cup {n} |-> IF x = n THEN [inum |-> i, off |-> k] ELSE c.cache[x]]
<1>1. a.slots = t /\ a.dc = [cache |-> d, Lastoff |-> k] BY DEF AddName
<1>2. s \in Seq(Slot) /\ Size(s) \in Nat /\ Used(s) \subseteq 0 .. Size(s) - 1 /\ c.Lastoff \in Nat
  BY SlotFacts DEF GoodSlots, Exact
<1>3. k \in 1 .. Size(s) /\ k \notin Used(s) BY <1>2, AddNameDirFacts
<1>4. e \in Slot /\ i # NULLINUM /\ n \in NamesAll BY Dots DEF Slot, Numbers
<1> HIDE DEF k
<1>5. /\ t \in Seq(Slot) /\ Size(t) = (IF k = Size(s) THEN Size(s) + 1 ELSE Size(s)) /\ At(t, k) = e
      /\ (\A j \in 0 .. Size(s) - 1 : j # k => At(t, j) = At(s, j))
      /\ Used(t) = Used(s) \cup {k}
  <2>1. e.inum # NULLINUM /\ k \in 0 .. Size(s) BY SMT, <1>2, <1>3, <1>4
  <2> HIDE DEF e
  <2> QED BY SMT, <1>2, <1>4, <2>1, WriteFacts
<1> HIDE DEF t
<1>6. \A j \in Used(s) : At(t, j) = At(s, j) BY <1>2, <1>3, <1>5
<1>7. Adds(s, t, k, e) BY <1>3, <1>5, <1>6 DEF Adds
<1>8. GoodSlots(t)
  <2>1. Size(t) >= 2 BY SMT, <1>2, <1>5 DEF GoodSlots
  <2>2. ASSUME NEW j \in Used(t), NEW m \in Used(t), At(t, j).name = At(t, m).name PROVE j = m
    BY SMT, <1>5, <1>6, <2>2 DEF GoodSlots, Absent
  <2> QED BY <1>5, <1>6, <2>1, <2>2 DEF GoodSlots
<1>9. Exact([cache |-> d, Lastoff |-> k], t)
  <2>1. k \in Nat /\ DOMAIN d = DOMAIN c.cache \cup {n} /\ DOMAIN d \subseteq NamesAll
    BY SMT, <1>3, <1>4 DEF Exact
  <2>2. ASSUME NEW x \in DOMAIN d
        PROVE  d[x].off \in Used(t) /\ At(t, d[x].off).name = x
               /\ d[x] = [inum |-> At(t, d[x].off).inum, off |-> d[x].off]
    <3>1. CASE x = n
      <4>1. d[x] = [inum |-> i, off |-> k] BY <3>1
      <4> QED BY SMT, <1>5, <3>1, <4>1
    <3>2. CASE x # n
      <4>1. d[x] = c.cache[x] /\ x \in DOMAIN c.cache BY <3>2
      <4>2. c.cache[x].off \in Used(s) /\ At(s, c.cache[x].off).name = x
            /\ c.cache[x] = [inum |-> At(s, c.cache[x].off).inum, off |-> c.cache[x].off]
        BY <4>1 DEF Exact
      <4>3. At(t, c.cache[x].off) = At(s, c.cache[x].off) /\ c.cache[x].off \in Used(t) BY <1>5, <1>6, <4>2
      <4> HIDE DEF d
      <4> QED BY <4>1, <4>2, <4>3
    <3> QED BY <3>1, <3>2
  <2>3. ASSUME NEW j \in Used(t) PROVE At(t, j).name \in DOMAIN d
    <3>1. CASE j = k BY SMT, <1>5, <2>1, <3>1
    <3>2. CASE j \in Used(s) BY <1>6, <2>1, <3>2 DEF Exact
    <3> QED BY <1>5, <3>1, <3>2
  <2> HIDE DEF d
  <2> QED BY <2>1, <2>2, <2>3 DEF Exact
<1> QED BY <1>1, <1>7, <1>8, <1>9 DEF k

LEMMA RemFacts ==
  ASSUME NEW s, GoodSlots(s), NEW c, Exact(c, s), NEW n \in Name, n \in DOMAIN c.cache
  PROVE  LET r == RemName(s, c, n)
             k == c.cache[n].off
         IN  /\ GoodSlots(r.slots) /\ Exact(r.dc, r.slots) /\ Removes(s, r.slots, k)
             /\ At(s, k) = [name |-> n, inum |-> c.cache[n].inum]
             /\ Absent(r.slots, n) /\ r.dc.Lastoff = k
             /\ k \in 1 .. Size(s) - 1
<1> DEFINE r == RemName(s, c, n)
           k == c.cache[n].off
           t == Write(s, k, Free)
           d == [x \in DOMAIN c.cache \ {n} |-> c.cache[x]]
<1>1. r.slots = t /\ r.dc = [cache |-> d, Lastoff |-> k] BY DEF RemName
<1>2. s \in Seq(Slot) /\ Size(s) \in Nat /\ Used(s) \subseteq 0 .. Size(s) - 1 BY SlotFacts DEF GoodSlots
<1>3. k \in Used(s) /\ At(s, k).name = n /\ c.cache[n] = [inum |-> At(s, k).inum, off |-> k] BY DEF Exact
<1>4. At(s, k) = [name |-> n, inum |-> c.cache[n].inum]
  <2>1. At(s, k) = [name |-> At(s, k).name, inum |-> At(s, k).inum] BY <1>2, <1>3, SlotFacts
  <2>2. c.cache[n].inum = At(s, k).inum BY SMT, <1>3
  <2> QED BY <1>3, <2>1, <2>2
<1>5. k # 0 /\ k # 1 BY <1>3, Dots DEF GoodSlots
<1>6. k \in 1 .. Size(s) - 1 /\ k \in 0 .. Size(s) /\ k # Size(s) BY SMT, <1>2, <1>3, <1>5
<1>7. Free \in Slot /\ Free.inum = NULLINUM BY DEF Slot, Free
<1> HIDE DEF k
<1>8. /\ t \in Seq(Slot) /\ Size(t) = Size(s) /\ Used(t) = Used(s) \ {k}
      /\ \A j \in 0 .. Size(s) - 1 : j # k => At(t, j) = At(s, j)
  BY SMT, <1>2, <1>6, <1>7, WriteFacts
<1> HIDE DEF t
<1>9. \A j \in Used(t) : At(t, j) = At(s, j) BY <1>2, <1>8
<1>10. Removes(s, t, k) BY <1>3, <1>8, <1>9 DEF Removes
<1>11. GoodSlots(t) BY <1>5, <1>8, <1>9 DEF GoodSlots
<1>12. Absent(t, n) BY <1>3, <1>8, <1>9 DEF Absent, GoodSlots
<1>13. Exact([cache |-> d, Lastoff |-> k], t)
  <2>1. k \in Nat /\ DOMAIN d = DOMAIN c.cache \ {n} /\ DOMAIN d \subseteq NamesAll BY SMT, <1>6 DEF Exact
  <2>2. ASSUME NEW x \in DOMAIN d
        PROVE  d[x].off \in Used(t) /\ At(t, d[x].off).name = x
               /\ d[x] = [inum |-> At(t, d[x].off).inum, off |-> d[x].off]
    <3>1. d[x] = c.cache[x] /\ x \in DOMAIN c.cache /\ x # n BY <2>1
    <3>2. c.cache[x].off \in Used(s) /\ At(s, c.cache[x].off).name = x
          /\ c.cache[x] = [inum |-> At(s, c.cache[x].off).inum, off |-> c.cache[x].off]
      BY <3>1 DEF Exact
    <3>3. c.cache[x].off \in Used(t) /\ At(t, c.cache[x].off) = At(s, c.cache[x].off)
      BY <1>3, <1>8, <1>9, <3>1, <3>2
    <3> HIDE DEF d
    <3> QED BY <3>1, <3>2, <3>3
  <2>3. ASSUME NEW j \in Used(t) PROVE At(t, j).name \in DOMAIN d
    BY <1>8, <1>9, <1>12, <2>1 DEF Exact, Absent
  <2> HIDE DEF d
  <2> QED BY <2>1, <2>2, <2>3 DEF Exact
<1> QED BY SMT, <1>1, <1>4, <1>6, <1>10, <1>11, <1>12, <1>13 DEF k

-----------------------------------------------------------------------------
(* What clients do, and how large directories get. RENAME to a name that is *)
(* too long, or to a directory without room, changes the Dcache of a        *)
(* directory that it leaves as it is; so does SETATTR the other way round;  *)
(* REMOVE of a directory with entries leaves them in the Dcache; mkDcache   *)
(* leaves out what is after CacheMax bytes.                                 *)
Regular ==
  /\ ~RemoveAny /\ ~OthersFull
  /\ \A n \in Name : ~LongName(n)
  /\ \A k \in DirSizes : k >= MaxSlots
  /\ CacheMax > 64 + 243 * MaxSlots

LEMMA ShortNames ==
  ASSUME Regular, NEW n \in NamesAll
  PROVE  len(n) \in Nat \ {0} /\ len(n) <= 111
<1>1. CASE n \in {".", ".."} BY SMT, <1>1 DEF len
<1>2. CASE n \in Name
  <2>1. NameLen[n] \in Nat \ {0} /\ n # "." /\ n # ".." BY <1>2, Dots, DirAssumption
  <2>2. len(n) = NameLen[n] BY <2>1 DEF len
  <2>3. ~(len(n) >= 112) BY SMT, <1>2 DEF Regular, LongName, MAXNAMELEN, DIRENTSZ
  <2> QED BY SMT, <2>1, <2>2, <2>3
<1> QED BY <1>1, <1>2 DEF NamesAll

LEMMA CountedFacts ==
  ASSUME Regular, NEW s \in Seq(Slot), NEW b \in Nat, NEW per \in Nat, NEW k \in Nat
  PROVE  /\ Counted(s, b, k, per) \in Nat /\ Counted(s, b, k, per) <= (per + 111) * (k + 1)
         /\ 0 \in Used(s) /\ b = 0 => Counted(s, b, 0, per) = per + len(At(s, 0).name)
<1> DEFINE w == [j \in Nat |-> IF j \in Used(s) /\ j >= b THEN per + len(At(s, j).name) ELSE 0]
<1>1. ASSUME NEW j \in Nat PROVE w[j] \in Nat /\ w[j] <= per + 111
  <2>1. CASE j \in Used(s) /\ j >= b
    <3>1. At(s, j).name \in NamesAll BY <2>1, SlotFacts
    <3>2. len(At(s, j).name) \in Nat /\ len(At(s, j).name) <= 111 BY <3>1, ShortNames
    <3>3. w[j] = per + len(At(s, j).name) BY <2>1
    <3> HIDE DEF w
    <3> QED BY SMT, <3>2, <3>3
  <2>2. CASE ~(j \in Used(s) /\ j >= b)
    <3>1. w[j] = 0 BY <2>2
    <3> HIDE DEF w
    <3> QED BY SMT, <3>1
  <2> QED BY <2>1, <2>2
<1>2. w \in [Nat -> Nat] /\ per + 111 \in Nat
  <2>1. w = [j \in Nat |-> w[j]] OBVIOUS
  <2> HIDE DEF w
  <2> QED BY SMT, <1>1, <2>1
<1>3. 0 \in Used(s) /\ b = 0 => w[0] = per + len(At(s, 0).name) BY SMT
<1>4. \A j : Counted(s, b, j, per) = Running(w)[j] BY DEF Counted
<1> HIDE DEF w
<1>5. Running(w)[k] \in Nat /\ Running(w)[k] <= (per + 111) * (k + 1) BY <1>1, <1>2, RunningBound
<1>6. Running(w)[0] = w[0] BY <1>2, RunningDef
<1> QED BY <1>3, <1>4, <1>5, <1>6

\* mkDcache is not cut short.
LEMMA MkDcacheExact ==
  ASSUME Regular, NEW s, GoodSlots(s), Size(s) <= MaxSlots
  PROVE  Exact(mkDcache(s), s)
<1> DEFINE Full(k) == ApplyFull(s, begin(0), k, Size(s) * DIRENTSZ, CacheMax)
           ks == Used(s)
           Last(n) == CHOOSE k \in ks : At(s, k).name = n /\ \A j \in ks : At(s, j).name = n => j <= k
           d == [n \in {At(s, k).name : k \in ks} |-> [inum |-> At(s, Last(n)).inum, off |-> Last(n)]]
<1>1. /\ s \in Seq(Slot) /\ Size(s) \in Nat /\ Used(s) \subseteq 0 .. Size(s) - 1 /\ Used(s) \subseteq Nat
      /\ \A k \in Used(s) : At(s, k).name \in NamesAll
  BY SlotFacts DEF GoodSlots
<1>2. ASSUME NEW k \in Used(s) PROVE ~Full(k)
  <2>1. k \in Nat /\ k + 1 <= Size(s) /\ begin(0) = 0 BY SMT, <1>1 DEF begin
  <2>2. \A per \in Nat : Counted(s, 0, k, per) \in Nat /\ Counted(s, 0, k, per) <= (per + 111) * (k + 1)
    BY <1>1, <2>1, CountedFacts
  <2>3. /\ Counted(s, 0, k, 8) \in Nat /\ Counted(s, 0, k, 8) <= 119 * (k + 1)
        /\ Counted(s, 0, k, 132) \in Nat /\ Counted(s, 0, k, 132) <= 243 * (k + 1)
    <3>1. 8 + 111 = 119 /\ 132 + 111 = 243 BY SMT
    <3> QED BY SMT, <2>2, <3>1
  <2>4. MaxSlots \in Nat /\ CacheMax \in Nat /\ CacheMax > 64 + 243 * MaxSlots BY DirAssumption DEF Regular
  <2>5. ~(Counted(s, 0, k, 8) >= Size(s) * 128) BY SMT, <1>1, <2>1, <2>3
  <2>6. ~(64 + Counted(s, 0, k, 132) >= CacheMax)
    <3>1. k + 1 <= MaxSlots BY SMT, <1>1, <2>1, <2>4
    <3> QED BY SMT, <2>1, <2>3, <2>4, <3>1
  <2>7. entryplus3Baggage = 132 BY SMT DEF entryplus3Baggage
  <2> QED BY <2>1, <2>5, <2>6, <2>7 DEF ApplyFull, DIRENTSZ
<1>3. Apply(s, 0, Size(s) * DIRENTSZ, CacheMax) = ks
  <2>1. UsedFrom(s, begin(0)) = Used(s) BY SMT, <1>1 DEF UsedFrom, begin
  <2> QED BY <1>2, <2>1 DEF Apply, UpToFirst
<1> HIDE DEF Full
<1>4. mkDcache(s) = [cache |-> d, Lastoff |-> 0] BY <1>3 DEF mkDcache, DcacheOf
<1>5. ASSUME NEW k \in ks PROVE Last(At(s, k).name) = k
  <2>1. \A j \in ks : At(s, j).name = At(s, k).name => j = k BY DEF GoodSlots
  <2>2. k <= k BY SMT, <1>1
  <2> QED BY <2>1, <2>2
<1> HIDE DEF Last
<1>6. ASSUME NEW n \in DOMAIN d
      PROVE  d[n].off \in Used(s) /\ At(s, d[n].off).name = n
             /\ d[n] = [inum |-> At(s, d[n].off).inum, off |-> d[n].off]
  <2>1. PICK k \in ks : n = At(s, k).name OBVIOUS
  <2>2. d[n] = [inum |-> At(s, k).inum, off |-> k] BY <1>5, <2>1
  <2> HIDE DEF d
  <2> QED BY SMT, <2>1, <2>2
<1>7. DOMAIN d \subseteq NamesAll /\ \A k \in Used(s) : At(s, k).name \in DOMAIN d BY <1>1
<1> HIDE DEF d
<1> QED BY SMT, <1>4, <1>6, <1>7 DEF Exact

-----------------------------------------------------------------------------
(* What a procedure may do to the slots.                                   *)

\* Name m of slot k gets another number; the entry of slot k gets name m, and
\* what had that name goes.
Replaces(s, t, k, m, i) ==
  /\ k \in Used(s) /\ At(s, k).name = m /\ At(s, k).inum # i
  /\ Used(t) = Used(s) /\ At(t, k) = [name |-> m, inum |-> i]
  /\ (\A j \in Used(s) \ {k} : At(t, j) = At(s, j)) /\ Size(t) = Size(s)

Renames(s, t, k, m) ==
  /\ k \in Used(s) /\ At(s, k).name # m
  /\ \A j \in Used(s) : At(s, j).name = m => At(s, j).inum # At(s, k).inum
  /\ Used(t) = {j \in Used(s) : At(s, j).name # m}
  /\ At(t, k) = [name |-> m, inum |-> At(s, k).inum]
  /\ (\A j \in Used(t) \ {k} : At(t, j) = At(s, j)) /\ Size(t) = Size(s)

Changes(s, t) ==
  \/ t = s
  \/ \E n \in Name, i \in Inum : Absent(s, n) /\ \E k : Adds(s, t, k, [name |-> n, inum |-> i])
  \/ \E k \in Used(s) : At(s, k).name \in Name /\ Removes(s, t, k)
  \/ \E k \in Used(s), m \in Name, i \in Inum : Replaces(s, t, k, m, i)
  \/ \E k \in Used(s), m \in Name : At(s, k).name \in Name /\ Renames(s, t, k, m)

\* A procedure ends with slots t and Dcache c.
Ends(t, c) ==
  /\ GoodSlots(t) /\ Exact(c, t) /\ Changes(slots, t)
  /\ Commit(t, c) \/ (t = slots /\ errRet(c))

LEMMA CreateEnds ==
  ASSUME Regular, GoodSlots(slots), NEW c, Exact(c, slots), NEW n \in Name, CREATE(c, n)
  PROVE  \E t, d : Ends(t, d)
<1>1. CASE errRet(c)
  <2>1. Ends(slots, c) BY <1>1 DEF Ends, Changes
  <2> QED BY <2>1
<1>2. ASSUME LookupName(c, n).inum = NULLINUM, NEW i \in Others,
             Commit(AddName(slots, c, n, i).slots, AddName(slots, c, n, i).dc)
      PROVE  \E t, d : Ends(t, d)
  <2> DEFINE a == AddName(slots, c, n, i)
             k == AddNameDir(slots, c.Lastoff)
  <2>1. i \in Inum /\ i \in Numbers /\ slots \in Seq(Slot) BY DEF Others, Numbers, GoodSlots
  <2>2. Absent(slots, n) BY <1>2, <2>1, LookupFacts
  <2>3. GoodSlots(a.slots) /\ Exact(a.dc, a.slots) /\ Adds(slots, a.slots, k, [name |-> n, inum |-> i])
    BY <2>1, <2>2, AddFacts
  <2>4. Changes(slots, a.slots) BY <2>1, <2>2, <2>3 DEF Changes
  <2>5. Ends(a.slots, a.dc) BY <1>2, <2>3, <2>4 DEF Ends
  <2> QED BY <2>5
<1> QED BY <1>1, <1>2 DEF CREATE

LEMMA RemoveEnds ==
  ASSUME Regular, GoodSlots(slots), NEW c, Exact(c, slots), NEW n \in Name, REMOVE(c, n)
  PROVE  \E t, d : Ends(t, d)
<1>1. CASE errRet(c)
  <2>1. Ends(slots, c) BY <1>1 DEF Ends, Changes
  <2> QED BY <2>1
<1>2. CASE LookupName(c, n).inum # NULLINUM /\ Commit(RemName(slots, c, n).slots, RemName(slots, c, n).dc)
  <2> DEFINE r == RemName(slots, c, n)
  <2>1. n \in DOMAIN c.cache BY <1>2, LookupFacts DEF GoodSlots
  <2>2. GoodSlots(r.slots) /\ Exact(r.dc, r.slots) /\ Removes(slots, r.slots, c.cache[n].off)
    BY <2>1, RemFacts
  <2>3. c.cache[n].off \in Used(slots) /\ At(slots, c.cache[n].off).name = n BY <2>1 DEF Exact
  <2>4. Changes(slots, r.slots) BY <2>2, <2>3 DEF Changes
  <2>5. Ends(r.slots, r.dc) BY <1>2, <2>2, <2>4 DEF Ends
  <2> QED BY <2>5
<1> QED BY <1>1, <1>2 DEF REMOVE, Regular

\* After RemName, AddName uses the slot that was freed.
LEMMA ReuseFacts ==
  ASSUME NEW s, GoodSlots(s), NEW c, Exact(c, s), NEW n \in Name, n \in DOMAIN c.cache
  PROVE  LET r == RemName(s, c, n) IN
         /\ AddNameDir(r.slots, r.dc.Lastoff) = c.cache[n].off
         /\ ~AddMayFail(r.slots, r.dc)
<1> DEFINE r == RemName(s, c, n)
           k == c.cache[n].off
<1>1. GoodSlots(r.slots) /\ Removes(s, r.slots, k) /\ r.dc.Lastoff = k /\ k \in 1 .. Size(s) - 1
  BY RemFacts
<1> HIDE DEF r, k
<1>2. Size(s) \in Nat BY SlotFacts DEF GoodSlots
<1>3. Size(r.slots) = Size(s) /\ k \notin Used(r.slots) /\ k \in Nat /\ k \in 0 .. Size(r.slots) - 1
  BY SMT, <1>1, <1>2 DEF Removes
<1>4. AddNameDir(r.slots, k) = k BY <1>1, <1>3, AddNameDirFacts
<1>5. k # Size(r.slots) BY SMT, <1>2, <1>3
<1>6. ~AddMayFail(r.slots, r.dc) BY <1>1, <1>4, <1>5 DEF AddMayFail, NeedsBlock
<1> QED BY <1>1, <1>4, <1>6 DEF r, k

LEMMA RenameIntoEnds ==
  ASSUME Regular, GoodSlots(slots), NEW c, Exact(c, slots), NEW m \in Name, RENAMEInto(c, m)
  PROVE  \E t, d : Ends(t, d)
<1> DEFINE to == LookupName(c, m).inum
           r == IF to = NULLINUM THEN [slots |-> slots, dc |-> c] ELSE RemName(slots, c, m)
<1>0. slots \in Seq(Slot) /\ ~LongName(m) BY DEF GoodSlots, Regular
<1>1. CASE errRet(c)
  <2>1. Ends(slots, c) BY <1>1 DEF Ends, Changes
  <2> QED BY <2>1
<1>2. CASE AddMayFail(r.slots, r.dc) /\ errRet(r.dc)
  <2>1. CASE to = NULLINUM BY <1>1, <1>2, <2>1
  <2>2. CASE to # NULLINUM
    <3>1. m \in DOMAIN c.cache BY <1>0, <2>2, LookupFacts
    <3> QED BY <1>2, <2>2, <3>1, ReuseFacts
  <2> QED BY <2>1, <2>2
<1>3. ASSUME NEW i \in Others, Commit(AddName(r.slots, r.dc, m, i).slots, AddName(r.slots, r.dc, m, i).dc)
      PROVE  \E t, d : Ends(t, d)
  <2> DEFINE a == AddName(r.slots, r.dc, m, i)
             k == AddNameDir(r.slots, r.dc.Lastoff)
             e == [name |-> m, inum |-> i]
  <2>1. i \in Inum /\ i \in Numbers BY DEF Others, Numbers
  <2>2. CASE to = NULLINUM
    <3>1. Absent(slots, m) /\ r.slots = slots /\ r.dc = c BY <1>0, <2>2, LookupFacts
    <3>2. GoodSlots(a.slots) /\ Exact(a.dc, a.slots) /\ Adds(slots, a.slots, k, e)
      BY <2>1, <3>1, AddFacts
    <3>3. Changes(slots, a.slots) BY <2>1, <3>1, <3>2 DEF Changes
    <3>4. Ends(a.slots, a.dc) BY <1>3, <3>2, <3>3 DEF Ends
    <3> QED BY <3>4
  <2>3. CASE to # NULLINUM
    <3>1. m \in DOMAIN c.cache /\ r = RemName(slots, c, m) BY <1>0, <2>3, LookupFacts
    <3>2. PICK o : o = c.cache[m].off OBVIOUS
    <3>3. /\ GoodSlots(r.slots) /\ Exact(r.dc, r.slots) /\ Removes(slots, r.slots, o) /\ Absent(r.slots, m)
          /\ At(slots, o) = [name |-> m, inum |-> c.cache[m].inum] /\ o \in Nat
      BY SMT, <3>1, <3>2, RemFacts
    <3>4. k = o BY SMT, <3>1, <3>2, ReuseFacts
    <3>5. GoodSlots(a.slots) /\ Exact(a.dc, a.slots) /\ Adds(r.slots, a.slots, o, e)
      BY <2>1, <3>3, <3>4, AddFacts
    <3>6. o \in Used(slots) /\ At(slots, o).inum # i
      BY <3>3 DEF Removes, Others, Entries
    <3> HIDE DEF r, a
    <3>7. Size(a.slots) = Size(slots)
      <4>1. o \in 0 .. Size(slots) - 1 /\ Size(slots) \in Nat /\ Size(r.slots) = Size(slots)
        BY <1>0, <3>3, <3>6, SlotFacts DEF Removes
      <4>2. o # Size(r.slots) BY SMT, <4>1
      <4> QED BY <3>5, <4>1, <4>2 DEF Adds
    <3>8. Replaces(slots, a.slots, o, m, i)
      <4>1. Used(a.slots) = Used(slots) BY <3>3, <3>5, <3>6 DEF Removes, Adds
      <4>2. \A j \in Used(slots) \ {o} : At(a.slots, j) = At(slots, j) BY <3>3, <3>5 DEF Removes, Adds
      <4>3. At(a.slots, o) = e BY <3>5 DEF Adds
      <4>4. At(slots, o).name = m BY SMT, <3>3
      <4> QED BY <3>6, <3>7, <4>1, <4>2, <4>3, <4>4 DEF Replaces
    <3>9. Changes(slots, a.slots) BY <2>1, <3>6, <3>8 DEF Changes
    <3>10. Ends(a.slots, a.dc) BY <1>3, <3>5, <3>9 DEF Ends, a
    <3> QED BY <3>10
  <2> QED BY <2>2, <2>3
<1> QED BY <1>0, <1>1, <1>2, <1>3 DEF RENAMEInto

LEMMA RenameEnds ==
  ASSUME Regular, GoodSlots(slots), NEW c, Exact(c, slots), NEW n \in Name, NEW m \in Name, RENAME(c, n, m)
  PROVE  \E t, d : Ends(t, d)
<1> DEFINE from == LookupName(c, n).inum
           to == LookupName(c, m).inum
           r == IF to = NULLINUM THEN [slots |-> slots, dc |-> c] ELSE RemName(slots, c, m)
           q == RemName(r.slots, r.dc, n)
           a == AddName(q.slots, q.dc, m, from)
<1>0. slots \in Seq(Slot) /\ ~LongName(m) BY DEF GoodSlots, Regular
<1>1. CASE errRet(c)
  <2>1. Ends(slots, c) BY <1>1 DEF Ends, Changes
  <2> QED BY <2>1
<1>2. CASE Commit(slots, c)
  <2>1. Ends(slots, c) BY <1>2 DEF Ends, Changes
  <2> QED BY <2>1
<1>3. ASSUME from # NULLINUM, to # from,
             (AddMayFail(q.slots, q.dc) /\ errRet(q.dc)) \/ Commit(a.slots, a.dc)
      PROVE  \E t, d : Ends(t, d)
  <2>1. n \in DOMAIN c.cache /\ from = c.cache[n].inum /\ from \in Numbers /\ n # m BY <1>0, <1>3, LookupFacts
  <2>2. PICK o : o = c.cache[n].off OBVIOUS
  <2>3. o \in Used(slots) /\ At(slots, o).name = n /\ At(slots, o).inum = from
    <3>1. o \in Used(slots) /\ At(slots, o).name = n /\ c.cache[n] = [inum |-> At(slots, o).inum, off |-> o]
      BY <2>1, <2>2 DEF Exact
    <3> QED BY SMT, <2>1, <3>1
  <2>4. /\ GoodSlots(r.slots) /\ Exact(r.dc, r.slots) /\ Absent(r.slots, m) /\ Size(r.slots) = Size(slots)
        /\ Used(r.slots) = {j \in Used(slots) : At(slots, j).name # m}
        /\ \A j \in Used(r.slots) : At(r.slots, j) = At(slots, j)
        /\ \A j \in Used(slots) : At(slots, j).name = m => At(slots, j).inum # from
    <3>1. CASE to = NULLINUM
      <4>1. Absent(slots, m) /\ r.slots = slots /\ r.dc = c BY <1>0, <3>1, LookupFacts
      <4> QED BY <4>1 DEF Absent
    <3>2. CASE to # NULLINUM
      <4>1. m \in DOMAIN c.cache /\ to = c.cache[m].inum /\ r = RemName(slots, c, m) BY <1>0, <3>2, LookupFacts
      <4>2. PICK p : p = c.cache[m].off OBVIOUS
      <4>3. /\ GoodSlots(r.slots) /\ Exact(r.dc, r.slots) /\ Removes(slots, r.slots, p) /\ Absent(r.slots, m)
            /\ At(slots, p) = [name |-> m, inum |-> to]
        BY SMT, <4>1, <4>2, RemFacts
      <4> HIDE DEF r, to
      <4>4. \A j \in Used(slots) : At(slots, j).name = m => j = p BY SMT, <4>3 DEF GoodSlots, Removes
      <4>5. At(slots, p).name = m /\ At(slots, p).inum = to BY SMT, <4>3
      <4> QED BY <1>3, <4>3, <4>4, <4>5 DEF Removes
    <3> QED BY <3>1, <3>2
  <2>5. n \in DOMAIN r.dc.cache /\ r.dc.cache[n].off = o
    <3> HIDE DEF r
    <3>1. o \in Used(r.slots) /\ At(r.slots, o).name = n BY <2>1, <2>3, <2>4
    <3>2. n \in DOMAIN r.dc.cache BY <2>4, <3>1 DEF Exact
    <3>3. r.dc.cache[n].off \in Used(r.slots) /\ At(r.slots, r.dc.cache[n].off).name = n BY <2>4, <3>2 DEF Exact
    <3> QED BY <2>4, <3>1, <3>2, <3>3 DEF GoodSlots
  <2> HIDE DEF r
  <2>6. /\ GoodSlots(q.slots) /\ Exact(q.dc, q.slots) /\ Removes(r.slots, q.slots, o)
        /\ AddNameDir(q.slots, q.dc.Lastoff) = o /\ ~AddMayFail(q.slots, q.dc)
    <3>1. GoodSlots(r.slots) /\ Exact(r.dc, r.slots) /\ n \in DOMAIN r.dc.cache BY <2>4, <2>5
    <3>2. GoodSlots(q.slots) /\ Exact(q.dc, q.slots) /\ Removes(r.slots, q.slots, r.dc.cache[n].off)
      BY <3>1, RemFacts
    <3>3. AddNameDir(q.slots, q.dc.Lastoff) = r.dc.cache[n].off /\ ~AddMayFail(q.slots, q.dc)
      BY <3>1, ReuseFacts
    <3> QED BY <2>5, <3>2, <3>3
  <2> HIDE DEF q
  <2>7. Absent(q.slots, m) BY <2>4, <2>6 DEF Absent, Removes
  <2> DEFINE e == [name |-> m, inum |-> from]
  <2>8. GoodSlots(a.slots) /\ Exact(a.dc, a.slots) /\ Adds(q.slots, a.slots, o, e)
    BY <2>1, <2>6, <2>7, AddFacts
  <2> HIDE DEF a
  <2>9. Renames(slots, a.slots, o, m)
    <3>1. Used(a.slots) = {j \in Used(slots) : At(slots, j).name # m}
      BY <2>1, <2>3, <2>4, <2>6, <2>8 DEF Removes, Adds
    <3>2. \A j \in Used(a.slots) \ {o} : At(a.slots, j) = At(slots, j)
      BY <2>4, <2>6, <2>8, <3>1 DEF Removes, Adds
    <3>3. At(a.slots, o) = [name |-> m, inum |-> At(slots, o).inum] BY <2>3, <2>8 DEF Adds
    <3>4. Size(a.slots) = Size(slots)
      <4>1. Size(q.slots) = Size(slots) /\ Size(slots) \in Nat /\ o \in 0 .. Size(slots) - 1
        BY <1>0, <2>3, <2>4, <2>6, SlotFacts DEF Removes
      <4>2. o # Size(q.slots) BY SMT, <4>1
      <4> QED BY <2>8, <4>1, <4>2 DEF Adds
    <3> QED BY <2>1, <2>3, <2>4, <3>1, <3>2, <3>3, <3>4 DEF Renames
  <2>10. Changes(slots, a.slots) BY <2>3, <2>9 DEF Changes
  <2>11. Commit(a.slots, a.dc) BY <1>3, <2>6
  <2>12. Ends(a.slots, a.dc) BY <2>8, <2>10, <2>11 DEF Ends
  <2> QED BY <2>12
<1> QED BY <1>0, <1>1, <1>2, <1>3 DEF RENAME

-----------------------------------------------------------------------------
(* The Dcache of a directory is exact; that of a removed one has at most    *)
(* "." and "..".                                                            *)
DirInv ==
  /\ gen \in Nat
  /\ Live => /\ GoodSlots(slots) /\ Size(slots) <= MaxSlots
             /\ dc # None => Exact(dc, slots)
  /\ ~Live => /\ slots = <<>>
              /\ dc # None => dc.Lastoff \in Nat /\ DOMAIN dc.cache \subseteq {".", ".."}

LEMMA Parity == ASSUME NEW g \in Nat PROVE (g % 2 = 1) <=> ~((g + 1) % 2 = 1)
BY SMT

\* The first two slots of a directory.
LEMMA TwoSlots ==
  ASSUME NEW p \in Parent
  PROVE  LET s == <<[name |-> ".", inum |-> Self], [name |-> "..", inum |-> p]>> IN
         /\ s \in Seq(Slot) /\ Size(s) = 2 /\ Used(s) = {0, 1}
         /\ At(s, 0) = [name |-> ".", inum |-> Self] /\ At(s, 1) = [name |-> "..", inum |-> p]
         /\ GoodSlots(s)
<1> DEFINE e == [name |-> ".", inum |-> Self]
           f == [name |-> "..", inum |-> p]
           s == <<e, f>>
<1>1. e \in Slot /\ f \in Slot /\ e.inum # NULLINUM /\ f.inum # NULLINUM /\ e.name = "." /\ f.name = ".."
  BY Dots DEF Slot, NamesAll, Numbers
<1> HIDE DEF e, f
<1>2. s \in Seq(Slot) /\ Len(s) = 2 /\ s[1] = e /\ s[2] = f BY SMT, <1>1
<1> HIDE DEF s
<1>3. Size(s) = 2 /\ At(s, 0) = e /\ At(s, 1) = f BY SMT, <1>2 DEF Size, At
<1>4. Used(s) = {0, 1}
  <2>1. 0 .. 2 - 1 = {0, 1} BY SMT
  <2> QED BY <1>1, <1>3, <2>1 DEF Used
<1>5. GoodSlots(s) BY SMT, <1>1, <1>2, <1>3, <1>4 DEF GoodSlots
<1> QED BY <1>2, <1>3, <1>4, <1>5 DEF s, e, f

\* InitDir writes the first two slots, and uses a Dcache that has no other names.
LEMMA InitDirFacts ==
  ASSUME NEW p \in Parent, NEW c, c.Lastoff \in Nat, DOMAIN c.cache \subseteq {".", ".."}
  PROVE  LET d == InitDir(c, p) IN
         /\ d.slots = <<[name |-> ".", inum |-> Self], [name |-> "..", inum |-> p]>>
         /\ Exact(d.dc, d.slots)
         /\ d.dc.Lastoff \in Nat /\ DOMAIN d.dc.cache \subseteq {".", ".."}
<1> DEFINE e == [name |-> ".", inum |-> Self]
           f == [name |-> "..", inum |-> p]
           a == AddName(<<>>, c, ".", Self)
           d == InitDir(c, p)
           g == [x \in DOMAIN c.cache \cup {"."} |-> IF x = "." THEN [inum |-> Self, off |-> 0] ELSE c.cache[x]]
           h == [x \in DOMAIN g \cup {".."} |-> IF x = ".." THEN [inum |-> p, off |-> 1] ELSE g[x]]
<1>1. AddNameDir(<<>>, c.Lastoff) = 0
  <2>1. {k \in c.Lastoff .. Size(<<>>) - 1 : At(<<>>, k).inum = NULLINUM} = {} BY SMT DEF Size
  <2> QED BY <2>1 DEF AddNameDir, Size
<1>2. a.slots = <<e>> /\ a.dc = [cache |-> g, Lastoff |-> 0]
  <2>1. Write(<<>>, 0, e) = <<e>> BY SMT DEF Write, Size
  <2> QED BY <1>1, <2>1 DEF AddName
<1>3. Self # NULLINUM BY Dots DEF Numbers
<1> HIDE DEF g
<1>4. AddNameDir(<<e>>, 0) = 1
  <2>1. 0 .. Size(<<e>>) - 1 = {0} /\ At(<<e>>, 0) = e /\ Size(<<e>>) = 1 BY SMT DEF Size, At
  <2>2. {k \in 0 .. Size(<<e>>) - 1 : At(<<e>>, k).inum = NULLINUM} = {} BY SMT, <1>3, <2>1
  <2> QED BY <2>1, <2>2 DEF AddNameDir
<1>5. d.slots = <<e, f>> /\ d.dc = [cache |-> h, Lastoff |-> 1]
  <2>1. Write(<<e>>, 1, f) = <<e, f>>
    <3>1. e \in Slot /\ f \in Slot BY DEF Slot, NamesAll
    <3> HIDE DEF e, f
    <3>2. Write(<<e>>, 1, f) = Append(<<e>>, f) BY DEF Write, Size
    <3>3. <<e>> \in Seq(Slot) /\ Len(<<e>>) = 1 BY SMT, <3>1
    <3> QED BY SMT, <3>1, <3>2, <3>3
  <2>2. d = AddName(<<e>>, [cache |-> g, Lastoff |-> 0], "..", p) BY <1>2 DEF InitDir
  <2> QED BY SMT, <1>4, <2>1, <2>2 DEF AddName
<1>6. DOMAIN h = {".", ".."} /\ h["."] = [inum |-> Self, off |-> 0] /\ h[".."] = [inum |-> p, off |-> 1]
  BY DEF g
<1> HIDE DEF h, d
<1>7. Exact([cache |-> h, Lastoff |-> 1], <<e, f>>)
  <2> DEFINE s == <<e, f>>
  <2>1. Used(s) = {0, 1} /\ At(s, 0) = e /\ At(s, 1) = f BY TwoSlots
  <2> HIDE DEF s
  <2>2. DOMAIN h \subseteq NamesAll BY <1>6 DEF NamesAll
  <2>3. ASSUME NEW n \in DOMAIN h
        PROVE  h[n].off \in Used(s) /\ At(s, h[n].off).name = n
               /\ h[n] = [inum |-> At(s, h[n].off).inum, off |-> h[n].off]
    <3>1. CASE n = "."
      <4>1. h[n] = [inum |-> Self, off |-> 0] BY <1>6, <3>1
      <4> QED BY SMT, <2>1, <3>1, <4>1
    <3>2. CASE n = ".."
      <4>1. h[n] = [inum |-> p, off |-> 1] BY <1>6, <3>2
      <4> QED BY SMT, <2>1, <3>2, <4>1
    <3> QED BY <1>6, <3>1, <3>2
  <2>4. \A k \in Used(s) : At(s, k).name \in DOMAIN h BY SMT, <1>6, <2>1
  <2>5. Exact([cache |-> h, Lastoff |-> 1], s) BY <2>2, <2>3, <2>4 DEF Exact
  <2> QED BY <2>5 DEF s
<1> QED BY SMT, <1>5, <1>6, <1>7 DEF d

\* The Dcache a procedure finds or makes.
LEMMA DcacheFacts ==
  ASSUME Regular, DirInv
  PROVE  /\ Live => Exact(Dcache, slots)
         /\ ~Live => Dcache.Lastoff \in Nat /\ DOMAIN Dcache.cache \subseteq {".", ".."}
<1>1. CASE dc # None BY <1>1 DEF Dcache, DirInv
<1>2. CASE dc = None /\ Live BY <1>2, MkDcacheExact DEF Dcache, DirInv
<1>3. CASE dc = None /\ ~Live
  <2>1. slots = <<>> BY <1>3 DEF DirInv
  <2>2. Used(<<>>) = {} BY SMT DEF Used, Size
  <2>3. Apply(<<>>, 0, Size(<<>>) * DIRENTSZ, CacheMax) = {} BY <2>2 DEF Apply, UsedFrom, UpToFirst
  <2>4. Dcache = DcacheOf(<<>>, {}) BY <1>3, <2>1, <2>3 DEF Dcache, mkDcache
  <2>5. DcacheOf(<<>>, {}).Lastoff = 0 /\ DOMAIN DcacheOf(<<>>, {}).cache = {} BY DEF DcacheOf
  <2> QED BY SMT, <1>3, <2>4, <2>5
<1> QED BY <1>1, <1>2, <1>3

\* A procedure that uses the Dcache of a directory.
LEMMA UseEnds ==
  ASSUME Regular, DirInv, Live, UseDcache(Dcache)
  PROVE  \E t, d : Ends(t, d)
<1>1. GoodSlots(slots) /\ Exact(Dcache, slots) BY DcacheFacts DEF DirInv
<1>2. PICK c : c = Dcache OBVIOUS
<1>3. UseDcache(c) /\ Exact(c, slots) BY <1>1, <1>2
<1>4. CASE LOOKUP(c)
  <2>1. errRet(c) BY <1>4 DEF LOOKUP, errRet
  <2>2. Ends(slots, c) BY <1>1, <1>3, <2>1 DEF Ends, Changes
  <2> QED BY <2>2
<1>5. ASSUME NEW n \in Name, CREATE(c, n) \/ REMOVE(c, n) \/ RENAMEInto(c, n) PROVE \E t, d : Ends(t, d)
  BY <1>1, <1>3, <1>5, CreateEnds, RemoveEnds, RenameIntoEnds
<1>6. ASSUME NEW n \in Name, NEW m \in Name, RENAME(c, n, m) PROVE \E t, d : Ends(t, d)
  BY <1>1, <1>3, <1>6, RenameEnds
<1>7. ASSUME NEW p \in Parent, MKDIR(c, p) PROVE FALSE BY <1>7 DEF MKDIR
<1> QED BY <1>3, <1>4, <1>5, <1>6, <1>7 DEF UseDcache

LEMMA InitDirInv == ASSUME Init PROVE DirInv
<1>1. PICK p \in Parent : slots = <<[name |-> ".", inum |-> Self], [name |-> "..", inum |-> p]>> BY DEF Init
<1>2. GoodSlots(slots) /\ Size(slots) = 2 BY <1>1, TwoSlots
<1>3. gen = 1 /\ dc = None /\ Live BY SMT DEF Init, Live
<1> QED BY <1>2, <1>3, DirAssumption DEF DirInv

\* RMDIR of an empty directory leaves "." and ".." in its Dcache.
LEMMA RmdirInv == ASSUME Regular, DirInv, RMDIR PROVE DirInv'
<1>1. Live /\ gen \in Nat /\ GoodSlots(slots) BY DEF RMDIR, DirInv
<1>2. CASE errRet(dc) BY <1>2 DEF errRet, DirInv, Live
<1>3. CASE IsDirEmpty(slots) /\ slots' = <<>> /\ gen' = gen + 1 /\ UNCHANGED <<dc, rd>>
  <2>1. ~Live' /\ gen' \in Nat BY SMT, <1>1, <1>3, Parity DEF Live
  <2>2. ASSUME dc # None PROVE dc.Lastoff \in Nat /\ DOMAIN dc.cache \subseteq {".", ".."}
    <3>1. Exact(dc, slots) BY <1>1, <2>2 DEF DirInv
    <3>2. ASSUME NEW n \in DOMAIN dc.cache PROVE n \in {".", ".."}
      <4>1. PICK k \in Used(slots) : At(slots, k).name = n BY <3>1 DEF Exact
      <4>2. k \in Nat /\ k < 2 BY <1>1, <1>3, SlotFacts DEF IsDirEmpty, GoodSlots
      <4>3. k = 0 \/ k = 1 BY SMT, <4>2
      <4> QED BY <1>1, <4>1, <4>3 DEF GoodSlots
    <3> QED BY <3>1, <3>2 DEF Exact
  <2> QED BY <1>3, <2>1, <2>2 DEF DirInv
<1> QED BY <1>2, <1>3 DEF RMDIR, Regular

LEMMA MkdirInv == ASSUME Regular, DirInv, NEW p \in Parent, MKDIR(Dcache, p) PROVE DirInv'
<1> DEFINE d == InitDir(Dcache, p)
<1>1. ~Live /\ gen \in Nat /\ Dcache.Lastoff \in Nat /\ DOMAIN Dcache.cache \subseteq {".", ".."}
  BY DcacheFacts DEF MKDIR, DirInv
<1>2. /\ d.slots = <<[name |-> ".", inum |-> Self], [name |-> "..", inum |-> p]>>
      /\ Exact(d.dc, d.slots) /\ d.dc.Lastoff \in Nat /\ DOMAIN d.dc.cache \subseteq {".", ".."}
  BY <1>1, InitDirFacts
<1>3. GoodSlots(d.slots) /\ Size(d.slots) = 2 BY <1>2, TwoSlots
<1> HIDE DEF d
<1>4. CASE errRet(Dcache) BY <1>1, <1>4 DEF errRet, DirInv, Live
<1>5. CASE errRet(d.dc) BY <1>1, <1>2, <1>5 DEF errRet, DirInv, Live
<1>6. CASE slots' = d.slots /\ dc' = d.dc /\ gen' = gen + 1 /\ UNCHANGED rd
  <2>1. Live' /\ gen' \in Nat BY SMT, <1>1, <1>6, Parity DEF Live
  <2> QED BY <1>2, <1>3, <1>6, <2>1, DirAssumption DEF DirInv
<1> QED BY <1>4, <1>5, <1>6 DEF MKDIR, d

LEMMA UseInv == ASSUME Regular, DirInv, UseDcache(Dcache) PROVE DirInv'
<1>1. CASE Live
  <2>1. PICK t, d : Ends(t, d) BY <1>1, UseEnds
  <2>2. GoodSlots(t) /\ Exact(d, t) /\ slots' = t /\ dc' = d /\ gen' = gen /\ Size(t) <= MaxSlots
    BY <1>1, <2>1 DEF Ends, Commit, errRet, DirInv
  <2> QED BY <1>1, <2>2 DEF DirInv, Live
<1>2. CASE ~Live
  <2>1. \E p \in Parent : MKDIR(Dcache, p)
    BY <1>2 DEF UseDcache, LOOKUP, CREATE, REMOVE, RENAMEInto, RENAME
  <2> QED BY <2>1, MkdirInv
<1> QED BY <1>1, <1>2

\* SETATTR leaves a directory of the largest size alone.
LEMMA SetattrSame ==
  ASSUME Regular, DirInv, NEW k \in DirSizes, SETATTR(k)
  PROVE  Live /\ Commit(slots, dc)
<1>1. Live /\ k <= Size(slots) /\ Commit(SubSeq(slots, 1, k), dc) BY DEF SETATTR
<1>2. Size(slots) \in Nat /\ Size(slots) <= MaxSlots /\ slots \in Seq(Slot) BY <1>1, SlotFacts DEF DirInv, GoodSlots
<1>3. k \in Nat /\ MaxSlots \in Nat /\ k >= MaxSlots BY DirAssumption DEF Regular
<1>4. k = Size(slots) BY SMT, <1>1, <1>2, <1>3
<1>5. SubSeq(slots, 1, Len(slots)) = slots BY SMT, <1>2
<1> QED BY <1>1, <1>4, <1>5 DEF Size

LEMMA NextDirInv == ASSUME Regular, DirInv, [Next]_vars PROVE DirInv'
<1>1. CASE UseDcache(Dcache) BY <1>1, UseInv
<1>2. CASE \E k \in DirSizes : SETATTR(k)
  <2>1. Live /\ Commit(slots, dc) BY <1>2, SetattrSame
  <2> QED BY <2>1 DEF Commit, DirInv, Live
<1>3. CASE RMDIR BY <1>3, RmdirInv
<1>4. CASE Drop BY <1>4 DEF Drop, DirInv, Live
<1>5. CASE Stale BY <1>5 DEF Stale, DirInv, Live
<1>6. CASE \E how \in Calls : List(how) BY <1>6 DEF List, DirInv, Live
<1>7. CASE UNCHANGED vars BY <1>7 DEF vars, DirInv, Live
<1> QED BY <1>1, <1>2, <1>3, <1>4, <1>5, <1>6, <1>7 DEF Next

LEMMA AlwaysDirInv == ASSUME Regular PROVE Spec => []DirInv
<1>1. DirInv /\ [Next]_vars => DirInv' BY NextDirInv
<1> QED BY <1>1, InitDirInv, PTL DEF Spec

\* The Dcache of a directory answers every lookup as a scan of the slots would,
\* number and offset, however it came about: made from disk, kept through
\* additions to reused slots, removals and renames, or left by an earlier
\* directory of the same inode number (mkDcache, AddName, RemName, InitDir).
THEOREM LookupsMatchScan == ASSUME Regular PROVE Spec => []LookupMatchesScan
<1>1. DirInv => LookupMatchesScan BY ExactScan DEF DirInv, LookupMatchesScan
<1> QED BY <1>1, AlwaysDirInv, PTL

-----------------------------------------------------------------------------
(* Every step: the slots stay, a procedure changes them, or the directory   *)
(* goes or comes.                                                           *)
LEMMA StepKinds ==
  ASSUME Regular, DirInv, [Next]_vars
  PROVE  \/ slots' = slots /\ gen' = gen
         \/ Live /\ gen' = gen /\ Changes(slots, slots')
         \/ Live /\ ~Live' /\ IsDirEmpty(slots) /\ slots' = <<>>
         \/ ~Live /\ Live' /\ \E p \in Parent :
              slots' = <<[name |-> ".", inum |-> Self], [name |-> "..", inum |-> p]>>
<1>1. CASE UseDcache(Dcache) /\ Live
  <2>1. PICK t, d : Ends(t, d) BY <1>1, UseEnds
  <2> QED BY <1>1, <2>1 DEF Ends, Commit, errRet
<1>2. CASE UseDcache(Dcache) /\ ~Live
  <2>1. PICK p \in Parent : MKDIR(Dcache, p)
    BY <1>2 DEF UseDcache, LOOKUP, CREATE, REMOVE, RENAMEInto, RENAME
  <2>2. Dcache.Lastoff \in Nat /\ DOMAIN Dcache.cache \subseteq {".", ".."} BY <1>2, DcacheFacts
  <2>3. InitDir(Dcache, p).slots = <<[name |-> ".", inum |-> Self], [name |-> "..", inum |-> p]>>
    BY <2>2, InitDirFacts
  <2>4. gen' = gen + 1 => Live' BY <1>2, Parity DEF DirInv, Live
  <2> QED BY <1>2, <2>1, <2>3, <2>4 DEF MKDIR, errRet
<1>3. CASE \E k \in DirSizes : SETATTR(k) BY <1>3, SetattrSame DEF Commit
<1>4. CASE RMDIR
  <2>1. gen' = gen + 1 => ~Live' BY <1>4, Parity DEF DirInv, Live, RMDIR
  <2> QED BY <1>4, <2>1 DEF RMDIR, Regular, errRet
<1>5. CASE Drop \/ Stale BY <1>5 DEF Drop, Stale
<1>6. CASE \E how \in Calls : List(how) BY <1>6 DEF List
<1>7. CASE UNCHANGED vars BY <1>7 DEF vars
<1> QED BY <1>1, <1>2, <1>3, <1>4, <1>5, <1>6, <1>7 DEF Next

\* A directory grows only in a step that adds an entry and takes none away: a
\* RENAME within it, or over one of its names, uses the slot that RemName has
\* just freed, and so cannot fail when it has already changed the Dcache
\* (AddNameDir, Lastoff).
THEOREM RenamesReuseSlots == ASSUME Regular PROVE Spec => RenameReusesSlot
<1> DEFINE Reuses == Size(slots') > Size(slots) =>
                       Entries(slots) \subseteq Entries(slots') /\ Entries(slots) # Entries(slots')
<1>1. ASSUME DirInv, [Next]_vars PROVE Reuses
  <2>1. Size(slots) \in Nat
    <3>1. Live => slots \in Seq(Slot) BY <1>1 DEF DirInv, GoodSlots
    <3>2. ~Live => slots = <<>> BY <1>1 DEF DirInv
    <3> QED BY SMT, <3>1, <3>2 DEF Size
  <2>2. CASE Size(slots') = Size(slots) BY SMT, <2>1, <2>2
  <2>3. CASE slots' = <<>>
    <3>1. Size(slots') = 0 BY <2>3 DEF Size
    <3> QED BY SMT, <2>1, <3>1
  <2>4. ASSUME NEW n \in Name, NEW i \in Inum, NEW k, Absent(slots, n),
               Adds(slots, slots', k, [name |-> n, inum |-> i])
        PROVE  Reuses
    <3> DEFINE e == [name |-> n, inum |-> i]
    <3>1. e \notin Entries(slots) BY SMT, <2>4 DEF Absent, Entries
    <3>2. Entries(slots') = Entries(slots) \cup {e} BY <2>4 DEF Adds, Entries
    <3> QED BY <3>1, <3>2
  <2>5. ASSUME NEW p \in Parent, ~Live,
               slots' = <<[name |-> ".", inum |-> Self], [name |-> "..", inum |-> p]>>
        PROVE  Reuses
    <3>1. slots = <<>> BY <1>1, <2>5 DEF DirInv
    <3>2. Entries(slots) = {} BY SMT, <3>1 DEF Entries, Used, Size
    <3>3. Used(slots') = {0, 1} BY <2>5, TwoSlots
    <3>4. Entries(slots') # {} BY <3>3 DEF Entries
    <3> QED BY <3>2, <3>4
  <2>6. ASSUME Changes(slots, slots') PROVE Reuses
    BY <2>2, <2>4, <2>6 DEF Changes, Removes, Replaces, Renames
  <2> HIDE DEF Reuses
  <2> QED BY <1>1, <2>2, <2>3, <2>5, <2>6, StepKinds
<1> HIDE DEF Reuses
<1>2. DirInv /\ [Next]_vars => [Reuses]_vars BY <1>1
<1>3. Spec => [][Reuses]_vars BY <1>2, AlwaysDirInv, PTL DEF Spec
<1> QED BY <1>3 DEF Reuses, RenameReusesSlot

-----------------------------------------------------------------------------
(* The map that the slots stand for.                                       *)

MapOf(s) == [n \in {e.name : e \in Entries(s)} |-> (CHOOSE e \in Entries(s) : e.name = n).inum]

\* What makes f the map of s.
Maps(f, s) ==
  /\ f = [n \in DOMAIN f |-> f[n]]
  /\ \A n : n \in DOMAIN f <=> ~Absent(s, n)
  /\ \A k \in Used(s) : f[At(s, k).name] = At(s, k).inum

LEMMA MapFacts == ASSUME NEW s, GoodSlots(s) PROVE Maps(MapOf(s), s)
<1> DEFINE D == {e.name : e \in Entries(s)}
           v(n) == (CHOOSE e \in Entries(s) : e.name = n).inum
<1>1. \A n : n \in D <=> ~Absent(s, n) BY DEF Entries, Absent
<1>2. ASSUME NEW k \in Used(s) PROVE v(At(s, k).name) = At(s, k).inum
  <2>1. At(s, k) \in Entries(s) BY DEF Entries
  <2>2. \A e \in Entries(s) : e.name = At(s, k).name => e = At(s, k) BY DEF Entries, GoodSlots
  <2> QED BY <2>1, <2>2
<1> HIDE DEF D, v
<1>3. MapOf(s) = [n \in D |-> v(n)] BY DEF MapOf, D, v
<1>4. \A k \in Used(s) : At(s, k).name \in D BY <1>1 DEF Absent
<1> QED BY <1>1, <1>2, <1>3, <1>4 DEF Maps

LEMMA MapUnique == ASSUME NEW s, NEW f, NEW g, Maps(f, s), Maps(g, s) PROVE f = g
<1>1. DOMAIN f = DOMAIN g BY DEF Maps
<1>2. ASSUME NEW n \in DOMAIN f PROVE f[n] = g[n]
  <2>1. ~Absent(s, n) BY DEF Maps
  <2>2. PICK k \in Used(s) : At(s, k).name = n BY <2>1 DEF Absent
  <2> QED BY <2>2 DEF Maps
<1> QED BY <1>1, <1>2 DEF Maps

\* The directory as its users see it.
AbsEnts == IF ~Live THEN None ELSE MapOf(slots)

LEMMA MapNotNone == ASSUME NEW s, GoodSlots(s) PROVE MapOf(s) # None
<1> DEFINE f == MapOf(s)
<1>1. Maps(f, s) BY MapFacts
<1> HIDE DEF f
<1>2. \A k \in Used(s) : At(s, k).name \in NamesAll /\ At(s, k).inum \in Numbers
  BY SlotFacts DEF GoodSlots
<1>3. \A n \in DOMAIN f : n \in NamesAll /\ f[n] \in Numbers BY <1>1, <1>2 DEF Maps, Absent
<1>4. f \in [DOMAIN f -> Numbers] /\ DOMAIN f \in SUBSET NamesAll BY <1>1, <1>3 DEF Maps
<1> QED BY <1>4, DirAssumption DEF f, Numbers

LEMMA DotsMap ==
  ASSUME NEW p \in Parent
  PROVE  MapOf(<<[name |-> ".", inum |-> Self], [name |-> "..", inum |-> p]>>) = Abs!Dots(p)
<1> DEFINE s == <<[name |-> ".", inum |-> Self], [name |-> "..", inum |-> p]>>
           f == [n \in {".", ".."} |-> IF n = "." THEN Self ELSE p]
<1>1. /\ Used(s) = {0, 1} /\ GoodSlots(s)
      /\ At(s, 0) = [name |-> ".", inum |-> Self] /\ At(s, 1) = [name |-> "..", inum |-> p]
  BY TwoSlots
<1> HIDE DEF s
<1>2. Maps(f, s) BY SMT, <1>1 DEF Maps, Absent
<1>3. f = Abs!Dots(p) BY DEF Abs!Dots
<1> HIDE DEF f
<1>4. f = MapOf(s) BY <1>1, <1>2, MapFacts, MapUnique
<1> QED BY <1>3, <1>4 DEF s

\* What each kind of change does to the map.
LEMMA AddsMap ==
  ASSUME NEW s, NEW t, GoodSlots(s), GoodSlots(t), NEW n \in Name, NEW i \in Inum, Absent(s, n),
         NEW k, Adds(s, t, k, [name |-> n, inum |-> i])
  PROVE  n \notin DOMAIN MapOf(s) /\ MapOf(t) = Abs!With(MapOf(s), n, i)
<1> DEFINE f == MapOf(s)
           g == [x \in DOMAIN f \cup {n} |-> IF x = n THEN i ELSE f[x]]
<1>1. Maps(f, s) /\ Maps(MapOf(t), t) BY MapFacts
<1> HIDE DEF f
<1>2. n \notin DOMAIN f BY <1>1 DEF Maps
<1>3. \A x : x \in DOMAIN g <=> ~Absent(t, x) BY SMT, <1>1 DEF Maps, Absent, Adds
<1>4. ASSUME NEW j \in Used(t) PROVE g[At(t, j).name] = At(t, j).inum
  <2>1. CASE j = k BY SMT, <2>1 DEF Adds
  <2>2. CASE j # k
    <3>1. j \in Used(s) /\ At(t, j) = At(s, j) BY <2>2 DEF Adds
    <3>2. At(s, j).name # n /\ At(s, j).name \in DOMAIN f /\ f[At(s, j).name] = At(s, j).inum
      BY <1>1, <3>1 DEF Maps, Absent
    <3> QED BY <3>1, <3>2
  <2> QED BY <2>1, <2>2
<1>5. Maps(g, t) BY <1>3, <1>4 DEF Maps
<1>6. g = Abs!With(f, n, i) BY DEF Abs!With
<1> HIDE DEF g
<1>7. MapOf(t) = g BY <1>1, <1>5, MapUnique
<1> QED BY <1>2, <1>6, <1>7 DEF f

LEMMA RemovesMap ==
  ASSUME NEW s, NEW t, GoodSlots(s), GoodSlots(t), NEW k \in Used(s), Removes(s, t, k)
  PROVE  At(s, k).name \in DOMAIN MapOf(s) /\ MapOf(t) = Abs!Without(MapOf(s), At(s, k).name)
<1> DEFINE f == MapOf(s)
           n == At(s, k).name
           g == [x \in DOMAIN f \ {n} |-> f[x]]
<1>1. Maps(f, s) /\ Maps(MapOf(t), t) BY MapFacts
<1>2. \A j \in Used(s) : j # k => At(s, j).name # n BY DEF GoodSlots
<1> HIDE DEF f, n
<1>3. n \in DOMAIN f BY <1>1 DEF Maps, Absent, n
<1>4. \A x : x \in DOMAIN g <=> ~Absent(t, x) BY SMT, <1>1, <1>2 DEF Maps, Absent, Removes, n
<1>5. ASSUME NEW j \in Used(t) PROVE g[At(t, j).name] = At(t, j).inum
  <2>1. j \in Used(s) /\ j # k /\ At(t, j) = At(s, j) BY DEF Removes
  <2>2. At(s, j).name # n /\ At(s, j).name \in DOMAIN f /\ f[At(s, j).name] = At(s, j).inum
    BY <1>1, <1>2, <2>1 DEF Maps, Absent
  <2> QED BY <2>1, <2>2
<1>6. Maps(g, t) BY <1>4, <1>5 DEF Maps
<1>7. g = Abs!Without(f, n) BY DEF Abs!Without
<1> HIDE DEF g
<1>8. MapOf(t) = g BY <1>1, <1>6, MapUnique
<1> QED BY <1>3, <1>7, <1>8 DEF f, n

LEMMA ReplacesMap ==
  ASSUME NEW s, NEW t, GoodSlots(s), GoodSlots(t), NEW k \in Used(s), NEW m \in Name, NEW i \in Inum,
         Replaces(s, t, k, m, i)
  PROVE  m \in DOMAIN MapOf(s) /\ MapOf(t) = Abs!With(MapOf(s), m, i)
<1> DEFINE f == MapOf(s)
           g == [x \in DOMAIN f \cup {m} |-> IF x = m THEN i ELSE f[x]]
<1>1. Maps(f, s) /\ Maps(MapOf(t), t) BY MapFacts
<1>2. At(s, k).name = m /\ \A j \in Used(s) : j # k => At(s, j).name # m BY DEF GoodSlots, Replaces
<1> HIDE DEF f
<1>3. m \in DOMAIN f BY <1>1, <1>2 DEF Maps, Absent
<1>4. \A x : x \in DOMAIN g <=> ~Absent(t, x)
  <2>1. \A x : Absent(t, x) <=> Absent(s, x)
    <3>1. \A j \in Used(s) : At(t, j).name = At(s, j).name BY SMT, <1>2 DEF Replaces
    <3> QED BY <3>1 DEF Absent, Replaces
  <2> QED BY <1>1, <1>3, <2>1 DEF Maps
<1>5. ASSUME NEW j \in Used(t) PROVE g[At(t, j).name] = At(t, j).inum
  <2>1. CASE j = k BY SMT, <2>1 DEF Replaces
  <2>2. CASE j # k
    <3>1. j \in Used(s) /\ At(t, j) = At(s, j) BY <2>2 DEF Replaces
    <3>2. At(s, j).name # m /\ At(s, j).name \in DOMAIN f /\ f[At(s, j).name] = At(s, j).inum
      BY <1>1, <1>2, <2>2, <3>1 DEF Maps, Absent
    <3> QED BY <3>1, <3>2
  <2> QED BY <2>1, <2>2
<1>6. Maps(g, t) BY <1>4, <1>5 DEF Maps
<1>7. g = Abs!With(f, m, i) BY DEF Abs!With
<1> HIDE DEF g
<1>8. MapOf(t) = g BY <1>1, <1>6, MapUnique
<1> QED BY <1>3, <1>7, <1>8 DEF f

LEMMA RenamesMap ==
  ASSUME NEW s, NEW t, GoodSlots(s), GoodSlots(t), NEW k \in Used(s), NEW m \in Name, Renames(s, t, k, m)
  PROVE  LET n == At(s, k).name
         IN  n \in DOMAIN MapOf(s)
             /\ MapOf(t) = Abs!With(Abs!Without(MapOf(s), n), m, MapOf(s)[n])
<1> DEFINE f == MapOf(s)
           n == At(s, k).name
           h == [x \in DOMAIN f \ {n} |-> f[x]]
           g == [x \in DOMAIN h \cup {m} |-> IF x = m THEN f[n] ELSE h[x]]
<1>1. Maps(f, s) /\ Maps(MapOf(t), t) BY MapFacts
<1>2. n # m /\ \A j \in Used(s) : j # k => At(s, j).name # n BY DEF GoodSlots, Renames
<1> HIDE DEF f, n
<1>3. n \in DOMAIN f /\ f[n] = At(s, k).inum BY <1>1 DEF Maps, Absent, n
<1>4. k \in Used(t) /\ At(t, k).name = m BY SMT, <1>2 DEF Renames, n
<1>5. \A j \in Used(t) : j # k => j \in Used(s) /\ At(t, j) = At(s, j) /\ At(s, j).name \notin {n, m}
  BY <1>2 DEF Renames
<1>6. ASSUME NEW x PROVE x \in DOMAIN g <=> ~Absent(t, x)
  <2>1. CASE x = m BY <1>4, <2>1 DEF Absent
  <2>2. CASE x # m
    <3>1. x \in DOMAIN g <=> x \in DOMAIN f /\ x # n BY <2>2
    <3>2. Absent(t, x) <=> Absent(s, x) \/ x = n
      <4>1. ASSUME NEW j \in Used(s), At(s, j).name = x, x # n PROVE j \in Used(t) /\ At(t, j).name = x
        BY <2>2, <4>1 DEF Renames, n
      <4>2. ASSUME NEW j \in Used(t), At(t, j).name = x PROVE j \in Used(s) /\ At(s, j).name = x /\ x # n
        BY <1>4, <1>5, <2>2, <4>2
      <4> HIDE DEF g
      <4> QED BY <4>1, <4>2 DEF Absent
    <3> QED BY <1>1, <3>1, <3>2 DEF Maps
  <2> QED BY <2>1, <2>2
<1>7. ASSUME NEW j \in Used(t) PROVE g[At(t, j).name] = At(t, j).inum
  <2>1. CASE j = k BY SMT, <1>3, <2>1 DEF Renames
  <2>2. CASE j # k
    <3>1. j \in Used(s) /\ At(t, j) = At(s, j) /\ At(s, j).name \notin {n, m} BY <1>5, <2>2
    <3>2. At(s, j).name \in DOMAIN f /\ f[At(s, j).name] = At(s, j).inum BY <1>1, <3>1 DEF Maps, Absent
    <3> QED BY <3>1, <3>2
  <2> QED BY <2>1, <2>2
<1>8. Maps(g, t) BY <1>6, <1>7 DEF Maps
<1>9. g = Abs!With(Abs!Without(f, n), m, f[n]) BY DEF Abs!With, Abs!Without
<1> HIDE DEF g
<1>10. MapOf(t) = g BY <1>1, <1>8, MapUnique
<1> QED BY <1>3, <1>9, <1>10 DEF f, n

\* The actions of DirSpec with the map written as AbsEnts.
LEMMA AbsActions ==
  /\ Abs!Init <=> \E p \in Parent : AbsEnts = Abs!Dots(p)
  /\ \A n, i : AbsEnts # None /\ n \notin DOMAIN AbsEnts /\ AbsEnts' = Abs!With(AbsEnts, n, i) => Abs!Add(n, i)
  /\ \A n, i : AbsEnts # None /\ n \in DOMAIN AbsEnts /\ AbsEnts' = Abs!With(AbsEnts, n, i) => Abs!Replace(n, i)
  /\ \A n : AbsEnts # None /\ n \in DOMAIN AbsEnts /\ AbsEnts' = Abs!Without(AbsEnts, n) => Abs!Remove(n)
  /\ \A n, m : AbsEnts # None /\ n \in DOMAIN AbsEnts
               /\ AbsEnts' = Abs!With(Abs!Without(AbsEnts, n), m, AbsEnts[n]) => Abs!Move(n, m)
  /\ AbsEnts # None /\ DOMAIN AbsEnts = {".", ".."} /\ AbsEnts' = None => Abs!RemoveDir
  /\ \A p : AbsEnts = None /\ AbsEnts' = Abs!Dots(p) => Abs!MakeDir(p)
<1>1. Abs!Init <=> \E p \in Parent : AbsEnts = Abs!Dots(p) BY DEF AbsEnts, MapOf, Abs!Init
<1>2. ASSUME NEW n, NEW i PROVE AbsEnts # None /\ n \notin DOMAIN AbsEnts /\ AbsEnts' = Abs!With(AbsEnts, n, i) => Abs!Add(n, i)
  BY DEF AbsEnts, MapOf, Abs!Add, Abs!Has
<1>3. ASSUME NEW n, NEW i PROVE AbsEnts # None /\ n \in DOMAIN AbsEnts /\ AbsEnts' = Abs!With(AbsEnts, n, i) => Abs!Replace(n, i)
  BY DEF AbsEnts, MapOf, Abs!Replace, Abs!Has
<1>4. ASSUME NEW n PROVE AbsEnts # None /\ n \in DOMAIN AbsEnts /\ AbsEnts' = Abs!Without(AbsEnts, n) => Abs!Remove(n)
  BY DEF AbsEnts, MapOf, Abs!Remove, Abs!Has
<1>5. ASSUME NEW n, NEW m
      PROVE  AbsEnts # None /\ n \in DOMAIN AbsEnts
               /\ AbsEnts' = Abs!With(Abs!Without(AbsEnts, n), m, AbsEnts[n]) => Abs!Move(n, m)
  BY DEF AbsEnts, MapOf, Abs!Move, Abs!Has
<1>6. AbsEnts # None /\ DOMAIN AbsEnts = {".", ".."} /\ AbsEnts' = None => Abs!RemoveDir
  BY DEF AbsEnts, MapOf, Abs!RemoveDir
<1>7. ASSUME NEW p PROVE AbsEnts = None /\ AbsEnts' = Abs!Dots(p) => Abs!MakeDir(p)
  BY DEF AbsEnts, MapOf, Abs!MakeDir
<1> QED BY <1>1, <1>2, <1>3, <1>4, <1>5, <1>6, <1>7

LEMMA StepMaps ==
  ASSUME DirInv, DirInv', NEW s, NEW t, s = slots, t = slots', Live, gen' = gen, Changes(s, t)
  PROVE  AbsEnts' = AbsEnts \/ Abs!Next
<1>1. GoodSlots(s) /\ GoodSlots(t) /\ Live' BY DEF DirInv, Live
<1>2. AbsEnts = MapOf(s) /\ AbsEnts # None BY <1>1, MapNotNone DEF AbsEnts
<1>3. AbsEnts' = MapOf(t) BY <1>1 DEF AbsEnts
<1>4. CASE t = s BY <1>2, <1>3, <1>4
<1>5. ASSUME NEW n \in Name, NEW i \in Inum, Absent(s, n), NEW k, Adds(s, t, k, [name |-> n, inum |-> i])
      PROVE  Abs!Next
  <2>1. n \notin DOMAIN MapOf(s) /\ MapOf(t) = Abs!With(MapOf(s), n, i) BY <1>1, <1>5, AddsMap
  <2>2. Abs!Add(n, i) BY <1>2, <1>3, <2>1, AbsActions
  <2> QED BY <2>2 DEF Abs!Next
<1>6. ASSUME NEW k \in Used(s), At(s, k).name \in Name, Removes(s, t, k) PROVE Abs!Next
  <2>1. At(s, k).name \in DOMAIN MapOf(s) /\ MapOf(t) = Abs!Without(MapOf(s), At(s, k).name)
    BY <1>1, <1>6, RemovesMap
  <2>2. Abs!Remove(At(s, k).name) BY <1>2, <1>3, <2>1, AbsActions
  <2> QED BY <1>6, <2>2 DEF Abs!Next
<1>7. ASSUME NEW k \in Used(s), NEW m \in Name, NEW i \in Inum, Replaces(s, t, k, m, i) PROVE Abs!Next
  <2>1. m \in DOMAIN MapOf(s) /\ MapOf(t) = Abs!With(MapOf(s), m, i) BY <1>1, <1>7, ReplacesMap
  <2>2. Abs!Replace(m, i) BY <1>2, <1>3, <2>1, AbsActions
  <2> QED BY <2>2 DEF Abs!Next
<1>8. ASSUME NEW k \in Used(s), NEW m \in Name, At(s, k).name \in Name, Renames(s, t, k, m) PROVE Abs!Next
  <2> DEFINE n == At(s, k).name
  <2>1. n \in DOMAIN MapOf(s) /\ MapOf(t) = Abs!With(Abs!Without(MapOf(s), n), m, MapOf(s)[n])
    BY <1>1, <1>8, RenamesMap
  <2> HIDE DEF n
  <2>2. Abs!Move(n, m) BY <1>2, <1>3, <2>1, AbsActions
  <2>3. n \in Name BY <1>8 DEF n
  <2> QED BY <2>2, <2>3 DEF Abs!Next
<1> QED BY <1>4, <1>5, <1>6, <1>7, <1>8 DEF Changes

\* The slots and the Dcache together behave like a map from names to numbers:
\* CREATE adds a name that is new, REMOVE takes one away, RENAME moves or
\* replaces in one step, a directory that is removed had only "." and "..", and
\* a procedure that fails changes nothing.
THEOREM ImplementsMap == ASSUME Regular PROVE Spec => ImplementsDirSpec
<1>1. ASSUME Init PROVE Abs!Init
  <2>1. PICK p \in Parent : slots = <<[name |-> ".", inum |-> Self], [name |-> "..", inum |-> p]>>
    BY <1>1 DEF Init
  <2>2. Live BY SMT, <1>1, Parity DEF Init, Live
  <2>3. AbsEnts = Abs!Dots(p) BY <2>1, <2>2, DotsMap DEF AbsEnts
  <2> QED BY <2>3, AbsActions
<1>2. ASSUME DirInv, DirInv', [Next]_vars PROVE AbsEnts' = AbsEnts \/ Abs!Next
  <2>1. CASE slots' = slots /\ gen' = gen BY SMT, <2>1 DEF AbsEnts, MapOf, Entries, Used, At, Size, Live
  <2>2. CASE Live /\ gen' = gen /\ Changes(slots, slots')
    <3>1. PICK s : s = slots OBVIOUS
    <3>2. PICK t : t = slots' OBVIOUS
    <3> QED BY <1>2, <2>2, <3>1, <3>2, StepMaps
  <2>3. CASE Live /\ ~Live' /\ IsDirEmpty(slots) /\ slots' = <<>>
    <3>1. GoodSlots(slots) BY <1>2, <2>3 DEF DirInv
    <3>2. AbsEnts = MapOf(slots) /\ AbsEnts # None /\ AbsEnts' = None BY <2>3, <3>1, MapNotNone DEF AbsEnts
    <3>3. Used(slots) = {0, 1}
      <4>1. Used(slots) \subseteq Nat /\ {0, 1} \subseteq Used(slots) BY <3>1, SlotFacts DEF GoodSlots
      <4>2. \A k \in Nat : k < 2 => k \in {0, 1} BY SMT
      <4> QED BY <2>3, <4>1, <4>2 DEF IsDirEmpty
    <3>4. DOMAIN MapOf(slots) = {".", ".."}
      <4>1. \A n : n \in DOMAIN MapOf(slots) <=> ~Absent(slots, n) BY <3>1, MapFacts DEF Maps
      <4>2. \A n : ~Absent(slots, n) <=> n \in {".", ".."} BY <3>1, <3>3 DEF Absent, GoodSlots
      <4> QED BY <4>1, <4>2
    <3>5. Abs!RemoveDir BY <3>2, <3>4, AbsActions
    <3> QED BY <3>5 DEF Abs!Next
  <2>4. CASE ~Live /\ Live' /\ \E p \in Parent :
                slots' = <<[name |-> ".", inum |-> Self], [name |-> "..", inum |-> p]>>
    <3>1. PICK p \in Parent : slots' = <<[name |-> ".", inum |-> Self], [name |-> "..", inum |-> p]>>
      BY <2>4
    <3>2. AbsEnts = None BY <2>4 DEF AbsEnts
    <3>3. AbsEnts' = Abs!Dots(p) BY <2>4, <3>1, DotsMap DEF AbsEnts
    <3>4. Abs!MakeDir(p) BY <3>2, <3>3, AbsActions
    <3> QED BY <3>4 DEF Abs!Next
  <2> QED BY <1>2, <2>1, <2>2, <2>3, <2>4, StepKinds
<1>3. DirInv /\ DirInv' /\ [Next]_vars =>
        [Abs!Next]_(IF ~Live THEN None ELSE
                      [n \in {e.name : e \in Entries(slots)} |-> (CHOOSE e \in Entries(slots) : e.name = n).inum])
  BY <1>2 DEF AbsEnts, MapOf
<1> QED BY <1>1, <1>3, AlwaysDirInv, PTL DEF Spec, ImplementsDirSpec, Abs!Spec

-----------------------------------------------------------------------------
(* Listing, with counts that leave room for ".", whose cookie is 0, and for *)
(* one more entry in the first reply.                                       *)

Roomy ==
  /\ \A c \in Counts : c > 97
  /\ \A p \in PlusCounts : p[1] > 9 /\ p[2] > 197

ListState ==
  [on : BOOLEAN, how : Calls \cup {<<>>}, gen : Nat, cookie : Nat, twice : BOOLEAN,
   owed : SUBSET Slot, had : SUBSET Slot]

\* The entries listing l is owed are in slots from b on, those it had before.
Places(l, s, b) ==
  /\ \A e \in l.owed : \E k \in Used(s) : At(s, k) = e /\ k >= b
  /\ \A e \in l.had : \E k \in Used(s) : At(s, k) = e /\ k < b

ListInv ==
  /\ rd \in ListState /\ ~rd.twice
  /\ rd.on => /\ rd.how \in Calls /\ rd.gen <= gen /\ rd.cookie > 0
              /\ rd.gen = gen => Places(rd, slots, rd.cookie + 1)
  /\ ~rd.on => rd.owed = {}

\* An entry that is there before and after a change is in the same slot.
LEMMA KeepsPlace ==
  ASSUME NEW s, NEW t, GoodSlots(s), Changes(s, t), NEW k \in Used(s), At(s, k) \in Entries(t)
  PROVE  k \in Used(t) /\ At(t, k) = At(s, k)
<1>0. \A j \in Used(s) : At(s, j).name = At(s, k).name => j = k BY DEF GoodSlots
<1>1. PICK j \in Used(t) : At(t, j) = At(s, k) BY DEF Entries
<1>2. CASE t = s BY <1>2
<1>3. ASSUME NEW n \in Name, NEW i \in Inum, Absent(s, n), NEW l, Adds(s, t, l, [name |-> n, inum |-> i])
      PROVE  k \in Used(t) /\ At(t, k) = At(s, k)
  BY <1>3 DEF Adds
<1>4. ASSUME NEW l \in Used(s), Removes(s, t, l) PROVE k \in Used(t) /\ At(t, k) = At(s, k)
  <2>1. j \in Used(s) /\ At(t, j) = At(s, j) BY <1>4 DEF Removes
  <2>2. j = k BY <1>0, <1>1, <2>1
  <2> QED BY <1>1, <2>2
<1>5. ASSUME NEW l \in Used(s), NEW m \in Name, NEW i \in Inum, Replaces(s, t, l, m, i)
      PROVE  k \in Used(t) /\ At(t, k) = At(s, k)
  <2>1. j \in Used(s) /\ At(t, j).name = At(s, j).name
    <3>1. CASE j = l BY SMT, <1>5, <3>1 DEF Replaces
    <3>2. CASE j # l BY <1>5, <3>2 DEF Replaces
    <3> QED BY <3>1, <3>2
  <2>2. j = k BY <1>0, <1>1, <2>1
  <2> QED BY <1>1, <2>2
<1>6. ASSUME NEW l \in Used(s), NEW m \in Name, Renames(s, t, l, m)
      PROVE  k \in Used(t) /\ At(t, k) = At(s, k)
  <2>1. CASE j = l
    <3>1. At(s, k).name = m /\ At(s, k).inum = At(s, l).inum BY SMT, <1>1, <1>6, <2>1 DEF Renames
    <3> QED BY <1>6, <3>1 DEF Renames
  <2>2. CASE j # l
    <3>1. j \in Used(s) /\ At(t, j) = At(s, j) BY <1>6, <2>2 DEF Renames
    <3>2. j = k BY <1>0, <1>1, <3>1
    <3> QED BY <1>1, <3>2
  <2> QED BY <2>1, <2>2
<1> QED BY <1>2, <1>3, <1>4, <1>5, <1>6 DEF Changes

\* One reply: the slots ks a loop visits that starts at b and is left after the
\* first slot in full.
LEMMA PageFacts ==
  ASSUME NEW s \in Seq(Slot), NEW b \in Nat, NEW full, full \subseteq UsedFrom(s, b), 0 \notin full
  PROVE  LET ks == UpToFirst(UsedFrom(s, b), full) IN
         /\ ks \subseteq UsedFrom(s, b)
         /\ full \cap ks = {} => ks = UsedFrom(s, b)
         /\ full \cap ks # {} =>
              Max(ks) \in ks /\ Max(ks) > 0 /\ \A k \in UsedFrom(s, b) : k \in ks <=> k <= Max(ks)
<1> DEFINE U == UsedFrom(s, b)
           ks == UpToFirst(U, full)
<1>1. Size(s) \in Nat /\ U \subseteq 0 .. Size(s) - 1 /\ U \subseteq Nat BY SlotFacts DEF UsedFrom
<1> HIDE DEF U
<1>2. ks \subseteq U BY DEF UpToFirst
<1>3. ASSUME full \cap ks = {} PROVE ks = U
  <2>1. CASE full = {} BY <2>1 DEF UpToFirst
  <2>2. CASE full # {}
    <3>1. full \subseteq Nat BY <1>1 DEF U
    <3>2. PICK x \in full : \A y \in full : x <= y BY <2>2, <3>1, Least
    <3>3. x \in ks BY <3>2 DEF UpToFirst, U
    <3> QED BY <1>3, <3>3
  <2> QED BY <2>1, <2>2
<1>4. ASSUME full \cap ks # {}
      PROVE  Max(ks) \in ks /\ Max(ks) > 0 /\ \A k \in U : k \in ks <=> k <= Max(ks)
  <2>1. PICK x : x \in full /\ x \in ks BY <1>4
  <2>2. ks \subseteq 0 .. Size(s) /\ ks # {}
    <3>1. 0 .. Size(s) - 1 \subseteq 0 .. Size(s) BY SMT, <1>1
    <3> HIDE DEF ks
    <3> QED BY <1>1, <1>2, <2>1, <3>1
  <2>3. Max(ks) \in ks /\ \A y \in ks : y <= Max(ks) BY <1>1, <2>2, MaxFacts
  <2>4. PICK m \in ks : m = Max(ks) BY <2>3
  <2>5. m \in Nat /\ x \in Nat /\ x # 0 /\ x <= m BY <1>1, <1>2, <2>1, <2>3, <2>4
  <2>6. m > 0 BY SMT, <2>5
  <2>7. ASSUME NEW k \in U, k <= m PROVE k \in ks
    <3>1. ASSUME NEW j \in full PROVE k <= j
      <4>1. m <= j /\ j \in Nat /\ k \in Nat BY <1>1, <2>4 DEF UpToFirst, U
      <4> QED BY SMT, <2>5, <2>7, <4>1
    <3> QED BY <3>1 DEF UpToFirst
  <2> QED BY <2>3, <2>4, <2>6, <2>7
<1> QED BY <1>2, <1>3, <1>4 DEF U

\* A reply to a client whose listing l goes on, or begins, keeps ListInv.
LEMMA ReplyInv ==
  ASSUME NEW s, GoodSlots(s), s = slots, slots' = s, gen \in Nat, gen' = gen,
         NEW l \in ListState, l.on, ~l.twice, l.gen = gen, l.how \in Calls,
         NEW b \in Nat, b = begin(l.cookie), Places(l, s, b),
         NEW full, full \subseteq UsedFrom(s, b), 0 \notin full,
         NEW ks, ks = UpToFirst(UsedFrom(s, b), full),
         NEW eof \in BOOLEAN, eof <=> full \cap ks = {},
         Reply(l, ks, eof)
  PROVE  ListInv'
<1> DEFINE U == UsedFrom(s, b)
           new == {At(s, k) : k \in ks}
<1>0. s \in Seq(Slot) BY DEF GoodSlots
<1>1. ks \subseteq U /\ (full \cap ks = {} => ks = U)
      /\ (full \cap ks # {} => Max(ks) \in ks /\ Max(ks) > 0 /\ \A k \in U : k \in ks <=> k <= Max(ks))
  BY <1>0, PageFacts
<1>2. U \subseteq Used(s) /\ U \subseteq Nat /\ Used(s) \subseteq Nat /\ \A k \in Used(s) : k \in U <=> k >= b
  BY <1>0, SlotFacts DEF UsedFrom
<1>3. new \subseteq Slot
  <2>1. \A k \in Used(s) : At(s, k) \in Slot BY <1>0, SlotFacts DEF Used
  <2> QED BY SMT, <1>1, <1>2, <2>1
<1>4. PICK c : c = (IF ks = {} THEN l.cookie ELSE Max(ks)) OBVIOUS
<1>5. c \in Nat /\ (full \cap ks # {} => c \in ks /\ c > 0 /\ \A k \in U : k \in ks <=> k <= c)
  <2>1. CASE full \cap ks # {}
    <3>1. c = Max(ks) BY <1>4, <2>1
    <3> QED BY <1>1, <1>2, <2>1, <3>1
  <2>2. CASE ks = {} BY <1>4, <2>2 DEF ListState
  <2>3. CASE ks # {} /\ full \cap ks = {}
    <3>1. ks \subseteq 0 .. Size(s) /\ Size(s) \in Nat
      <4>1. Size(s) \in Nat /\ Used(s) \subseteq 0 .. Size(s) - 1 BY <1>0, SlotFacts
      <4>2. 0 .. Size(s) - 1 \subseteq 0 .. Size(s) BY SMT, <4>1
      <4> HIDE DEF U
      <4> QED BY <1>1, <1>2, <4>1, <4>2
    <3>2. Max(ks) \in ks BY <2>3, <3>1, MaxFacts
    <3> QED BY <1>1, <1>2, <1>4, <2>3, <3>2
  <2> QED BY <2>1, <2>2, <2>3
<1>6. \A e \in new : e \notin l.had
  <2> SUFFICES ASSUME NEW k \in ks, At(s, k) \in l.had PROVE FALSE OBVIOUS
  <2>1. PICK j \in Used(s) : At(s, j) = At(s, k) /\ j < b BY DEF Places
  <2>2. k \in Used(s) /\ k >= b BY <1>1, <1>2
  <2>3. j = k BY <2>1, <2>2 DEF GoodSlots
  <2> QED BY SMT, <1>2, <2>1, <2>2, <2>3
<1>7. /\ rd' \in ListState /\ rd'.on = ~eof /\ rd'.cookie = c /\ rd'.gen = l.gen /\ rd'.how = l.how
      /\ rd'.owed = l.owed \ new /\ rd'.had = l.had \cup new /\ rd'.twice = FALSE
  <2>1. {At(slots, k) : k \in ks} = new OBVIOUS
  <2>2. rd' = [l EXCEPT !.on = ~eof, !.cookie = c, !.owed = l.owed \ new, !.had = l.had \cup new,
                        !.twice = l.twice \/ l.had \cap new # {}]
    <3> HIDE DEF new
    <3> QED BY <1>4, <2>1 DEF Reply
  <2>3. (l.twice \/ l.had \cap new # {}) = FALSE BY <1>6
  <2> HIDE DEF new
  <2> QED BY <1>3, <1>5, <2>2, <2>3 DEF ListState
<1>8. CASE eof
  <2>1. ks = U BY <1>1, <1>8
  <2>2. \A e \in l.owed : e \in new BY <1>2, <2>1 DEF Places
  <2>3. rd'.owed = {} BY <1>7, <2>2
  <2> QED BY <1>7, <1>8, <2>3 DEF ListInv
<1>9. CASE ~eof
  <2>1. c \in ks /\ c > 0 /\ c >= b /\ \A k \in U : k \in ks <=> k <= c BY <1>1, <1>2, <1>5, <1>9
  <2>2. ASSUME NEW e \in l.owed \ new PROVE \E k \in Used(s) : At(s, k) = e /\ k >= c + 1
    <3>1. PICK k \in Used(s) : At(s, k) = e /\ k >= b BY DEF Places
    <3>2. k \in U /\ k \notin ks BY <1>2, <3>1
    <3>3. k \in Nat /\ ~(k <= c) BY <1>2, <2>1, <3>2
    <3>4. k >= c + 1 BY SMT, <1>5, <3>3
    <3> QED BY <3>1, <3>4
  <2>3. ASSUME NEW e \in l.had \cup new PROVE \E k \in Used(s) : At(s, k) = e /\ k < c + 1
    <3>1. CASE e \in l.had
      <4>1. PICK k \in Used(s) : At(s, k) = e /\ k < b BY <3>1 DEF Places
      <4>2. k \in Nat BY <1>2
      <4> QED BY SMT, <1>5, <2>1, <4>1, <4>2
    <3>2. CASE e \in new
      <4>1. PICK k \in ks : At(s, k) = e BY <3>2
      <4>2. k \in U /\ k \in Used(s) /\ k \in Nat BY <1>1, <1>2
      <4>3. k <= c BY <2>1, <4>2
      <4> QED BY SMT, <1>5, <4>1, <4>2, <4>3
    <3> QED BY <3>1, <3>2
  <2>4. \A e \in rd'.owed : \E k \in Used(s) : At(s, k) = e /\ k >= rd'.cookie + 1
    <3> HIDE DEF new
    <3> QED BY <1>7, <2>2
  <2>5. \A e \in rd'.had : \E k \in Used(s) : At(s, k) = e /\ k < rd'.cookie + 1
    <3> HIDE DEF new
    <3> QED BY <1>7, <2>3
  <2>6. Places(rd, slots, rd.cookie + 1)'
    <3>1. Used(slots') = Used(s) /\ \A k : At(slots', k) = At(s, k) OBVIOUS
    <3> QED BY <2>4, <2>5, <3>1 DEF Places
  <2>7. rd'.gen <= gen' BY SMT, <1>7
  <2>8. rd'.cookie > 0 /\ rd'.how \in Calls /\ rd'.on /\ ~rd'.twice BY <1>7, <1>9, <2>1
  <2> HIDE DEF new
  <2> QED BY <1>7, <2>6, <2>7, <2>8 DEF ListInv
<1> QED BY <1>8, <1>9

\* A loop does not stop at slot 0.
LEMMA RoomFirst ==
  ASSUME Regular, Roomy, NEW s, GoodSlots(s), NEW b \in Nat, 0 \in UsedFrom(s, b)
  PROVE  /\ \A c \in Counts : ~ApplyEntsFull(s, b, 0, c)
         /\ \A p \in PlusCounts : ~ApplyFull(s, b, 0, p[1], p[2])
<1>1. s \in Seq(Slot) /\ 0 \in Used(s) /\ b = 0 /\ At(s, 0).name = "." BY SMT DEF UsedFrom, GoodSlots
<1>2. len(At(s, 0).name) = 1 BY <1>1 DEF len
<1>3. \A per \in Nat : Counted(s, b, 0, per) = per + 1 BY <1>1, <1>2, CountedFacts
<1>4. Counted(s, b, 0, 8) = 9 /\ Counted(s, b, 0, 16 + 8 + 8) = 33 BY SMT, <1>3
<1>5. Counted(s, b, 0, entryplus3Baggage) = 133 BY SMT, <1>3 DEF entryplus3Baggage
<1>6. ASSUME NEW c \in Counts PROVE ~ApplyEntsFull(s, b, 0, c)
  <2>1. c \in Nat /\ c > 97 BY DirAssumption DEF Roomy
  <2> QED BY SMT, <1>4, <2>1 DEF ApplyEntsFull
<1>7. ASSUME NEW p \in PlusCounts PROVE ~ApplyFull(s, b, 0, p[1], p[2])
  <2>1. p[1] \in Nat /\ p[2] \in Nat /\ p[1] > 9 /\ p[2] > 197 BY DirAssumption DEF Roomy
  <2>2. ~(9 >= p[1]) /\ ~(64 + 133 >= p[2]) BY SMT, <2>1
  <2> QED BY <1>4, <1>5, <2>2 DEF ApplyFull
<1> QED BY <1>6, <1>7

LEMMA CallShapes ==
  ASSUME NEW how \in Calls
  PROVE  /\ Len(how) = 1 => how[1] \in Counts
         /\ Len(how) = 2 => how \in PlusCounts
<1>1. CASE how \in PlusCounts
  <2>1. PlusCounts \subseteq Nat \X Nat BY DirAssumption
  <2>2. how \in Nat \X Nat BY <1>1, <2>1
  <2>3. how = <<how[1], how[2]>> BY SMT, <2>2
  <2>4. Len(how) = 2 BY SMT, <2>3
  <2>5. 1 # 2 BY SMT
  <2> QED BY <1>1, <2>4, <2>5
<1>2. CASE \E c \in Counts : how = <<c>>
  <2>1. PICK c \in Counts : how = <<c>> BY <1>2
  <2>2. Len(how) = 1 /\ how[1] = c BY <2>1
  <2>3. 1 # 2 BY SMT
  <2> QED BY <2>2, <2>3
<1> QED BY <1>1, <1>2 DEF Calls

\* The listing a call goes on with, or begins.
LEMMA ListingFacts ==
  ASSUME DirInv, ListInv, NEW how \in Calls, NEW l, l = Listing(how), Live, l.gen = gen, NEW s, s = slots
  PROVE  /\ l \in ListState /\ l.on /\ ~l.twice /\ begin(l.cookie) \in Nat
         /\ Places(l, s, begin(l.cookie))
<1>0. GoodSlots(s) /\ gen \in Nat BY DEF DirInv
<1>1. CASE rd.on
  <2>1. l = rd /\ l.cookie \in Nat /\ l.cookie > 0 BY <1>1 DEF Listing, ListInv, ListState
  <2>2. begin(l.cookie) = l.cookie + 1 BY SMT, <2>1 DEF begin
  <2> QED BY SMT, <1>1, <2>1, <2>2 DEF ListInv
<1>2. CASE ~rd.on
  <2>1. l = [on |-> TRUE, how |-> how, gen |-> gen, cookie |-> 0, twice |-> FALSE,
             owed |-> Entries(s), had |-> {}]
    BY <1>2 DEF Listing
  <2>2. Entries(s) \subseteq Slot
    <3>1. \A k \in Used(s) : At(s, k) \in Slot BY <1>0, SlotFacts DEF Used, GoodSlots
    <3> QED BY <3>1 DEF Entries
  <2>3. begin(0) = 0 BY DEF begin
  <2>4. Used(s) \subseteq Nat BY <1>0, SlotFacts DEF GoodSlots
  <2>5. Places(l, s, 0) BY SMT, <2>1, <2>4 DEF Places, Entries
  <2> QED BY SMT, <1>0, <2>1, <2>2, <2>3, <2>5 DEF ListState
<1> QED BY <1>1, <1>2

LEMMA ListKeeps ==
  ASSUME Regular, Roomy, DirInv, ListInv, NEW how \in Calls, List(how)
  PROVE  ListInv'
<1>1. PICK l : l = Listing(how) OBVIOUS
<1>2. PICK s : s = slots OBVIOUS
<1>3. Live /\ l.gen = gen /\ l.how = how /\ slots' = s /\ gen' = gen BY <1>1, <1>2 DEF List
<1>4. GoodSlots(s) /\ gen \in Nat BY <1>2, <1>3 DEF DirInv
<1>5. l \in ListState /\ l.on /\ ~l.twice /\ begin(l.cookie) \in Nat /\ Places(l, s, begin(l.cookie))
  BY <1>1, <1>2, <1>3, ListingFacts
<1>6. PICK b \in Nat : b = begin(l.cookie) BY <1>5
<1>7. CASE Len(how) = 1 /\ READDIR(l, how[1])
  <2> DEFINE U == UsedFrom(s, b)
             full == {k \in U : ApplyEntsFull(s, b, k, how[1])}
             ks == UpToFirst(U, full)
             eof == \A k \in ks : ~ApplyEntsFull(s, b, k, how[1])
  <2>1. 0 \notin full BY <1>4, <1>7, CallShapes, RoomFirst
  <2>2. eof \in BOOLEAN /\ (eof <=> full \cap ks = {}) BY DEF UpToFirst
  <2>3. ks = ApplyEnts(slots, l.cookie, how[1]) BY <1>2, <1>6 DEF ApplyEnts
  <2>4. Reply(l, ks, eof)
    <3> HIDE DEF ks
    <3> QED BY <1>2, <1>6, <1>7, <2>3 DEF READDIR
  <2>5. full \subseteq U OBVIOUS
  <2> HIDE DEF full, eof
  <2> QED BY SMT, <1>2, <1>3, <1>4, <1>5, <1>6, <2>1, <2>2, <2>4, <2>5, ReplyInv
<1>8. CASE Len(how) = 2 /\ READDIRPLUS(l, how[1], how[2])
  <2> DEFINE U == UsedFrom(s, b)
             full == {k \in U : ApplyFull(s, b, k, how[1], how[2])}
             ks == UpToFirst(U, full)
             eof == \A k \in ks : ~ApplyFull(s, b, k, how[1], how[2])
  <2>1. 0 \notin full BY <1>4, <1>8, CallShapes, RoomFirst
  <2>2. eof \in BOOLEAN /\ (eof <=> full \cap ks = {}) BY DEF UpToFirst
  <2>3. ks = Apply(slots, l.cookie, how[1], how[2]) BY <1>2, <1>6 DEF Apply
  <2>4. Reply(l, ks, eof)
    <3> HIDE DEF ks
    <3> QED BY <1>2, <1>6, <1>8, <2>3 DEF READDIRPLUS
  <2>5. full \subseteq U OBVIOUS
  <2> HIDE DEF full, eof
  <2> QED BY SMT, <1>2, <1>3, <1>4, <1>5, <1>6, <2>1, <2>2, <2>4, <2>5, ReplyInv
<1> QED BY <1>1, <1>7, <1>8 DEF List

LEMMA NoListKeeps == ASSUME rd' = NoList PROVE ListInv'
<1>1. NoList \in ListState /\ ~NoList.on /\ ~NoList.twice /\ NoList.owed = {} BY DEF NoList, ListState
<1> HIDE DEF NoList
<1> QED BY <1>1 DEF ListInv

LEMMA CommitKeeps ==
  ASSUME ListInv, NEW s, NEW t, NEW c, GoodSlots(s), s = slots, Changes(s, t), Commit(t, c)
  PROVE  ListInv'
<1>0. slots' = t /\ gen' = gen BY DEF Commit
<1>1. CASE ~rd.on BY <1>1, NoListKeeps DEF Commit
<1>2. CASE rd.on
  <2>1. rd' = [rd EXCEPT !.owed = rd.owed \cap Entries(t), !.had = rd.had \cap Entries(t)]
    BY <1>2 DEF Commit
  <2>2. rd \in ListState BY DEF ListInv
  <2>3. /\ rd' \in ListState /\ rd'.on /\ rd'.cookie = rd.cookie /\ rd'.gen = rd.gen /\ rd'.how = rd.how
        /\ rd'.owed = rd.owed \cap Entries(t) /\ rd'.had = rd.had \cap Entries(t) /\ rd'.twice = rd.twice
    BY <1>2, <2>1, <2>2 DEF ListState
  <2>4. PICK b : b = rd.cookie + 1 OBVIOUS
  <2>5. ASSUME rd.gen = gen PROVE Places(rd', t, b)
    <3>1. Places(rd, s, b) BY <1>2, <2>4, <2>5 DEF ListInv
    <3>2. ASSUME NEW e \in rd.owed \cap Entries(t) PROVE \E k \in Used(t) : At(t, k) = e /\ k >= b
      <4>1. PICK k \in Used(s) : At(s, k) = e /\ k >= b BY <3>1 DEF Places
      <4>2. k \in Used(t) /\ At(t, k) = At(s, k) BY <4>1, KeepsPlace
      <4> QED BY <4>1, <4>2
    <3>3. ASSUME NEW e \in rd.had \cap Entries(t) PROVE \E k \in Used(t) : At(t, k) = e /\ k < b
      <4>1. PICK k \in Used(s) : At(s, k) = e /\ k < b BY <3>1 DEF Places
      <4>2. k \in Used(t) /\ At(t, k) = At(s, k) BY <4>1, KeepsPlace
      <4> QED BY <4>1, <4>2
    <3> QED BY <2>3, <3>2, <3>3 DEF Places
  <2>6. Places(rd, slots, rd.cookie + 1)' <=> Places(rd', t, b) BY <1>0, <2>3, <2>4 DEF Places, Used, At, Size
  <2> QED BY <1>0, <1>2, <2>3, <2>5, <2>6 DEF ListInv
<1> QED BY <1>1, <1>2

LEMMA NextListInv == ASSUME Regular, Roomy, DirInv, ListInv, [Next]_vars PROVE ListInv'
<1>0. PICK s : s = slots OBVIOUS
<1>1. CASE slots' = slots /\ gen' = gen /\ rd' = rd
  <2>1. Places(rd, slots, rd.cookie + 1)' <=> Places(rd, slots, rd.cookie + 1)
    BY <1>1 DEF Places, Used, At, Size
  <2> QED BY <1>1, <2>1 DEF ListInv
<1>2. CASE gen' = gen + 1 /\ rd' = rd
  <2>1. gen \in Nat /\ (rd.on => rd.gen \in Nat /\ rd.gen <= gen) BY DEF DirInv, ListInv, ListState
  <2>2. rd.on => rd.gen <= gen + 1 /\ rd.gen # gen + 1 BY SMT, <2>1
  <2> QED BY <1>2, <2>2 DEF ListInv
<1>3. ASSUME Live, NEW t, NEW c, Changes(s, t), Commit(t, c) PROVE ListInv'
  <2>1. GoodSlots(s) BY <1>0, <1>3 DEF DirInv
  <2> QED BY <1>0, <1>3, <2>1, CommitKeeps
<1>4. CASE UseDcache(Dcache) /\ Live
  <2>1. PICK t, c : Ends(t, c) BY <1>4, UseEnds
  <2>2. CASE Commit(t, c) BY <1>0, <1>3, <1>4, <2>1, <2>2 DEF Ends
  <2>3. CASE errRet(c) BY <1>1, <2>3 DEF errRet
  <2> QED BY <2>1, <2>2, <2>3 DEF Ends
<1>5. CASE UseDcache(Dcache) /\ ~Live
  <2>1. PICK p \in Parent : MKDIR(Dcache, p)
    BY <1>5 DEF UseDcache, LOOKUP, CREATE, REMOVE, RENAMEInto, RENAME
  <2> QED BY <1>1, <1>2, <2>1 DEF MKDIR, errRet
<1>6. CASE \E k \in DirSizes : SETATTR(k)
  <2>1. Live /\ Commit(slots, dc) BY <1>6, SetattrSame
  <2>2. PICK c : c = dc OBVIOUS
  <2>3. Changes(s, s) BY DEF Changes
  <2> QED BY <1>0, <1>3, <2>1, <2>2, <2>3
<1>7. CASE RMDIR BY <1>1, <1>2, <1>7 DEF RMDIR, errRet
<1>8. CASE Drop BY <1>1, <1>8 DEF Drop
<1>9. CASE Stale BY <1>9, NoListKeeps DEF Stale
<1>10. CASE \E how \in Calls : List(how) BY <1>10, ListKeeps
<1>11. CASE UNCHANGED vars BY <1>1, <1>11 DEF vars
<1> QED BY <1>4, <1>5, <1>6, <1>7, <1>8, <1>9, <1>10, <1>11 DEF Next

\* A client that lists a directory call by call is given every entry that was
\* there all the time exactly once, whatever is added, removed or renamed
\* between its calls (Apply, ApplyEnts, the cookies of Ls3 and Readdir3). The
\* entry of a slot stays in that slot, so a cookie that is a slot divides what
\* the client has from what it is owed.
THEOREM EntriesListedOnce == ASSUME Regular, Roomy PROVE Spec => []ListedOnce
<1>1. Init => ListInv
  <2>1. NoList \in ListState /\ ~NoList.on /\ ~NoList.twice /\ NoList.owed = {} BY DEF NoList, ListState
  <2> HIDE DEF NoList
  <2> QED BY <2>1 DEF Init, ListInv
<1>2. DirInv /\ ListInv /\ [Next]_vars => ListInv' BY NextListInv
<1>3. ListInv => ListedOnce BY DEF ListInv, ListedOnce
<1> QED BY <1>1, <1>2, <1>3, AlwaysDirInv, PTL DEF Spec
=============================================================================
