--------------------------- MODULE ShrinkerProofs ---------------------------
(***************************************************************************)
(* Proofs about Shrinker for any number of inodes, RPC threads and shrinker *)
(* threads: the count of shrinker threads is exact and none of them         *)
(* outlives the shutdown of a quiet server; no block is left past the end   *)
(* of a file, and only REMOVE of a shrinking file could leave one.          *)
(***************************************************************************)
EXTENDS Shrinker, FiniteSetTheorems, TLAPS

\* Once the server goes down no procedure runs that could start a thread, and
\* past Shutdown no thread is counted.
Drained ==
  /\ Quiesce /\ main # "serving" => \A r \in Rpc : ~Running(r)
  /\ Quiesce /\ main = "down" => nthread = 0

IInv == TypeOK /\ CountExact /\ Drained

\* The threads that run are finitely many, since Slot is finite.
LEMMA ShrinkersFinite == IsFiniteSet(Shrinkers) /\ Cardinality(Shrinkers) \in Nat
<1>1. Shrinkers \subseteq Slot BY DEF Shrinkers
<1>2. IsFiniteSet(Shrinkers) BY <1>1, FS_Subset, ShrinkerAssumption
<1> QED BY <1>2, FS_CardinalityType

\* What Shrink returns is a file.
LEMMA ShrinkType == \A f \in File : Shrink(f) \in File
<1> SUFFICES ASSUME NEW f \in File PROVE Shrink(f) \in File OBVIOUS
<1>1. f.size \in 0 .. MaxBlocks /\ f.shrink \in 0 .. MaxBlocks /\ f.blks \subseteq 0 .. MaxBlocks - 1
  BY DEF File
<1>2. ShrunkTo(f) \in 0 .. MaxBlocks BY <1>1, ShrinkerAssumption DEF ShrunkTo
<1>3. [f EXCEPT !.shrink = ShrunkTo(f), !.blks = @ \ (ShrunkTo(f) .. f.shrink - 1)] \in File
  BY <1>1, <1>2 DEF File
<1> QED BY <1>3 DEF Shrink

\* What Resize returns is a file.
LEMMA ResizeType == \A f \in File, sz \in 0 .. MaxBlocks : Resize(f, sz) \in File
<1> SUFFICES ASSUME NEW f \in File, NEW sz \in 0 .. MaxBlocks PROVE Resize(f, sz) \in File
  OBVIOUS
<1> DEFINE g == [f EXCEPT !.size = sz, !.shrink = IF sz < f.size THEN f.size ELSE sz]
<1>1. g \in File BY DEF File
<1>2. Shrink(g) \in File BY <1>1, ShrinkType
<1> QED BY <1>1, <1>2 DEF Resize

\* A step that changes no slot's idleness and not the count keeps the count.
LEMMA SameCount ==
  ASSUME CountExact, UNCHANGED nthread, \A s \in Slot : Running(s)' <=> Running(s)
  PROVE  CountExact'
<1>1. Shrinkers' = Shrinkers BY DEF Shrinkers
<1> QED BY <1>1 DEF CountExact

\* StartShrinker adds one to the threads and to the count.
LEMMA StartCounts ==
  ASSUME TypeOK, CountExact, NEW i \in Inum, NEW r \in Rpc,
         StartShrinker(i, [th EXCEPT ![r] = Idle])
  PROVE  CountExact' /\ nthread' \in Nat /\ th' \in [Thread -> ThreadState]
<1> DEFINE u == [th EXCEPT ![r] = Idle]
<1>1. PICK s \in Slot :
        /\ ~Running(s)
        /\ th' = [u EXCEPT ![s] = [pc |-> "shrink", call |-> [proc |-> "shrinker", inum |-> i]]]
        /\ nthread' = nthread + 1
  BY DEF StartShrinker
<1>2. th \in [Thread -> ThreadState] /\ r \in Thread /\ s \in Thread /\ r \notin Slot
  BY ShrinkerAssumption DEF TypeOK, Thread
<1>3. Idle \in ThreadState BY DEF Idle, ThreadState, NoCall
<1>4. u \in [Thread -> ThreadState] BY <1>2, <1>3
<1>5. [pc |-> "shrink", call |-> [proc |-> "shrinker", inum |-> i]] \in ThreadState
  BY DEF ThreadState
<1>6. th' \in [Thread -> ThreadState] BY <1>1, <1>2, <1>4, <1>5
<1>7. Shrinkers' = Shrinkers \cup {s} BY <1>1, <1>2, <1>4 DEF Shrinkers, Running, Thread
<1>8. s \notin Shrinkers BY <1>1 DEF Shrinkers
<1>9. Cardinality(Shrinkers') = Cardinality(Shrinkers) + 1
  BY <1>7, <1>8, ShrinkersFinite, FS_AddElement
<1> QED BY <1>1, <1>6, <1>9, ShrinkersFinite DEF CountExact, TypeOK

\* The reply of a procedure keeps types and count.
LEMMA ReplyKeeps ==
  ASSUME IInv, NEW r \in Rpc, NEW f \in File, NEW start \in BOOLEAN,
         th[r].pc = "try", th[r].call.inum \in Inum, Reply(r, f, start)
  PROVE  IInv'
<1> DEFINE i == th[r].call.inum
           u == [th EXCEPT ![r] = Idle]
<1>1. ino' \in [Inum -> File] BY DEF Reply, IInv, TypeOK
<1>2. r \in Thread /\ r \notin Slot BY ShrinkerAssumption DEF Thread
<1>3. CountExact' /\ nthread' \in Nat /\ th' \in [Thread -> ThreadState]
  <2>1. CASE start
    <3>1. StartShrinker(i, u) BY <2>1 DEF Reply
    <3> QED BY <3>1, StartCounts DEF IInv
  <2>2. CASE ~start
    <3>1. th' = u /\ UNCHANGED nthread BY <2>2 DEF Reply
    <3>2. Idle \in ThreadState BY DEF Idle, ThreadState, NoCall
    <3>3. th' \in [Thread -> ThreadState] BY <3>1, <3>2, <1>2 DEF IInv, TypeOK
    <3>4. \A s \in Slot : Running(s)' <=> Running(s)
      BY <3>1, <1>2 DEF Running, Thread, IInv, TypeOK
    <3> QED BY <3>1, <3>3, <3>4, SameCount DEF IInv, TypeOK
  <2> QED BY <2>1, <2>2
<1>4. TypeOK' BY <1>1, <1>3 DEF TypeOK, Reply, IInv
<1>5. Running(r) BY DEF Running
<1>6. Drained' BY <1>5 DEF Drained, IInv, Reply
<1> QED BY <1>3, <1>4, <1>6 DEF IInv

\* A step of a thread that only moves its program counter, and keeps it busy.
LEMMA MoveKeeps ==
  ASSUME IInv, NEW t \in Thread, NEW p \in {"try", "shrink", "check", "exit"},
         Running(t), th' = [th EXCEPT ![t].pc = p], ino' \in [Inum -> File],
         UNCHANGED <<nthread, crash, main, asleep>>
  PROVE  IInv'
<1>1. th' \in [Thread -> ThreadState]
  BY DEF IInv, TypeOK, ThreadState
<1>2. \A s \in Thread : Running(s)' <=> Running(s) BY DEF Running, IInv, TypeOK
<1>3. CountExact' BY <1>2, SameCount DEF IInv, Thread
<1>4. Drained' BY <1>2 DEF Drained, IInv, Thread
<1> QED BY <1>1, <1>3, <1>4 DEF IInv, TypeOK

\* A step of main that waits for the threads, or goes on when there are none.
LEMMA WaitKeeps ==
  ASSUME IInv, NEW here \in {"crashing", "shutting"}, NEW next \in {"shutting", "down"},
         WaitThreads(here, next), UNCHANGED <<ino, th, nthread>>, crash' \in BOOLEAN,
         Quiesce => \A r \in Rpc : ~Running(r)
  PROVE  IInv'
<1>1. TypeOK' BY DEF TypeOK, IInv, WaitThreads
<1>2. CountExact' BY SameCount DEF Running, IInv
<1>3. Drained' BY DEF Drained, IInv, TypeOK, WaitThreads, Running
<1> QED BY <1>1, <1>2, <1>3 DEF IInv

\* A thread that ends takes one off the threads and off the count.
LEMMA EndKeeps ==
  ASSUME IInv, NEW s \in Slot, shrinker(s)
  PROVE  IInv'
<1>1. s \in Thread /\ s \notin Rpc BY ShrinkerAssumption DEF Thread
<1>2. th \in [Thread -> ThreadState] /\ nthread \in Nat BY DEF IInv, TypeOK
<1>3. th' = [th EXCEPT ![s] = Idle] /\ nthread' = nthread - 1 BY DEF shrinker
<1>4. Idle \in ThreadState /\ Idle.pc = "idle" BY DEF Idle, ThreadState, NoCall
<1>5. s \in Shrinkers BY DEF Shrinkers, Running, shrinker
<1>6. Shrinkers' = Shrinkers \ {s}
  BY <1>1, <1>2, <1>3, <1>4 DEF Shrinkers, Running, Thread
<1>7. Cardinality(Shrinkers') = Cardinality(Shrinkers) - 1
  BY <1>5, <1>6, ShrinkersFinite, FS_RemoveElement
<1>8. CountExact' BY <1>3, <1>7 DEF CountExact, IInv
<1>9. Cardinality(Shrinkers') \in Nat
  <2>1. IsFiniteSet(Shrinkers') BY <1>6, ShrinkersFinite, FS_Subset
  <2> QED BY <2>1, FS_CardinalityType
<1>10. TypeOK'
  <2>1. nthread' \in Nat BY <1>8, <1>9 DEF CountExact
  <2>2. th' \in [Thread -> ThreadState] BY <1>1, <1>2, <1>3, <1>4
  <2> QED BY <2>1, <2>2 DEF TypeOK, IInv, shrinker
<1>11. Drained'
  <2>1. \A r \in Rpc : th'[r] = th[r] BY <1>1, <1>2, <1>3 DEF Thread
  <2>2. nthread # 0
    <3>1. Shrinkers # {} BY <1>5
    <3>2. Cardinality(Shrinkers) # 0 BY <3>1, ShrinkersFinite, FS_EmptySet
    <3> QED BY <3>2 DEF IInv, CountExact
  <2> QED BY <2>1, <2>2 DEF Drained, IInv, Running, shrinker
<1> QED BY <1>8, <1>10, <1>11 DEF IInv

\* The invariant holds at the start.
LEMMA InitIInv == Init => IInv
<1> SUFFICES ASSUME Init PROVE IInv OBVIOUS
<1>1. TypeOK
  <2>1. Idle \in ThreadState BY DEF Idle, ThreadState, NoCall
  <2>2. [live |-> FALSE, size |-> 0, shrink |-> 0, blks |-> {}] \in File
    BY ShrinkerAssumption DEF File
  <2> QED BY <2>1, <2>2 DEF Init, TypeOK
<1>2. Shrinkers = {} BY DEF Shrinkers, Running, Init, Idle, Thread
<1>3. CountExact BY <1>2, FS_EmptySet DEF CountExact, Init
<1> QED BY <1>1, <1>3 DEF IInv, Drained, Init

\* Every step keeps the invariant.
LEMMA NextIInv == IInv /\ [Next]_vars => IInv'
<1> SUFFICES ASSUME IInv, [Next]_vars PROVE IInv' OBVIOUS
<1>T. ino \in [Inum -> File] /\ th \in [Thread -> ThreadState] BY DEF IInv, TypeOK
<1>C. ASSUME NEW r \in Rpc,
             th[r].call.proc \in {"SETATTR", "WRITE", "CREATE", "REMOVE"}
      PROVE  th[r].call \in Call
  <2>1. th[r] \in ThreadState BY <1>T DEF Thread
  <2>2. th[r].call \in Call \cup {NoCall} \cup [proc : {"shrinker"}, inum : Inum]
    BY <2>1 DEF ThreadState
  <2> QED BY <2>2, <1>C DEF NoCall
<1>1. ASSUME NEW t \in Thread, DoShrink(t) PROVE IInv'
  <2>1. ino' \in [Inum -> File] BY <1>1, <1>T, ShrinkType DEF DoShrink
  <2>2. Running(t) BY <1>1 DEF DoShrink, Running
  <2>3. PICK p \in {"check", "exit"} : th' = [th EXCEPT ![t].pc = p]
    BY <1>1 DEF DoShrink
  <2> QED BY <2>1, <2>2, <2>3, <1>1, MoveKeeps DEF DoShrink
<1>2. ASSUME NEW t \in Thread, DoShrinkCrashed(t) PROVE IInv'
  <2>1. Running(t) /\ ino' \in [Inum -> File] BY <1>2, <1>T DEF DoShrinkCrashed, Running
  <2>2. PICK p \in {"shrink", "exit"} : th' = [th EXCEPT ![t].pc = p]
    BY <1>2 DEF DoShrinkCrashed
  <2> QED BY <2>1, <2>2, <1>2, MoveKeeps DEF DoShrinkCrashed
<1>3. ASSUME NEW t \in Thread, shrinker(t) PROVE IInv'
  BY <1>3, EndKeeps DEF shrinker
<1>4. ASSUME NEW r \in Rpc, Begin(r) PROVE IInv'
  <2>1. r \in Thread /\ r \notin Slot BY ShrinkerAssumption DEF Thread
  <2>2. PICK c \in Call : th' = [th EXCEPT ![r] = [pc |-> "try", call |-> c]]
    BY <1>4 DEF Begin
  <2>3. [pc |-> "try", call |-> c] \in ThreadState BY DEF ThreadState
  <2>4. TypeOK' BY <2>1, <2>2, <2>3, <1>4 DEF TypeOK, IInv, Begin
  <2>5. \A s \in Slot : Running(s)' <=> Running(s) BY <2>1, <2>2, <1>T DEF Running, Thread
  <2>6. CountExact' BY <2>5, <1>4, SameCount DEF IInv, Begin
  <2>7. Drained' BY <1>4 DEF Drained, Begin
  <2> QED BY <2>4, <2>6, <2>7 DEF IInv
<1>5. ASSUME NEW r \in Rpc, getShrink(r) \/ HelpDone(r) PROVE IInv'
  <2>1. Running(r) /\ ino' \in [Inum -> File] /\ r \in Thread
    BY <1>5, <1>T DEF getShrink, HelpDone, Running, Thread
  <2>2. PICK p \in {"shrink", "try"} : th' = [th EXCEPT ![r].pc = p]
    BY <1>5 DEF getShrink, HelpDone
  <2> QED BY <2>1, <2>2, <1>5, MoveKeeps DEF getShrink, HelpDone
<1>6. ASSUME NEW r \in Rpc, Stale(r) PROVE IInv'
  <2>1. r \in Thread /\ r \notin Slot BY ShrinkerAssumption DEF Thread
  <2>2. th' = [th EXCEPT ![r] = Idle] BY <1>6 DEF Stale
  <2>3. Idle \in ThreadState /\ Idle.pc = "idle" BY DEF Idle, ThreadState, NoCall
  <2>4. TypeOK' BY <2>1, <2>2, <2>3, <1>6 DEF TypeOK, IInv, Stale
  <2>5. \A s \in Slot : Running(s)' <=> Running(s) BY <2>1, <2>2, <1>T DEF Running, Thread
  <2>6. CountExact' BY <2>5, <1>6, SameCount DEF IInv, Stale
  <2>7. Drained' BY <2>1, <2>2, <2>3, <1>6, <1>T DEF Drained, IInv, Stale, Running, Thread
  <2> QED BY <2>4, <2>6, <2>7 DEF IInv
<1>7. ASSUME NEW r \in Rpc, SETATTR(r) PROVE IInv'
  <2>1. th[r].call \in Call BY <1>7, <1>C DEF SETATTR
  <2>2. th[r].call.inum \in Inum /\ th[r].call.arg \in 0 .. MaxBlocks BY <2>1 DEF Call
  <2>3. Resize(ino[th[r].call.inum], th[r].call.arg) \in File BY <2>2, <1>T, ResizeType
  <2>4. NeedsThread(ino[th[r].call.inum], th[r].call.arg) \in BOOLEAN BY DEF NeedsThread
  <2> QED BY <2>2, <2>3, <2>4, <1>7, ReplyKeeps DEF SETATTR
<1>8. ASSUME NEW r \in Rpc, WRITE(r) PROVE IInv'
  <2> DEFINE c == th[r].call
             f == ino[c.inum]
             g == [f EXCEPT !.blks = @ \cup {c.arg}, !.size = IF c.arg >= @ THEN c.arg + 1 ELSE @]
  <2>1. c \in Call BY <1>8, <1>C DEF WRITE
  <2>2. c.inum \in Inum /\ f \in File BY <2>1, <1>T DEF Call
  <2>3. c.arg < MaxBlocks /\ c.arg \in Nat
    BY <1>8, <2>1, ShrinkerAssumption DEF WRITE, Call
  <2>4. g \in File
    <3>1. f.blks \cup {c.arg} \subseteq 0 .. MaxBlocks - 1
      BY <2>2, <2>3, ShrinkerAssumption DEF File
    <3>2. (IF c.arg >= f.size THEN c.arg + 1 ELSE f.size) \in 0 .. MaxBlocks
      BY <2>2, <2>3, ShrinkerAssumption DEF File
    <3> HIDE DEF c
    <3> QED BY <2>2, <3>1, <3>2 DEF File
  <2> QED BY <2>2, <2>4, <1>8, ReplyKeeps DEF WRITE
<1>9. ASSUME NEW r \in Rpc, CREATE(r) PROVE IInv'
  <2>1. th[r].call \in Call BY <1>9, <1>C DEF CREATE
  <2>2. th[r].call.inum \in Inum BY <2>1 DEF Call
  <2>3. [ino[th[r].call.inum] EXCEPT !.live = TRUE] \in File BY <2>2, <1>T DEF File
  <2> QED BY <2>2, <2>3, <1>9, ReplyKeeps DEF CREATE
<1>10. ASSUME NEW r \in Rpc, REMOVE(r) PROVE IInv'
  <2>1. th[r].call \in Call BY <1>10, <1>C DEF REMOVE
  <2>2. th[r].call.inum \in Inum BY <2>1 DEF Call
  <2>3. Resize(ino[th[r].call.inum], 0) \in File
    BY <2>2, <1>T, ResizeType, ShrinkerAssumption
  <2>4. [Resize(ino[th[r].call.inum], 0) EXCEPT !.live = FALSE] \in File
    BY <2>3 DEF File
  <2>5. NeedsThread(ino[th[r].call.inum], 0) \in BOOLEAN BY DEF NeedsThread
  <2> QED BY <2>2, <2>4, <2>5, <1>10, ReplyKeeps DEF REMOVE
<1>11. ASSUME Crash \/ ShutdownNfs PROVE IInv'
  BY <1>11, WaitKeeps DEF Crash, ShutdownNfs, Quiet, IInv, TypeOK
<1>12. ASSUME Down PROVE IInv'
  BY <1>12, WaitKeeps DEF Down, CrashWoken, ShutdownWoken, IInv, TypeOK, Drained
<1>13. ASSUME MakeNfs PROVE IInv'
  <2>1. Idle \in ThreadState /\ Idle.pc = "idle" BY DEF Idle, ThreadState, NoCall
  <2>2. TypeOK' BY <1>13, <2>1 DEF MakeNfs, TypeOK, IInv
  <2>3. Shrinkers' = {} BY <1>13, <2>1 DEF MakeNfs, Shrinkers, Running, Thread
  <2>4. CountExact' BY <2>3, <1>13, FS_EmptySet DEF CountExact, MakeNfs
  <2> QED BY <2>2, <2>4, <1>13 DEF IInv, Drained, MakeNfs
<1>14. ASSUME UNCHANGED vars PROVE IInv'
  BY <1>14 DEF vars, IInv, TypeOK, CountExact, Shrinkers, Running, Drained
<1> QED
  BY <1>1, <1>2, <1>3, <1>4, <1>5, <1>6, <1>7, <1>8, <1>9, <1>10, <1>11, <1>12, <1>13, <1>14
  DEF Next, ShrinkStep, RpcStep

\* The inductive invariant of the shrinker.
THEOREM ShrinkerInvariant == Spec => []IInv
BY InitIInv, NextIInv, PTL DEF Spec

\* nthread is the number of shrinker threads, whatever interleaving of starts
\* and ends (StartShrinker, shrinker).
THEOREM ThreadsCounted == Spec => []CountExact
<1>1. IInv => CountExact BY DEF IInv
<1> QED BY <1>1, ShrinkerInvariant, PTL

\* Every variable keeps its type: calls, threads, files and their blocks.
THEOREM TypeCorrect == Spec => []TypeOK
<1>1. IInv => TypeOK BY DEF IInv
<1> QED BY <1>1, ShrinkerInvariant, PTL

\* No shrinker thread outlives ShutdownNfs or Crash when no procedure runs
\* while the server goes down.
THEOREM ShutdownWaits == ASSUME Quiesce PROVE Spec => []NoThreadAfterShutdown
<1>1. IInv => NoThreadAfterShutdown
  <2> SUFFICES ASSUME IInv, main = "down" PROVE Shrinkers = {}
    BY DEF NoThreadAfterShutdown
  <2>1. Cardinality(Shrinkers) = 0 BY DEF IInv, Drained, CountExact
  <2> QED BY <2>1, ShrinkersFinite, FS_EmptySet
<1> QED BY <1>1, ShrinkerInvariant, PTL

-----------------------------------------------------------------------------
(* What is left of a file past its end.                                    *)

\* The number of blocks from which on f has none.
Tail(f) == IF IsShrinking(f) THEN f.shrink ELSE f.size

Trimmed(f) == f.blks \subseteq 0 .. Tail(f) - 1

\* A transaction of Shrink frees what lies between the new ShrinkSize and the
\* old one, and what remains still ends there.
LEMMA ShrinkTrims ==
  ASSUME NEW f \in File, Trimmed(f)
  PROVE  Trimmed(Shrink(f)) /\ Shrink(f).size = f.size /\ Shrink(f).live = f.live
<1>1. CASE ~IsShrinking(f) BY <1>1 DEF Shrink
<1>2. CASE IsShrinking(f)
  <2> DEFINE n == ShrunkTo(f)
             g == [f EXCEPT !.shrink = n, !.blks = @ \ (n .. f.shrink - 1)]
  <2>1. f.size \in Nat /\ f.shrink \in Nat /\ f.blks \subseteq Nat
    BY ShrinkerAssumption DEF File
  <2>2. n \in Nat /\ n >= f.size /\ n < f.shrink
    BY <2>1, <1>2, ShrinkerAssumption DEF ShrunkTo, IsShrinking
  <2> HIDE DEF n
  <2>3. g.shrink = n /\ g.size = f.size /\ g.live = f.live /\ g.blks = f.blks \ (n .. f.shrink - 1)
    BY DEF File
  <2>4. f.blks \subseteq 0 .. f.shrink - 1 BY <1>2 DEF Trimmed, Tail
  <2>5. Tail(g) = n BY <2>1, <2>2, <2>3 DEF Tail, IsShrinking
  <2>6. g.blks \subseteq 0 .. n - 1 BY <2>1, <2>2, <2>3, <2>4
  <2>7. Shrink(f) = g BY <1>2 DEF Shrink, n
  <2> QED BY <2>3, <2>5, <2>6, <2>7 DEF Trimmed
<1> QED BY <1>1, <1>2

\* Resize of a file that is not shrinking: the blocks past the new end are
\* freed or still to be freed.
LEMMA ResizeTrims ==
  ASSUME NEW f \in File, NEW sz \in 0 .. MaxBlocks, Trimmed(f), ~IsShrinking(f)
  PROVE  /\ Trimmed(Resize(f, sz)) /\ Resize(f, sz).size = sz
         /\ Resize(f, sz).live = f.live
<1> DEFINE g == [f EXCEPT !.size = sz, !.shrink = IF sz < f.size THEN f.size ELSE sz]
<1>1. f.size \in Nat /\ f.shrink \in Nat /\ f.blks \subseteq Nat /\ sz \in Nat
  BY ShrinkerAssumption DEF File
<1>2. g \in File BY DEF File
<1>3. g.size = sz /\ g.shrink = (IF sz < f.size THEN f.size ELSE sz) /\ g.blks = f.blks
      /\ g.live = f.live
  BY DEF File
<1>4. f.blks \subseteq 0 .. f.size - 1 BY DEF Trimmed, Tail
<1>5. Tail(g) = g.shrink /\ g.shrink >= f.size BY <1>1, <1>3 DEF Tail, IsShrinking
<1> HIDE DEF g
<1>6. Trimmed(g) BY <1>1, <1>3, <1>4, <1>5 DEF Trimmed
<1>7. Trimmed(Shrink(g)) /\ Shrink(g).size = sz /\ Shrink(g).live = f.live
  BY <1>2, <1>3, <1>6, ShrinkTrims
<1> QED BY <1>3, <1>6, <1>7 DEF Resize, g

\* What WRITE leaves of a file that is not shrinking.
LEMMA WriteTrims ==
  ASSUME NEW f \in File, NEW n \in Nat, Trimmed(f), ~IsShrinking(f),
         NEW g, g = [f EXCEPT !.blks = @ \cup {n}, !.size = IF n >= @ THEN n + 1 ELSE @]
  PROVE  Trimmed(g) /\ ~IsShrinking(g) /\ g.live = f.live
<1>1. f.size \in Nat /\ f.shrink \in Nat /\ f.blks \subseteq 0 .. f.size - 1 /\ f.shrink <= f.size
  BY ShrinkerAssumption DEF File, Trimmed, Tail, IsShrinking
<1>2. g.blks = f.blks \cup {n} /\ g.size = (IF n >= f.size THEN n + 1 ELSE f.size)
      /\ g.shrink = f.shrink /\ g.live = f.live
  BY DEF File
<1>3. ~IsShrinking(g) BY <1>1, <1>2 DEF IsShrinking
<1>4. g.blks \subseteq 0 .. g.size - 1 BY <1>1, <1>2
<1> QED BY <1>2, <1>3, <1>4 DEF Trimmed, Tail

\* What a step may do to a file, and which procedure does it.
FileStep(f, g) ==
  \/ g = f \/ g = Shrink(f)
  \/ "SETATTR" \in Procs /\ ~IsShrinking(f) /\ f.live /\ \E sz \in 0 .. MaxBlocks : g = Resize(f, sz)
  \/ /\ ~IsShrinking(f) /\ f.live
     /\ \E n \in Nat : g = [f EXCEPT !.blks = @ \cup {n}, !.size = IF n >= @ THEN n + 1 ELSE @]
  \/ ~IsShrinking(f) /\ ~f.live /\ g = [f EXCEPT !.live = TRUE]
  \/ "REMOVE" \in Procs /\ f.live /\ g = [Resize(f, 0) EXCEPT !.live = FALSE]

\* The procedures that run are ones that clients call.
Asked == \A r \in Rpc : th[r].call \in Call => th[r].call.proc \in Procs

\* An inode that is not in use has no size, and without SETATTR a file in use
\* is never shrinking.
SizesKept ==
  \A i \in Inum :
    /\ ~ino[i].live => ino[i].size = 0
    /\ "SETATTR" \notin Procs /\ ino[i].live => ~IsShrinking(ino[i])

TInv == IInv /\ Asked /\ SizesKept /\ NothingPastEnd

\* The reply of a procedure changes one file, and leaves the calls alone.
LEMMA ReplyChanges ==
  ASSUME TypeOK, Asked, NEW r \in Rpc, NEW f \in File, NEW start,
         th[r].call.inum \in Inum, Reply(r, f, start)
  PROVE  /\ ino' = [ino EXCEPT ![th[r].call.inum] = f]
         /\ Asked'
<1> DEFINE i == th[r].call.inum
           u == [th EXCEPT ![r] = Idle]
<1>1. ino' = [ino EXCEPT ![i] = f] BY DEF Reply
<1>2. th \in [Thread -> ThreadState] /\ r \in Thread BY DEF TypeOK, Thread
<1>3. Idle.call \notin Call BY DEF Idle, NoCall, Call
<1>4. \A q \in Rpc : u[q].call \in Call => u[q].call.proc \in Procs
  BY <1>2, <1>3 DEF Asked, Thread
<1>5. \A q \in Rpc : th'[q] = u[q]
  <2>1. CASE start
    <3>1. StartShrinker(i, u) BY <2>1 DEF Reply
    <3>2. PICK s \in Slot :
            th' = [u EXCEPT ![s] = [pc |-> "shrink", call |-> [proc |-> "shrinker", inum |-> i]]]
      BY <3>1 DEF StartShrinker
    <3> HIDE DEF u
    <3> QED BY <3>2, ShrinkerAssumption
  <2>2. CASE ~start BY <2>2 DEF Reply
  <2> QED BY <2>1, <2>2
<1> QED BY <1>1, <1>4, <1>5 DEF Asked

\* Every step does to every file what FileStep allows, and Asked is kept.
LEMMA StepFiles ==
  ASSUME IInv, Asked, [Next]_vars
  PROVE  Asked' /\ \A i \in Inum : FileStep(ino[i], ino'[i])
<1>T. TypeOK /\ ino \in [Inum -> File] /\ th \in [Thread -> ThreadState] BY DEF IInv, TypeOK
<1>C. ASSUME NEW r \in Rpc,
             th[r].call.proc \in {"SETATTR", "WRITE", "CREATE", "REMOVE"}
      PROVE  /\ th[r].call \in Call /\ th[r].call.inum \in Inum /\ th[r].call.arg \in 0 .. MaxBlocks
             /\ th[r].call.arg \in Nat /\ ino[th[r].call.inum] \in File
  <2>1. th[r] \in ThreadState BY <1>T DEF Thread
  <2>2. th[r].call \in Call \cup {NoCall} \cup [proc : {"shrinker"}, inum : Inum]
    BY <2>1 DEF ThreadState
  <2>3. th[r].call \in Call BY <2>2, <1>C DEF NoCall
  <2> QED BY <2>3, <1>T, ShrinkerAssumption DEF Call
<1>0. \A f : FileStep(f, f) BY DEF FileStep
<1>S. ASSUME UNCHANGED ino, Asked' PROVE Asked' /\ \A i \in Inum : FileStep(ino[i], ino'[i])
  BY <1>S DEF FileStep
<1>M. ASSUME NEW t \in Thread, NEW p, th' = [th EXCEPT ![t].pc = p] PROVE Asked'
  BY <1>M, <1>T DEF Asked, Thread, ThreadState
<1>I. ASSUME NEW r \in Rpc, th' = [th EXCEPT ![r] = Idle] PROVE Asked'
  <2>1. Idle.call \notin Call BY DEF Idle, NoCall, Call
  <2> QED BY <2>1, <1>I, <1>T DEF Asked, Thread
<1>1. ASSUME NEW t \in Thread, DoShrink(t)
      PROVE  Asked' /\ \A i \in Inum : FileStep(ino[i], ino'[i])
  <2>1. ino' = [ino EXCEPT ![th[t].call.inum] = Shrink(@)] BY <1>1 DEF DoShrink
  <2>2. \A i \in Inum : ino'[i] \in {ino[i], Shrink(ino[i])} BY <2>1, <1>T
  <2> QED BY <1>1, <1>M, <2>2 DEF DoShrink, FileStep
<1>2. ASSUME NEW t \in Thread, DoShrinkCrashed(t)
      PROVE  Asked' /\ \A i \in Inum : FileStep(ino[i], ino'[i])
  BY <1>2, <1>M, <1>S DEF DoShrinkCrashed
<1>3. ASSUME NEW t \in Thread, shrinker(t)
      PROVE  Asked' /\ \A i \in Inum : FileStep(ino[i], ino'[i])
  <2>1. t \in Slot /\ \A r \in Rpc : th'[r] = th[r]
    BY <1>3, <1>T, ShrinkerAssumption DEF shrinker, Thread
  <2> QED BY <2>1, <1>3, <1>S DEF shrinker, Asked
<1>4. ASSUME NEW r \in Rpc, Begin(r)
      PROVE  Asked' /\ \A i \in Inum : FileStep(ino[i], ino'[i])
  <2>1. PICK c \in Call : c.proc \in Procs /\ th' = [th EXCEPT ![r] = [pc |-> "try", call |-> c]]
    BY <1>4 DEF Begin
  <2>2. Asked' BY <2>1, <1>T DEF Asked, Thread
  <2> QED BY <2>2, <1>4, <1>S DEF Begin
<1>5. ASSUME NEW r \in Rpc, getShrink(r) \/ HelpDone(r)
      PROVE  Asked' /\ \A i \in Inum : FileStep(ino[i], ino'[i])
  BY <1>5, <1>M, <1>S DEF getShrink, HelpDone, Thread
<1>6. ASSUME NEW r \in Rpc, Stale(r)
      PROVE  Asked' /\ \A i \in Inum : FileStep(ino[i], ino'[i])
  BY <1>6, <1>I, <1>S DEF Stale
<1>7. ASSUME NEW r \in Rpc, SETATTR(r)
      PROVE  Asked' /\ \A i \in Inum : FileStep(ino[i], ino'[i])
  <2> DEFINE c == th[r].call
             f == ino[c.inum]
  <2>1. c \in Call /\ c.inum \in Inum /\ c.arg \in 0 .. MaxBlocks /\ f \in File
    BY <1>7, <1>C DEF SETATTR
  <2>2. c.proc \in Procs /\ c.proc = "SETATTR" /\ f.live /\ ~IsShrinking(f)
        /\ Reply(r, Resize(f, c.arg), NeedsThread(f, c.arg))
    BY <1>7, <2>1 DEF Asked, SETATTR, MustShrink
  <2>3. Asked' /\ ino' = [ino EXCEPT ![c.inum] = Resize(f, c.arg)]
    BY <2>1, <2>2, <1>T, ResizeType, ReplyChanges
  <2>4. FileStep(f, Resize(f, c.arg)) BY <2>1, <2>2 DEF FileStep
  <2>5. \A i \in Inum : ino'[i] = IF i = c.inum THEN Resize(f, c.arg) ELSE ino[i]
    BY <2>3, <1>T
  <2> QED BY <2>3, <2>4, <2>5, <1>0
<1>8. ASSUME NEW r \in Rpc, WRITE(r)
      PROVE  Asked' /\ \A i \in Inum : FileStep(ino[i], ino'[i])
  <2> DEFINE c == th[r].call
             f == ino[c.inum]
             g == [f EXCEPT !.blks = @ \cup {c.arg}, !.size = IF c.arg >= @ THEN c.arg + 1 ELSE @]
  <2>1. c \in Call /\ c.inum \in Inum /\ c.arg \in Nat /\ f \in File /\ c.arg < MaxBlocks
    BY <1>8, <1>C DEF WRITE, Call
  <2>2. f.live /\ ~IsShrinking(f) /\ Reply(r, g, FALSE) BY <1>8 DEF WRITE, MustShrink
  <2>3. g \in File
    <3>1. f.blks \cup {c.arg} \subseteq 0 .. MaxBlocks - 1
      BY <2>1, ShrinkerAssumption DEF File
    <3>2. (IF c.arg >= f.size THEN c.arg + 1 ELSE f.size) \in 0 .. MaxBlocks
      BY <2>1, ShrinkerAssumption DEF File
    <3> HIDE DEF c
    <3> QED BY <2>1, <3>1, <3>2 DEF File
  <2>4. FileStep(f, g) BY <2>1, <2>2 DEF FileStep
  <2> HIDE DEF g
  <2>5. Asked' /\ ino' = [ino EXCEPT ![c.inum] = g]
    BY <2>1, <2>2, <2>3, <1>T, ReplyChanges
  <2>6. \A i \in Inum : ino'[i] = IF i = c.inum THEN g ELSE ino[i]
    BY <2>5, <1>T
  <2> QED BY <2>4, <2>5, <2>6, <1>0
<1>9. ASSUME NEW r \in Rpc, CREATE(r)
      PROVE  Asked' /\ \A i \in Inum : FileStep(ino[i], ino'[i])
  <2> DEFINE c == th[r].call
             f == ino[c.inum]
             g == [f EXCEPT !.live = TRUE]
  <2>1. c.inum \in Inum /\ f \in File BY <1>9, <1>C DEF CREATE
  <2>2. ~f.live /\ ~IsShrinking(f) /\ Reply(r, g, FALSE) BY <1>9 DEF CREATE, MustShrink
  <2>3. g \in File BY <2>1 DEF File
  <2>4. FileStep(f, g) BY <2>2 DEF FileStep
  <2> HIDE DEF g
  <2>5. Asked' /\ ino' = [ino EXCEPT ![c.inum] = g]
    BY <2>1, <2>2, <2>3, <1>T, ReplyChanges
  <2>6. \A i \in Inum : ino'[i] = IF i = c.inum THEN g ELSE ino[i]
    BY <2>5, <1>T
  <2> QED BY <2>4, <2>5, <2>6, <1>0
<1>10. ASSUME NEW r \in Rpc, REMOVE(r)
      PROVE  Asked' /\ \A i \in Inum : FileStep(ino[i], ino'[i])
  <2> DEFINE c == th[r].call
             f == ino[c.inum]
             g == [Resize(f, 0) EXCEPT !.live = FALSE]
  <2>1. c \in Call /\ c.inum \in Inum /\ f \in File BY <1>10, <1>C DEF REMOVE
  <2>2. c.proc = "REMOVE" /\ c.proc \in Procs /\ f.live /\ Reply(r, g, NeedsThread(f, 0))
    BY <1>10, <2>1 DEF REMOVE, Asked
  <2>3. g \in File
    <3>1. Resize(f, 0) \in File BY <2>1, ResizeType, ShrinkerAssumption
    <3> QED BY <3>1 DEF File
  <2>4. FileStep(f, g) BY <2>2 DEF FileStep
  <2> HIDE DEF g
  <2>5. Asked' /\ ino' = [ino EXCEPT ![c.inum] = g]
    BY <2>1, <2>2, <2>3, <1>T, ReplyChanges
  <2>6. \A i \in Inum : ino'[i] = IF i = c.inum THEN g ELSE ino[i]
    BY <2>5, <1>T
  <2> QED BY <2>4, <2>5, <2>6, <1>0
<1>11. ASSUME Crash \/ ShutdownNfs \/ Down
       PROVE  Asked' /\ \A i \in Inum : FileStep(ino[i], ino'[i])
  <2>1. UNCHANGED <<ino, th>> BY <1>11 DEF Crash, ShutdownNfs, Down, CrashWoken, ShutdownWoken
  <2> QED BY <2>1, <1>S DEF Asked
<1>12. ASSUME MakeNfs
       PROVE  Asked' /\ \A i \in Inum : FileStep(ino[i], ino'[i])
  <2>1. Idle.call \notin Call BY DEF Idle, NoCall, Call
  <2> QED BY <2>1, <1>12, <1>S DEF MakeNfs, Asked, Thread
<1>13. ASSUME UNCHANGED vars
       PROVE  Asked' /\ \A i \in Inum : FileStep(ino[i], ino'[i])
  BY <1>13, <1>S DEF vars, Asked
<1> QED
  BY <1>1, <1>2, <1>3, <1>4, <1>5, <1>6, <1>7, <1>8, <1>9, <1>10, <1>11, <1>12, <1>13
  DEF Next, ShrinkStep, RpcStep

\* A step of a file that is not removed while it shrinks keeps it trimmed.
LEMMA FileStepTrims ==
  ASSUME NEW f \in File, NEW g, FileStep(f, g), Trimmed(f),
         f.live /\ ~g.live => ~IsShrinking(f)
  PROVE  Trimmed(g)
<1>1. CASE g = f BY <1>1
<1>2. CASE g = Shrink(f) BY <1>2, ShrinkTrims
<1>3. CASE ~IsShrinking(f) /\ \E sz \in 0 .. MaxBlocks : g = Resize(f, sz)
  BY <1>3, ResizeTrims
<1>4. CASE /\ ~IsShrinking(f)
           /\ \E n \in Nat : g = [f EXCEPT !.blks = @ \cup {n}, !.size = IF n >= @ THEN n + 1 ELSE @]
  BY <1>4, WriteTrims
<1>5. CASE g = [f EXCEPT !.live = TRUE] BY <1>5 DEF Trimmed, Tail, IsShrinking, File
<1>6. CASE f.live /\ g = [Resize(f, 0) EXCEPT !.live = FALSE]
  <2>1. 0 \in 0 .. MaxBlocks BY ShrinkerAssumption
  <2>2. Resize(f, 0) \in File BY <2>1, ResizeType
  <2>3. ~g.live /\ g.size = Resize(f, 0).size /\ g.shrink = Resize(f, 0).shrink
        /\ g.blks = Resize(f, 0).blks
    BY <2>2, <1>6 DEF File
  <2>4. Trimmed(Resize(f, 0)) BY <2>1, <2>3, <1>6, ResizeTrims
  <2> QED BY <2>3, <2>4 DEF Trimmed, Tail, IsShrinking
<1> QED BY <1>1, <1>2, <1>3, <1>4, <1>5, <1>6 DEF FileStep

\* The sizes a step leaves, when not both SETATTR and REMOVE are called.
LEMMA FileStepSizes ==
  ASSUME NEW f \in File, NEW g, FileStep(f, g),
         ~({"SETATTR", "REMOVE"} \subseteq Procs), Trimmed(f),
         ~f.live => f.size = 0,
         "SETATTR" \notin Procs /\ f.live => ~IsShrinking(f)
  PROVE  /\ ~g.live => g.size = 0
         /\ "SETATTR" \notin Procs /\ g.live => ~IsShrinking(g)
         /\ f.live /\ ~g.live => ~IsShrinking(f)
<1>1. CASE g = f BY <1>1
<1>2. CASE g = Shrink(f)
  <2>1. g.size = f.size /\ g.live = f.live BY <1>2, ShrinkTrims
  <2>2. ~IsShrinking(f) => g = f BY <1>2 DEF Shrink
  <2> QED BY <2>1, <2>2
<1>3. CASE "SETATTR" \in Procs /\ f.live /\ ~IsShrinking(f)
           /\ \E sz \in 0 .. MaxBlocks : g = Resize(f, sz)
  <2>1. g.live = f.live BY <1>3, ResizeTrims
  <2> QED BY <2>1, <1>3
<1>4. CASE /\ ~IsShrinking(f) /\ f.live
           /\ \E n \in Nat : g = [f EXCEPT !.blks = @ \cup {n}, !.size = IF n >= @ THEN n + 1 ELSE @]
  BY <1>4, WriteTrims
<1>5. CASE ~IsShrinking(f) /\ ~f.live /\ g = [f EXCEPT !.live = TRUE]
  BY <1>5 DEF IsShrinking, File
<1>6. CASE "REMOVE" \in Procs /\ f.live /\ g = [Resize(f, 0) EXCEPT !.live = FALSE]
  <2>1. 0 \in 0 .. MaxBlocks BY ShrinkerAssumption
  <2>2. Resize(f, 0) \in File BY <2>1, ResizeType
  <2>3. ~g.live /\ g.size = Resize(f, 0).size BY <2>2, <1>6 DEF File
  <2>4. "SETATTR" \notin Procs BY <1>6
  <2>5. Resize(f, 0).size = 0 BY <2>1, <2>4, <1>6, ResizeTrims
  <2> QED BY <2>3, <2>4, <2>5, <1>6
<1> QED BY <1>1, <1>2, <1>3, <1>4, <1>5, <1>6 DEF FileStep

LEMMA TrimmedAll == NothingPastEnd <=> \A i \in Inum : Trimmed(ino[i])
BY DEF NothingPastEnd, Trimmed, Tail

LEMMA InitTInv == Init => TInv
<1> SUFFICES ASSUME Init PROVE TInv OBVIOUS
<1>1. IInv BY InitIInv
<1>2. Asked
  <2>1. Idle.call \notin Call BY DEF Idle, NoCall, Call
  <2> QED BY <2>1 DEF Asked, Init, Thread
<1>3. SizesKept BY DEF SizesKept, Init, IsShrinking
<1>4. NothingPastEnd BY DEF NothingPastEnd, Init, IsShrinking
<1> QED BY <1>1, <1>2, <1>3, <1>4 DEF TInv

LEMMA NextTInv ==
  ASSUME ~({"SETATTR", "REMOVE"} \subseteq Procs), TInv, [Next]_vars
  PROVE  TInv'
<1>1. IInv' BY NextIInv DEF TInv
<1>2. Asked' /\ \A i \in Inum : FileStep(ino[i], ino'[i]) BY StepFiles DEF TInv
<1>3. \A i \in Inum : ino[i] \in File /\ Trimmed(ino[i])
  BY TrimmedAll DEF TInv, IInv, TypeOK
<1>4. ASSUME NEW i \in Inum
      PROVE  /\ ~ino'[i].live => ino'[i].size = 0
             /\ "SETATTR" \notin Procs /\ ino'[i].live => ~IsShrinking(ino'[i])
             /\ ino[i].live /\ ~ino'[i].live => ~IsShrinking(ino[i])
  BY <1>2, <1>3, FileStepSizes DEF TInv, SizesKept
<1>5. \A i \in Inum : Trimmed(ino'[i]) BY <1>2, <1>3, <1>4, FileStepTrims
<1>6. NothingPastEnd' BY <1>5, TrimmedAll DEF NothingPastEnd, Trimmed, Tail
<1>7. SizesKept' BY <1>4 DEF SizesKept
<1> QED BY <1>1, <1>2, <1>6, <1>7 DEF TInv

\* No block of a file is forgotten past its end, whatever shrinks, writes,
\* helpers and restarts meet, when no file is both truncated and removed:
\* REMOVE does not look whether a file is shrinking (DoShrink, getShrink, Resize).
THEOREM TailsAreFreed ==
  ASSUME ~({"SETATTR", "REMOVE"} \subseteq Procs)
  PROVE  Spec => []NothingPastEnd
<1>1. Init => TInv BY InitTInv
<1>2. TInv /\ [Next]_vars => TInv' BY NextTInv
<1>3. TInv => NothingPastEnd BY DEF TInv
<1> QED BY <1>1, <1>2, <1>3, PTL DEF Spec

\* The inode CREATE takes has no size and no block, for the same callers
\* (getAlloc waits for the tail of a removed file to be freed).
THEOREM ReuseFindsEmpty ==
  ASSUME ~({"SETATTR", "REMOVE"} \subseteq Procs)
  PROVE  Spec => ReusedInodeEmpty
<1>1. Init => TInv BY InitTInv
<1>2. TInv /\ [Next]_vars => TInv' BY NextTInv
<1>3. TInv /\ [Next]_vars
      => [\A i \in Inum : ~ino[i].live /\ ino'[i].live => ino[i].blks = {} /\ ino[i].size = 0]_vars
  <2> SUFFICES ASSUME TInv, [Next]_vars, NEW i \in Inum, ~ino[i].live, ino'[i].live
               PROVE  ino[i].blks = {} /\ ino[i].size = 0
    OBVIOUS
  <2>1. ino[i] \in File /\ Trimmed(ino[i]) /\ ino[i].size = 0
    BY TrimmedAll DEF TInv, IInv, TypeOK, SizesKept
  <2>2. FileStep(ino[i], ino'[i]) BY StepFiles DEF TInv
  <2>3. Shrink(ino[i]).live = ino[i].live BY <2>1, ShrinkTrims
  <2>4. ~IsShrinking(ino[i]) BY <2>1, <2>2, <2>3 DEF FileStep
  <2> QED BY <2>1, <2>4 DEF Trimmed, Tail
<1> QED BY <1>1, <1>2, <1>3, PTL DEF Spec, ReusedInodeEmpty

\* A step after which a file has a block past its end removes a file that is
\* still shrinking.
OnlyRemoveForgets ==
  [][\A i \in Inum :
       Trimmed(ino[i]) /\ ~Trimmed(ino'[i]) => IsShrinking(ino[i]) /\ ino[i].live /\ ~ino'[i].live]_vars

\* Whatever clients call: only REMOVE of a shrinking file can make the server
\* forget blocks past its end (doDecLink, Resize).
THEOREM ForgottenOnlyByRemove == Spec => OnlyRemoveForgets
<1>1. Init => IInv /\ Asked BY InitTInv DEF TInv
<1>2. IInv /\ Asked /\ [Next]_vars => IInv' /\ Asked' BY NextIInv, StepFiles
<1>3. IInv /\ Asked /\ [Next]_vars
      => [\A i \in Inum :
            Trimmed(ino[i]) /\ ~Trimmed(ino'[i]) => IsShrinking(ino[i]) /\ ino[i].live /\ ~ino'[i].live]_vars
  BY StepFiles, FileStepTrims DEF IInv, TypeOK
<1> QED BY <1>1, <1>2, <1>3, PTL DEF Spec, OnlyRemoveForgets
=============================================================================
