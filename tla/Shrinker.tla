------------------------------ MODULE Shrinker ------------------------------
(***************************************************************************)
(* The threads that free the blocks of truncated and removed files         *)
(* (shrinker/shrinker.go), the procedures that start them or help them     *)
(* (getShrink, getAlloc and their callers in nfs/nfs_ops.go) and the two   *)
(* ways the server goes down (ShutdownNfs and Crash in nfs/nfs.go).        *)
(*                                                                         *)
(* A transaction on an inode runs under that inode's lock and is one step. *)
(* A file is the set of its block numbers; which blocks of the disk they   *)
(* are, and the tree that leads to them, is in Inode.  Sizes are in blocks.*)
(***************************************************************************)
EXTENDS Naturals, FiniteSets

CONSTANTS
  Inum,      \* inodes
  Rpc,       \* threads of the RPC server
  Slot,      \* room for goroutines of StartShrinker (bounds their number)
  MaxBlocks, \* largest file
  Room,      \* blocks one transaction can free before the log is full
  FitsLimit, \* shrinkFits: fewer blocks than this are freed by Resize itself
  Procs,     \* the procedures clients call
  Quiesce    \* TRUE: the server is shut down only when no procedure runs

ASSUME ShrinkerAssumption ==
  /\ MaxBlocks \in Nat /\ Room \in Nat \ {0} /\ FitsLimit \in Nat
  /\ IsFiniteSet(Slot) /\ Slot \cap Rpc = {} /\ Quiesce \in BOOLEAN

VARIABLES
  ino,      \* committed inodes: live, Size, ShrinkSize and the blocks they have
  th,       \* threads: where they are and what they work on
  nthread,  \* ShrinkerSt.nthread
  crash,    \* ShrinkerSt.crash
  main,     \* the thread that shuts the server down
  asleep    \* it waits on condShut

vars == <<ino, th, nthread, crash, main, asleep>>

Thread == Rpc \cup Slot
Call ==
  {c \in [proc : {"SETATTR", "WRITE", "CREATE", "REMOVE"}, inum : Inum, arg : 0 .. MaxBlocks] :
     /\ c.proc = "WRITE" => c.arg < MaxBlocks
     /\ c.proc \in {"CREATE", "REMOVE"} => c.arg = 0}
NoCall == [proc |-> "none"]
Idle == [pc |-> "idle", call |-> NoCall]
File == [live : BOOLEAN, size : 0 .. MaxBlocks, shrink : 0 .. MaxBlocks, blks : SUBSET (0 .. MaxBlocks - 1)]
ThreadState ==
  [pc : {"idle", "try", "shrink", "check", "exit"},
   call : Call \cup {NoCall} \cup [proc : {"shrinker"}, inum : Inum]]

TypeOK ==
  /\ ino \in [Inum -> File]
  /\ th \in [Thread -> ThreadState]
  /\ nthread \in Nat
  /\ crash \in BOOLEAN
  /\ main \in {"serving", "crashing", "shutting", "down"}
  /\ asleep \in BOOLEAN

Init ==
  /\ ino = [i \in Inum |-> [live |-> FALSE, size |-> 0, shrink |-> 0, blks |-> {}]]
  /\ th = [t \in Thread |-> Idle]
  /\ nthread = 0
  /\ crash = FALSE
  /\ main = "serving"
  /\ asleep = FALSE

Running(s) == th[s].pc # "idle"

-----------------------------------------------------------------------------
(* inode/shrink.go and Resize.                                             *)

IsShrinking(f) == f.shrink > f.size

\* Faulty variant: a transaction finds no room in the log.
ShrunkToStuck(f) == f.shrink

ShrunkTo(f) == IF f.shrink > f.size + Room THEN f.shrink - Room ELSE f.size

\* One transaction frees blocks from the end, as many as fit the log.
Shrink(f) ==
  IF ~IsShrinking(f) THEN f
  ELSE [f EXCEPT !.shrink = ShrunkTo(f), !.blks = @ \ (ShrunkTo(f) .. f.shrink - 1)]

shrinkFits(n) == n < FitsLimit

\* Whether Resize leaves the work to a thread.
NeedsThread(f, sz) == sz < f.size /\ ~shrinkFits(f.size - sz)

Resize(f, sz) ==
  LET g == [f EXCEPT !.size = sz, !.shrink = IF sz < f.size THEN f.size ELSE sz]
  IN  IF sz < f.size /\ shrinkFits(f.size - sz) THEN Shrink(g) ELSE g

-----------------------------------------------------------------------------
(* The shrinker threads.                                                   *)

\* Faulty variant: the count is left to the new thread.
StartShrinkerLate(i, u) ==
  \E s \in Slot :
    /\ ~Running(s)
    /\ th' = [u EXCEPT ![s] = [pc |-> "shrink", call |-> [proc |-> "shrinker", inum |-> i]]]
    /\ UNCHANGED nthread

\* The caller counts the thread before it exists. u: the threads otherwise.
StartShrinker(i, u) ==
  \E s \in Slot :
    /\ ~Running(s)
    /\ th' = [u EXCEPT ![s] = [pc |-> "shrink", call |-> [proc |-> "shrinker", inum |-> i]]]
    /\ nthread' = nthread + 1

\* A transaction of DoShrink's loop.
DoShrink(t) ==
  LET i == th[t].call.inum IN
  /\ th[t].pc = "shrink"
  /\ ino' = [ino EXCEPT ![i] = Shrink(@)]
  /\ th' = [th EXCEPT ![t].pc = IF IsShrinking(Shrink(ino[i])) THEN "check" ELSE "exit"]
  /\ UNCHANGED <<nthread, crash, main, asleep>>

\* Faulty variant: the loop ends after one transaction.
DoShrinkOnce(t) ==
  /\ th[t].pc = "check"
  /\ th' = [th EXCEPT ![t].pc = "exit"]
  /\ UNCHANGED <<ino, nthread, crash, main, asleep>>

\* The loop stops after a transaction when the server is to crash.
DoShrinkCrashed(t) ==
  /\ th[t].pc = "check"
  /\ th' = [th EXCEPT ![t].pc = IF crash THEN "exit" ELSE "shrink"]
  /\ UNCHANGED <<ino, nthread, crash, main, asleep>>

\* The end of a shrinker thread.
shrinker(s) ==
  /\ s \in Slot /\ th[s].pc = "exit"
  /\ th' = [th EXCEPT ![s] = Idle]
  /\ nthread' = nthread - 1
  /\ asleep' = FALSE
  /\ UNCHANGED <<ino, crash, main>>

-----------------------------------------------------------------------------
(* The procedures.                                                         *)

\* A client calls. CREATE's inode is what AllocINum will return.
Begin(r) ==
  /\ th[r].pc = "idle" /\ main = "serving"
  /\ \E c \in Call :
       /\ c.proc \in Procs
       /\ th' = [th EXCEPT ![r] = [pc |-> "try", call |-> c]]
  /\ UNCHANGED <<ino, nthread, crash, main, asleep>>

\* The reply: the procedure's transaction is committed, and a thread started
\* by it, if any.
Reply(r, f, start) ==
  LET i == th[r].call.inum
      u == [th EXCEPT ![r] = Idle] IN
  /\ ino' = [ino EXCEPT ![i] = f]
  /\ IF start THEN StartShrinker(i, u) ELSE th' = u /\ UNCHANGED nthread
  /\ UNCHANGED <<crash, main, asleep>>

\* Faulty variant: the inode is used as it is.
MustShrinkNot(f) == FALSE

MustShrink(f) == IsShrinking(f)

\* getShrink and getAlloc: an inode that is shrinking is first shrunk, in
\* transactions of its own, and looked up again.
getShrink(r) ==
  LET c == th[r].call IN
  /\ th[r].pc = "try" /\ c.proc # "REMOVE"
  /\ ino[c.inum].live = (c.proc # "CREATE")
  /\ MustShrink(ino[c.inum])
  /\ th' = [th EXCEPT ![r].pc = "shrink"]
  /\ UNCHANGED <<ino, nthread, crash, main, asleep>>

HelpDone(r) ==
  /\ r \in Rpc /\ th[r].pc = "exit"
  /\ th' = [th EXCEPT ![r].pc = "try"]
  /\ UNCHANGED <<ino, nthread, crash, main, asleep>>

\* The inode is gone (or taken, for CREATE): an error, or another inode.
Stale(r) ==
  LET c == th[r].call IN
  /\ th[r].pc = "try"
  /\ ino[c.inum].live = (c.proc = "CREATE")
  /\ th' = [th EXCEPT ![r] = Idle]
  /\ UNCHANGED <<ino, nthread, crash, main, asleep>>

SETATTR(r) ==
  LET c == th[r].call
      f == ino[c.inum] IN
  /\ th[r].pc = "try" /\ c.proc = "SETATTR" /\ f.live /\ ~MustShrink(f)
  /\ Reply(r, Resize(f, c.arg), NeedsThread(f, c.arg))

\* WRITE of block arg.
WRITE(r) ==
  LET c == th[r].call
      f == ino[c.inum] IN
  /\ th[r].pc = "try" /\ c.proc = "WRITE" /\ f.live /\ ~MustShrink(f)
  /\ Reply(r, [f EXCEPT !.blks = @ \cup {c.arg},
                        !.size = IF c.arg >= @ THEN c.arg + 1 ELSE @], FALSE)

\* AllocInode leaves the size and the blocks of the inode alone.
CREATE(r) ==
  LET c == th[r].call
      f == ino[c.inum] IN
  /\ th[r].pc = "try" /\ c.proc = "CREATE" /\ ~f.live /\ ~MustShrink(f)
  /\ Reply(r, [f EXCEPT !.live = TRUE], FALSE)

\* doDecLink of the last link does not look whether the inode is shrinking.
REMOVE(r) ==
  LET c == th[r].call
      f == ino[c.inum] IN
  /\ th[r].pc = "try" /\ c.proc = "REMOVE" /\ f.live
  /\ Reply(r, [Resize(f, 0) EXCEPT !.live = FALSE], NeedsThread(f, 0))

-----------------------------------------------------------------------------
(* Going down.                                                             *)

Quiet == Quiesce => \A r \in Rpc : ~Running(r)

\* for nthread > 0 { condShut.Wait() }, under the mutex; then on to next.
WaitThreads(here, next) ==
  IF nthread > 0 THEN main' = here /\ asleep' = TRUE
  ELSE main' = next /\ asleep' = FALSE

Crash ==
  /\ main = "serving" /\ Quiet
  /\ crash' = TRUE
  /\ WaitThreads("crashing", "shutting")
  /\ UNCHANGED <<ino, th, nthread>>

CrashWoken ==
  /\ main = "crashing" /\ ~asleep
  /\ WaitThreads("crashing", "shutting")
  /\ UNCHANGED <<ino, th, nthread, crash>>

ShutdownNfs ==
  /\ main = "serving" /\ Quiet
  /\ WaitThreads("shutting", "down")
  /\ UNCHANGED <<ino, th, nthread, crash>>

ShutdownWoken ==
  /\ main = "shutting" /\ ~asleep
  /\ WaitThreads("shutting", "down")
  /\ UNCHANGED <<ino, th, nthread, crash>>

\* A new server on the same disk; no thread is started for the inodes that
\* are still shrinking.
MakeNfs ==
  /\ main = "down"
  /\ th' = [t \in Thread |-> Idle]
  /\ nthread' = 0 /\ crash' = FALSE /\ main' = "serving" /\ asleep' = FALSE
  /\ UNCHANGED ino

-----------------------------------------------------------------------------
ShrinkStep(t) == DoShrink(t) \/ DoShrinkCrashed(t) \/ shrinker(t)
RpcStep(r) ==
  \/ getShrink(r) \/ HelpDone(r) \/ Stale(r)
  \/ SETATTR(r) \/ WRITE(r) \/ CREATE(r) \/ REMOVE(r)
Down == CrashWoken \/ ShutdownWoken

Next ==
  \/ \E t \in Thread : ShrinkStep(t)
  \/ \E r \in Rpc : Begin(r) \/ RpcStep(r)
  \/ Crash \/ ShutdownNfs \/ Down \/ MakeNfs

Spec == Init /\ [][Next]_vars

\* The Go scheduler runs every goroutine that can run. Clients need not call,
\* and nobody need shut the server down.
FairSpec ==
  /\ Spec
  /\ \A t \in Thread : WF_vars(ShrinkStep(t))
  /\ \A r \in Rpc : WF_vars(RpcStep(r))
  /\ WF_vars(Down)

-----------------------------------------------------------------------------
(* Properties.                                                             *)

Shrinkers == {s \in Slot : Running(s)}

\* nthread counts the shrinker threads exactly, so that waiting for it to be
\* zero is waiting for all of them (StartShrinker, shrinker).
CountExact == nthread = Cardinality(Shrinkers)

\* When ShutdownNfs has come past Shutdown and shuts the log down, no shrinker
\* thread is left that would still use it.
NoThreadAfterShutdown == main = "down" => Shrinkers = {}

\* A file has no block past its end, or past what is still to be freed.
NothingPastEnd ==
  \A i \in Inum :
    LET f == ino[i]
    IN  f.blks \subseteq 0 .. (IF IsShrinking(f) THEN f.shrink ELSE f.size) - 1

\* An inode that CREATE hands out has no size and no blocks, however early it
\* is reused after REMOVE (AllocInode, getAlloc).
ReusedInodeEmpty ==
  [][\A i \in Inum : ~ino[i].live /\ ino'[i].live => ino[i].blks = {} /\ ino[i].size = 0]_vars

\* The goroutine or procedure works on freeing the tail of i.
WorksOn(t, i) ==
  /\ th[t].pc \in {"shrink", "check"} \cup (IF t \in Rpc THEN {"try", "exit"} ELSE {})
  /\ th[t].call.proc # "REMOVE" /\ th[t].call.inum = i

\* A file that is shrinking has a thread that frees its tail, as long as the
\* server has not been restarted: Resize either frees it all or starts one.
ShrinkingHasThread ==
  \A i \in Inum : IsShrinking(ino[i]) => \E t \in Thread : WorksOn(t, i)

\* A truncated file is shrunk to its size once a thread has been started for
\* it, whoever helps, removes or recreates the file meanwhile, unless the
\* server goes down (DoShrink, getShrink, getAlloc).
ShrinkCompletes ==
  \A i \in Inum :
    (\E s \in Slot : WorksOn(s, i)) ~> (~IsShrinking(ino[i]) \/ crash)

\* ShutdownNfs and Crash return: no wakeup of condShut is lost.
ShutdownReturns == (main \in {"crashing", "shutting"}) ~> (main = "down")
=============================================================================
