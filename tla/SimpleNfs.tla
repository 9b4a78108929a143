------------------------------ MODULE SimpleNfs ------------------------------
(***************************************************************************)
(* The simple server (simple/): files of one block each, at a fixed place  *)
(* on the disk.  Every call takes the lock of its inode, runs one journal  *)
(* transaction and waits for it to be durable.                             *)
(*                                                                         *)
(* The journal and the lock map are external: a transaction reads the disk *)
(* and its own buffers, CommitWait installs the dirty buffers atomically   *)
(* or refuses them, and waits, when there are any, for the next flush of   *)
(* the log.  A flush serves every waiting call.  A crash leaves what was   *)
(* flushed.                                                                *)
(***************************************************************************)
EXTENDS Integers, Sequences

CONSTANTS
  Client,     \* the threads of the RPC server, each with one call at a time
  NInode,     \* nInode()
  LOGSIZE,    \* the log is in blocks 0 .. LOGSIZE - 1, the inodes in block LOGSIZE
  BlockSize,
  Byte,
  Requests,   \* the calls that clients make
  None        \* no client

Procs == {"GETATTR", "SETATTR", "READ", "WRITE", "COMMIT"}

\* n is Count, or the new size of SETATTR, and w is what each byte of Data is;
\* set is Set_it of SETATTR, and says that WRITE's Count is the length of Data.
Request == [proc : Procs, inum : Nat, off : Nat, n : Nat, w : Byte, set : BOOLEAN]

ASSUME SimpleAssumption ==
  /\ NInode \in Nat /\ LOGSIZE \in Nat /\ BlockSize \in Nat
  /\ Byte \subseteq Nat /\ 0 \in Byte
  /\ Requests \subseteq Request
  /\ None \notin Client

ROOTINUM == 1
Inum == 0 .. NInode - 1

validInum(inum) == inum # 0 /\ inum # ROOTINUM /\ inum < NInode
File == {i \in Inum : validInum(i)}

VARIABLES
  disk,     \* ino: the inodes, blk: the data blocks, with every commit
  durable,  \* the same, with the commits that a crash leaves
  phase,    \* of the server: down, mkfs, making, up
  lock,     \* lockmap: the client that holds each inode
  pc,       \* where each client's handler is
  req,      \* its arguments
  out       \* what its transaction holds and the reply it prepares

vars == <<disk, durable, phase, lock, pc, req, out>>

\* The data block of inode i.
DataOf(i) == LOGSIZE + 1 + i
Blk == {DataOf(i) : i \in Inum}
Block == [0 .. BlockSize - 1 -> Byte]
InodeRec == [size : 0 .. BlockSize, data : {0} \cup Blk]
Disk == [ino : [Inum -> InodeRec], blk : [Blk -> Block]]

Answer(st, val, eof) == [st |-> st, val |-> val, eof |-> eof]
NoReply == Answer("none", <<>>, FALSE)
Status == {"none", "OK", "INVAL", "NOSPC", "SERVERFAULT", "IO"}
Answers == [st : Status, val : Seq(Nat), eof : BOOLEAN]
NoReq == [proc |-> "none", inum |-> 0, off |-> 0, n |-> 0, w |-> 0, set |-> FALSE]

\* A transaction that has buffers ip and b, the ones in dirty modified.
Buffers(ip, b, dirty, ok, reply) ==
  [ino |-> ip, blk |-> b, dirty |-> dirty, ok |-> ok, reply |-> reply]
Outs ==
  [ino : InodeRec, blk : Block, dirty : SUBSET {"ino", "blk"}, ok : BOOLEAN, reply : Answers]
Zeros == [k \in 0 .. BlockSize - 1 |-> 0]
NoOut == Buffers([size |-> 0, data |-> 0], Zeros, {}, FALSE, NoReply)

ZeroDisk ==
  [ino |-> [i \in Inum |-> [size |-> 0, data |-> 0]], blk |-> [x \in Blk |-> Zeros]]

Init ==
  /\ disk = ZeroDisk /\ durable = ZeroDisk
  /\ phase = "down"
  /\ lock = [i \in File |-> None]
  /\ pc = [c \in Client |-> "idle"]
  /\ req = [c \in Client |-> NoReq]
  /\ out = [c \in Client |-> NoOut]

-----------------------------------------------------------------------------
\* inode.go and the _wp functions of ops.go, on inode ip and its block b.

Read(ip, b, offset, bytesToRead) ==
  IF offset >= ip.size THEN Answer("OK", <<>>, TRUE)
  ELSE LET count == IF bytesToRead > ip.size - offset THEN ip.size - offset ELSE bytesToRead
       IN Answer("OK", [k \in 1 .. count |-> b[offset + k - 1]], offset + count >= ip.size)

\* SumOverflows has no counterpart: these sums do not wrap, and BlockSize bounds them.
WriteRefused(ip, offset, count, whole) ==
  ~whole \/ offset + count > BlockSize \/ offset > ip.size

\* The block and the inode after Write has copied count bytes w to offset.
Write(ip, b, offset, count, w, reply) ==
  LET grows == offset + count > ip.size
  IN Buffers([ip EXCEPT !.size = IF grows THEN offset + count ELSE @],
             [k \in DOMAIN b |-> IF offset <= k /\ k < offset + count THEN w ELSE b[k]],
             IF grows THEN {"ino", "blk"} ELSE {"blk"}, TRUE, reply)

Reads(ip, b, reply) == Buffers(ip, b, {}, TRUE, reply)
Fails(ip, b, st) == Buffers(ip, b, {}, FALSE, Answer(st, <<>>, FALSE))

GETATTR_wp(ip, b, r) == Reads(ip, b, Answer("OK", <<ip.size>>, FALSE))

\* Faulty variant: a file grows by its size alone.
SETATTR_sparse(ip, b, r) ==
  LET done == Answer("OK", <<>>, FALSE)
  IN IF ~r.set THEN Reads(ip, b, done)
     ELSE IF r.n > BlockSize THEN Fails(ip, b, "NOSPC")
     ELSE Buffers([ip EXCEPT !.size = r.n], b, {"ino"}, TRUE, done)

SETATTR_wp(ip, b, r) ==
  LET done == Answer("OK", <<>>, FALSE)
  IN IF ~r.set THEN Reads(ip, b, done)
     ELSE IF ip.size < r.n
     THEN IF WriteRefused(ip, ip.size, r.n - ip.size, TRUE) THEN Fails(ip, b, "NOSPC")
          ELSE Write(ip, b, ip.size, r.n - ip.size, 0, done)
     ELSE Buffers([ip EXCEPT !.size = r.n], b, {"ino"}, TRUE, done)

READ_wp(ip, b, r) == Reads(ip, b, Read(ip, b, r.off, r.n))

WRITE_wp(ip, b, r) ==
  IF WriteRefused(ip, r.off, r.n, r.set) THEN Fails(ip, b, "SERVERFAULT")
  ELSE Write(ip, b, r.off, r.n, r.w, Answer("OK", <<r.n>>, FALSE))

COMMIT_wp(ip, b, r) == Reads(ip, b, Answer("OK", <<>>, FALSE))

wp(ip, b, r) ==
  CASE r.proc = "GETATTR" -> GETATTR_wp(ip, b, r)
    [] r.proc = "SETATTR" -> SETATTR_wp(ip, b, r)
    [] r.proc = "READ" -> READ_wp(ip, b, r)
    [] r.proc = "WRITE" -> WRITE_wp(ip, b, r)
    [] r.proc = "COMMIT" -> COMMIT_wp(ip, b, r)

-----------------------------------------------------------------------------
\* The handlers.

Goto(c, here, there) == pc[c] = here /\ pc' = [pc EXCEPT ![c] = there]

Begin(c) ==
  /\ phase = "up"
  /\ Goto(c, "idle", "called")
  /\ \E r \in Requests : req' = [req EXCEPT ![c] = r]
  /\ UNCHANGED <<disk, durable, phase, lock, out>>

\* GETATTR answers for the root; the other procedures do not take it.
Invalid(c) ==
  /\ ~validInum(req[c].inum)
  /\ Goto(c, "called", "reply")
  /\ out' = [out EXCEPT ![c].reply =
       IF req[c].proc = "GETATTR" /\ req[c].inum = ROOTINUM THEN Answer("OK", <<0>>, FALSE)
       ELSE Answer("INVAL", <<>>, FALSE)]
  /\ UNCHANGED <<disk, durable, phase, lock, req>>

Acquire(c) ==
  /\ validInum(req[c].inum) /\ lock[req[c].inum] = None
  /\ Goto(c, "called", "locked")
  /\ lock' = [lock EXCEPT ![req[c].inum] = c]
  /\ UNCHANGED <<disk, durable, phase, req, out>>

\* ReadInode, ReadBuf and the _wp function; a failure returns without a commit.
Body(c) ==
  LET ip == disk.ino[req[c].inum]
      o == wp(ip, disk.blk[ip.data], req[c])
  IN /\ Goto(c, "locked", IF o.ok THEN "commit" ELSE "release")
     /\ out' = [out EXCEPT ![c] = o]
     /\ UNCHANGED <<disk, durable, phase, lock, req>>

\* The disk with the dirty buffers o of a transaction on inode i.
Installed(d, i, o) ==
  [ino |-> IF "ino" \in o.dirty THEN [d.ino EXCEPT ![i] = o.ino] ELSE d.ino,
   blk |-> IF "blk" \in o.dirty THEN [d.blk EXCEPT ![o.ino.data] = o.blk] ELSE d.blk]

\* Faulty variant: CommitWait(false).
CommitNoWait(c) ==
  /\ Goto(c, "commit", "release")
  /\ disk' = Installed(disk, req[c].inum, out[c])
  /\ UNCHANGED <<durable, phase, lock, req, out>>

\* CommitWait(true), up to where it waits.
CommitWait(c) ==
  /\ Goto(c, "commit", IF out[c].dirty = {} THEN "release" ELSE "wait")
  /\ disk' = Installed(disk, req[c].inum, out[c])
  /\ UNCHANGED <<durable, phase, lock, req, out>>

CommitRefused(c) ==
  /\ Goto(c, "commit", "release")
  /\ out' = [out EXCEPT ![c].reply =
       Answer(IF req[c].proc = "COMMIT" THEN "IO" ELSE "SERVERFAULT", <<>>, FALSE)]
  /\ UNCHANGED <<disk, durable, phase, lock, req>>

Finish(c) == req' = [req EXCEPT ![c] = NoReq] /\ out' = [out EXCEPT ![c] = NoOut]

Release(c) ==
  /\ Goto(c, "release", "idle")
  /\ lock' = [lock EXCEPT ![req[c].inum] = None]
  /\ Finish(c)
  /\ UNCHANGED <<disk, durable, phase>>

Reply(c) ==
  /\ Goto(c, "reply", "idle")
  /\ Finish(c)
  /\ UNCHANGED <<disk, durable, phase, lock>>

-----------------------------------------------------------------------------
\* The disk and the life of the server.

\* The log is on the disk; CommitWait returns in every thread that waits.
Flush ==
  /\ disk # durable \/ phase \in {"mkfs", "making"} \/ \E c \in Client : pc[c] = "wait"
  /\ durable' = disk
  /\ pc' = [c \in Client |-> IF pc[c] = "wait" THEN "release" ELSE pc[c]]
  /\ phase' = CASE phase = "mkfs" -> "down" [] phase = "making" -> "up" [] OTHER -> phase
  /\ UNCHANGED <<disk, lock, req, out>>

\* Every inode keeps its size and gets its block.
inodeInit(d) == [d EXCEPT !.ino = [i \in Inum |-> [d.ino[i] EXCEPT !.data = DataOf(i)]]]

Mkfs ==
  /\ phase = "down" /\ phase' = "mkfs"
  /\ disk' = inodeInit(disk)
  /\ UNCHANGED <<durable, lock, pc, req, out>>

MakeNfs ==
  /\ phase = "down" /\ phase' = "making"
  /\ disk' = inodeInit(disk)
  /\ UNCHANGED <<durable, lock, pc, req, out>>

\* Recover is for a disk on which Mkfs or MakeNfs has returned.
Recover ==
  /\ phase = "down" /\ phase' = "up"
  /\ \A i \in Inum : disk.ino[i].data # 0
  /\ UNCHANGED <<disk, durable, lock, pc, req, out>>

Crash ==
  /\ phase # "down" /\ phase' = "down"
  /\ disk' = durable
  /\ lock' = [i \in File |-> None]
  /\ pc' = [c \in Client |-> "idle"]
  /\ req' = [c \in Client |-> NoReq]
  /\ out' = [c \in Client |-> NoOut]
  /\ UNCHANGED durable

Handler(c) ==
  \/ Begin(c) \/ Invalid(c) \/ Acquire(c) \/ Body(c)
  \/ CommitWait(c) \/ CommitRefused(c) \/ Release(c) \/ Reply(c)

Next == (\E c \in Client : Handler(c)) \/ Flush \/ Mkfs \/ MakeNfs \/ Recover \/ Crash

Spec == Init /\ [][Next]_vars

-----------------------------------------------------------------------------
\* The type of every variable; a file is never longer than its block.
TypeOK ==
  /\ disk \in Disk /\ durable \in Disk
  /\ phase \in {"down", "mkfs", "making", "up"}
  /\ lock \in [File -> Client \cup {None}]
  /\ pc \in [Client -> {"idle", "called", "locked", "commit", "wait", "release", "reply"}]
  /\ req \in [Client -> Requests \cup {NoReq}]
  /\ out \in [Client -> Outs]

\* The file that inode ip with block b is, and the one inode i of disk d is.
FileOf(ip, b) == [len |-> ip.size, at |-> [k \in 0 .. ip.size - 1 |-> b[k]]]
Contents(d, i) == FileOf(d.ino[i], d.blk[d.ino[i].data])

\* What the client sees of its call: it is done once the effect is durable and
\* the reply is fixed.
CallOf(c) ==
  CASE pc[c] = "idle" -> [st |-> "idle", req |-> NoReq, reply |-> NoReply]
    [] pc[c] \in {"release", "reply"} -> [st |-> "done", req |-> req[c], reply |-> out[c].reply]
    [] OTHER -> [st |-> "called", req |-> req[c], reply |-> NoReply]

\* A file that some call has changed and the disk may still lose is one that a
\* call waits for, with the lock: nobody reads, and no reply tells, what a crash
\* would undo.
ReadsAreDurable ==
  phase = "up" =>
    \A i \in File :
      \/ disk.ino[i] = durable.ino[i] /\ disk.blk[DataOf(i)] = durable.blk[DataOf(i)]
      \/ \E c \in Client : pc[c] = "wait" /\ req[c].inum = i /\ lock[i] = c

Promise == INSTANCE SimpleSpec WITH
  MaxSize <- BlockSize, Root <- ROOTINUM,
  file <- [i \in File |-> Contents(durable, i)],
  call <- [c \in Client |-> CallOf(c)]

\* The server implements SimpleSpec: under the inode locks and the journal every
\* call on a file is atomic, its reply is the one its effect deserves, and a crash
\* at any moment keeps the effect of every call that was answered.
ImplementsSimpleSpec == Promise!Spec
=============================================================================
