------------------------------ MODULE SimpleSpec ------------------------------
(***************************************************************************)
(* What the simple server (simple/) promises its clients: a fixed set of   *)
(* files of at most MaxSize bytes; a call takes effect at one moment       *)
(* between the call and the reply; and a crash ends the calls under way,   *)
(* each with its whole effect or none, and undoes no call that was         *)
(* answered.  Calls on different files may take effect at the same moment. *)
(***************************************************************************)
EXTENDS Integers, Sequences

CONSTANTS
  Client,
  File,      \* the inode numbers of the files
  Root,      \* the inode number of the directory
  Requests,  \* what clients ask for
  MaxSize

VARIABLES
  file,   \* contents: len bytes at[0], ..., at[len - 1]
  call    \* of each client: idle, called or done, with request and reply

svars == <<file, call>>

NoReq == [proc |-> "none", inum |-> 0, off |-> 0, n |-> 0, w |-> 0, set |-> FALSE]
Answer(st, val, eof) == [st |-> st, val |-> val, eof |-> eof]
NoReply == Answer("none", <<>>, FALSE)
Idle == [st |-> "idle", req |-> NoReq, reply |-> NoReply]
Called(r) == [st |-> "called", req |-> r, reply |-> NoReply]
Done(r, a) == [st |-> "done", req |-> r, reply |-> a]

\* The offsets of n bytes.
Upto(n) == 0 .. n - 1
Empty == [len |-> 0, at |-> [k \in Upto(0) |-> 0]]

Init ==
  /\ file = [i \in File |-> Empty]
  /\ call = [c \in Client |-> Idle]

Larger(a, b) == IF a > b THEN a ELSE b

\* f with n bytes w at offset off.
Spliced(f, off, n, w) ==
  [len |-> Larger(f.len, off + n),
   at |-> [k \in Upto(Larger(f.len, off + n)) |-> IF off <= k /\ k < off + n THEN w ELSE f.at[k]]]

\* f cut to sz bytes, or filled up with zeros.
Resized(f, sz) ==
  [len |-> sz, at |-> [k \in Upto(sz) |-> IF k < f.len THEN f.at[k] ELSE 0]]

\* Writes leave no gap and do not pass MaxSize; set: Count is the length of Data.
WriteOK(f, r) == r.set /\ r.off <= f.len /\ r.off + r.n <= MaxSize

Effect(f, r) ==
  CASE r.proc = "WRITE" /\ WriteOK(f, r) -> Spliced(f, r.off, r.n, r.w)
    [] r.proc = "SETATTR" /\ r.set /\ r.n <= MaxSize -> Resized(f, r.n)
    [] OTHER -> f

\* The bytes of f that a READ of n bytes at off gives.
Bytes(f, off, n) ==
  [k \in 1 .. (IF off >= f.len THEN 0 ELSE IF off + n > f.len THEN f.len - off ELSE n) |->
     f.at[off + k - 1]]

ReplyTo(f, r) ==
  CASE r.proc = "GETATTR" -> Answer("OK", <<f.len>>, FALSE)
    [] r.proc = "READ" -> Answer("OK", Bytes(f, r.off, r.n), r.off + r.n >= f.len)
    [] r.proc = "WRITE" /\ WriteOK(f, r) -> Answer("OK", <<r.n>>, FALSE)
    [] r.proc = "WRITE" /\ ~WriteOK(f, r) -> Answer("SERVERFAULT", <<>>, FALSE)
    [] r.proc = "SETATTR" /\ r.set /\ r.n > MaxSize -> Answer("NOSPC", <<>>, FALSE)
    [] OTHER -> Answer("OK", <<>>, FALSE)

Call(c, r) ==
  /\ call[c] = Idle
  /\ call' = [call EXCEPT ![c] = Called(r)]
  /\ UNCHANGED file

\* The calls of S, on different files, take effect.
Do(S) ==
  /\ \A c \in S : call[c].st = "called" /\ call[c].req.inum \in File
  /\ \A c, d \in S : c # d => call[c].req.inum # call[d].req.inum
  /\ call' = [c \in Client |->
       IF c \in S THEN Done(call[c].req, ReplyTo(file[call[c].req.inum], call[c].req)) ELSE call[c]]
  /\ file' = [i \in File |->
       IF \E c \in S : call[c].req.inum = i
       THEN Effect(file[i], call[CHOOSE c \in S : call[c].req.inum = i].req)
       ELSE file[i]]

\* No file has that number; the directory has attributes.
NoFile(c) ==
  /\ call[c].st = "called" /\ call[c].req.inum \notin File
  /\ call' = [call EXCEPT ![c] = Done(call[c].req,
       IF call[c].req.inum = Root /\ call[c].req.proc = "GETATTR" THEN Answer("OK", <<0>>, FALSE)
       ELSE Answer("INVAL", <<>>, FALSE))]
  /\ UNCHANGED file

\* The journal refuses the transaction.
Fault(c) ==
  /\ call[c].st = "called"
  /\ \E st \in {"SERVERFAULT", "IO"} :
       call' = [call EXCEPT ![c] = Done(call[c].req, Answer(st, <<>>, FALSE))]
  /\ UNCHANGED file

Return(c) ==
  /\ call[c].st = "done"
  /\ call' = [call EXCEPT ![c] = Idle]
  /\ UNCHANGED file

Crash ==
  /\ call' = [c \in Client |-> Idle]
  /\ UNCHANGED file

Next ==
  \/ \E c \in Client : (\E r \in Requests : Call(c, r)) \/ NoFile(c) \/ Fault(c) \/ Return(c)
  \/ \E S \in SUBSET Client : Do(S)
  \/ Crash

Spec == Init /\ [][Next]_svars
=============================================================================
