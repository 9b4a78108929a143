--------------------------- MODULE SimpleNfsProofs ---------------------------
(***************************************************************************)
(* The simple server implements SimpleSpec, for every number of clients,   *)
(* files and bytes.                                                        *)
(***************************************************************************)
EXTENDS SimpleNfs, TLAPS

USE SimpleAssumption

\* A reply is made of a status, a sequence of numbers and a Boolean.
LEMMA AnswerType ==
  ASSUME NEW st \in Status, NEW val \in Seq(Nat), NEW eof \in BOOLEAN
  PROVE  Answer(st, val, eof) \in Answers
BY DEF Answer, Answers

\* The statuses and the short sequences that the handlers reply with.
LEMMA Statuses ==
  /\ \A st \in {"OK", "NOSPC", "SERVERFAULT", "INVAL", "IO", "none"} : st \in Status
  /\ <<>> \in Seq(Nat) /\ \A n \in Nat : <<n>> \in Seq(Nat)
BY DEF Status

\* What a procedure does to an inode and its block is well typed, keeps the
\* block's place, and differs from what it read only in the dirty buffers;
\* there are none when it fails.
LEMMA WpType ==
  ASSUME NEW ip \in InodeRec, NEW b \in Block, NEW r \in Requests
  PROVE  /\ wp(ip, b, r) \in Outs
         /\ wp(ip, b, r).ino.data = ip.data
         /\ "ino" \notin wp(ip, b, r).dirty => wp(ip, b, r).ino = ip
         /\ "blk" \notin wp(ip, b, r).dirty => wp(ip, b, r).blk = b
         /\ ~wp(ip, b, r).ok => wp(ip, b, r).dirty = {}
<1> DEFINE Good(o) == /\ o \in Outs /\ o.ino.data = ip.data
                      /\ "ino" \notin o.dirty => o.ino = ip
                      /\ "blk" \notin o.dirty => o.blk = b
                      /\ ~o.ok => o.dirty = {}
<1>0. r \in Request
  OBVIOUS
<1>1. ASSUME NEW a \in Answers PROVE Good(Reads(ip, b, a))
  BY <1>1 DEF Reads, Buffers, Outs
<1>2. ASSUME NEW st \in Status PROVE Good(Fails(ip, b, st))
  <2>1. Answer(st, <<>>, FALSE) \in Answers
    BY <1>2, AnswerType, Statuses, Zenon
  <2> QED
    BY <2>1, Zenon DEF Fails, Buffers, Outs
<1>3. ASSUME NEW off \in Nat, NEW n \in Nat, NEW w \in Byte, NEW a \in Answers,
             off + n <= BlockSize
      PROVE  Good(Write(ip, b, off, n, w, a))
  <2> DEFINE ip2 == [ip EXCEPT !.size = IF off + n > ip.size THEN off + n ELSE @]
             b2 == [k \in DOMAIN b |-> IF off <= k /\ k < off + n THEN w ELSE b[k]]
  <2>1. ip2 \in InodeRec /\ ip2.data = ip.data
    BY <1>3 DEF InodeRec
  <2>2. b2 \in Block
    BY <1>3 DEF Block
  <2>3. ~(off + n > ip.size) => ip2 = ip
    BY DEF InodeRec
  <2> QED
    BY <1>3, <2>1, <2>2, <2>3, Zenon DEF Write, Buffers, Outs
<1>4. ASSUME r.n <= ip.size
      PROVE  Good(Buffers([ip EXCEPT !.size = r.n], b, {"ino"}, TRUE, Answer("OK", <<>>, FALSE)))
  <2>1. Answer("OK", <<>>, FALSE) \in Answers
    BY AnswerType, Statuses, Zenon
  <2>2. [ip EXCEPT !.size = r.n] \in InodeRec /\ [ip EXCEPT !.size = r.n].data = ip.data
    BY <1>0, <1>4 DEF InodeRec, Request
  <2> QED
    BY <2>1, <2>2, Zenon DEF Buffers, Outs
<1>5. Answer("OK", <<>>, FALSE) \in Answers
  BY AnswerType, Statuses, Zenon
<1> SUFFICES Good(wp(ip, b, r))
  OBVIOUS
<1> HIDE DEF Good
<1>6. CASE r.proc = "GETATTR"
  <2>1. ip.size \in Nat
    BY DEF InodeRec
  <2>2. Answer("OK", <<ip.size>>, FALSE) \in Answers
    BY <2>1, AnswerType, Statuses, Zenon
  <2> QED
    BY <1>1, <1>6, <2>2, Zenon DEF wp, GETATTR_wp
<1>7. CASE r.proc = "SETATTR"
  <2>1. CASE r.set /\ ip.size < r.n /\ ~WriteRefused(ip, ip.size, r.n - ip.size, TRUE)
    <3>1. ip.size \in Nat /\ r.n - ip.size \in Nat /\ ip.size + (r.n - ip.size) <= BlockSize
      BY <1>0, <2>1 DEF InodeRec, Request, WriteRefused
    <3>2. wp(ip, b, r) = Write(ip, b, ip.size, r.n - ip.size, 0, Answer("OK", <<>>, FALSE))
      BY <1>7, <2>1 DEF wp, SETATTR_wp
    <3> QED
      BY <1>3, <1>5, <3>1, <3>2, Zenon
  <2>2. CASE r.set /\ ip.size < r.n /\ WriteRefused(ip, ip.size, r.n - ip.size, TRUE)
    BY <1>2, <1>7, <2>2, Statuses DEF wp, SETATTR_wp
  <2>3. CASE r.set /\ ~(ip.size < r.n)
    <3>1. r.n <= ip.size
      BY <1>0, <2>3 DEF InodeRec, Request
    <3> QED
      BY <1>4, <1>7, <2>3, <3>1, Zenon DEF wp, SETATTR_wp
  <2>4. CASE ~r.set
    BY <1>1, <1>5, <1>7, <2>4, Zenon DEF wp, SETATTR_wp
  <2> QED
    BY <2>1, <2>2, <2>3, <2>4, Zenon
<1>8. CASE r.proc = "READ"
  <2>1. Read(ip, b, r.off, r.n) \in Answers
    <3>1. CASE r.off >= ip.size
      BY <3>1, AnswerType, Statuses, Zenon DEF Read
    <3>2. CASE ~(r.off >= ip.size)
      <4> DEFINE count == IF r.n > ip.size - r.off THEN ip.size - r.off ELSE r.n
                 val == [k \in 1 .. count |-> b[r.off + k - 1]]
      <4>1. count \in Nat /\ r.off + count <= BlockSize
        BY <1>0, <3>2 DEF InodeRec, Request
      <4>2. \A k \in 1 .. count : b[r.off + k - 1] \in Nat
        <5> SUFFICES ASSUME NEW k \in 1 .. count PROVE b[r.off + k - 1] \in Nat
          OBVIOUS
        <5>1. r.off + k - 1 \in 0 .. BlockSize - 1
          BY <1>0, <4>1 DEF Request
        <5> QED
          BY <5>1, Zenon DEF Block
      <4> HIDE DEF count
      <4>3. val \in Seq(Nat)
        BY <4>1, <4>2
      <4>4. Read(ip, b, r.off, r.n) = Answer("OK", val, r.off + count >= ip.size)
        BY <3>2 DEF Read, count
      <4> HIDE DEF val
      <4> QED
        BY <4>3, <4>4, Statuses DEF Answer, Answers
    <3> QED
      BY <3>1, <3>2
  <2> QED
    BY <1>1, <1>8, <2>1 DEF wp, READ_wp
<1>9. CASE r.proc = "WRITE"
  <2>1. CASE WriteRefused(ip, r.off, r.n, r.set)
    BY <1>2, <1>9, <2>1, Statuses DEF wp, WRITE_wp
  <2>2. CASE ~WriteRefused(ip, r.off, r.n, r.set)
    <3>1. r.off \in Nat /\ r.n \in Nat /\ r.w \in Byte /\ r.off + r.n <= BlockSize
      BY <1>0, <2>2 DEF Request, WriteRefused
    <3>2. Answer("OK", <<r.n>>, FALSE) \in Answers
      BY <3>1, AnswerType, Statuses, Zenon
    <3>3. wp(ip, b, r) = Write(ip, b, r.off, r.n, r.w, Answer("OK", <<r.n>>, FALSE))
      BY <1>9, <2>2 DEF wp, WRITE_wp
    <3> QED
      BY <1>3, <3>1, <3>2, <3>3, Zenon
  <2> QED
    BY <2>1, <2>2
<1>10. CASE r.proc = "COMMIT"
  BY <1>1, <1>5, <1>10, Zenon DEF wp, COMMIT_wp
<1> QED
  BY <1>0, <1>6, <1>7, <1>8, <1>9, <1>10 DEF Request, Procs

\* On the file that an inode and its block are, a procedure has the effect and
\* gives the reply that SimpleSpec asks for, also when it fails.
LEMMA WpRefines ==
  ASSUME NEW ip \in InodeRec, NEW b \in Block, NEW r \in Requests
  PROVE  /\ Promise!Effect(FileOf(ip, b), r) = FileOf(wp(ip, b, r).ino, wp(ip, b, r).blk)
         /\ Promise!ReplyTo(FileOf(ip, b), r) = wp(ip, b, r).reply
<1> DEFINE f == FileOf(ip, b)
           Good(o) == /\ Promise!Effect(f, r) = FileOf(o.ino, o.blk)
                      /\ Promise!ReplyTo(f, r) = o.reply
<1>0. r \in Request /\ ip.size \in 0 .. BlockSize
  BY DEF InodeRec
<1>1. f.len = ip.size /\ f.at = [k \in 0 .. ip.size - 1 |-> b[k]]
  BY DEF FileOf
<1> SUFFICES Good(wp(ip, b, r))
  OBVIOUS
<1> HIDE DEF f
<1>2. \A st, val, eof : Promise!Answer(st, val, eof) = Answer(st, val, eof)
  BY DEF Promise!Answer, Answer
<1>3. CASE r.proc = "GETATTR"
  <2>1. Promise!Effect(f, r) = f
    BY <1>3 DEF Promise!Effect
  <2>2. Promise!ReplyTo(f, r) = Answer("OK", <<ip.size>>, FALSE)
    BY <1>1, <1>2, <1>3, Zenon DEF Promise!ReplyTo
  <2>3. wp(ip, b, r) = Reads(ip, b, Answer("OK", <<ip.size>>, FALSE))
    BY <1>3 DEF wp, GETATTR_wp
  <2> QED
    BY <2>1, <2>2, <2>3 DEF Reads, Buffers, f
<1>4. CASE r.proc = "COMMIT"
  <2>1. Promise!Effect(f, r) = f
    BY <1>4 DEF Promise!Effect
  <2>2. Promise!ReplyTo(f, r) = Answer("OK", <<>>, FALSE)
    BY <1>1, <1>2, <1>4, Zenon DEF Promise!ReplyTo
  <2>3. wp(ip, b, r) = Reads(ip, b, Answer("OK", <<>>, FALSE))
    BY <1>4 DEF wp, COMMIT_wp
  <2> QED
    BY <2>1, <2>2, <2>3 DEF Reads, Buffers, f
<1>5. CASE r.proc = "READ"
  <2>1. Promise!Effect(f, r) = f
    BY <1>5 DEF Promise!Effect
  <2>2. Promise!ReplyTo(f, r) = Answer("OK", Promise!Bytes(f, r.off, r.n), r.off + r.n >= f.len)
    BY <1>2, <1>5 DEF Promise!ReplyTo
  <2>3. wp(ip, b, r) = Reads(ip, b, Read(ip, b, r.off, r.n))
    BY <1>5 DEF wp, READ_wp
  <2>4. Answer("OK", Promise!Bytes(f, r.off, r.n), r.off + r.n >= f.len) = Read(ip, b, r.off, r.n)
    <3>1. CASE r.off >= ip.size
      <4>1. Promise!Bytes(f, r.off, r.n) = [k \in 1 .. 0 |-> f.at[r.off + k - 1]]
        BY <1>1, <3>1 DEF Promise!Bytes
      <4>2. Promise!Bytes(f, r.off, r.n) = <<>>
        BY <4>1
      <4>3. (r.off + r.n >= f.len) = TRUE
        BY <1>0, <1>1, <3>1 DEF Request
      <4> QED
        BY <3>1, <4>2, <4>3, Zenon DEF Read
    <3>2. CASE ~(r.off >= ip.size)
      <4> DEFINE count == IF r.n > ip.size - r.off THEN ip.size - r.off ELSE r.n
      <4>1. Promise!Bytes(f, r.off, r.n) = [k \in 1 .. count |-> f.at[r.off + k - 1]]
        BY <1>0, <1>1, <3>2 DEF Promise!Bytes, Request
      <4>2. \A k \in 1 .. count : f.at[r.off + k - 1] = b[r.off + k - 1]
        <5> SUFFICES ASSUME NEW k \in 1 .. count PROVE f.at[r.off + k - 1] = b[r.off + k - 1]
          OBVIOUS
        <5>1. r.off + k - 1 \in 0 .. ip.size - 1
          BY <1>0, <3>2 DEF Request
        <5> QED
          BY <1>1, <5>1
      <4>3. (r.off + r.n >= f.len) = (r.off + count >= ip.size)
        BY <1>0, <1>1, <3>2 DEF Request
      <4>4. Read(ip, b, r.off, r.n)
              = Answer("OK", [k \in 1 .. count |-> b[r.off + k - 1]], r.off + count >= ip.size)
        BY <3>2 DEF Read
      <4> HIDE DEF count
      <4>5. Promise!Bytes(f, r.off, r.n) = [k \in 1 .. count |-> b[r.off + k - 1]]
        BY <4>1, <4>2
      <4> QED
        BY <4>3, <4>4, <4>5
    <3> QED
      BY <3>1, <3>2
  <2> QED
    BY <2>1, <2>2, <2>3, <2>4 DEF Reads, Buffers, f
<1> DEFINE Splices(o, off, n, w, a) ==
             /\ FileOf(o.ino, o.blk) = Promise!Spliced(f, off, n, w)
             /\ o.reply = a
<1>6. ASSUME NEW off \in Nat, NEW n \in Nat, NEW w, NEW a, off <= ip.size, off + n <= BlockSize
      PROVE  Splices(Write(ip, b, off, n, w, a), off, n, w, a)
  <2> DEFINE len == IF off + n > ip.size THEN off + n ELSE ip.size
             b2 == [k \in DOMAIN b |-> IF off <= k /\ k < off + n THEN w ELSE b[k]]
  <2>1. /\ Write(ip, b, off, n, w, a).ino.size = len
        /\ Write(ip, b, off, n, w, a).blk = b2
        /\ Write(ip, b, off, n, w, a).reply = a
    BY DEF Write, Buffers, InodeRec
  <2>2. Promise!Larger(f.len, off + n) = len
    BY <1>0, <1>1 DEF Promise!Larger
  <2>3. len \in Nat /\ len <= BlockSize /\ len >= ip.size /\ (len > ip.size => len = off + n)
    BY <1>0, <1>6
  <2> HIDE DEF len
  <2>4. ASSUME NEW k \in 0 .. len - 1
        PROVE  b2[k] = IF off <= k /\ k < off + n THEN w ELSE f.at[k]
    <3>1. k \in DOMAIN b
      BY <2>3 DEF Block
    <3>2. (off <= k /\ k < off + n) \/ k \in 0 .. ip.size - 1
      BY <1>0, <1>6, <2>3
    <3> QED
      BY <1>1, <3>1, <3>2
  <2> HIDE DEF b2
  <2>5. [k \in 0 .. len - 1 |-> b2[k]]
          = [k \in 0 .. len - 1 |-> IF off <= k /\ k < off + n THEN w ELSE f.at[k]]
    BY <2>4
  <2> QED
    BY <2>1, <2>2, <2>5, Zenon DEF FileOf, Promise!Spliced, Promise!Upto
<1> HIDE DEF Splices
<1>7. CASE r.proc = "WRITE"
  <2>1. Promise!WriteOK(f, r) <=> ~WriteRefused(ip, r.off, r.n, r.set)
    BY <1>0, <1>1 DEF Promise!WriteOK, WriteRefused, Request
  <2>2. CASE WriteRefused(ip, r.off, r.n, r.set)
    <3>1. wp(ip, b, r) = Fails(ip, b, "SERVERFAULT")
      BY <1>7, <2>2 DEF wp, WRITE_wp
    <3>2. Promise!Effect(f, r) = f
      BY <1>7, <2>1, <2>2 DEF Promise!Effect
    <3>3. Promise!ReplyTo(f, r) = Answer("SERVERFAULT", <<>>, FALSE)
      BY <1>2, <1>7, <2>1, <2>2, Zenon DEF Promise!ReplyTo
    <3> QED
      BY <3>1, <3>2, <3>3 DEF Fails, Buffers, f
  <2>3. CASE ~WriteRefused(ip, r.off, r.n, r.set)
    <3>1. wp(ip, b, r) = Write(ip, b, r.off, r.n, r.w, Answer("OK", <<r.n>>, FALSE))
      BY <1>7, <2>3 DEF wp, WRITE_wp
    <3>2. Promise!Effect(f, r) = Promise!Spliced(f, r.off, r.n, r.w)
      BY <1>7, <2>1, <2>3 DEF Promise!Effect
    <3>3. Promise!ReplyTo(f, r) = Answer("OK", <<r.n>>, FALSE)
      BY <1>2, <1>7, <2>1, <2>3, Zenon DEF Promise!ReplyTo
    <3>4. r.off \in Nat /\ r.n \in Nat /\ r.off <= ip.size /\ r.off + r.n <= BlockSize
      BY <1>0, <2>3 DEF Request, WriteRefused
    <3>5. /\ FileOf(wp(ip, b, r).ino, wp(ip, b, r).blk) = Promise!Spliced(f, r.off, r.n, r.w)
          /\ wp(ip, b, r).reply = Answer("OK", <<r.n>>, FALSE)
      <4>1. Splices(wp(ip, b, r), r.off, r.n, r.w, Answer("OK", <<r.n>>, FALSE))
        BY <1>6, <3>1, <3>4, Zenon
      <4> QED
        BY <4>1 DEF Splices
    <3> QED
      BY <3>2, <3>3, <3>5
  <2> QED
    BY <2>2, <2>3
<1>8. CASE r.proc = "SETATTR"
  <2> DEFINE done == Answer("OK", <<>>, FALSE)
  <2>1. CASE ~r.set
    <3>1. wp(ip, b, r) = Reads(ip, b, done)
      BY <1>8, <2>1 DEF wp, SETATTR_wp
    <3>2. Promise!Effect(f, r) = f
      BY <1>8, <2>1 DEF Promise!Effect
    <3>3. Promise!ReplyTo(f, r) = done
      BY <1>2, <1>8, <2>1, Zenon DEF Promise!ReplyTo
    <3> QED
      BY <3>1, <3>2, <3>3 DEF Reads, Buffers, f
  <2>2. CASE r.set /\ ip.size < r.n /\ r.n > BlockSize
    <3>1. WriteRefused(ip, ip.size, r.n - ip.size, TRUE)
      BY <1>0, <2>2 DEF WriteRefused, Request
    <3>2. wp(ip, b, r) = Fails(ip, b, "NOSPC")
      BY <1>8, <2>2, <3>1 DEF wp, SETATTR_wp
    <3>3. Promise!Effect(f, r) = f
      BY <1>0, <1>8, <2>2 DEF Promise!Effect, Request
    <3>4. Promise!ReplyTo(f, r) = Answer("NOSPC", <<>>, FALSE)
      BY <1>2, <1>8, <2>2, Zenon DEF Promise!ReplyTo
    <3> QED
      BY <3>2, <3>3, <3>4 DEF Fails, Buffers, f
  <2>3. ASSUME r.set, r.n <= BlockSize
        PROVE  Promise!Effect(f, r) = Promise!Resized(f, r.n) /\ Promise!ReplyTo(f, r) = done
    <3>1. ~(r.n > BlockSize)
      BY <1>0, <2>3 DEF Request
    <3> QED
      BY <1>2, <1>8, <2>3, <3>1, Zenon DEF Promise!Effect, Promise!ReplyTo
  <2>4. CASE r.set /\ ip.size < r.n /\ r.n <= BlockSize
    <3>1. /\ ip.size \in Nat /\ r.n - ip.size \in Nat /\ ip.size <= ip.size
          /\ ip.size + (r.n - ip.size) = r.n
      BY <1>0, <2>4 DEF Request
    <3>2. ~WriteRefused(ip, ip.size, r.n - ip.size, TRUE)
      BY <2>4, <3>1 DEF WriteRefused
    <3>3. wp(ip, b, r) = Write(ip, b, ip.size, r.n - ip.size, 0, done)
      BY <1>8, <2>4, <3>2 DEF wp, SETATTR_wp
    <3>4. Promise!Larger(f.len, r.n) = r.n
      BY <1>0, <1>1, <2>4 DEF Promise!Larger, Request
    <3>5. ASSUME NEW k \in 0 .. r.n - 1
          PROVE  (IF ip.size <= k /\ k < r.n THEN 0 ELSE f.at[k])
                   = IF k < f.len THEN f.at[k] ELSE 0
      BY <1>0, <1>1, <3>5 DEF Request
    <3>6. Promise!Spliced(f, ip.size, r.n - ip.size, 0) = Promise!Resized(f, r.n)
      BY <3>1, <3>4, <3>5, Zenon DEF Promise!Spliced, Promise!Resized, Promise!Upto
    <3>7. /\ FileOf(wp(ip, b, r).ino, wp(ip, b, r).blk) = Promise!Resized(f, r.n)
          /\ wp(ip, b, r).reply = done
      <4>1. ip.size + (r.n - ip.size) <= BlockSize
        BY <2>4, <3>1
      <4>2. Splices(wp(ip, b, r), ip.size, r.n - ip.size, 0, done)
        BY <1>6, <3>1, <3>3, <4>1, Zenon
      <4> QED
        BY <3>6, <4>2 DEF Splices
    <3> QED
      BY <2>3, <2>4, <3>7, Zenon
  <2>5. CASE r.set /\ ~(ip.size < r.n)
    <3>1. r.n <= BlockSize /\ r.n <= ip.size /\ r.n \in Nat
      BY <1>0, <2>5 DEF Request
    <3>2. wp(ip, b, r) = Buffers([ip EXCEPT !.size = r.n], b, {"ino"}, TRUE, done)
      BY <1>8, <2>5 DEF wp, SETATTR_wp
    <3>3. [ip EXCEPT !.size = r.n].size = r.n
      BY DEF InodeRec
    <3>4. ASSUME NEW k \in 0 .. r.n - 1
          PROVE  (IF k < f.len THEN f.at[k] ELSE 0) = b[k]
      BY <1>0, <1>1, <3>1
    <3>5. Promise!Resized(f, r.n) = FileOf([ip EXCEPT !.size = r.n], b)
      BY <3>3, <3>4, Zenon DEF FileOf, Promise!Resized, Promise!Upto
    <3>6. /\ FileOf(wp(ip, b, r).ino, wp(ip, b, r).blk) = Promise!Resized(f, r.n)
          /\ wp(ip, b, r).reply = done
      BY <3>2, <3>5 DEF Buffers
    <3> QED
      BY <2>3, <2>5, <3>1, <3>6, Zenon
  <2> QED
    BY <1>0, <2>1, <2>2, <2>4, <2>5 DEF Request
<1> QED
  BY <1>0, <1>3, <1>4, <1>5, <1>7, <1>8 DEF Request, Procs

-----------------------------------------------------------------------------
\* The inductive invariant.

Made(d) == \A i \in Inum : d.ino[i].data = DataOf(i)
Holding == {"locked", "commit", "wait", "release"}

\* Nothing runs before the inodes have their blocks, and a crash before that
\* leaves files without bytes.
PhaseInv ==
  /\ phase \in {"mkfs", "making", "up"} => Made(disk)
  /\ phase = "up" => Made(durable)
  /\ Made(durable) \/ \A i \in Inum : durable.ino[i] = [size |-> 0, data |-> 0]
  /\ phase # "up" => /\ \A c \in Client : pc[c] = "idle"
                     /\ disk.blk = durable.blk
                     /\ \A i \in Inum : disk.ino[i].size = durable.ino[i].size
  /\ phase = "down" => disk = durable

\* A call past Acquire holds the lock of its inode.
LockInv(c) ==
  /\ pc[c] # "idle" => req[c] \in Requests
  /\ pc[c] \in Holding => req[c].inum \in File /\ lock[req[c].inum] = c

\* What the procedure of request r does to its inode on disk d.
Wp(d, r) == wp(d.ino[r.inum], d.blk[DataOf(r.inum)], r)

\* A transaction that is about to commit was computed from the disk as it is;
\* one that waits, from the durable disk, and the disk holds its result.
TxnInv(c) ==
  /\ pc[c] = "commit" => out[c] = Wp(disk, req[c])
  /\ pc[c] = "wait" => /\ out[c] = Wp(durable, req[c])
                       /\ disk.ino[req[c].inum] = out[c].ino
                       /\ disk.blk[DataOf(req[c].inum)] = out[c].blk

IInv ==
  /\ TypeOK /\ PhaseInv /\ ReadsAreDurable
  /\ \A c \in Client : LockInv(c) /\ TxnInv(c)

\* What the type invariant says of an inode and its block.
LEMMA OnDisk ==
  ASSUME NEW d \in Disk, NEW i \in Inum
  PROVE  /\ d.ino[i] \in InodeRec /\ DataOf(i) \in Blk /\ d.blk[DataOf(i)] \in Block
         /\ d.ino \in [Inum -> InodeRec] /\ d.blk \in [Blk -> Block]
BY DEF Disk, Blk

\* Different inodes have different blocks.
LEMMA DataOfInjective ==
  \A i, j \in Inum : DataOf(i) = DataOf(j) => i = j
BY DEF DataOf, Inum

\* The values at rest are well typed.
LEMMA RestType == ZeroDisk \in Disk /\ NoOut \in Outs
<1>1. Zeros \in Block
  BY DEF Zeros, Block
<1>2. [size |-> 0, data |-> 0] \in InodeRec
  BY DEF InodeRec
<1>3. NoReply \in Answers
  BY AnswerType, Statuses, Zenon DEF NoReply
<1> QED
  BY <1>1, <1>2, <1>3 DEF ZeroDisk, Disk, NoOut, Outs, Buffers

\* The program starts in the invariant.
LEMMA InitInv == Init => IInv
<1> SUFFICES ASSUME Init PROVE IInv
  OBVIOUS
<1>1. TypeOK
  BY RestType DEF Init, TypeOK
<1>2. PhaseInv
  BY DEF Init, PhaseInv, ZeroDisk
<1>3. ReadsAreDurable
  BY DEF Init, ReadsAreDurable
<1>4. \A c \in Client : LockInv(c) /\ TxnInv(c)
  BY Zenon DEF Init, LockInv, TxnInv, Holding
<1> QED
  BY <1>1, <1>2, <1>3, <1>4 DEF IInv

\* A step of client c that touches neither disk nor another client's lock keeps
\* what the invariant says of the disk and of the other clients.
LEMMA LocalStep ==
  ASSUME IInv, phase = "up", NEW c \in Client, pc[c] # "wait",
         UNCHANGED <<disk, durable, phase>>,
         \A d \in Client \ {c} : pc'[d] = pc[d] /\ req'[d] = req[d] /\ out'[d] = out[d],
         \A i \in File : lock[i] \in Client \ {c} => lock'[i] = lock[i]
  PROVE  /\ PhaseInv' /\ ReadsAreDurable'
         /\ \A d \in Client \ {c} : LockInv(d)' /\ TxnInv(d)'
<1>1. PhaseInv'
  BY DEF IInv, PhaseInv, Made
<1>2. ReadsAreDurable'
  <2> SUFFICES ASSUME NEW i \in File,
                      ~(disk.ino[i] = durable.ino[i] /\ disk.blk[DataOf(i)] = durable.blk[DataOf(i)])
               PROVE  \E d \in Client : pc'[d] = "wait" /\ req'[d].inum = i /\ lock'[i] = d
    BY DEF ReadsAreDurable
  <2>1. PICK d \in Client : pc[d] = "wait" /\ req[d].inum = i /\ lock[i] = d
    BY DEF IInv, ReadsAreDurable
  <2> QED
    BY <2>1
<1>3. ASSUME NEW d \in Client \ {c} PROVE LockInv(d)' /\ TxnInv(d)'
  <2>1. LockInv(d) /\ TxnInv(d)
    BY DEF IInv
  <2> QED
    BY <2>1 DEF LockInv, TxnInv, Wp
<1> QED
  BY <1>1, <1>2, <1>3

\* A call is under way only while the server is up.
LEMMA Running == IInv => \A c \in Client : pc[c] # "idle" => phase = "up"
BY DEF IInv, PhaseInv

\* A call that holds the lock of its inode and does not wait finds there what is
\* durable.
LEMMA Settled ==
  ASSUME IInv, NEW c \in Client, pc[c] \in {"locked", "commit"}
  PROVE  /\ phase = "up" /\ Made(disk) /\ Made(durable)
         /\ req[c] \in Requests /\ req[c].inum \in File /\ req[c].inum \in Inum
         /\ lock[req[c].inum] = c
         /\ disk.ino[req[c].inum] = durable.ino[req[c].inum]
         /\ disk.blk[DataOf(req[c].inum)] = durable.blk[DataOf(req[c].inum)]
<1>1. phase = "up"
  BY Running
<1>2. Made(disk) /\ Made(durable)
  BY <1>1 DEF IInv, PhaseInv
<1>3. LockInv(c)
  BY DEF IInv
<1>4. req[c] \in Requests /\ req[c].inum \in File /\ lock[req[c].inum] = c
  BY <1>3 DEF LockInv, Holding
<1>5. req[c].inum \in Inum
  BY <1>4 DEF File
<1>6. ReadsAreDurable
  BY DEF IInv
<1>7. ~ \E d \in Client : pc[d] = "wait" /\ lock[req[c].inum] = d
  BY <1>4
<1>8. /\ disk.ino[req[c].inum] = durable.ino[req[c].inum]
      /\ disk.blk[DataOf(req[c].inum)] = durable.blk[DataOf(req[c].inum)]
  BY <1>1, <1>4, <1>6, <1>7 DEF ReadsAreDurable
<1> QED
  BY <1>1, <1>2, <1>4, <1>5, <1>8

\* A handler's steps other than CommitWait keep the invariant.
LEMMA HandlerInv ==
  ASSUME IInv, NEW c \in Client,
         \/ Begin(c) \/ Invalid(c) \/ Acquire(c) \/ Body(c)
         \/ CommitRefused(c) \/ Release(c) \/ Reply(c)
  PROVE  IInv'
<1> USE DEF Goto
<1>0. TypeOK /\ LockInv(c) /\ TxnInv(c)
  BY DEF IInv
<1>1. CASE Begin(c)
  <2>1. TypeOK'
    BY <1>0, <1>1 DEF Begin, TypeOK
  <2>2. LockInv(c)' /\ TxnInv(c)'
    BY <1>0, <1>1 DEF Begin, TypeOK, LockInv, TxnInv, Holding
  <2>3. \A d \in Client \ {c} : pc'[d] = pc[d] /\ req'[d] = req[d] /\ out'[d] = out[d]
    BY <1>0, <1>1 DEF Begin, TypeOK
  <2>4. PhaseInv' /\ ReadsAreDurable' /\ \A d \in Client \ {c} : LockInv(d)' /\ TxnInv(d)'
    BY <1>1, <2>3, LocalStep DEF Begin
  <2> QED
    BY <2>1, <2>2, <2>4 DEF IInv
<1>2. CASE Invalid(c)
  <2>1. TypeOK'
    <3> DEFINE a == IF req[c].proc = "GETATTR" /\ req[c].inum = ROOTINUM
                    THEN Answer("OK", <<0>>, FALSE) ELSE Answer("INVAL", <<>>, FALSE)
    <3>1. a \in Answers
      BY AnswerType, Statuses, Zenon
    <3>2. out' = [out EXCEPT ![c].reply = a]
      BY <1>2 DEF Invalid
    <3> HIDE DEF a
    <3>3. out' \in [Client -> Outs]
      BY <1>0, <3>1, <3>2 DEF TypeOK, Outs
    <3> QED
      BY <1>0, <1>2, <3>3 DEF Invalid, TypeOK
  <2>2. LockInv(c)' /\ TxnInv(c)'
    BY <1>0, <1>2 DEF Invalid, TypeOK, LockInv, TxnInv, Holding
  <2>3. \A d \in Client \ {c} : pc'[d] = pc[d] /\ req'[d] = req[d] /\ out'[d] = out[d]
    BY <1>0, <1>2 DEF Invalid, TypeOK
  <2>4. PhaseInv' /\ ReadsAreDurable' /\ \A d \in Client \ {c} : LockInv(d)' /\ TxnInv(d)'
    BY <1>2, <2>3, LocalStep, Running DEF Invalid
  <2> QED
    BY <2>1, <2>2, <2>4 DEF IInv
<1>3. CASE Acquire(c)
  <2>1. req[c].inum \in File
    BY <1>0, <1>3 DEF Acquire, LockInv, File, Inum, validInum, Request
  <2>2. TypeOK'
    BY <1>0, <1>3, <2>1 DEF Acquire, TypeOK
  <2>3. LockInv(c)' /\ TxnInv(c)'
    BY <1>0, <1>3, <2>1 DEF Acquire, TypeOK, LockInv, TxnInv, Holding
  <2>4. \A d \in Client \ {c} : pc'[d] = pc[d] /\ req'[d] = req[d] /\ out'[d] = out[d]
    BY <1>0, <1>3 DEF Acquire, TypeOK
  <2>5. \A i \in File : lock[i] \in Client \ {c} => lock'[i] = lock[i]
    BY <1>0, <1>3, <2>1 DEF Acquire, TypeOK
  <2>6. PhaseInv' /\ ReadsAreDurable' /\ \A d \in Client \ {c} : LockInv(d)' /\ TxnInv(d)'
    BY <1>3, <2>4, <2>5, LocalStep, Running DEF Acquire
  <2> QED
    BY <2>2, <2>3, <2>6 DEF IInv
<1>4. CASE Body(c)
  <2> DEFINE ip == disk.ino[req[c].inum]
             o == wp(ip, disk.blk[ip.data], req[c])
  <2>1. phase = "up" /\ req[c].inum \in File /\ req[c] \in Requests /\ lock[req[c].inum] = c
    BY <1>0, <1>4, Running, Zenon DEF Body, LockInv, Holding
  <2>2. ip.data = DataOf(req[c].inum)
    BY <2>1 DEF IInv, PhaseInv, Made, File
  <2>3. o = Wp(disk, req[c])
    BY <2>2 DEF Wp
  <2>4. o \in Outs
    <3>1. disk \in Disk /\ req[c].inum \in Inum
      BY <1>0, <2>1 DEF TypeOK, File
    <3>2. disk.ino[req[c].inum] \in InodeRec /\ disk.blk[DataOf(req[c].inum)] \in Block
      BY <3>1, OnDisk
    <3>3. Wp(disk, req[c]) \in Outs
      BY <2>1, <3>2, WpType DEF Wp
    <3> QED
      BY <2>3, <3>3
  <2>5. /\ pc[c] = "locked" /\ pc' = [pc EXCEPT ![c] = IF o.ok THEN "commit" ELSE "release"]
        /\ out' = [out EXCEPT ![c] = o] /\ UNCHANGED <<disk, durable, phase, lock, req>>
    BY <1>4, Zenon DEF Body
  <2> HIDE DEF o, ip
  <2>6. TypeOK'
    BY <1>0, <2>4, <2>5 DEF TypeOK
  <2>7. LockInv(c)' /\ TxnInv(c)'
    BY <1>0, <2>1, <2>3, <2>5, Zenon DEF TypeOK, LockInv, TxnInv, Holding, Wp
  <2>8. \A d \in Client \ {c} : pc'[d] = pc[d] /\ req'[d] = req[d] /\ out'[d] = out[d]
    BY <1>0, <2>5 DEF TypeOK
  <2>9. PhaseInv' /\ ReadsAreDurable' /\ \A d \in Client \ {c} : LockInv(d)' /\ TxnInv(d)'
    BY <2>1, <2>5, <2>8, LocalStep
  <2> QED
    BY <2>6, <2>7, <2>9 DEF IInv
<1>5. CASE CommitRefused(c)
  <2>1. TypeOK'
    <3> DEFINE a == Answer(IF req[c].proc = "COMMIT" THEN "IO" ELSE "SERVERFAULT", <<>>, FALSE)
    <3>1. a \in Answers
      BY AnswerType, Statuses, Zenon
    <3>2. out' = [out EXCEPT ![c].reply = a]
      BY <1>5 DEF CommitRefused
    <3> HIDE DEF a
    <3>3. out' \in [Client -> Outs]
      BY <1>0, <3>1, <3>2 DEF TypeOK, Outs
    <3> QED
      BY <1>0, <1>5, <3>3 DEF CommitRefused, TypeOK
  <2>2. LockInv(c)' /\ TxnInv(c)'
    BY <1>0, <1>5 DEF CommitRefused, TypeOK, LockInv, TxnInv, Holding
  <2>3. \A d \in Client \ {c} : pc'[d] = pc[d] /\ req'[d] = req[d] /\ out'[d] = out[d]
    BY <1>0, <1>5 DEF CommitRefused, TypeOK
  <2>4. PhaseInv' /\ ReadsAreDurable' /\ \A d \in Client \ {c} : LockInv(d)' /\ TxnInv(d)'
    BY <1>5, <2>3, LocalStep, Running DEF CommitRefused
  <2> QED
    BY <2>1, <2>2, <2>4 DEF IInv
<1>6. CASE Release(c)
  <2>1. TypeOK' /\ LockInv(c)' /\ TxnInv(c)'
    BY <1>0, <1>6, RestType DEF Release, Finish, TypeOK, LockInv, TxnInv, Holding
  <2>2. \A d \in Client \ {c} : pc'[d] = pc[d] /\ req'[d] = req[d] /\ out'[d] = out[d]
    BY <1>0, <1>6 DEF Release, Finish, TypeOK
  <2>3. \A i \in File : lock[i] \in Client \ {c} => lock'[i] = lock[i]
    BY <1>0, <1>6 DEF Release, TypeOK, LockInv, Holding
  <2>4. PhaseInv' /\ ReadsAreDurable' /\ \A d \in Client \ {c} : LockInv(d)' /\ TxnInv(d)'
    BY <1>6, <2>2, <2>3, LocalStep, Running, Zenon DEF Release
  <2> QED
    BY <2>1, <2>4 DEF IInv
<1>7. CASE Reply(c)
  <2>1. TypeOK' /\ LockInv(c)' /\ TxnInv(c)'
    BY <1>0, <1>7, RestType DEF Reply, Finish, TypeOK, LockInv, TxnInv, Holding
  <2>2. \A d \in Client \ {c} : pc'[d] = pc[d] /\ req'[d] = req[d] /\ out'[d] = out[d]
    BY <1>0, <1>7 DEF Reply, Finish, TypeOK
  <2>3. PhaseInv' /\ ReadsAreDurable' /\ \A d \in Client \ {c} : LockInv(d)' /\ TxnInv(d)'
    BY <1>7, <2>2, LocalStep, Running DEF Reply
  <2> QED
    BY <2>1, <2>3 DEF IInv
<1> QED
  BY <1>1, <1>2, <1>3, <1>4, <1>5, <1>6, <1>7

\* e is d with the buffers o in inode i and its block.
Holds(e, d, i, o) ==
  /\ e \in Disk /\ Made(e)
  /\ e.ino[i] = o.ino /\ e.blk[DataOf(i)] = o.blk
  /\ \A j \in Inum \ {i} : e.ino[j] = d.ino[j] /\ e.blk[DataOf(j)] = d.blk[DataOf(j)]
  /\ o.dirty = {} => e = d

\* A commit puts the result of the procedure in its inode and block and leaves
\* the others.
LEMMA Install ==
  ASSUME NEW d \in Disk, Made(d), NEW r \in Requests, r.inum \in File
  PROVE  Holds(Installed(d, r.inum, Wp(d, r)), d, r.inum, Wp(d, r))
<1> DEFINE o == Wp(d, r)
           e == Installed(d, r.inum, o)
<1>1. r.inum \in Inum /\ d.ino[r.inum].data = DataOf(r.inum)
  BY DEF File, Made
<1>2. /\ o \in Outs /\ o.ino.data = DataOf(r.inum)
      /\ "ino" \notin o.dirty => o.ino = d.ino[r.inum]
      /\ "blk" \notin o.dirty => o.blk = d.blk[DataOf(r.inum)]
  <2>1. d.ino[r.inum] \in InodeRec /\ d.blk[DataOf(r.inum)] \in Block
    BY <1>1, OnDisk, Zenon
  <2>2. o = wp(d.ino[r.inum], d.blk[DataOf(r.inum)], r)
    BY DEF Wp
  <2> HIDE DEF o
  <2>3. /\ o \in Outs /\ o.ino.data = d.ino[r.inum].data
        /\ "ino" \notin o.dirty => o.ino = d.ino[r.inum]
        /\ "blk" \notin o.dirty => o.blk = d.blk[DataOf(r.inum)]
    BY <2>1, <2>2, WpType
  <2> QED
    BY <1>1, <2>3
<1>3. /\ o.ino \in InodeRec /\ o.blk \in Block
  BY <1>2 DEF Outs
<1>4. /\ e.ino = IF "ino" \in o.dirty THEN [d.ino EXCEPT ![r.inum] = o.ino] ELSE d.ino
      /\ e.blk = IF "blk" \in o.dirty THEN [d.blk EXCEPT ![DataOf(r.inum)] = o.blk] ELSE d.blk
      /\ e = [ino |-> e.ino, blk |-> e.blk]
  <2> HIDE DEF o
  <2> QED
    BY <1>2 DEF Installed
<1> HIDE DEF o, e
<1>5. d.ino \in [Inum -> InodeRec] /\ d.blk \in [Blk -> Block] /\ DataOf(r.inum) \in Blk
  BY <1>1, OnDisk
<1>6. e.ino \in [Inum -> InodeRec] /\ e.blk \in [Blk -> Block]
  BY <1>1, <1>3, <1>4, <1>5
<1>7. e \in Disk
  BY <1>4, <1>6 DEF Disk
<1>8. e.ino[r.inum] = o.ino /\ e.blk[DataOf(r.inum)] = o.blk
  BY <1>1, <1>2, <1>4, <1>5
<1>9. ASSUME NEW j \in Inum \ {r.inum}
      PROVE  e.ino[j] = d.ino[j] /\ e.blk[DataOf(j)] = d.blk[DataOf(j)]
  <2>1. DataOf(j) # DataOf(r.inum) /\ DataOf(j) \in Blk
    BY <1>1, DataOfInjective DEF Blk
  <2> QED
    BY <1>4, <1>5, <2>1
<1>10. Made(e)
  BY <1>2, <1>8, <1>9 DEF Made
<1>11. ASSUME o.dirty = {} PROVE e = d
  <2>1. e.ino = d.ino /\ e.blk = d.blk
    BY <1>4, <1>11
  <2>2. d = [ino |-> d.ino, blk |-> d.blk]
    BY DEF Disk
  <2> QED
    BY <1>4, <2>1, <2>2
<1>12. Holds(e, d, r.inum, o)
  BY <1>7, <1>8, <1>9, <1>10, <1>11 DEF Holds
<1> QED
  BY <1>12 DEF e, o

\* CommitWait keeps the invariant: the call holds the lock of the one file that it
\* changes, which was durable until then.
LEMMA CommitInv ==
  ASSUME IInv, NEW c \in Client, CommitWait(c)
  PROVE  IInv'
<1> DEFINE i == req[c].inum
           o == out[c]
<1>0. TypeOK /\ PhaseInv /\ ReadsAreDurable /\ LockInv(c) /\ TxnInv(c)
  BY DEF IInv
<1>1. /\ pc[c] = "commit" /\ disk' = Installed(disk, i, o)
      /\ pc' = [pc EXCEPT ![c] = IF o.dirty = {} THEN "release" ELSE "wait"]
      /\ UNCHANGED <<durable, phase, lock, req, out>>
  BY DEF CommitWait, Goto
<1>2. /\ phase = "up" /\ i \in File /\ i \in Inum /\ req[c] \in Requests /\ lock[i] = c
      /\ o = Wp(disk, req[c]) /\ Made(disk) /\ Made(durable)
  BY <1>0, <1>1, Settled DEF TxnInv
<1>3. disk.ino[i] = durable.ino[i] /\ disk.blk[DataOf(i)] = durable.blk[DataOf(i)]
  BY <1>1, Settled
<1>4. /\ disk' \in Disk /\ Made(disk')
      /\ disk'.ino[i] = o.ino /\ disk'.blk[DataOf(i)] = o.blk
      /\ \A j \in Inum \ {i} :
           disk'.ino[j] = disk.ino[j] /\ disk'.blk[DataOf(j)] = disk.blk[DataOf(j)]
      /\ o.dirty = {} => disk' = disk
  <2>1. disk \in Disk
    BY <1>0 DEF TypeOK
  <2>2. Holds(Installed(disk, i, Wp(disk, req[c])), disk, i, Wp(disk, req[c]))
    BY <1>2, <2>1, Install
  <2>3. Holds(disk', disk, i, o)
    BY <1>1, <1>2, <2>2
  <2> HIDE DEF o, i
  <2> QED
    BY <2>3 DEF Holds
<1>5. o = Wp(durable, req[c])
  BY <1>2, <1>3 DEF Wp
<1>6. TypeOK'
  BY <1>0, <1>1, <1>4 DEF TypeOK
<1>7. PhaseInv'
  BY <1>1, <1>2, <1>4 DEF PhaseInv, Made
<1>8. ReadsAreDurable'
  <2> SUFFICES ASSUME NEW j \in File,
                      ~(disk'.ino[j] = durable.ino[j] /\ disk'.blk[DataOf(j)] = durable.blk[DataOf(j)])
               PROVE  \E d \in Client : pc'[d] = "wait" /\ req[d].inum = j /\ lock[j] = d
    BY <1>1 DEF ReadsAreDurable
  <2>1. CASE j = i
    <3>1. o.dirty # {}
      BY <1>3, <1>4, <2>1
    <3> QED
      BY <1>0, <1>1, <1>2, <2>1, <3>1 DEF TypeOK
  <2>2. CASE j # i
    <3>1. disk'.ino[j] = disk.ino[j] /\ disk'.blk[DataOf(j)] = disk.blk[DataOf(j)]
      BY <1>4, <2>2 DEF File
    <3>2. PICK d \in Client : pc[d] = "wait" /\ req[d].inum = j /\ lock[j] = d
      BY <1>0, <1>2, <3>1 DEF ReadsAreDurable
    <3> QED
      BY <1>0, <1>1, <3>2 DEF TypeOK
  <2> QED
    BY <2>1, <2>2
<1>9. LockInv(c)' /\ TxnInv(c)'
  BY <1>0, <1>1, <1>2, <1>4, <1>5 DEF TypeOK, LockInv, TxnInv, Holding
<1>10. ASSUME NEW d \in Client \ {c} PROVE LockInv(d)' /\ TxnInv(d)'
  <2>1. LockInv(d) /\ TxnInv(d) /\ pc'[d] = pc[d]
    BY <1>0, <1>1 DEF IInv, TypeOK
  <2>2. ASSUME pc[d] \in {"commit", "wait"}
        PROVE  LET j == req[d].inum
               IN disk'.ino[j] = disk.ino[j] /\ disk'.blk[DataOf(j)] = disk.blk[DataOf(j)]
    <3>1. req[d].inum \in Inum \ {i}
      BY <1>2, <2>1, <2>2 DEF LockInv, Holding, File
    <3> QED
      BY <1>4, <3>1
  <2> QED
    BY <1>1, <2>1, <2>2 DEF LockInv, TxnInv, Wp
<1> QED
  BY <1>6, <1>7, <1>8, <1>9, <1>10 DEF IInv

\* inodeInit gives every inode its block and changes nothing else.
LEMMA InodeInit ==
  ASSUME NEW d \in Disk
  PROVE  /\ inodeInit(d) \in Disk /\ Made(inodeInit(d)) /\ inodeInit(d).blk = d.blk
         /\ \A i \in Inum : inodeInit(d).ino[i].size = d.ino[i].size
<1> DEFINE e == [i \in Inum |-> [d.ino[i] EXCEPT !.data = DataOf(i)]]
<1>1. ASSUME NEW i \in Inum
      PROVE  e[i] \in InodeRec /\ e[i].data = DataOf(i) /\ e[i].size = d.ino[i].size
  <2>1. d.ino[i] \in InodeRec /\ DataOf(i) \in Blk
    BY OnDisk
  <2> QED
    BY <2>1 DEF InodeRec
<1>2. inodeInit(d) = [d EXCEPT !.ino = e]
  BY DEF inodeInit
<1>3. e \in [Inum -> InodeRec]
  BY <1>1
<1> HIDE DEF e
<1>4. inodeInit(d) \in Disk /\ inodeInit(d).ino = e /\ inodeInit(d).blk = d.blk
  BY <1>2, <1>3 DEF Disk
<1> QED
  BY <1>1, <1>4 DEF Made

\* The flush and the life of the server keep the invariant.
LEMMA ServerInv ==
  ASSUME IInv, Flush \/ Mkfs \/ MakeNfs \/ Recover \/ Crash
  PROVE  IInv'
<1>0. TypeOK /\ PhaseInv /\ ReadsAreDurable /\ \A c \in Client : LockInv(c) /\ TxnInv(c)
  BY DEF IInv
<1>1. CASE Flush
  <2>1. durable' = disk /\ UNCHANGED <<disk, lock, req, out>>
    BY <1>1 DEF Flush
  <2>2. \A c \in Client : pc'[c] = IF pc[c] = "wait" THEN "release" ELSE pc[c]
    BY <1>1 DEF Flush
  <2>3. TypeOK'
    BY <1>0, <1>1 DEF Flush, TypeOK
  <2>4. PhaseInv'
    <3>1. CASE phase = "up"
      <4>1. phase' = "up"
        BY <1>1, <3>1 DEF Flush
      <4> QED
        BY <1>0, <2>1, <3>1, <4>1 DEF PhaseInv, Made
    <3>2. CASE phase = "down"
      BY <1>0, <1>1, <2>2, <3>2 DEF Flush, PhaseInv, Made
    <3>3. CASE phase = "mkfs"
      BY <1>0, <1>1, <2>2, <3>3 DEF Flush, PhaseInv, Made
    <3>4. CASE phase = "making"
      BY <1>0, <1>1, <2>2, <3>4 DEF Flush, PhaseInv, Made
    <3> QED
      BY <1>0, <3>1, <3>2, <3>3, <3>4 DEF TypeOK
  <2>5. ReadsAreDurable'
    BY <2>1 DEF ReadsAreDurable
  <2>6. ASSUME NEW c \in Client PROVE LockInv(c)' /\ TxnInv(c)'
    <3>1. LockInv(c) /\ TxnInv(c)
      BY <1>0
    <3> QED
      BY <2>1, <2>2, <3>1 DEF LockInv, TxnInv, Holding, Wp
  <2> QED
    BY <2>3, <2>4, <2>5, <2>6 DEF IInv
<1>2. CASE Mkfs \/ MakeNfs
  <2>1. /\ phase = "down" /\ phase' \in {"mkfs", "making"} /\ disk' = inodeInit(disk)
        /\ UNCHANGED <<durable, lock, pc, req, out>>
    BY <1>2 DEF Mkfs, MakeNfs
  <2>2. disk = durable /\ \A c \in Client : pc[c] = "idle"
    BY <1>0, <2>1 DEF PhaseInv
  <2>3. /\ disk' \in Disk /\ Made(disk') /\ disk'.blk = disk.blk
        /\ \A i \in Inum : disk'.ino[i].size = disk.ino[i].size
    BY <1>0, <2>1, InodeInit DEF TypeOK
  <2>4. TypeOK'
    BY <1>0, <2>1, <2>3 DEF TypeOK
  <2>5. PhaseInv'
    BY <1>0, <2>1, <2>2, <2>3 DEF PhaseInv, Made
  <2>6. ReadsAreDurable'
    BY <2>1 DEF ReadsAreDurable
  <2>7. \A c \in Client : LockInv(c)' /\ TxnInv(c)'
    BY <2>1, <2>2 DEF LockInv, TxnInv, Holding
  <2> QED
    BY <2>4, <2>5, <2>6, <2>7 DEF IInv
<1>3. CASE Recover
  <2>1. /\ phase = "down" /\ phase' = "up" /\ UNCHANGED <<disk, durable, lock, pc, req, out>>
        /\ \A i \in Inum : disk.ino[i].data # 0
    BY <1>3 DEF Recover
  <2>2. disk = durable /\ \A c \in Client : pc[c] = "idle"
    BY <1>0, <2>1 DEF PhaseInv
  <2>3. Made(durable)
    BY <1>0, <2>1, <2>2 DEF PhaseInv, Made
  <2>4. TypeOK' /\ ReadsAreDurable'
    BY <1>0, <2>1, <2>2 DEF TypeOK, ReadsAreDurable
  <2>5. PhaseInv'
    BY <2>1, <2>2, <2>3 DEF PhaseInv, Made
  <2>6. \A c \in Client : LockInv(c)' /\ TxnInv(c)'
    BY <2>1, <2>2 DEF LockInv, TxnInv, Holding
  <2> QED
    BY <2>4, <2>5, <2>6 DEF IInv
<1>4. CASE Crash
  <2>1. TypeOK'
    BY <1>0, <1>4, RestType DEF Crash, TypeOK
  <2>2. PhaseInv'
    BY <1>0, <1>4 DEF Crash, PhaseInv, Made
  <2>3. ReadsAreDurable' /\ \A c \in Client : LockInv(c)' /\ TxnInv(c)'
    BY <1>4 DEF Crash, ReadsAreDurable, LockInv, TxnInv, Holding
  <2> QED
    BY <2>1, <2>2, <2>3 DEF IInv
<1> QED
  BY <1>1, <1>2, <1>3, <1>4

\* Every step keeps the invariant.
LEMMA NextInv == IInv /\ [Next]_vars => IInv'
<1> SUFFICES ASSUME IInv, [Next]_vars PROVE IInv'
  OBVIOUS
<1>1. CASE \E c \in Client : Handler(c)
  BY <1>1, HandlerInv, CommitInv DEF Handler
<1>2. CASE Flush \/ Mkfs \/ MakeNfs \/ Recover \/ Crash
  BY <1>2, ServerInv
<1>3. CASE UNCHANGED vars
  <2>1. TypeOK' /\ PhaseInv' /\ ReadsAreDurable'
    <3>1. TypeOK'
      BY <1>3 DEF vars, IInv, TypeOK
    <3>2. PhaseInv'
      BY <1>3 DEF vars, IInv, PhaseInv, Made
    <3>3. ReadsAreDurable'
      BY <1>3 DEF vars, IInv, ReadsAreDurable
    <3> QED
      BY <3>1, <3>2, <3>3
  <2>2. ASSUME NEW c \in Client PROVE LockInv(c)' /\ TxnInv(c)'
    <3>1. LockInv(c) /\ TxnInv(c)
      BY DEF IInv
    <3> QED
      BY <1>3, <3>1 DEF vars, LockInv, TxnInv, Wp
  <2> QED
    BY <2>1, <2>2 DEF IInv
<1> QED
  BY <1>1, <1>2, <1>3 DEF Next

-----------------------------------------------------------------------------
\* The refinement.

\* The program starts where SimpleSpec does.
LEMMA InitRefines == Init => Promise!Init
<1> SUFFICES ASSUME Init PROVE Promise!Init
  OBVIOUS
<1>1. ASSUME NEW i \in File PROVE Contents(durable, i) = Promise!Empty
  <2>1. durable.ino[i].size = 0
    BY DEF Init, ZeroDisk, File
  <2> QED
    BY <2>1 DEF Contents, FileOf, Promise!Empty, Promise!Upto
<1>2. ASSUME NEW c \in Client PROVE CallOf(c) = Promise!Idle
  BY DEF Init, CallOf, Promise!Idle, Promise!NoReq, Promise!NoReply, Promise!Answer,
         NoReq, NoReply, Answer
<1> QED
  BY <1>1, <1>2 DEF Promise!Init

\* What a call looks like to the client, by where its handler is.
LEMMA CallStates ==
  ASSUME NEW c \in Client
  PROVE  /\ pc[c] = "idle" => CallOf(c) = Promise!Idle
         /\ pc[c] \in {"called", "locked", "commit", "wait"} => CallOf(c) = Promise!Called(req[c])
         /\ pc[c] \in {"release", "reply"} => CallOf(c) = Promise!Done(req[c], out[c].reply)
BY DEF CallOf, Promise!Idle, Promise!Called, Promise!Done, Promise!NoReq, Promise!NoReply,
       Promise!Answer, NoReq, NoReply, Answer

\* The same in the next state.
LEMMA CallStatesNext ==
  ASSUME NEW c \in Client
  PROVE  /\ pc'[c] = "idle" => CallOf(c)' = Promise!Idle
         /\ pc'[c] \in {"called", "locked", "commit", "wait"} => CallOf(c)' = Promise!Called(req'[c])
         /\ pc'[c] \in {"release", "reply"} => CallOf(c)' = Promise!Done(req'[c], out'[c].reply)
BY DEF CallOf, Promise!Idle, Promise!Called, Promise!Done, Promise!NoReq, Promise!NoReply,
       Promise!Answer, NoReq, NoReply, Answer

\* The fields of what a client sees.
LEMMA CallFields ==
  /\ \A r : Promise!Called(r).st = "called" /\ Promise!Called(r).req = r
  /\ \A r, a : Promise!Done(r, a).st = "done"
BY DEF Promise!Called, Promise!Done

\* A step of client c alone that changes nothing durable.
LEMMA OneCall ==
  ASSUME NEW c \in Client, durable' = durable,
         \A d \in Client \ {c} : pc'[d] = pc[d] /\ req'[d] = req[d] /\ out'[d] = out[d]
  PROVE  /\ [i \in File |-> Contents(durable, i)]' = [i \in File |-> Contents(durable, i)]
         /\ [d \in Client |-> CallOf(d)]'
              = [[d \in Client |-> CallOf(d)] EXCEPT ![c] = CallOf(c)']
<1>1. \A d \in Client \ {c} : CallOf(d)' = CallOf(d)
  BY DEF CallOf
<1>2. \A i \in File : Contents(durable, i)' = Contents(durable, i)
  BY DEF Contents, FileOf
<1> QED
  BY <1>1, <1>2, Zenon

\* A call that has modified nothing takes effect alone.
LEMMA DoAlone ==
  ASSUME NEW c \in Client, durable \in Disk, Made(durable),
         req[c] \in Requests, req[c].inum \in File,
         pc[c] \in {"locked", "commit"}, pc'[c] = "release", req'[c] = req[c],
         out'[c].reply = Wp(durable, req[c]).reply, Wp(durable, req[c]).dirty = {},
         durable' = durable,
         \A d \in Client \ {c} : pc'[d] = pc[d] /\ req'[d] = req[d] /\ out'[d] = out[d]
  PROVE  Promise!Do({c})
<1> DEFINE i == req[c].inum
           F == [j \in File |-> Contents(durable, j)]
           K == [d \in Client |-> CallOf(d)]
<1>1. F' = F /\ K' = [K EXCEPT ![c] = CallOf(c)']
  BY OneCall
<1>2. K[c] = Promise!Called(req[c])
  BY CallStates
<1>3. CallOf(c)' = Promise!Done(req[c], Wp(durable, req[c]).reply)
  BY CallStatesNext
<1>4. durable.ino[i] \in InodeRec /\ durable.blk[DataOf(i)] \in Block
  BY OnDisk DEF File
<1>5. F[i] = FileOf(durable.ino[i], durable.blk[DataOf(i)])
  BY Zenon DEF Contents, Made, File
<1>6. /\ Promise!Effect(F[i], req[c]) = FileOf(Wp(durable, req[c]).ino, Wp(durable, req[c]).blk)
      /\ Promise!ReplyTo(F[i], req[c]) = Wp(durable, req[c]).reply
  <2> DEFINE ip == durable.ino[i]
             b == durable.blk[DataOf(i)]
             o == wp(ip, b, req[c])
  <2>1. Promise!Effect(FileOf(ip, b), req[c]) = FileOf(o.ino, o.blk)
    BY <1>4, WpRefines
  <2>2. Promise!ReplyTo(FileOf(ip, b), req[c]) = o.reply
    BY <1>4, WpRefines
  <2>3. Wp(durable, req[c]) = o
    BY DEF Wp
  <2> HIDE DEF F, o
  <2> QED
    BY <1>5, <2>1, <2>2, <2>3
<1>7. /\ Wp(durable, req[c]).ino = durable.ino[i]
      /\ Wp(durable, req[c]).blk = durable.blk[DataOf(i)]
  BY <1>4, WpType, Zenon DEF Wp
<1>8. Promise!Effect(F[i], req[c]) = F[i]
  BY <1>5, <1>6, <1>7
<1>9. K[c].st = "called" /\ K[c].req = req[c]
  BY <1>2, CallFields, Zenon
<1>10. K' = [d \in Client |->
         IF d \in {c} THEN Promise!Done(K[d].req, Promise!ReplyTo(F[K[d].req.inum], K[d].req)) ELSE K[d]]
  <2>1. CallOf(c)' = Promise!Done(K[c].req, Promise!ReplyTo(F[K[c].req.inum], K[c].req))
    BY <1>3, <1>6, <1>9, Zenon
  <2>2. K = [d \in Client |-> K[d]]
    OBVIOUS
  <2> HIDE DEF K, F
  <2> QED
    BY <1>1, <2>1, <2>2
<1>11. ASSUME NEW j \in File
       PROVE  F[j] = IF \E d \in {c} : K[d].req.inum = j
                     THEN Promise!Effect(F[j], K[CHOOSE d \in {c} : K[d].req.inum = j].req)
                     ELSE F[j]
  <2>1. CASE i = j
    <3>1. (CHOOSE d \in {c} : K[d].req.inum = j) = c
      BY <1>9, <2>1
    <3> QED
      BY <1>8, <1>9, <2>1, <3>1
  <2>2. CASE i # j
    BY <1>9, <2>2
  <2> QED
    BY <2>1, <2>2, Zenon
<1>12. F' = [j \in File |->
         IF \E d \in {c} : K[d].req.inum = j
         THEN Promise!Effect(F[j], K[CHOOSE d \in {c} : K[d].req.inum = j].req)
         ELSE F[j]]
  BY <1>1, <1>11, Zenon
<1> QED
  BY <1>9, <1>10, <1>12, Zenon DEF Promise!Do

\* Every step of a handler is a step of its call, or of none.
LEMMA HandlerRefines ==
  ASSUME IInv, NEW c \in Client, Handler(c)
  PROVE  [Promise!Next]_(Promise!svars)
<1> USE DEF Goto
<1> DEFINE F == [j \in File |-> Contents(durable, j)]
           K == [d \in Client |-> CallOf(d)]
<1>0. TypeOK /\ PhaseInv /\ ReadsAreDurable /\ LockInv(c) /\ TxnInv(c)
  BY DEF IInv
<1>1. durable' = durable
  BY Zenon DEF Handler, Begin, Invalid, Acquire, Body, CommitWait, CommitRefused,
               Release, Reply
<1>2. \A d \in Client \ {c} : pc'[d] = pc[d] /\ req'[d] = req[d] /\ out'[d] = out[d]
  BY <1>0, Zenon
  DEF Handler, Begin, Invalid, Acquire, Body, CommitWait, CommitRefused, Release, Reply,
              Finish, TypeOK
<1>3. F' = F /\ K' = [K EXCEPT ![c] = CallOf(c)']
  BY <1>1, <1>2, OneCall
<1>4. ASSUME CallOf(c)' = CallOf(c) PROVE UNCHANGED Promise!svars
  <2>1. K' = K
    BY <1>3, <1>4, Zenon
  <2> QED
    BY <1>3, <2>1 DEF Promise!svars
<1>5. CASE Begin(c)
  <2>1. PICK r \in Requests : req' = [req EXCEPT ![c] = r]
    BY <1>5, Zenon DEF Begin
  <2>2. K[c] = Promise!Idle
    BY <1>5, CallStates DEF Begin
  <2>3. CallOf(c)' = Promise!Called(r)
    BY <1>0, <1>5, <2>1, CallStatesNext DEF Begin, TypeOK
  <2>4. Promise!Call(c, r)
    BY <1>3, <2>2, <2>3 DEF Promise!Call
  <2> QED
    BY <2>1, <2>4 DEF Promise!Next
<1>6. CASE Invalid(c)
  <2>1. K[c] = Promise!Called(req[c])
    BY <1>6, CallStates DEF Invalid
  <2>2. req[c].inum \notin File
    BY <1>6 DEF Invalid, File
  <2> DEFINE a == IF req[c].proc = "GETATTR" /\ req[c].inum = ROOTINUM
                  THEN Answer("OK", <<0>>, FALSE) ELSE Answer("INVAL", <<>>, FALSE)
             pa == IF req[c].inum = ROOTINUM /\ req[c].proc = "GETATTR"
                   THEN Promise!Answer("OK", <<0>>, FALSE) ELSE Promise!Answer("INVAL", <<>>, FALSE)
  <2>3. pa = a
    BY DEF Promise!Answer, Answer
  <2>4. out'[c].reply = a /\ pc'[c] = "reply" /\ req'[c] = req[c]
    BY <1>0, <1>6 DEF Invalid, TypeOK, Outs
  <2> HIDE DEF a
  <2>5. CallOf(c)' = Promise!Done(req[c], pa)
    BY <2>3, <2>4, CallStatesNext, Zenon
  <2>6. K[c].st = "called" /\ K[c].req = req[c]
    BY <2>1, CallFields
  <2>7. Promise!NoFile(c)
    BY <1>3, <2>2, <2>5, <2>6, Zenon DEF Promise!NoFile
  <2> QED
    BY <2>7 DEF Promise!Next
<1>7. CASE Acquire(c)
  <2>1. CallOf(c)' = CallOf(c)
    BY <1>0, <1>7 DEF Acquire, CallOf, TypeOK
  <2> QED
    BY <1>4, <2>1
<1>8. CASE Body(c)
  <2>1. /\ pc[c] = "locked" /\ phase = "up" /\ req[c] \in Requests /\ req[c].inum \in File
        /\ lock[req[c].inum] = c
    BY <1>8, Settled, Zenon DEF Body
  <2>2. Made(disk) /\ Made(durable)
    BY <2>1, Settled
  <2>3. /\ disk.ino[req[c].inum] = durable.ino[req[c].inum]
        /\ disk.blk[DataOf(req[c].inum)] = durable.blk[DataOf(req[c].inum)]
    BY <2>1, Settled
  <2> DEFINE o == Wp(durable, req[c])
  <2>4. disk.ino[req[c].inum].data = DataOf(req[c].inum)
    BY <2>1, <2>2 DEF Made, File
  <2>5. wp(disk.ino[req[c].inum], disk.blk[disk.ino[req[c].inum].data], req[c]) = o
    BY <2>3, <2>4 DEF Wp
  <2> HIDE DEF o
  <2>6. /\ pc' = [pc EXCEPT ![c] = IF o.ok THEN "commit" ELSE "release"]
        /\ out' = [out EXCEPT ![c] = o] /\ req' = req
    BY <1>8, <2>5 DEF Body
  <2>7. out'[c] = o /\ req'[c] = req[c] /\ pc'[c] = IF o.ok THEN "commit" ELSE "release"
    BY <1>0, <2>6 DEF TypeOK
  <2>8. CASE o.ok
    <3>1. CallOf(c)' = CallOf(c)
      BY <2>1, <2>7, <2>8, CallStates, CallStatesNext
    <3> QED
      BY <1>4, <3>1
  <2>9. CASE ~o.ok
    <3>1. o.dirty = {}
      BY <1>0, <2>1, <2>9, OnDisk, WpType, Zenon DEF o, Wp, TypeOK, File
    <3>2. Promise!Do({c})
      BY <1>0, <1>1, <1>2, <2>1, <2>2, <2>7, <2>9, <3>1, DoAlone, Zenon DEF o, TypeOK
    <3> QED
      BY <3>2 DEF Promise!Next
  <2> QED
    BY <2>8, <2>9
<1>9. CASE CommitWait(c)
  <2>1. /\ pc[c] = "commit" /\ phase = "up" /\ req[c] \in Requests /\ req[c].inum \in File
        /\ lock[req[c].inum] = c /\ out[c] = Wp(disk, req[c]) /\ Made(durable)
    BY <1>0, <1>9, Settled DEF CommitWait, TxnInv
  <2>2. /\ disk.ino[req[c].inum] = durable.ino[req[c].inum]
        /\ disk.blk[DataOf(req[c].inum)] = durable.blk[DataOf(req[c].inum)]
    BY <2>1, Settled
  <2>3. out[c] = Wp(durable, req[c])
    BY <2>1, <2>2 DEF Wp
  <2>4. /\ out'[c] = out[c] /\ req'[c] = req[c]
        /\ pc'[c] = IF out[c].dirty = {} THEN "release" ELSE "wait"
    BY <1>0, <1>9 DEF CommitWait, TypeOK
  <2>5. CASE out[c].dirty = {}
    <3>1. Promise!Do({c})
      BY <1>0, <1>1, <1>2, <2>1, <2>3, <2>4, <2>5, DoAlone, Zenon DEF TypeOK
    <3> QED
      BY <3>1 DEF Promise!Next
  <2>6. CASE out[c].dirty # {}
    <3>1. CallOf(c)' = CallOf(c)
      BY <2>1, <2>4, <2>6, CallStates, CallStatesNext
    <3> QED
      BY <1>4, <3>1
  <2> QED
    BY <2>5, <2>6
<1>10. CASE CommitRefused(c)
  <2>1. K[c] = Promise!Called(req[c])
    BY <1>10, CallStates DEF CommitRefused
  <2>2. PICK st \in {"SERVERFAULT", "IO"} :
          out' = [out EXCEPT ![c].reply = Answer(st, <<>>, FALSE)]
    BY <1>10, Zenon DEF CommitRefused
  <2>3. out'[c].reply = Answer(st, <<>>, FALSE) /\ pc'[c] = "release" /\ req'[c] = req[c]
    <3>1. out'[c].reply = Answer(st, <<>>, FALSE)
      BY <1>0, <2>2 DEF TypeOK, Outs
    <3>2. pc'[c] = "release" /\ req'[c] = req[c]
      BY <1>0, <1>10 DEF CommitRefused, TypeOK
    <3> QED
      BY <3>1, <3>2
  <2>4. CallOf(c)' = Promise!Done(req[c], Promise!Answer(st, <<>>, FALSE))
    BY <2>3, CallStatesNext DEF Answer, Promise!Answer
  <2>5. K[c].st = "called" /\ K[c].req = req[c]
    BY <2>1, CallFields
  <2>6. Promise!Fault(c)
    BY <1>3, <2>2, <2>4, <2>5, Zenon DEF Promise!Fault
  <2> QED
    BY <2>6 DEF Promise!Next
<1>11. CASE Release(c) \/ Reply(c)
  <2>1. K[c].st = "done"
    <3>1. K[c] = Promise!Done(req[c], out[c].reply)
      BY <1>11, CallStates DEF Release, Reply
    <3> QED
      BY <3>1, CallFields
  <2>2. CallOf(c)' = Promise!Idle
    BY <1>0, <1>11, CallStatesNext DEF Release, Reply, TypeOK
  <2>3. Promise!Return(c)
    BY <1>3, <2>1, <2>2 DEF Promise!Return
  <2> QED
    BY <2>3 DEF Promise!Next
<1> QED
  BY <1>5, <1>6, <1>7, <1>8, <1>9, <1>10, <1>11 DEF Handler

\* A flush is the moment at which every waiting call takes effect; before the
\* server is up it changes no file.
LEMMA FlushRefines ==
  ASSUME IInv, Flush
  PROVE  [Promise!Next]_(Promise!svars)
<1> DEFINE F == [j \in File |-> Contents(durable, j)]
           K == [d \in Client |-> CallOf(d)]
           S == {d \in Client : pc[d] = "wait"}
<1>0. TypeOK /\ PhaseInv /\ ReadsAreDurable /\ \A c \in Client : LockInv(c) /\ TxnInv(c)
  BY DEF IInv
<1>1. durable' = disk /\ UNCHANGED <<disk, lock, req, out>>
  BY DEF Flush
<1>2. \A c \in Client : pc'[c] = IF pc[c] = "wait" THEN "release" ELSE pc[c]
  BY DEF Flush
<1>3. \A c \in Client \ S : CallOf(c)' = CallOf(c)
  BY <1>1, <1>2 DEF CallOf
<1>4. \A j \in File : Contents(durable, j)' = Contents(disk, j)
  BY <1>1 DEF Contents, FileOf
<1>5. CASE phase # "up"
  <2>1. /\ \A c \in Client : pc[c] = "idle"
        /\ disk.blk = durable.blk /\ \A i \in Inum : disk.ino[i].size = durable.ino[i].size
    BY <1>0, <1>5 DEF PhaseInv
  <2>2. ASSUME NEW j \in File PROVE Contents(disk, j) = Contents(durable, j)
    <3>1. j \in Inum /\ disk.ino[j].size = durable.ino[j].size
      BY <2>1 DEF File
    <3>2. CASE Made(durable)
      <4>1. disk.ino[j].data = durable.ino[j].data
        BY <1>0, <1>5, <3>1, <3>2 DEF PhaseInv, Made, TypeOK
      <4> QED
        BY <2>1, <3>1, <4>1 DEF Contents, FileOf
    <3>3. CASE ~Made(durable)
      <4>0. durable.ino[j] = [size |-> 0, data |-> 0]
        BY <1>0, <3>1, <3>3, Zenon DEF PhaseInv
      <4>1. durable.ino[j].size = 0 /\ disk.ino[j].size = 0
        BY <3>1, <4>0
      <4>2. \A f, g : [k \in 0 .. 0 - 1 |-> f[k]] = [k \in 0 .. 0 - 1 |-> g[k]]
        OBVIOUS
      <4> QED
        BY <4>1, <4>2, Zenon DEF Contents, FileOf
    <3> QED
      BY <3>2, <3>3
  <2>3. F' = F /\ K' = K
    BY <1>3, <1>4, <2>1, <2>2
  <2> QED
    BY <2>3 DEF Promise!svars
<1>6. CASE phase = "up"
  <2>1. Made(disk) /\ Made(durable)
    BY <1>0, <1>6 DEF PhaseInv
  <2>2. ASSUME NEW c \in S
        PROVE  /\ K[c].st = "called" /\ K[c].req = req[c]
               /\ req[c] \in Requests /\ req[c].inum \in File /\ lock[req[c].inum] = c
               /\ Contents(disk, req[c].inum) = Promise!Effect(F[req[c].inum], req[c])
               /\ CallOf(c)' = Promise!Done(req[c], Promise!ReplyTo(F[req[c].inum], req[c]))
    <3> DEFINE i == req[c].inum
    <3>1. K[c].st = "called" /\ K[c].req = req[c]
      <4>1. K[c] = Promise!Called(req[c])
        BY CallStates
      <4> QED
        BY <4>1, CallFields
    <3>2. req[c] \in Requests /\ i \in File /\ i \in Inum /\ lock[i] = c
      BY <1>0 DEF LockInv, Holding, File
    <3>3. /\ out[c] = Wp(durable, req[c])
          /\ disk.ino[i] = out[c].ino /\ disk.blk[DataOf(i)] = out[c].blk
      BY <1>0 DEF TxnInv
    <3>4. durable.ino[i] \in InodeRec /\ durable.blk[DataOf(i)] \in Block
      BY <1>0, <3>2, OnDisk DEF TypeOK
    <3>5. F[i] = FileOf(durable.ino[i], durable.blk[DataOf(i)])
      BY <2>1, <3>2 DEF Contents, Made
    <3>6. /\ Promise!Effect(F[i], req[c]) = FileOf(out[c].ino, out[c].blk)
          /\ Promise!ReplyTo(F[i], req[c]) = out[c].reply
      BY <3>2, <3>3, <3>4, <3>5, WpRefines, Zenon DEF Wp
    <3>7. Contents(disk, i) = FileOf(out[c].ino, out[c].blk)
      BY <2>1, <3>2, <3>3 DEF Contents, Made
    <3>8. CallOf(c)' = Promise!Done(req[c], out[c].reply)
      BY <1>1, <1>2, CallStatesNext
    <3> QED
      BY <3>1, <3>2, <3>6, <3>7, <3>8, Zenon
  <2>3. \A c, d \in S : c # d => K[c].req.inum # K[d].req.inum
    <3>1. \A c \in S : K[c].req = req[c] /\ lock[req[c].inum] = c
      BY <2>2, Zenon
    <3> HIDE DEF F, K, S
    <3> QED
      BY <3>1
  <2>4. ASSUME NEW j \in File, ~ \E c \in S : K[c].req.inum = j
        PROVE  Contents(disk, j) = F[j]
    <3>1. ~ \E c \in Client : pc[c] = "wait" /\ req[c].inum = j
      <4>1. \A c \in S : K[c].req = req[c]
        BY <2>2, Zenon
      <4> HIDE DEF F, K
      <4> QED
        BY <2>4, <4>1
    <3>2. disk.ino[j] = durable.ino[j] /\ disk.blk[DataOf(j)] = durable.blk[DataOf(j)]
      BY <1>0, <1>6, <3>1 DEF ReadsAreDurable
    <3> QED
      BY <2>1, <3>2 DEF Contents, Made, File
  <2>5. ASSUME NEW j \in File, \E c \in S : K[c].req.inum = j
        PROVE  Contents(disk, j)
                 = Promise!Effect(F[j], K[CHOOSE c \in S : K[c].req.inum = j].req)
    <3> DEFINE e == CHOOSE c \in S : K[c].req.inum = j
    <3>1. e \in S /\ K[e].req.inum = j
      BY <2>5, Zenon
    <3> HIDE DEF e
    <3>2. K[e].req = req[e] /\ Contents(disk, req[e].inum) = Promise!Effect(F[req[e].inum], req[e])
      BY <2>2, <3>1, Zenon
    <3>3. Contents(disk, j) = Promise!Effect(F[j], K[e].req)
      BY <3>1, <3>2
    <3> QED
      BY <3>3, Zenon DEF e
  <2>6. F' = [j \in File |->
          IF \E c \in S : K[c].req.inum = j
          THEN Promise!Effect(F[j], K[CHOOSE c \in S : K[c].req.inum = j].req)
          ELSE F[j]]
    <3>1. F' = [j \in File |-> Contents(disk, j)]
      BY <1>4
    <3> HIDE DEF F, K, S
    <3> QED
      BY <2>4, <2>5, <3>1, Zenon
  <2>7. K' = [c \in Client |->
          IF c \in S THEN Promise!Done(K[c].req, Promise!ReplyTo(F[K[c].req.inum], K[c].req)) ELSE K[c]]
    <3>1. ASSUME NEW c \in Client
          PROVE  CallOf(c)' = IF c \in S
                              THEN Promise!Done(K[c].req, Promise!ReplyTo(F[K[c].req.inum], K[c].req))
                              ELSE K[c]
      <4>1. CASE c \in S
        <5>1. K[c].req = req[c]
          BY <2>2, <4>1, Zenon
        <5>2. CallOf(c)' = Promise!Done(req[c], Promise!ReplyTo(F[req[c].inum], req[c]))
          BY <2>2, <4>1
        <5> HIDE DEF F, K, S
        <5> QED
          BY <4>1, <5>1, <5>2
      <4>2. CASE c \notin S
        BY <1>3, <4>2
      <4> QED
        BY <4>1, <4>2
    <3> QED
      BY <3>1
  <2>8. Promise!Do(S)
    <3>1. \A c \in S : K[c].st = "called" /\ K[c].req.inum \in File
      BY <2>2, Zenon
    <3> QED
      BY <2>3, <2>6, <2>7, <3>1 DEF Promise!Do
  <2> QED
    BY <2>8 DEF Promise!Next
<1> QED
  BY <1>5, <1>6

\* Every step of the program is a step of SimpleSpec or a stutter.
LEMMA NextRefines == IInv /\ [Next]_vars => [Promise!Next]_(Promise!svars)
<1> SUFFICES ASSUME IInv, [Next]_vars PROVE [Promise!Next]_(Promise!svars)
  OBVIOUS
<1>1. CASE \E c \in Client : Handler(c)
  BY <1>1, HandlerRefines
<1>2. CASE Flush
  BY <1>2, FlushRefines
<1>3. CASE UNCHANGED <<durable, pc, req, out>>
  <2>1. \A c \in Client : CallOf(c)' = CallOf(c)
    BY <1>3 DEF CallOf
  <2>2. \A i \in File : Contents(durable, i)' = Contents(durable, i)
    BY <1>3 DEF Contents, FileOf
  <2> QED
    BY <2>1, <2>2 DEF Promise!svars
<1>4. CASE Crash
  <2>1. \A c \in Client : CallOf(c)' = Promise!Idle
    BY <1>4, CallStatesNext DEF Crash
  <2>2. \A i \in File : Contents(durable, i)' = Contents(durable, i)
    BY <1>4 DEF Crash, Contents, FileOf
  <2>3. Promise!Crash
    BY <2>1, <2>2 DEF Promise!Crash
  <2> QED
    BY <2>3 DEF Promise!Next
<1> QED
  BY <1>1, <1>2, <1>3, <1>4 DEF Next, vars, Mkfs, MakeNfs, Recover

-----------------------------------------------------------------------------
\* The inductive invariant holds throughout.
THEOREM Invariance == Spec => []IInv
BY InitInv, NextInv, PTL DEF Spec

\* Every variable keeps its type, and no file outgrows its block.
THEOREM TypeCorrect == Spec => []TypeOK
<1>1. IInv => TypeOK
  BY DEF IInv
<1> QED
  BY <1>1, Invariance, PTL

\* What a crash would undo is in a file whose lock a waiting call holds.
THEOREM Durability == Spec => []ReadsAreDurable
<1>1. IInv => ReadsAreDurable
  BY DEF IInv
<1> QED
  BY <1>1, Invariance, PTL

\* The simple server implements SimpleSpec: atomic calls that survive every crash
\* once they are answered.
THEOREM Refinement == Spec => ImplementsSimpleSpec
BY InitRefines, NextRefines, Invariance, PTL DEF Spec, ImplementsSimpleSpec, Promise!Spec
=============================================================================
