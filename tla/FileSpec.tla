------------------------------- MODULE FileSpec -------------------------------
(***************************************************************************)
(* What READ, WRITE, SETATTR of the size, COMMIT and REMOVE promise of the *)
(* contents of files: a file is a sequence of words, an operation is       *)
(* atomic, what lies between the old end of a file and a later write reads *)
(* as zero, and a crash takes all files back to one earlier point in time, *)
(* never past the last change of a size, nor past the last WRITE that was  *)
(* put on disk. Which WRITEs wait for the disk is not said here.           *)
(***************************************************************************)
EXTENDS Naturals, Sequences

CONSTANTS
  Ino,
  Data,      \* the words that are written
  Offsets,   \* where writes start
  Counts,    \* how long they are
  Sizes      \* the sizes files are given

VARIABLES
  file,    \* contents of every file, as operations see them
  stable   \* contents a crash would leave

fvars == <<file, stable>>

Init ==
  /\ file = [i \in Ino |-> <<>>]
  /\ stable = file

\* f with n words w at offset off, zeros between its end and off.
Splice(f, off, n, w) ==
  LET len == IF off + n > Len(f) THEN off + n ELSE Len(f) IN
  [k \in 1 .. len |-> IF k > off /\ k <= off + n THEN w
                      ELSE IF k <= Len(f) THEN f[k] ELSE 0]

\* f cut or filled up with zeros to sz words.
Cut(f, sz) == [k \in 1 .. sz |-> IF k <= Len(f) THEN f[k] ELSE 0]

\* What a WRITE, whole or cut short by a full disk, makes of a file's contents.
Written(f) ==
  UNION {{Splice(f, off, n, w) : n \in 1 .. c} : off \in Offsets, c \in Counts, w \in Data}

Only(i, old, new) == new = [old EXCEPT ![i] = new[i]]

\* A file is written. The new contents are on disk at once, or some time later.
Write(i, old, new) ==
  /\ Only(i, old, new)
  /\ new[i] \in Written(old[i])
  /\ stable' \in {stable, new}

\* A file is cut, extended or removed: on disk at once.
SetSize(i, old, new) ==
  /\ Only(i, old, new)
  /\ \E sz \in Sizes \cup {0} : new[i] = Cut(old[i], sz)
  /\ stable' = new

Flush == stable' = file /\ UNCHANGED file

Crash == file' = stable /\ UNCHANGED stable

Next ==
  \/ LET old == file
         new == file'
     IN  \E i \in Ino : Write(i, old, new) \/ SetSize(i, old, new)
  \/ Flush
  \/ Crash

Spec == Init /\ [][Next]_fvars
=============================================================================
