---------------------------- MODULE MCSimpleNfs ----------------------------
(* Small instances of SimpleNfs for TLC. *)
EXTENDS SimpleNfs

CONSTANTS c1, c2

R(proc, inum, off, n, w, set) ==
  [proc |-> proc, inum |-> inum, off |-> off, n |-> n, w |-> w, set |-> set]

\* On file 2 every procedure, within a file, at its end and past it, up to the
\* block and past it; file 3 is there for calls that overlap and flush together.
MCRequests ==
  {R("GETATTR", i, 0, 0, 0, FALSE) : i \in {1, 2}}
  \cup {R("SETATTR", 2, 0, n, 0, TRUE) : n \in {0, 1, 3, 4}}
  \cup {R("SETATTR", 2, 0, 0, 0, FALSE), R("COMMIT", 2, 0, 0, 0, FALSE)}
  \cup {R("READ", 2, off, n, 0, FALSE) : off \in {0, 1, 3}, n \in {2, 3}}
  \cup {R("WRITE", 2, off, 2, 1, TRUE) : off \in 0 .. 2}
  \cup {R("WRITE", 2, 0, 1, 1, FALSE), R("WRITE", 4, 0, 1, 1, TRUE), R("WRITE", 3, 0, 1, 1, TRUE)}
=============================================================================
