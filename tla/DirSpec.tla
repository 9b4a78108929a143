------------------------------- MODULE DirSpec -------------------------------
(***************************************************************************)
(* What a directory is to the procedures that use it: a map from names to  *)
(* inode numbers. A name is added only when it is new, a rename moves or   *)
(* replaces in one step, and the directory goes away only when nothing but *)
(* "." and ".." is left. A procedure that fails changes nothing.           *)
(***************************************************************************)

CONSTANTS
  Name,     \* the names clients use, besides "." and ".."
  Inum,     \* the inode numbers its entries may have
  Parent,   \* the numbers ".." may have
  Self,     \* the number of the directory itself
  None      \* no directory

VARIABLE ents   \* the map, or None while the directory does not exist

Has(n) == ents # None /\ n \in DOMAIN ents
Dots(p) == [n \in {".", ".."} |-> IF n = "." THEN Self ELSE p]
Without(m, n) == [x \in DOMAIN m \ {n} |-> m[x]]
With(m, n, i) == [x \in DOMAIN m \cup {n} |-> IF x = n THEN i ELSE m[x]]

Init == \E p \in Parent : ents = Dots(p)

Add(n, i) == ents # None /\ ~Has(n) /\ ents' = With(ents, n, i)
Remove(n) == Has(n) /\ ents' = Without(ents, n)

\* Names n and m of this directory; m may exist, and is then replaced.
Move(n, m) == Has(n) /\ ents' = With(Without(ents, n), m, ents[n])

\* A file of another directory takes the place of name m.
Replace(m, i) == Has(m) /\ ents' = With(ents, m, i)

RemoveDir == ents # None /\ DOMAIN ents = {".", ".."} /\ ents' = None
MakeDir(p) == ents = None /\ ents' = Dots(p)

Next ==
  \/ RemoveDir
  \/ \E n \in Name : Remove(n)
  \/ \E n, m \in Name : Move(n, m)
  \/ \E n \in Name, i \in Inum : Add(n, i) \/ Replace(n, i)
  \/ \E p \in Parent : MakeDir(p)

Spec == Init /\ [][Next]_ents
=============================================================================
