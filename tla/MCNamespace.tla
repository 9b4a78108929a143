----------------------------- MODULE MCNamespace -----------------------------
(* Instances of Namespace: the trees the runs start from.                  *)
EXTENDS Namespace, TLC

CONSTANTS t1, t2
MCThread == {t1, t2}
MCSymmetry == Permutations(MCThread)

FreeInode == [kind |-> "free", gen |-> 0, nlink |-> 0, ents |-> {}]
Dir(i, parent, files) ==
  [kind |-> "dir", gen |-> 1, nlink |-> 1, ents |-> {<<".", i>>, <<"..", parent>>} \cup files]
Reg == [kind |-> "reg", gen |-> 1, nlink |-> 1, ents |-> {}]

\* An empty file system after makeFs: only the root.
EmptyRoot == [i \in Inum |-> IF i = ROOTINUM THEN Dir(i, i, {}) ELSE FreeInode]

\* The root and a directory 2 (under a name no client uses), with file 3 in the
\* root and file 4 in directory 2.
TwoDirs == <<Dir(1, 1, {<<"a", 3>>}), Dir(2, 1, {<<"b", 4>>}), Reg, Reg>>
\* Files 2 and 3, then a directory 4 they were moved into: the children have
\* smaller numbers than their directory.
HighDir == <<Dir(1, 1, {<<"b", 4>>}), Reg, Reg, Dir(4, 1, {<<"a", 3>>, <<"b", 2>>})>>

\* The root with an empty directory 2 called b.
SubDir == <<Dir(1, 1, {<<"b", 2>>}), Dir(2, 1, {}), FreeInode>>
=============================================================================
