------------------------------ MODULE InodeTxn ------------------------------
(***************************************************************************)
(* Transactions on inodes as if there were no cache: a transaction sees an *)
(* inode as the last commit left it, nobody else sees it until the         *)
(* transaction is done with it, and a commit puts all its changes on disk  *)
(* at once.                                                                *)
(***************************************************************************)

CONSTANTS
  Inum,     \* inodes
  Thread,   \* threads, each with one transaction at a time
  Val,      \* contents of an inode
  None      \* the transaction does not have the inode

VARIABLES
  disk,     \* committed contents
  view,     \* what each transaction sees of the inodes it has
  dirty     \* the inodes it has changed

vars == <<disk, view, dirty>>

Nothing == [i \in Inum |-> None]

Init ==
  /\ disk \in [Inum -> Val]
  /\ view = [t \in Thread |-> Nothing]
  /\ dirty = [t \in Thread |-> {}]

Get(t, i) ==
  /\ \A u \in Thread : view[u][i] = None
  /\ view' = [view EXCEPT ![t][i] = disk[i]]
  /\ UNCHANGED <<disk, dirty>>

Change(t, i, v) ==
  /\ view[t][i] # None
  /\ view' = [view EXCEPT ![t][i] = v]
  /\ dirty' = [dirty EXCEPT ![t] = @ \cup {i}]
  /\ UNCHANGED disk

Release(t, i) ==
  /\ i \notin dirty[t]
  /\ view' = [view EXCEPT ![t][i] = None]
  /\ UNCHANGED <<disk, dirty>>

End(t) ==
  /\ view' = [view EXCEPT ![t] = Nothing]
  /\ dirty' = [dirty EXCEPT ![t] = {}]

Commit(t) == End(t) /\ disk' = [i \in Inum |-> IF i \in dirty[t] THEN view[t][i] ELSE disk[i]]
Abort(t) == End(t) /\ UNCHANGED disk

Restart ==
  /\ view' = [t \in Thread |-> Nothing]
  /\ dirty' = [t \in Thread |-> {}]
  /\ UNCHANGED disk

Next ==
  \/ \E t \in Thread, i \in Inum : Get(t, i) \/ Release(t, i) \/ \E v \in Val : Change(t, i, v)
  \/ \E t \in Thread : Commit(t) \/ Abort(t)
  \/ Restart

Spec == Init /\ [][Next]_vars
=============================================================================
