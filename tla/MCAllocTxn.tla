------------------------------ MODULE MCAllocTxn ------------------------------
(* Two transactions over two inodes and two numbers. *)
EXTENDS AllocTxn, TLC

CONSTANTS t1, t2, o1, o2, n1, n2

MCTxn == {t1, t2}
MCObj == {o1, o2}
MCNum == {n1, n2}

\* Without StaleHits the inodes only matter to the running transaction that has
\* them: the next one reads those that differ from the disk again.
Live == [o \in Obj |-> IF StaleHits \/ \E t \in Txn : lock[o] = t /\ pc[t] = "active"
                       THEN ip[o] ELSE {}]
LiveView == <<bitmap, refs, data, durable, used, lock, pc, Live, chg, wr, alloc, free, lost>>

Symmetry == Permutations(MCTxn) \cup Permutations(MCObj) \cup Permutations(MCNum)
=============================================================================
