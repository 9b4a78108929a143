SPECIFICATION Spec
CONSTANTS
  t1 = t1
  t2 = t2
  o1 = o1
  o2 = o2
  n1 = n1
  n2 = n2
  Txn <- MCTxn
  Obj <- MCObj
  Num <- MCNum
  FreesFit = TRUE
  StaleHits = FALSE
  NoTxn = NoTxn
SYMMETRY Symmetry
VIEW LiveView
INVARIANTS CrashConsistent AllocExclusive FreshBlockIsZero AllocatorCoversDisk NoLeakAtRest
