------------------------------ MODULE MCServer ------------------------------
(* An instance of Server.                                                  *)
EXTENDS Server, TLC

CONSTANTS r1, r2

MCSymmetry == Permutations({r1, r2})
=============================================================================
