-------------------------------- MODULE MCDir --------------------------------
(* An instance of Dir.                                                     *)
EXTENDS Dir

\* A short name and one that just fits a slot.
MCNameLen == [n \in Name |-> IF n = "a" THEN 1 ELSE MAXNAMELEN - 1]

\* READDIRPLUS replies with room for "." and one more entry at first.
MCPlusCounts == {<<10, 1000>>}
=============================================================================
