------------------------- MODULE MCOperatorProcess -------------------------
(***************************************************************************)
(* Instances of OperatorProcess for TLC.                                   *)
(***************************************************************************)
EXTENDS OperatorProcess

CONSTANTS old1, new1, new2

\* Two replicas of the new release come up beside one of the old.
AllProcesses == {old1, new1, new2}
Versions == [p \in AllProcesses |-> IF p = old1 THEN "old" ELSE "new"]
=============================================================================
