---------------------------- MODULE MCLocalClone ----------------------------
(* Instances of LocalClone for TLC.                                         *)
EXTENDS LocalClone, TLC

CONSTANTS r1, r2, r3

\* r2 and r3 come from branches of the same name, in two forks.
MCBranchOf == [r \in Requests |-> IF r = r1 THEN "topic" ELSE "patch-1"]
=============================================================================
