---------------------------- MODULE MCCherryPick ----------------------------
(* Instances of CherryPick for TLC.                                         *)
EXTENDS CherryPickRefinement

CONSTANTS p1, p2

\* p1 has one review, which is one too few for getAssignee; p2 has three.
MCReviews == [p \in PRs |-> IF p = p1 THEN 1 ELSE 3]

\* Forks often share the name of a branch.
MCRef == [p \in PRs |-> "patch-1"]
=============================================================================
