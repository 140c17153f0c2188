----------------------------- MODULE MCSQLMutex -----------------------------
(* Instances of SQLMutex for TLC.                                           *)
EXTENDS SQLMutex, TLC

\* Clients are interchangeable.
ClientSymmetry == Permutations(Clients)
=============================================================================
