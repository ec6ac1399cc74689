----------------------------- MODULE MCCloudSync -----------------------------
(* Finite instances of CloudSync. *)
EXTENDS CloudSyncHistory, TLC

\* Requests between stamp and commit are interchangeable.
Symmetry == Permutations(Writers) \cup Permutations(Keys)

EveryOp == AllOps
=============================================================================
