-------------------------- MODULE MCConstructionLocks --------------------------
(* Small instances of ConstructionLocks for TLC.                             *)
EXTENDS ConstructionLocks, TLC

CONSTANTS p1, p2, o1, o2, i1

TwoProcesses == {p1, p2}
TwoOperatives == {o1, o2}
OneItem == {i1}

\* what a caller that follows the schema passes, and one that writes "completed"
AnyStatus == {"done", "completed"}

\* two rows, two calls about to insert or release, one stale link
FiveIds == 1..5

Interchangeable == Permutations(TwoProcesses) \union Permutations(TwoOperatives)
===============================================================================
