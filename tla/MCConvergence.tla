----------------------------- MODULE MCConvergence -----------------------------
(* Small worklists for TLC.  HalfDone is what a process leaves that dies       *)
(* between releasing an item that had a branch and the completion of it.       *)
EXTENDS Convergence

CONSTANTS p1, p2, b1, b2

HalfDone(b) == [status |-> "done", branch |-> b, mergedAt |-> FALSE]

OneProcess == {p1}
TwoProcesses == {p1, p2}
ThreeItems == 1..3
BothBranches == {b1, b2}
LeftBehind == {HalfDone(b1), HalfDone(b2)}
DoneOrBlocked == {"done", "blocked"}
================================================================================
