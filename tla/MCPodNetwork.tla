----------------------------- MODULE MCPodNetwork -----------------------------
(* Two processes, for TLC.                                                    *)
EXTENDS PodNetwork

CONSTANTS p1, p2

TwoProcesses == {p1, p2}
===============================================================================
