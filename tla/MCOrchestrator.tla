---------------------------- MODULE MCOrchestrator -----------------------------
(* Three overlapping calls of Orchestrator for TLC.                          *)
EXTENDS Orchestrator

CONSTANTS c1, c2, c3, earlier

ThreeCalls == {c1, c2, c3}
OneTask == {"task"}
\* the session of an earlier process, one short of the cap
EarlierSession == [lastRun |-> earlier, failures |-> MaxRepeated - 1]
===============================================================================
