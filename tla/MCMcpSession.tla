----------------------------- MODULE MCMcpSession ------------------------------
(* Two request slots of McpSession for TLC.                                  *)
EXTENDS McpSession, TLC

CONSTANTS r1, r2

TwoSlots == {r1, r2}
OneTask == {"task"}
FirstSession == [lastRun |-> NoRun, failures |-> 0]
SwapSlots == Permutations(TwoSlots)
===============================================================================
