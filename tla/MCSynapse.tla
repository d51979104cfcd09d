------------------------------- MODULE MCSynapse -------------------------------
(* Small instances of Synapse for TLC, deployed by a Mandate.                *)
EXTENDS Synapse, TLC

CONSTANTS r1, r2, r3, NumOps, NumMissions

Deployed == INSTANCE Mandate

OperativeIds == 1..NumOps
MissionIds == 1..NumMissions
DeployedMissionOf == Deployed!MissionIds(NumOps, NumMissions, Unset)
\* a team of one, left with its last mission; the others are no members of it
TeamOfOne ==
    [o \in OperativeIds |-> IF o = 1 THEN Deployed!MissionIds(1, NumMissions, Unset)[1] ELSE Unset]

TwoRuns == {r1, r2}
ThreeRuns == {r1, r2, r3}
\* two overlapping calls for operative 1; with a third run, one for operative 2
FirstTwo == (r1 :> 1) @@ (r2 :> 1)
FirstTwoAndOther == FirstTwo @@ (r3 :> 2)

CheapOrDear == {0, 2}
None == {}
First == {1}
Second == {2}
AllFaults == {"orchestrate", "ledger"}
===============================================================================
