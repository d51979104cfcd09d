-------------------------------- MODULE Mandate --------------------------------
(***************************************************************************)
(* executeMandatePipeline: one transaction hires the operatives of a new   *)
(* strike team and hands it the missions derived from the mandate.  The    *)
(* number of operatives and that of missions are computed independently    *)
(* (from matched skills, and from the planner's worker count).             *)
(***************************************************************************)
EXTENDS Integers

\* missionTitles.map: mission k goes to operative k modulo their number
AssigneeOf(k, numOps) == ((k - 1) % numOps) + 1

(***************************************************************************)
(* The same loop calls updateOperativeMission for every mission, so an     *)
(* operative's mission_id is the LAST mission assigned to it.              *)
(***************************************************************************)
MissionIds(numOps, numMissions, none) ==
    LET missionId[k \in 0..numMissions] ==
            IF k = 0 THEN [o \in 1..numOps |-> none]
            ELSE [missionId[k - 1] EXCEPT ![AssigneeOf(k, numOps)] = k]
    IN  missionId[numMissions]
===============================================================================
