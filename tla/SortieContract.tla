---------------------------- MODULE SortieContract ----------------------------
(***************************************************************************)
(* What a sortie promises to its mission: at most one sortie is at work on *)
(* a mission, the mission is "active" from the moment that sortie starts,  *)
(* and its outcome is written once, when the sortie ends.  Between sorties *)
(* nothing touches the mission's status.                                   *)
(***************************************************************************)
CONSTANTS Missions, Outcomes

VARIABLES status, working

Init ==
    /\ status = [m \in Missions |-> "open"]
    /\ working = {}

Start(m) ==
    /\ m \notin working
    /\ working' = working \union {m}
    /\ status' = [status EXCEPT ![m] = "active"]

Finish(m) ==
    /\ m \in working
    /\ working' = working \ {m}
    /\ \E out \in Outcomes : status' = [status EXCEPT ![m] = out]

Next == \E m \in Missions : Start(m) \/ Finish(m)

Spec == Init /\ [][Next]_<<status, working>>
===============================================================================
