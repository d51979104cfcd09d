------------------------------ MODULE ClaimBoard ------------------------------
(***************************************************************************)
(* What Construction Locks promise: every work item has at most one        *)
(* holder, an operative takes an item only when nobody holds it, and an    *)
(* item is given up by a release and in no other way (a lock outlives the  *)
(* process that took it, so a crash is no step of this module).            *)
(***************************************************************************)
CONSTANTS Operatives, WorkItems, Free

VARIABLE holder

Init == holder = [i \in WorkItems |-> Free]

Take(o, i) ==
    /\ holder[i] = Free
    /\ holder' = [holder EXCEPT ![i] = o]

GiveUp(i) ==
    /\ holder[i] # Free
    /\ holder' = [holder EXCEPT ![i] = Free]

Next == \E i \in WorkItems : GiveUp(i) \/ \E o \in Operatives : Take(o, i)

Spec == Init /\ [][Next]_holder
===============================================================================
