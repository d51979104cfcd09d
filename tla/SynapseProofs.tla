----------------------------- MODULE SynapseProofs -----------------------------
(***************************************************************************)
(* Proofs about Synapse, for any operatives, missions, overlapping calls   *)
(* of runSortie, budgets and costs; and about the deal of the mandate.     *)
(***************************************************************************)
EXTENDS Synapse, FiniteSetTheorems, WellFoundedInduction, TLAPS

USE DEF vars, operativeRows, board, compaction, counters

-------------------------------------------------------------------------------
(***************************************************************************)
(* What one segment of runSortie may put where, shared by the type proof's *)
(* cases.                                                                  *)
(***************************************************************************)
Reasons == {"budget_exceeded", "compaction", "manual", Unset}

LEMMA SetStateType ==
    ASSUME TypeOK, NEW o \in Operatives, NEW s \in States, NEW why \in Reasons,
           SetState(o, s, why)
    PROVE  /\ state' \in [Operatives -> States]
           /\ reason' \in [Operatives -> Reasons]
BY DEF TypeOK, SetState, Reasons

LEMMA ReleaseType ==
    ASSUME TypeOK, NEW o, NEW m, NEW final \in Outcomes, Release(o, m, final)
    PROVE  /\ holder' \in [Missions -> Operatives \union {Unset}]
           /\ item' \in [Missions -> {"todo", "claimed"} \union Outcomes]
BY DEF TypeOK, Release, Board!GiveUp

LEMMA AfterSpendingType ==
    ASSUME TypeOK, NEW o \in Operatives, NEW total \in Nat, AfterSpending(o, total)
    PROVE  /\ state' \in [Operatives -> States]
           /\ reason' \in [Operatives -> Reasons]
<1>1. CASE Cap <= 0 \/ total >= Cap
  BY <1>1, SetStateType DEF AfterSpending, States, Reasons
<1>2. CASE ~(Cap <= 0 \/ total >= Cap)
  <2>1. reason[o] \in Reasons
    BY DEF TypeOK, Reasons
  <2> QED
    BY <1>2, <2>1, SetStateType DEF AfterSpending, States
<1> QED
  BY <1>1, <1>2

LEMMA ItemCompletedType ==
    ASSUME TypeOK, NEW o \in Operatives, NEW m, NEW out \in Outcomes,
           ItemCompleted(o, m, out)
    PROVE  /\ state' \in [Operatives -> States]
           /\ reason' \in [Operatives -> Reasons]
           /\ item' \in [Missions -> {"todo", "claimed"} \union Outcomes]
<1>1. item' \in [Missions -> {"todo", "claimed"} \union Outcomes]
  BY DEF TypeOK, ItemCompleted
<1>2. CASE out = "blocked"
  BY <1>1, <1>2, SetStateType DEF ItemCompleted, States, Reasons
<1>3. CASE out # "blocked"
  BY <1>1, <1>3 DEF ItemCompleted, TypeOK, Reasons
<1> QED
  BY <1>2, <1>3

LEMMA FlightType ==
    ASSUME TypeOK, NEW r \in Runs, Flight(r)
    PROVE  TypeOK'
<1> DEFINE o == OpOf[r]
           m == MissionFor(r)
<1>1. o \in Operatives
  BY RunAssumption
<1>2. CASE RunSortie(r)
  BY <1>2 DEF RunSortie, TypeOK, Awaits
<1>3. CASE Claim(r)
  <2>1. pc' \in [Runs -> Awaits]
    BY <1>3 DEF Claim, TypeOK, Awaits
  <2>2. holder' \in [Missions -> Operatives \union {Unset}]
    BY <1>3, <1>1 DEF Claim, TypeOK, Board!Take
  <2>3. item' \in [Missions -> {"todo", "claimed"} \union Outcomes]
    BY <1>3 DEF Claim, TypeOK
  <2>4. \A q \in Runs : pc'[q] \in {"complete", "report"} => outcome'[q] # Unset
    BY <1>3 DEF Claim, TypeOK
  <2> QED
    BY <1>3, <2>1, <2>2, <2>3, <2>4 DEF Claim, TypeOK
<1>4. CASE Begin(r)
  <2>1. state' \in [Operatives -> States] /\ reason' \in [Operatives -> Reasons]
    BY <1>4, <1>1, SetStateType DEF Begin, States, Reasons, TypeOK
  <2>2. status' \in [Missions -> {"open", "active"} \union Outcomes]
    BY <1>4 DEF Begin, TypeOK
  <2>3. pc' \in [Runs -> Awaits]
    BY <1>4 DEF Begin, TypeOK, Awaits
  <2>4. \A q \in Runs : pc'[q] \in {"complete", "report"} => outcome'[q] # Unset
    BY <1>4 DEF Begin, TypeOK
  <2> QED
    BY <1>4, <2>1, <2>2, <2>3, <2>4 DEF Begin, TypeOK, Reasons
<1>5. CASE Orchestrated(r)
  <2> PICK out \in Outcomes, cost \in Costs :
         /\ spent' = [spent EXCEPT ![o] = @ + cost]
         /\ AfterSpending(o, spent[o] + cost)
         /\ MissionEnds(m, out)
         /\ Release(o, m, out)
         /\ outcome' = [outcome EXCEPT ![r] = out]
    BY <1>5 DEF Orchestrated
  <2>1. cost \in Nat /\ spent[o] \in Nat /\ spent[o] + cost \in Nat
    BY <1>1, BudgetAssumption DEF TypeOK
  <2>2. state' \in [Operatives -> States] /\ reason' \in [Operatives -> Reasons]
    BY <1>1, <2>1, AfterSpendingType
  <2>3. spent' \in [Operatives -> Nat]
    BY <1>1, <2>1 DEF TypeOK
  <2>4. status' \in [Missions -> {"open", "active"} \union Outcomes]
    BY DEF MissionEnds, TypeOK
  <2>5. /\ holder' \in [Missions -> Operatives \union {Unset}]
        /\ item' \in [Missions -> {"todo", "claimed"} \union Outcomes]
    BY ReleaseType
  <2>6. pc' \in [Runs -> Awaits]
    BY <1>5 DEF Orchestrated, TypeOK, Awaits
  <2>7. outcome' \in [Runs -> Outcomes \union {Unset}]
    BY DEF TypeOK
  <2>8. \A q \in Runs : pc'[q] \in {"complete", "report"} => outcome'[q] # Unset
    BY <1>5, UnsetAssumption DEF Orchestrated, TypeOK
  <2> QED
    BY <1>5, <2>2, <2>3, <2>4, <2>5, <2>6, <2>7, <2>8 DEF Orchestrated, TypeOK, Reasons
<1>6. CASE Complete(r)
  <2>1. outcome[r] \in Outcomes
    BY <1>6 DEF Complete, TypeOK
  <2>2. /\ state' \in [Operatives -> States]
        /\ reason' \in [Operatives -> Reasons]
        /\ item' \in [Missions -> {"todo", "claimed"} \union Outcomes]
    <3>1. CASE ItemCompleted(o, m, outcome[r])
      BY <3>1, <2>1, <1>1, ItemCompletedType
    <3>2. CASE item' = [item EXCEPT ![m] = outcome[r]] /\ UNCHANGED <<state, reason>>
      BY <3>2, <2>1 DEF TypeOK, Reasons
    <3> QED
      BY <1>6, <3>1, <3>2 DEF Complete
  <2>3. pc' \in [Runs -> Awaits]
    BY <1>6 DEF Complete, TypeOK, Awaits
  <2>4. \A q \in Runs : pc'[q] \in {"complete", "report"} => outcome'[q] # Unset
    BY <1>6 DEF Complete, TypeOK
  <2> QED
    BY <1>6, <2>2, <2>3, <2>4 DEF Complete, TypeOK, Reasons
<1>7. CASE Report(r)
  <2>1. outcome[r] \in Outcomes
    BY <1>7 DEF Report, TypeOK
  <2>2. team' \in {"active", "done"}
    BY <1>7 DEF Report, TeamStatus
  <2>3. item' \in [Missions -> {"todo", "claimed"} \union Outcomes]
    BY <1>7, <2>1 DEF Report, ReportedStatus, TypeOK
  <2>4. activity' \in [Operatives -> {"unknown", "never", "sortie"}]
    BY <1>7, <1>1 DEF Report, TypeOK
  <2>5. pc' \in [Runs -> Awaits] /\ outcome' \in [Runs -> Outcomes \union {Unset}]
    BY <1>7 DEF Report, TypeOK, Awaits
  <2>6. \A q \in Runs : pc'[q] \in {"complete", "report"} => outcome'[q] # Unset
    BY <1>7 DEF Report, TypeOK
  <2> QED
    BY <1>7, <2>2, <2>3, <2>4, <2>5, <2>6 DEF Report, TypeOK
<1>8. CASE Catch(r)
  <2>1. state' \in [Operatives -> States] /\ reason' \in [Operatives -> Reasons]
    BY <1>8, <1>1, SetStateType DEF Catch, States, Reasons
  <2>2. status' \in [Missions -> {"open", "active"} \union Outcomes]
    BY <1>8 DEF Catch, MissionEnds, TypeOK, Outcomes
  <2>3. /\ holder' \in [Missions -> Operatives \union {Unset}]
        /\ item' \in [Missions -> {"todo", "claimed"} \union Outcomes]
    BY <1>8, ReleaseType DEF Catch, Outcomes
  <2>4. pc' \in [Runs -> Awaits] /\ outcome' \in [Runs -> Outcomes \union {Unset}]
    BY <1>8 DEF Catch, TypeOK, Awaits
  <2>5. \A q \in Runs : pc'[q] \in {"complete", "report"} => outcome'[q] # Unset
    BY <1>8 DEF Catch, TypeOK
  <2> QED
    BY <1>8, <2>1, <2>2, <2>3, <2>4, <2>5 DEF Catch, TypeOK, Reasons
<1>9. CASE Caught(r)
  <2>1. item' \in [Missions -> {"todo", "claimed"} \union Outcomes]
    BY <1>9 DEF Caught, TypeOK, Outcomes
  <2>2. pc' \in [Runs -> Awaits]
    BY <1>9 DEF Caught, TypeOK, Awaits
  <2> QED
    BY <1>9, <2>1, <2>2 DEF Caught, TypeOK
<1> QED
  BY <1>2, <1>3, <1>4, <1>5, <1>6, <1>7, <1>8, <1>9 DEF Flight

LEMMA ToolsType ==
    ASSUME TypeOK, NEW o \in ToolUsers, Tools(o)
    PROVE  TypeOK'
<1>1. o \in Operatives
  BY ToolUsersAssumption
<1>2. ASSUME NEW m \in Missions, ToolClaim(o, m) PROVE TypeOK'
  <2>1. /\ holder' \in [Missions -> Operatives \union {Unset}]
        /\ item' \in [Missions -> {"todo", "claimed"} \union Outcomes]
    BY <1>2, <1>1 DEF ToolClaim, TypeOK, Board!Take
  <2> QED
    BY <1>2, <2>1 DEF ToolClaim, TypeOK
<1>3. ASSUME NEW m \in Missions, NEW out \in Outcomes, ToolComplete(o, m, out)
      PROVE  TypeOK'
  <2>1. /\ holder' \in [Missions -> Operatives \union {Unset}]
        /\ item' \in [Missions -> {"todo", "claimed"} \union Outcomes]
    BY <1>3, ReleaseType DEF ToolComplete
  <2>2. [item |-> m, status |-> out] \in [item : Missions, status : Outcomes]
    OBVIOUS
  <2> DEFINE rest == [item |-> m, status |-> out]
             Rests == [item : Missions, status : Outcomes]
  <2>3. rest \in Rests /\ tool' = [tool EXCEPT ![o] = rest] /\ tool \in [Operatives -> Rests \union {Unset}]
    BY <1>3, <2>2 DEF ToolComplete, TypeOK
  <2> HIDE DEF rest, Rests
  <2>4. tool' \in [Operatives -> Rests \union {Unset}]
    BY <2>3
  <2> QED
    BY <1>3, <2>1, <2>4 DEF ToolComplete, TypeOK, Rests
<1>4. CASE ToolCompleted(o)
  <2>1. tool[o] \in [item : Missions, status : Outcomes]
    BY <1>4, <1>1 DEF ToolCompleted, TypeOK
  <2>2. tool[o].status \in Outcomes
    BY <2>1
  <2>3. /\ state' \in [Operatives -> States]
        /\ reason' \in [Operatives -> Reasons]
        /\ item' \in [Missions -> {"todo", "claimed"} \union Outcomes]
    BY <1>4, <1>1, <2>2, ItemCompletedType DEF ToolCompleted
  <2>4. tool' \in [Operatives -> [item : Missions, status : Outcomes] \union {Unset}]
    BY <1>4 DEF ToolCompleted, TypeOK
  <2> QED
    BY <1>4, <2>3, <2>4 DEF ToolCompleted, TypeOK, Reasons
<1> QED
  BY <1>2, <1>3, <1>4, ToolUsersAssumption DEF Tools

(***************************************************************************)
(* Every variable keeps its type: in particular a run that is about to     *)
(* report carries an outcome, whatever throws or crashes.                  *)
(***************************************************************************)
THEOREM SynapseTypeCorrect == Spec => []TypeOK
<1>1. Init => TypeOK
  <2> SUFFICES ASSUME Init PROVE TypeOK
    OBVIOUS
  <2>1. state \in [Operatives -> States] /\ reason \in [Operatives -> Reasons]
    BY DEF Init, States, Reasons
  <2>2. holder \in [Missions -> Operatives \union {Unset}]
    BY DEF Init, Board!Init
  <2>3. /\ pc \in [Runs -> Awaits]
        /\ outcome \in [Runs -> Outcomes \union {Unset}]
        /\ \A r \in Runs : pc[r] \notin {"complete", "report"}
    BY DEF Init, Awaits
  <2>4. /\ tool \in [Operatives -> [item : Missions, status : Outcomes] \union {Unset}]
        /\ activity \in [Operatives -> {"unknown", "never", "sortie"}]
    BY DEF Init
  <2>5. /\ status \in [Missions -> {"open", "active"} \union Outcomes]
        /\ item \in [Missions -> {"todo", "claimed"} \union Outcomes]
    BY DEF Init
  <2>6. spent \in [Operatives -> Nat] /\ pendingApprovals \in [Missions -> Nat]
    BY DEF Init
  <2> QED
    BY <2>1, <2>2, <2>3, <2>4, <2>5, <2>6 DEF Init, TypeOK, Reasons
<1>2. TypeOK /\ [Next]_vars => TypeOK'
  <2> SUFFICES ASSUME TypeOK, [Next]_vars
               PROVE  TypeOK'
    OBVIOUS
  <2>1. CASE \E r \in Runs : Flight(r)
    BY <2>1, FlightType
  <2>2. CASE PreCompaction
    <3>1. PICK stood \in SUBSET Operatives :
            /\ state' = [o \in Operatives |-> IF o \in stood THEN "STANDDOWN" ELSE state[o]]
            /\ reason' = [o \in Operatives |-> IF o \in stood THEN "compaction" ELSE reason[o]]
      BY <2>2 DEF PreCompaction
    <3>2. state' \in [Operatives -> States] /\ reason' \in [Operatives -> Reasons]
      BY <3>1 DEF TypeOK, States, Reasons
    <3>3. paused' \subseteq Operatives /\ timer' \in BOOLEAN /\ standdown' \in BOOLEAN
      BY <2>2 DEF PreCompaction
    <3>4. compactions' \in Nat
      BY <2>2 DEF PreCompaction, TypeOK
    <3> QED
      BY <2>2, <3>2, <3>3, <3>4 DEF PreCompaction, TypeOK, Reasons
  <2>3. CASE Resume
    <3>1. state' \in [Operatives -> States] /\ reason' \in [Operatives -> Reasons]
      BY <2>3 DEF Resume, TypeOK, States, Reasons
    <3> QED
      BY <2>3, <3>1 DEF Resume, TypeOK, Reasons
  <2>4. ASSUME NEW o \in Operatives, Zombie(o) PROVE TypeOK'
    <3>1. state' \in [Operatives -> States] /\ reason' \in [Operatives -> Reasons]
      BY <2>4, SetStateType DEF Zombie, States, Reasons
    <3> QED
      BY <2>4, <3>1 DEF Zombie, TypeOK, Reasons
  <2>5. ASSUME NEW m \in Missions, RequestApproval(m) \/ ResolveApproval(m) PROVE TypeOK'
    BY <2>5 DEF RequestApproval, ResolveApproval, TypeOK
  <2>6. ASSUME NEW o \in ToolUsers, Tools(o) PROVE TypeOK'
    BY <2>6, ToolsType
  <2>7. CASE Crash
    <3>1. state' \in [Operatives -> States] /\ reason' \in [Operatives -> Reasons]
      <4>1. CASE UNCHANGED <<state, reason>>
        BY <4>1 DEF TypeOK, Reasons
      <4>2. ASSUME NEW r \in Runs, SetState(OpOf[r], "CHECKOUT", Unset)
            PROVE  state' \in [Operatives -> States] /\ reason' \in [Operatives -> Reasons]
        BY <4>2, RunAssumption, SetStateType DEF States, Reasons
      <4> QED
        BY <2>7, <4>1, <4>2 DEF Crash
    <3>2. pc' \in [Runs -> Awaits] /\ outcome' \in [Runs -> Outcomes \union {Unset}]
      BY <2>7 DEF Crash, Awaits
    <3>3. \A r \in Runs : pc'[r] \notin {"complete", "report"}
      BY <2>7 DEF Crash
    <3>4. /\ tool' \in [Operatives -> [item : Missions, status : Outcomes] \union {Unset}]
          /\ activity' \in [Operatives -> {"unknown", "never", "sortie"}]
      BY <2>7 DEF Crash
    <3>5. /\ spent' \in [Operatives -> Nat]
          /\ status' \in [Missions -> {"open", "active"} \union Outcomes]
          /\ team' \in {"active", "done"}
          /\ pendingApprovals' \in [Missions -> Nat]
          /\ holder' \in [Missions -> Operatives \union {Unset}]
          /\ item' \in [Missions -> {"todo", "claimed"} \union Outcomes]
      BY <2>7 DEF Crash, TypeOK
    <3>6. /\ standdown' \in BOOLEAN /\ timer' \in BOOLEAN
          /\ paused' \subseteq Operatives
      BY <2>7 DEF Crash
    <3>7. zombies' \in Nat /\ compactions' \in Nat /\ crashes' \in Nat
      BY <2>7 DEF Crash, TypeOK
    <3>8. \A r \in Runs : pc'[r] \in {"complete", "report"} => outcome'[r] # Unset
      BY <3>3
    <3> QED
      BY <3>1, <3>2, <3>4, <3>5, <3>6, <3>7, <3>8 DEF TypeOK, Reasons
  <2>8. CASE UNCHANGED vars
    BY <2>8 DEF TypeOK
  <2> QED
    BY <2>1, <2>2, <2>3, <2>4, <2>5, <2>6, <2>7, <2>8 DEF Next
<1> QED
  BY <1>1, <1>2, PTL DEF Spec

-------------------------------------------------------------------------------
(***************************************************************************)
(* A step that starts no work, spends nothing and at most suspends         *)
(* operatives preserves FlightInv.                                         *)
(***************************************************************************)
LEMMA FlightInvFrame ==
    ASSUME TypeOK, FlightInv,
           timer' = timer,
           spent' = spent,
           \A r \in Runs : pc'[r] # "thrown",
           \A r \in Runs : pc'[r] = "orchestrate" => pc[r] = "orchestrate",
           \A o \in Operatives : state'[o] = state[o] \/ state'[o] = "SUSPENDED"
    PROVE  FlightInv'
<1>1. SingleFlight'
  BY DEF FlightInv, SingleFlight, AtWork
<1>2. WorkersAreBusy'
  BY RunAssumption DEF FlightInv, WorkersAreBusy, AtWork
<1>3. ReadyHaveBudget'
  BY DEF FlightInv, ReadyHaveBudget
<1>4. BudgetBound'
  BY DEF FlightInv, BudgetBound
<1> QED
  BY <1>1, <1>2, <1>3, <1>4 DEF FlightInv

\* the refusal that protects an operative at work
LEMMA CheckoutRefused ==
    ASSUME TypeOK, NEW o \in Operatives, CanMove(o, "CHECKOUT")
    PROVE  state[o] \in {"IDLE", "CHECKOUT"}
BY DEF TypeOK, CanMove, ValidTransitions, States

LEMMA FlightInvBegin ==
    ASSUME TypeOK, FlightInv, NEW r \in Runs, Begin(r)
    PROVE  FlightInv'
<1> DEFINE o == OpOf[r]
<1>1. o \in Operatives
  BY RunAssumption
<1>2. CASE CanMove(o, "CHECKOUT")
  <2>1. /\ state[o] \in {"IDLE", "CHECKOUT"}
        /\ state' = [state EXCEPT ![o] = "ACTIVE"]
        /\ pc' = [pc EXCEPT ![r] = "orchestrate"]
        /\ spent' = spent /\ timer' = timer
    BY <1>2, <1>1, CheckoutRefused DEF Begin, SetState
  <2>2. \A s \in AtWork : OpOf[s] # o
    BY <2>1 DEF FlightInv, WorkersAreBusy
  <2>3. Cap > 0 => spent[o] < Cap
    BY <2>1, <1>1 DEF FlightInv, ReadyHaveBudget
  <2>4. AtWork' \subseteq AtWork \union {r}
    BY <2>1 DEF AtWork, TypeOK
  <2>5. SingleFlight'
    BY <2>2, <2>4 DEF FlightInv, SingleFlight
  <2>6. WorkersAreBusy'
    <3> SUFFICES ASSUME NEW s \in AtWork'
                 PROVE  /\ state'[OpOf[s]] \in {"ACTIVE", "SUSPENDED"}
                        /\ Cap > 0 => spent'[OpOf[s]] < Cap
      BY DEF WorkersAreBusy
    <3>1. s \in Runs /\ OpOf[s] \in Operatives
      BY RunAssumption DEF AtWork
    <3>2. CASE s = r
      BY <3>2, <2>1, <2>3, <1>1 DEF TypeOK
    <3>3. CASE s \in AtWork
      BY <3>1, <3>3, <2>1, <2>2 DEF TypeOK, FlightInv, WorkersAreBusy
    <3> QED
      BY <2>4, <3>2, <3>3
  <2>7. ReadyHaveBudget'
    BY <2>1 DEF FlightInv, ReadyHaveBudget, TypeOK
  <2>8. BudgetBound'
    BY <2>1 DEF FlightInv, BudgetBound
  <2>9. \A s \in Runs : pc'[s] # "thrown"
    BY <2>1 DEF FlightInv, TypeOK
  <2> QED
    BY <2>1, <2>5, <2>6, <2>7, <2>8, <2>9 DEF FlightInv
<1>3. CASE ~CanMove(o, "CHECKOUT")
  <2>1. pc' = [pc EXCEPT ![r] = "none"] /\ state' = state /\ spent' = spent /\ timer' = timer
    BY <1>3 DEF Begin
  <2>2. \A s \in Runs : pc'[s] # "thrown" /\ (pc'[s] = "orchestrate" => pc[s] = "orchestrate")
    BY <2>1 DEF FlightInv, TypeOK
  <2> QED
    BY <2>1, <2>2, FlightInvFrame
<1> QED
  BY <1>2, <1>3

\* a step that ends the work of r and leaves its operative SUSPENDED, or IDLE with budget
LEMMA FlightInvEnd ==
    ASSUME TypeOK, FlightInv, NEW r \in Runs, pc[r] = "orchestrate",
           NEW after \in Awaits \ {"orchestrate", "thrown"},
           pc' = [pc EXCEPT ![r] = after],
           NEW s \in {"IDLE", "SUSPENDED"},
           state' = [state EXCEPT ![OpOf[r]] = s],
           NEW total \in Nat,
           spent' = [spent EXCEPT ![OpOf[r]] = total],
           s = "IDLE" /\ Cap > 0 => total < Cap,
           Cap > 0 /\ total >= Cap => \E cost \in Costs : total - cost < Cap,
           timer' = timer
    PROVE  FlightInv'
<1> DEFINE o == OpOf[r]
<1>1. o \in Operatives
  BY RunAssumption
<1>2. r \in AtWork
  BY DEF AtWork
<1>3. AtWork' \subseteq AtWork \ {r}
  BY DEF AtWork, TypeOK
<1>4. \A q \in AtWork' : OpOf[q] # o /\ OpOf[q] \in Operatives
  BY <1>2, <1>3, RunAssumption DEF FlightInv, SingleFlight, AtWork
<1>5. SingleFlight'
  BY <1>3 DEF FlightInv, SingleFlight
<1>6. WorkersAreBusy'
  <2> SUFFICES ASSUME NEW q \in AtWork'
               PROVE  /\ state'[OpOf[q]] \in {"ACTIVE", "SUSPENDED"}
                      /\ Cap > 0 => spent'[OpOf[q]] < Cap
    BY DEF WorkersAreBusy
  <2>1. state'[OpOf[q]] = state[OpOf[q]] /\ spent'[OpOf[q]] = spent[OpOf[q]]
    BY <1>4 DEF TypeOK
  <2>2. q \in AtWork
    BY <1>3
  <2> QED
    BY <2>1, <2>2 DEF FlightInv, WorkersAreBusy
<1>7. ReadyHaveBudget'
  <2> SUFFICES ASSUME NEW p \in Operatives, state'[p] \in {"IDLE", "CHECKOUT"}, Cap > 0
               PROVE  spent'[p] < Cap
    BY DEF ReadyHaveBudget
  <2>1. CASE p = o
    BY <2>1, <1>1 DEF TypeOK
  <2>2. CASE p # o
    BY <2>2 DEF FlightInv, ReadyHaveBudget, TypeOK
  <2> QED
    BY <2>1, <2>2
<1>8. BudgetBound'
  <2> SUFFICES ASSUME NEW p \in Operatives, Cap > 0, spent'[p] >= Cap
               PROVE  \E cost \in Costs : spent'[p] - cost < Cap
    BY DEF BudgetBound
  <2>1. CASE p = o
    BY <2>1, <1>1 DEF TypeOK
  <2>2. CASE p # o
    BY <2>2 DEF FlightInv, BudgetBound, TypeOK
  <2> QED
    BY <2>1, <2>2
<1>9. \A q \in Runs : pc'[q] # "thrown"
  BY DEF FlightInv, TypeOK
<1> QED
  BY <1>5, <1>6, <1>7, <1>8, <1>9 DEF FlightInv

LEMMA FlightInvOrchestrated ==
    ASSUME TypeOK, FlightInv, NEW r \in Runs, Orchestrated(r)
    PROVE  FlightInv'
<1> DEFINE o == OpOf[r]
<1>1. o \in Operatives /\ r \in AtWork /\ pc[r] = "orchestrate"
  BY RunAssumption DEF Orchestrated, AtWork
<1> PICK cost \in Costs :
       /\ spent' = [spent EXCEPT ![o] = @ + cost]
       /\ AfterSpending(o, spent[o] + cost)
  BY DEF Orchestrated
<1> DEFINE total == spent[o] + cost
<1>2. cost \in Nat /\ spent[o] \in Nat /\ total \in Nat /\ Cap \in Int
  BY <1>1, BudgetAssumption DEF TypeOK
<1>3. spent' = [spent EXCEPT ![o] = total]
  BY <1>1 DEF TypeOK
<1>4. Cap > 0 => spent[o] < Cap
  BY <1>1 DEF FlightInv, WorkersAreBusy
<1>5. Cap > 0 /\ total >= Cap => \E c \in Costs : total - c < Cap
  <2>1. total - cost = spent[o]
    BY <1>2
  <2> QED
    BY <2>1, <1>4
<1>6. PICK s \in {"IDLE", "SUSPENDED"} :
         /\ state' = [state EXCEPT ![o] = s]
         /\ s = "IDLE" => Cap > 0 /\ total < Cap
  <2>1. CASE Cap <= 0 \/ total >= Cap
    BY <2>1 DEF AfterSpending, SetState
  <2>2. CASE ~(Cap <= 0 \/ total >= Cap)
    <3>1. Cap > 0 /\ total < Cap
      BY <2>2, <1>2
    <3> QED
      BY <2>2, <3>1 DEF AfterSpending, SetState
  <2> QED
    BY <2>1, <2>2
<1>7. pc' = [pc EXCEPT ![r] = "complete"] /\ timer' = timer
  BY DEF Orchestrated
<1>8. "complete" \in Awaits \ {"orchestrate", "thrown"}
  BY DEF Awaits
<1> HIDE DEF total
<1> QED
  BY <1>1, <1>2, <1>3, <1>5, <1>6, <1>7, <1>8, FlightInvEnd

LEMMA FlightInvCatch ==
    ASSUME TypeOK, FlightInv, NEW r \in Runs, Catch(r)
    PROVE  FlightInv'
<1> DEFINE o == OpOf[r]
<1>1. pc[r] = "orchestrate" /\ r \in AtWork /\ o \in Operatives
  BY RunAssumption DEF Catch, FlightInv, AtWork
<1>2. /\ pc' = [pc EXCEPT ![r] = "catch"]
      /\ state' = [state EXCEPT ![o] = "IDLE"]
      /\ spent' = spent
      /\ timer' = timer
  BY DEF Catch, SetState
<1>3. "catch" \in Awaits \ {"orchestrate", "thrown"}
  BY DEF Awaits
<1>4. spent[o] \in Nat /\ spent' = [spent EXCEPT ![o] = spent[o]]
  BY <1>1, <1>2 DEF TypeOK
<1>5. Cap > 0 => spent[o] < Cap
  BY <1>1 DEF FlightInv, WorkersAreBusy
<1>6. Cap > 0 /\ spent[o] >= Cap => \E cost \in Costs : spent[o] - cost < Cap
  BY <1>1 DEF FlightInv, BudgetBound
<1> QED
  BY <1>1, <1>2, <1>3, <1>4, <1>5, <1>6, FlightInvEnd

LEMMA FlightInvStep ==
    ASSUME "ledger" \notin Faults, MaxCompactions = 0, TypeOK, FlightInv, [Next]_vars
    PROVE  FlightInv'
<1>1. ASSUME NEW r \in Runs, Flight(r) PROVE FlightInv'
  <2>1. CASE Begin(r)
    BY <2>1, FlightInvBegin
  <2>2. CASE Orchestrated(r)
    BY <2>2, FlightInvOrchestrated
  <2>3. CASE Catch(r)
    BY <2>3, FlightInvCatch
  <2>4. CASE RunSortie(r) \/ Claim(r) \/ Report(r) \/ Caught(r)
    <3>1. /\ timer' = timer /\ spent' = spent /\ state' = state
          /\ \E after \in {"echo", "claimed", "none"} : pc' = [pc EXCEPT ![r] = after]
      BY <2>4 DEF RunSortie, Claim, Report, Caught
    <3>2. \A q \in Runs : pc'[q] # "thrown" /\ (pc'[q] = "orchestrate" => pc[q] = "orchestrate")
      BY <3>1 DEF FlightInv, TypeOK
    <3> QED
      BY <3>1, <3>2, FlightInvFrame
  <2>5. CASE Complete(r)
    <3>1. ItemCompleted(OpOf[r], MissionFor(r), outcome[r]) /\ pc' = [pc EXCEPT ![r] = "report"]
      BY <1>1, <2>5 DEF Complete
    <3>2. \A o \in Operatives : state'[o] = state[o] \/ state'[o] = "SUSPENDED"
      BY <3>1 DEF ItemCompleted, SetState, TypeOK
    <3>3. \A q \in Runs : pc'[q] # "thrown" /\ (pc'[q] = "orchestrate" => pc[q] = "orchestrate")
      BY <3>1 DEF FlightInv, TypeOK
    <3>4. timer' = timer /\ spent' = spent
      BY <2>5 DEF Complete
    <3> QED
      BY <3>2, <3>3, <3>4, FlightInvFrame
  <2> QED
    BY <1>1, <2>1, <2>2, <2>3, <2>4, <2>5 DEF Flight
<1>2. ~PreCompaction
  BY DEF PreCompaction, TypeOK
<1>3. ~Resume
  BY DEF Resume, FlightInv
<1>4. ASSUME NEW o \in Operatives, Zombie(o) PROVE FlightInv'
  <2>1. \A p \in Operatives : state'[p] = state[p] \/ state'[p] = "SUSPENDED"
    BY <1>4 DEF Zombie, SetState, TypeOK
  <2>2. timer' = timer /\ spent' = spent /\ pc' = pc
    BY <1>4 DEF Zombie
  <2> QED
    BY <2>1, <2>2, FlightInvFrame DEF FlightInv
<1>5. ASSUME NEW m \in Missions, RequestApproval(m) \/ ResolveApproval(m) PROVE FlightInv'
  <2>1. timer' = timer /\ spent' = spent /\ pc' = pc /\ state' = state
    BY <1>5 DEF RequestApproval, ResolveApproval
  <2> QED
    BY <2>1, FlightInvFrame DEF FlightInv
<1>6. ASSUME NEW o \in ToolUsers, Tools(o) PROVE FlightInv'
  <2>1. timer' = timer /\ spent' = spent /\ pc' = pc
    BY <1>6 DEF Tools, ToolClaim, ToolComplete, ToolCompleted
  <2>2. \A p \in Operatives : state'[p] = state[p] \/ state'[p] = "SUSPENDED"
    BY <1>6 DEF Tools, ToolClaim, ToolComplete, ToolCompleted, ItemCompleted, SetState, TypeOK
  <2> QED
    BY <2>1, <2>2, FlightInvFrame DEF FlightInv
<1>7. CASE Crash
  <2>1. /\ \A r \in Runs : pc'[r] = "none"
        /\ ~timer'
        /\ spent' = spent
    BY <1>7 DEF Crash
  <2>2. AtWork' = {}
    BY <2>1 DEF AtWork
  <2>3. \A o \in Operatives : state'[o] = state[o] \/ state[o] \in {"IDLE", "CHECKOUT"}
    <3>1. CASE state' = state
      BY <3>1
    <3>2. ASSUME NEW r \in Runs, CanMove(OpOf[r], "CHECKOUT"), SetState(OpOf[r], "CHECKOUT", Unset)
          PROVE  \A o \in Operatives : state'[o] = state[o] \/ state[o] \in {"IDLE", "CHECKOUT"}
      <4>1. state[OpOf[r]] \in {"IDLE", "CHECKOUT"}
        BY <3>2, RunAssumption, CheckoutRefused
      <4> QED
        BY <4>1, <3>2 DEF SetState, TypeOK
    <3> QED
      BY <1>7, <3>1, <3>2 DEF Crash
  <2>4. ReadyHaveBudget'
    BY <2>1, <2>3 DEF FlightInv, ReadyHaveBudget
  <2>5. BudgetBound'
    BY <2>1 DEF FlightInv, BudgetBound
  <2>6. SingleFlight' /\ WorkersAreBusy'
    BY <2>2 DEF SingleFlight, WorkersAreBusy
  <2> QED
    BY <2>1, <2>4, <2>5, <2>6 DEF FlightInv
<1>8. CASE UNCHANGED vars
  <2>1. timer' = timer /\ spent' = spent /\ pc' = pc /\ state' = state
    BY <1>8
  <2> QED
    BY <2>1, FlightInvFrame DEF FlightInv
<1> QED
  BY <1>1, <1>2, <1>3, <1>4, <1>5, <1>6, <1>7, <1>8 DEF Next

LEMMA FlightInvInit == Init => FlightInv
<1> SUFFICES ASSUME Init PROVE FlightInv
  OBVIOUS
<1>1. ~timer /\ \A r \in Runs : pc[r] = "none"
  BY DEF Init
<1>2. AtWork = {}
  BY <1>1 DEF AtWork
<1>3. \A o \in Operatives : spent[o] = 0
  BY DEF Init
<1>4. ReadyHaveBudget /\ BudgetBound
  BY <1>3, BudgetAssumption DEF ReadyHaveBudget, BudgetBound
<1> QED
  BY <1>1, <1>2, <1>4 DEF FlightInv, SingleFlight, WorkersAreBusy

(***************************************************************************)
(* Without compaction and ledger failures, and whatever crashes, tools and *)
(* sentinels do: one sortie per operative at a time, and a budget that is  *)
(* overshot by one sortie at most.                                         *)
(***************************************************************************)
THEOREM SynapseFlightInv ==
    ASSUME "ledger" \notin Faults, MaxCompactions = 0
    PROVE  Spec => []FlightInv
<1>1. TypeOK /\ FlightInv /\ [Next]_vars => FlightInv'
  BY FlightInvStep
<1> QED
  BY <1>1, FlightInvInit, SynapseTypeCorrect, PTL DEF Spec

THEOREM SynapseSingleFlight ==
    ASSUME "ledger" \notin Faults, MaxCompactions = 0
    PROVE  Spec => []SingleFlight
<1>1. FlightInv => SingleFlight
  BY DEF FlightInv
<1> QED
  BY <1>1, SynapseFlightInv, PTL

THEOREM SynapseBudgetBound ==
    ASSUME "ledger" \notin Faults, MaxCompactions = 0
    PROVE  Spec => []BudgetBound
<1>1. FlightInv => BudgetBound
  BY DEF FlightInv
<1> QED
  BY <1>1, SynapseFlightInv, PTL

-------------------------------------------------------------------------------
(***************************************************************************)
(* The two databases that Synapse writes: the claims under its sorties,    *)
(* the statuses of missions and work items, and the promise of a sortie;   *)
(* then suspensions and stand-downs.  These build on FlightInv.            *)
(***************************************************************************)

(***************************************************************************)
(* A call between its claim and the end of its work holds its mission's    *)
(* item.                                                                   *)
(***************************************************************************)
Flying(r) == pc[r] # "none" => MissionFor(r) \in Missions

Holds(r) == pc[r] \in {"claimed", "orchestrate"} => holder[MissionFor(r)] = OpOf[r]

(***************************************************************************)
(* What an item that nobody holds shows, and the outcome that the calls    *)
(* still in flight for its mission carry, which they are about to write.   *)
(***************************************************************************)
Shown(m) == IF status[m] = "open" THEN "todo" ELSE status[m]

Agrees(m) ==
    holder[m] = Unset =>
        /\ item[m] = Shown(m)
        /\ \A r \in Runs : MissionFor(r) = m =>
              /\ pc[r] \in {"complete", "report"} => outcome[r] = status[m]
              /\ pc[r] = "catch" => status[m] = "failed"

ClaimInv ==
    /\ \A r \in Runs : Flying(r) /\ Holds(r)
    /\ \A m \in Missions : Agrees(m)

LEMMA OneOperative ==
    ASSUME NEW r \in Runs, NEW s \in Runs, MissionFor(r) \in Missions, MissionFor(s) = MissionFor(r)
    PROVE  OpOf[s] = OpOf[r]
BY AssignmentAssumption, RunAssumption, UnsetAssumption DEF MissionFor

\* A step of r that leaves items, missions and outcomes alone.
LEMMA ClaimInvMoves ==
    ASSUME TypeOK, ClaimInv, NEW r \in Runs, NEW after \in Awaits,
           pc' = [pc EXCEPT ![r] = after],
           UNCHANGED <<status, holder, item, outcome>>,
           after # "none" => MissionFor(r) \in Missions,
           after \in {"claimed", "orchestrate"} => holder[MissionFor(r)] = OpOf[r],
           after \in {"complete", "report", "catch"} =>
               pc[r] \in {"complete", "report"} /\ after = "report"
    PROVE  ClaimInv'
<1>1. ASSUME NEW s \in Runs PROVE (Flying(s) /\ Holds(s))'
  BY DEF ClaimInv, TypeOK, Flying, Holds, MissionFor
<1>2. ASSUME NEW m \in Missions PROVE Agrees(m)'
  BY DEF ClaimInv, TypeOK, Agrees, Shown, MissionFor
<1> QED
  BY <1>1, <1>2 DEF ClaimInv

\* r takes the item: what nobody else holds stays as it was.
LEMMA ClaimInvTake ==
    ASSUME TypeOK, ClaimInv, NEW r \in Runs, Claim(r) PROVE ClaimInv'
<1> DEFINE o == OpOf[r]
           m == MissionFor(r)
<1>1. m \in Missions /\ o \in Operatives /\ o # Unset
  BY RunAssumption, UnsetAssumption DEF ClaimInv, Flying, Claim
<1>2. CASE /\ Board!Take(o, m)
           /\ item' = [item EXCEPT ![m] = "claimed"]
           /\ pc' = [pc EXCEPT ![r] = "claimed"]
  <2>1. /\ holder[m] = Unset /\ holder' = [holder EXCEPT ![m] = o]
        /\ status' = status /\ outcome' = outcome
    BY <1>2 DEF Board!Take, Claim
  <2>2. ASSUME NEW s \in Runs PROVE (Flying(s) /\ Holds(s))'
    <3>1. Flying(s) /\ Holds(s) /\ OpOf[s] # Unset
      BY RunAssumption, UnsetAssumption DEF ClaimInv
    <3>2. CASE s = r
      BY <1>1, <1>2, <2>1, <3>2 DEF TypeOK, Flying, Holds, MissionFor
    <3>3. CASE s # r
      BY <1>1, <1>2, <2>1, <3>1, <3>3 DEF TypeOK, Flying, Holds, MissionFor
    <3> QED
      BY <3>2, <3>3
  <2>3. ASSUME NEW n \in Missions PROVE Agrees(n)'
    <3>1. CASE n = m
      BY <1>1, <2>1, <3>1 DEF TypeOK, Agrees
    <3>2. CASE n # m
      <4>1. Agrees(n) /\ holder'[n] = holder[n] /\ item'[n] = item[n]
        BY <1>1, <1>2, <2>1, <3>2 DEF ClaimInv, TypeOK
      <4>2. \A s \in Runs : MissionFor(s) = n => pc'[s] = pc[s]
        BY <1>2, <3>2 DEF TypeOK
      <4> QED
        BY <2>1, <4>1, <4>2 DEF Agrees, Shown, MissionFor
    <3> QED
      BY <3>1, <3>2
  <2> QED
    BY <2>2, <2>3 DEF ClaimInv
<1>3. CASE UNCHANGED board /\ holder[m] = o /\ pc' = [pc EXCEPT ![r] = "claimed"]
  BY <1>1, <1>3, ClaimInvMoves DEF Claim, Awaits
<1>4. CASE UNCHANGED board /\ pc' = [pc EXCEPT ![r] = "none"]
  BY <1>1, <1>4, ClaimInvMoves DEF Claim, Awaits
<1> QED
  BY <1>2, <1>3, <1>4 DEF Claim

\* An operative that may check out has no call at work, so none on the mission.
LEMMA NobodyAtWork ==
    ASSUME TypeOK, FlightInv, ClaimInv, NEW r \in Runs, Begin(r), CanMove(OpOf[r], "CHECKOUT")
    PROVE  \A s \in AtWork : MissionFor(s) # MissionFor(r)
<1>1. MissionFor(r) \in Missions
  BY DEF ClaimInv, Flying, Begin
<1>2. state[OpOf[r]] \in {"IDLE", "CHECKOUT"}
  BY RunAssumption, CheckoutRefused
<1>3. ASSUME NEW s \in AtWork, MissionFor(s) = MissionFor(r) PROVE FALSE
  <2>1. OpOf[s] = OpOf[r]
    BY <1>1, <1>3, OneOperative DEF AtWork
  <2> QED
    BY <1>2, <2>1 DEF FlightInv, WorkersAreBusy
<1> QED
  BY <1>3

LEMMA ClaimInvBegin ==
    ASSUME TypeOK, ClaimInv, NEW r \in Runs, Begin(r) PROVE ClaimInv'
<1> DEFINE m == MissionFor(r)
<1>1. /\ pc[r] = "claimed" /\ m \in Missions /\ holder[m] = OpOf[r]
      /\ holder[m] # Unset /\ UNCHANGED <<holder, item, outcome>>
  BY RunAssumption, UnsetAssumption DEF ClaimInv, Flying, Holds, Begin
<1>2. CASE /\ status' = [status EXCEPT ![m] = "active"]
           /\ pc' = [pc EXCEPT ![r] = "orchestrate"]
  <2>1. ASSUME NEW s \in Runs PROVE (Flying(s) /\ Holds(s))'
    BY <1>1, <1>2 DEF ClaimInv, TypeOK, Flying, Holds, MissionFor
  <2>2. ASSUME NEW n \in Missions PROVE Agrees(n)'
    <3>1. CASE n = m
      BY <1>1, <3>1 DEF Agrees
    <3>2. CASE n # m
      <4>1. Agrees(n) /\ status'[n] = status[n]
        BY <1>2, <3>2 DEF ClaimInv, TypeOK
      <4>2. \A s \in Runs : MissionFor(s) = n => pc'[s] = pc[s]
        BY <1>2, <3>2 DEF TypeOK
      <4> QED
        BY <1>1, <4>1, <4>2 DEF Agrees, Shown, MissionFor
    <3> QED
      BY <3>1, <3>2
  <2> QED
    BY <2>1, <2>2 DEF ClaimInv
<1>3. CASE pc' = [pc EXCEPT ![r] = "none"] /\ status' = status
  BY <1>1, <1>3, ClaimInvMoves DEF Awaits
<1> QED
  BY <1>2, <1>3 DEF Begin

(***************************************************************************)
(* The end of r's work: the item it holds is released with the outcome     *)
(* that the mission gets, and no other call is on the way to write one.    *)
(***************************************************************************)
LEMMA ClaimInvEnd ==
    ASSUME TypeOK, FlightInv, ClaimInv, Drained, NEW r \in Runs, pc[r] = "orchestrate",
           NEW out \in Outcomes, NEW after \in {"complete", "catch"},
           Release(OpOf[r], MissionFor(r), out), MissionEnds(MissionFor(r), out),
           pc' = [pc EXCEPT ![r] = after],
           NEW carried, outcome' = [outcome EXCEPT ![r] = carried],
           after = "complete" => carried = out,
           after = "catch" => out = "failed"
    PROVE  ClaimInv'
<1> DEFINE m == MissionFor(r)
<1>1. m \in Missions /\ holder[m] = OpOf[r] /\ OpOf[r] # Unset
  BY RunAssumption, UnsetAssumption DEF ClaimInv, Flying, Holds
<1>2. /\ holder' = [holder EXCEPT ![m] = Unset] /\ item' = [item EXCEPT ![m] = out]
      /\ status' = [status EXCEPT ![m] = out]
  BY <1>1 DEF Release, Board!GiveUp, MissionEnds
<1>3. \A s \in Runs \ {r} : pc'[s] = pc[s] /\ pc[s] \notin {"claimed", "complete", "report", "catch"}
  BY DEF TypeOK, Drained, Continuations
<1>4. \A s \in Runs \ {r} : pc[s] = "orchestrate" => MissionFor(s) # m
  <2> SUFFICES ASSUME NEW s \in Runs \ {r}, pc[s] = "orchestrate", MissionFor(s) = m PROVE FALSE
    OBVIOUS
  <2>1. OpOf[s] = OpOf[r]
    BY <1>1, OneOperative
  <2> QED
    BY <2>1 DEF FlightInv, SingleFlight, AtWork
<1>5. pc'[r] = after /\ outcome'[r] = carried
  BY DEF TypeOK
<1>6. ASSUME NEW s \in Runs PROVE (Flying(s) /\ Holds(s))'
  <2>1. CASE s = r
    BY <1>1, <1>5, <2>1 DEF Flying, Holds, MissionFor
  <2>2. CASE s # r
    BY <1>2, <1>3, <1>4, <2>2 DEF ClaimInv, TypeOK, Flying, Holds, MissionFor
  <2> QED
    BY <2>1, <2>2
<1>7. ASSUME NEW n \in Missions PROVE Agrees(n)'
  <2>1. CASE n = m
    <3>1. item'[n] = out /\ status'[n] = out /\ out # "open"
      BY <1>2, <2>1 DEF TypeOK, Outcomes
    <3> QED
      BY <1>3, <1>5, <3>1 DEF Agrees, Shown, MissionFor
  <2>2. CASE n # m
    <3>1. /\ Agrees(n) /\ holder'[n] = holder[n] /\ item'[n] = item[n] /\ status'[n] = status[n]
      BY <1>1, <1>2, <2>2 DEF ClaimInv, TypeOK
    <3>2. \A s \in Runs : MissionFor(s) = n => pc'[s] = pc[s] /\ outcome'[s] = outcome[s]
      BY <1>3, <2>2 DEF TypeOK
    <3> QED
      BY <3>1, <3>2 DEF Agrees, Shown, MissionFor
  <2> QED
    BY <2>1, <2>2
<1> QED
  BY <1>6, <1>7 DEF ClaimInv

\* A call that ended its work writes the item again, with the outcome it carries.
LEMMA ClaimInvRewrites ==
    ASSUME TypeOK, ClaimInv, NEW r \in Runs, pc[r] \in {"complete", "report", "catch"},
           NEW after \in {"report", "none"}, pc' = [pc EXCEPT ![r] = after],
           pc[r] = "catch" => after = "none",
           NEW out \in Outcomes, item' = [item EXCEPT ![MissionFor(r)] = out],
           pc[r] = "catch" => out = "failed",
           pc[r] # "catch" => out = outcome[r],
           UNCHANGED <<status, holder>>,
           \A s \in Runs : pc'[s] \in {"complete", "report"} => outcome'[s] = outcome[s]
    PROVE  ClaimInv'
<1> DEFINE m == MissionFor(r)
<1>1. m \in Missions
  BY DEF ClaimInv, Flying
<1>2. \A s \in Runs : pc'[s] = IF s = r THEN after ELSE pc[s]
  BY DEF TypeOK
<1>3. ASSUME NEW s \in Runs PROVE (Flying(s) /\ Holds(s))'
  BY <1>1, <1>2 DEF ClaimInv, Flying, Holds, MissionFor
<1>4. ASSUME NEW n \in Missions PROVE Agrees(n)'
  <2>1. Agrees(n)
    BY DEF ClaimInv
  <2>2. holder[n] = Unset => item'[n] = Shown(n)
    <3>1. CASE n = m
      <4>1. holder[n] = Unset => out = status[n]
        BY <2>1, <3>1 DEF Agrees
      <4> QED
        BY <1>1, <3>1, <4>1 DEF TypeOK, Shown, Outcomes
    <3>2. CASE n # m
      BY <1>1, <2>1, <3>2 DEF TypeOK, Agrees
    <3> QED
      BY <3>1, <3>2
  <2>3. ASSUME holder[n] = Unset, NEW s \in Runs, MissionFor(s) = n
        PROVE  /\ pc'[s] \in {"complete", "report"} => outcome'[s] = status[n]
               /\ pc'[s] = "catch" => status[n] = "failed"
    BY <1>2, <2>1, <2>3 DEF Agrees
  <2> QED
    BY <2>2, <2>3 DEF Agrees, Shown, MissionFor
<1> QED
  BY <1>3, <1>4 DEF ClaimInv

LEMMA ClaimInvFlight ==
    ASSUME "ledger" \notin Faults, TypeOK, FlightInv, ClaimInv, NEW r \in Runs, Flight(r)
    PROVE  ClaimInv'
<1>1. CASE RunSortie(r)
  <2>1. /\ pc' = [pc EXCEPT ![r] = "echo"] /\ UNCHANGED <<status, holder, item, outcome>>
        /\ MissionFor(r) \in Missions
    BY <1>1, RunAssumption, AssignmentAssumption DEF RunSortie, MissionFor
  <2> QED
    BY <2>1, ClaimInvMoves DEF Awaits
<1>2. CASE Claim(r)
  BY <1>2, ClaimInvTake
<1>3. CASE Begin(r)
  BY <1>3, ClaimInvBegin
<1>4. CASE Orchestrated(r)
  <2>1. PICK out \in Outcomes : /\ MissionEnds(MissionFor(r), out)
                                /\ Release(OpOf[r], MissionFor(r), out)
                                /\ outcome' = [outcome EXCEPT ![r] = out]
    BY <1>4 DEF Orchestrated
  <2>2. Drained /\ pc[r] = "orchestrate" /\ pc' = [pc EXCEPT ![r] = "complete"]
    BY <1>4 DEF Orchestrated
  <2> QED
    BY <2>1, <2>2, ClaimInvEnd
<1>5. CASE Complete(r)
  <2>1. /\ pc[r] = "complete" /\ pc' = [pc EXCEPT ![r] = "report"]
        /\ item' = [item EXCEPT ![MissionFor(r)] = outcome[r]]
        /\ UNCHANGED <<status, holder, outcome>>
    BY <1>5 DEF Complete, ItemCompleted
  <2>2. outcome[r] \in Outcomes
    BY <2>1 DEF TypeOK
  <2> QED
    BY <2>1, <2>2, ClaimInvRewrites
<1>6. CASE Report(r)
  <2>1. /\ pc[r] = "report" /\ pc' = [pc EXCEPT ![r] = "none"]
        /\ item' = [item EXCEPT ![MissionFor(r)] = outcome[r]]
        /\ outcome' = [outcome EXCEPT ![r] = Unset] /\ UNCHANGED <<status, holder>>
    BY <1>6 DEF Report, ReportedStatus
  <2>2. outcome[r] \in Outcomes
    BY <2>1 DEF TypeOK
  <2>3. \A s \in Runs : pc'[s] \in {"complete", "report"} => outcome'[s] = outcome[s]
    BY <2>1 DEF TypeOK
  <2> QED
    BY <2>1, <2>2, <2>3, ClaimInvRewrites
<1>7. CASE Catch(r)
  <2>1. Drained /\ pc[r] = "orchestrate"
    BY <1>7 DEF Catch, FlightInv
  <2>2. /\ MissionEnds(MissionFor(r), "failed") /\ Release(OpOf[r], MissionFor(r), "failed")
        /\ pc' = [pc EXCEPT ![r] = "catch"] /\ outcome' = [outcome EXCEPT ![r] = Unset]
        /\ "failed" \in Outcomes
    BY <1>7 DEF Catch, Outcomes
  <2> QED
    BY <2>1, <2>2, ClaimInvEnd
<1>8. CASE Caught(r)
  <2>1. /\ pc[r] = "catch" /\ pc' = [pc EXCEPT ![r] = "none"] /\ "failed" \in Outcomes
        /\ item' = [item EXCEPT ![MissionFor(r)] = "failed"] /\ UNCHANGED <<status, holder, outcome>>
    BY <1>8 DEF Caught, Outcomes
  <2> QED
    BY <2>1, ClaimInvRewrites
<1> QED
  BY <1>1, <1>2, <1>3, <1>4, <1>5, <1>6, <1>7, <1>8 DEF Flight

LEMMA ClaimInvStep ==
    ASSUME "ledger" \notin Faults, ToolUsers = {}, TypeOK, FlightInv, ClaimInv, [Next]_vars
    PROVE  ClaimInv'
<1>1. ASSUME NEW r \in Runs, Flight(r) PROVE ClaimInv'
  BY <1>1, ClaimInvFlight
<1>2. CASE Crash
  <2>1. (\A r \in Runs : pc'[r] = "none") /\ UNCHANGED <<status, holder, item>>
    BY <1>2 DEF Crash
  <2> QED
    BY <2>1 DEF ClaimInv, Flying, Holds, Agrees, Shown, MissionFor
<1>3. CASE UNCHANGED <<status, holder, item, pc, outcome>>
  BY <1>3 DEF ClaimInv, Flying, Holds, Agrees, Shown, MissionFor
<1>4. ASSUME \/ PreCompaction \/ Resume \/ \E o \in Operatives : Zombie(o)
             \/ \E m \in Missions : RequestApproval(m) \/ ResolveApproval(m)
             \/ UNCHANGED vars
      PROVE  ClaimInv'
  BY <1>3, <1>4 DEF PreCompaction, Resume, Zombie, RequestApproval, ResolveApproval
<1> QED
  BY <1>1, <1>2, <1>4 DEF Next

LEMMA ClaimInvInit == Init => ClaimInv
BY DEF Init, Board!Init, ClaimInv, Flying, Holds, Agrees, Shown

LEMMA SynapseClaimInv ==
    ASSUME "ledger" \notin Faults, MaxCompactions = 0, ToolUsers = {}
    PROVE  Spec => []ClaimInv
<1>1. TypeOK /\ FlightInv /\ ClaimInv /\ [Next]_vars => ClaimInv'
  BY ClaimInvStep
<1> QED
  BY <1>1, ClaimInvInit, SynapseTypeCorrect, SynapseFlightInv, PTL DEF Spec

(***************************************************************************)
(* Without compaction, ledger failures and operatives that use the         *)
(* Architects tools themselves, whatever crashes, sentinels and a failing  *)
(* orchestrator do: work is done under a claim (runner.ts:98-115).         *)
(***************************************************************************)
THEOREM SynapseWorkIsClaimed ==
    ASSUME "ledger" \notin Faults, MaxCompactions = 0, ToolUsers = {}
    PROVE  Spec => []WorkIsClaimed
<1>1. ClaimInv => WorkIsClaimed
  BY DEF ClaimInv, Holds, WorkIsClaimed, AtWork
<1> QED
  BY <1>1, SynapseClaimInv, PTL

(***************************************************************************)
(* Under the same assumptions the two databases agree on every item that   *)
(* nobody holds once nothing is in flight, also after a crash that cut     *)
(* calls off at an await (runner.ts:177-183, 233-240).                     *)
(***************************************************************************)
THEOREM SynapseItemsAgree ==
    ASSUME "ledger" \notin Faults, MaxCompactions = 0, ToolUsers = {}
    PROVE  Spec => []FreeItemsAgree
<1>1. ClaimInv => FreeItemsAgree
  BY DEF ClaimInv, Agrees, Shown, FreeItemsAgree
<1> QED
  BY <1>1, SynapseClaimInv, PTL

-------------------------------------------------------------------------------
(***************************************************************************)
(* The contract.  A mission's sorties are its operative's, which works at  *)
(* one at a time: a step that starts or ends work is one of the contract,  *)
(* and no other step writes the mission's status.                          *)
(***************************************************************************)
Working == {MissionFor(r) : r \in AtWork}

LEMMA ContractStep ==
    ASSUME "ledger" \notin Faults, MaxCrashes = 0, TypeOK, FlightInv, ClaimInv, [Next]_vars
    PROVE  [Contract!Next]_<<status, Working>>
<1>1. ASSUME NEW r \in Runs, Begin(r) PROVE [Contract!Next]_<<status, Working>>
  <2> DEFINE m == MissionFor(r)
  <2>1. CASE CanMove(OpOf[r], "CHECKOUT")
    <3>1. /\ status' = [status EXCEPT ![m] = "active"] /\ pc' = [pc EXCEPT ![r] = "orchestrate"]
          /\ m \in Missions
      BY <1>1, <2>1 DEF Begin, ClaimInv, Flying
    <3>2. AtWork' = AtWork \union {r}
      BY <3>1 DEF AtWork, TypeOK
    <3>3. Working' = Working \union {m} /\ m \notin Working
      <4>1. m \notin Working
        BY <1>1, <2>1, NobodyAtWork DEF Working
      <4>2. Working' = Working \union {m}
        BY <3>2 DEF Working, MissionFor
      <4> QED
        BY <4>1, <4>2
    <3> QED
      BY <3>1, <3>3 DEF Contract!Next, Contract!Start, Working
  <2>2. CASE ~CanMove(OpOf[r], "CHECKOUT")
    <3>1. pc[r] = "claimed" /\ pc' = [pc EXCEPT ![r] = "none"] /\ status' = status
      BY <1>1, <2>2 DEF Begin
    <3>2. AtWork' = AtWork
      BY <3>1 DEF AtWork, TypeOK
    <3> QED
      BY <3>1, <3>2 DEF Working, MissionFor
  <2> QED
    BY <2>1, <2>2
<1>2. ASSUME NEW r \in Runs, Orchestrated(r) \/ Catch(r) PROVE [Contract!Next]_<<status, Working>>
  <2> DEFINE m == MissionFor(r)
  <2>1. /\ pc[r] = "orchestrate" /\ m \in Missions
        /\ \E out \in Outcomes : status' = [status EXCEPT ![m] = out]
        /\ \E after \in {"complete", "catch"} : pc' = [pc EXCEPT ![r] = after]
    BY <1>2 DEF Orchestrated, Catch, MissionEnds, Outcomes, FlightInv, ClaimInv, Flying
  <2>2. AtWork' = AtWork \ {r} /\ r \in AtWork
    BY <2>1 DEF AtWork, TypeOK
  <2>3. \A s \in AtWork \ {r} : MissionFor(s) # m
    <3> SUFFICES ASSUME NEW s \in AtWork \ {r}, MissionFor(s) = m PROVE FALSE
      OBVIOUS
    <3>1. OpOf[s] = OpOf[r]
      BY <2>1, OneOperative DEF AtWork
    <3> QED
      BY <2>2, <3>1 DEF FlightInv, SingleFlight
  <2>4. Working' = Working \ {m} /\ m \in Working
    BY <2>2, <2>3 DEF Working, MissionFor
  <2> QED
    BY <2>1, <2>4 DEF Contract!Next, Contract!Finish, Working
<1>3. ASSUME NEW r \in Runs, RunSortie(r) \/ Claim(r) \/ Complete(r) \/ Report(r) \/ Caught(r)
      PROVE  UNCHANGED <<status, Working>>
  <2>1. /\ status' = status /\ pc[r] # "orchestrate"
        /\ \E after \in Awaits \ {"orchestrate"} : pc' = [pc EXCEPT ![r] = after]
    BY <1>3 DEF RunSortie, Claim, Complete, Report, Caught, Awaits
  <2>2. AtWork' = AtWork
    BY <2>1 DEF AtWork, TypeOK
  <2> QED
    BY <2>1, <2>2 DEF Working, MissionFor
<1>4. CASE UNCHANGED <<status, pc>>
  BY <1>4 DEF Working, AtWork, MissionFor
<1>5. ASSUME \/ PreCompaction \/ Resume \/ \E o \in Operatives : Zombie(o)
             \/ \E m \in Missions : RequestApproval(m) \/ ResolveApproval(m)
             \/ \E o \in ToolUsers : Tools(o)
             \/ UNCHANGED vars
      PROVE  [Contract!Next]_<<status, Working>>
  BY <1>4, <1>5 DEF PreCompaction, Resume, Zombie, RequestApproval, ResolveApproval,
                    Tools, ToolClaim, ToolComplete, ToolCompleted
<1>6. ~Crash
  BY DEF Crash, TypeOK
<1> QED
  BY <1>1, <1>2, <1>3, <1>5, <1>6 DEF Next, Flight

(***************************************************************************)
(* A sortie keeps its contract with its mission, as long as the process    *)
(* lives: a crash leaves the mission active with nobody at work on it.     *)
(***************************************************************************)
THEOREM SynapseKeepsContract ==
    ASSUME "ledger" \notin Faults, MaxCompactions = 0, ToolUsers = {}, MaxCrashes = 0
    PROVE  Spec => SortieContractSpec
<1>1. Init => Contract!Init
  BY DEF Init, Contract!Init, AtWork
<1>2. TypeOK /\ FlightInv /\ ClaimInv /\ [Next]_vars
          => [Contract!Next]_<<status, {MissionFor(r) : r \in AtWork}>>
  BY ContractStep DEF Working
<1> QED
  BY <1>1, <1>2, SynapseTypeCorrect, SynapseFlightInv, SynapseClaimInv, PTL
     DEF Spec, SortieContractSpec, Contract!Spec

-------------------------------------------------------------------------------
(***************************************************************************)
(* Suspensions and stand-downs.  Only a process that dies between its two  *)
(* transitions leaves an operative in CHECKOUT, at which the handler of a  *)
(* compaction throws before it has set its timer.                          *)
(***************************************************************************)
StanddownInv ==
    /\ SuspensionHasReason
    /\ crashes = 0 => \A o \in Operatives : state[o] # "CHECKOUT"
    /\ StanddownEnds

LEMMA SetStateExplained ==
    ASSUME TypeOK, SuspensionHasReason, NEW o \in Operatives, NEW s, NEW why, SetState(o, s, why),
           s = "SUSPENDED" => why \in {"budget_exceeded", "manual"}
    PROVE  /\ SuspensionHasReason'
           /\ \A p \in Operatives : state'[p] \in {state[p], s}
BY DEF TypeOK, SetState, SuspensionHasReason

LEMMA StanddownStep == ASSUME TypeOK, StanddownInv, [Next]_vars PROVE StanddownInv'
<1> DEFINE Kept == /\ SuspensionHasReason'
                   /\ \A o \in Operatives : state'[o] = "CHECKOUT" => state[o] = "CHECKOUT"
<1>1. ASSUME Kept, UNCHANGED <<standdown, timer, crashes>> PROVE StanddownInv'
  BY <1>1 DEF StanddownInv, StanddownEnds
<1>2. ASSUME NEW r \in Runs, Flight(r) PROVE StanddownInv'
  <2>1. UNCHANGED <<standdown, timer, crashes>> /\ OpOf[r] \in Operatives
    BY <1>2, RunAssumption DEF Flight, RunSortie, Claim, Begin, Orchestrated, Complete, Report, Catch, Caught
  <2>2. CASE UNCHANGED <<state, reason>>
    BY <1>1, <2>1, <2>2 DEF StanddownInv, SuspensionHasReason
  <2>3. CASE \E s \in {"ACTIVE", "IDLE"}, why \in Reasons : SetState(OpOf[r], s, why)
    BY <1>1, <2>1, <2>3, SetStateExplained DEF StanddownInv
  <2>4. CASE \E why \in {"budget_exceeded", "manual"} : SetState(OpOf[r], "SUSPENDED", why)
    BY <1>1, <2>1, <2>4, SetStateExplained DEF StanddownInv
  <2>5. ASSUME NEW total, AfterSpending(OpOf[r], total) PROVE StanddownInv'
    <3>1. reason[OpOf[r]] \in Reasons
      BY <2>1 DEF TypeOK, Reasons
    <3>2. state[OpOf[r]] = "SUSPENDED" => reason[OpOf[r]] \in {"budget_exceeded", "manual"}
      BY <2>1 DEF StanddownInv, SuspensionHasReason
    <3> QED
      BY <2>3, <2>4, <2>5, <3>1, <3>2 DEF AfterSpending
  <2>6. CASE RunSortie(r) \/ Claim(r) \/ Report(r) \/ Caught(r)
    BY <2>2, <2>6 DEF RunSortie, Claim, Report, Caught
  <2>7. CASE Begin(r) \/ Catch(r)
    BY <2>2, <2>3, <2>7 DEF Begin, Catch, Reasons
  <2>8. CASE Orchestrated(r)
    BY <2>5, <2>8 DEF Orchestrated
  <2>9. CASE Complete(r)
    BY <2>2, <2>4, <2>9 DEF Complete, ItemCompleted
  <2> QED
    BY <1>2, <2>6, <2>7, <2>8, <2>9 DEF Flight
<1>3. CASE PreCompaction
  <2> DEFINE active == {o \in Operatives : state[o] \in {"ACTIVE", "CHECKOUT", "STANDDOWN"}}
             refused == {o \in active : ~CanMove(o, "STANDDOWN")}
  <2>1. PICK stood \in SUBSET active :
          /\ state' = [o \in Operatives |-> IF o \in stood THEN "STANDDOWN" ELSE state[o]]
          /\ reason' = [o \in Operatives |-> IF o \in stood THEN "compaction" ELSE reason[o]]
    BY <1>3 DEF PreCompaction
  <2>2. timer' = (refused = {}) /\ crashes' = crashes
    BY <1>3 DEF PreCompaction
  <2>3. crashes = 0 => refused = {}
    BY DEF StanddownInv, CanMove, ValidTransitions
  <2>4. SuspensionHasReason'
    BY <2>1 DEF StanddownInv, SuspensionHasReason
  <2>5. \A o \in Operatives : state'[o] = "CHECKOUT" => state[o] = "CHECKOUT"
    BY <2>1
  <2> QED
    BY <2>2, <2>3, <2>4, <2>5 DEF StanddownInv, StanddownEnds
<1>4. CASE Resume
  <2>1. SuspensionHasReason' /\ \A o \in Operatives : state'[o] = "CHECKOUT" => state[o] = "CHECKOUT"
    BY <1>4 DEF Resume, StanddownInv, SuspensionHasReason
  <2> QED
    BY <1>4, <2>1 DEF Resume, StanddownInv, StanddownEnds
<1>5. ASSUME NEW o \in Operatives, Zombie(o) PROVE StanddownInv'
  BY <1>1, <1>5, SetStateExplained DEF Zombie, StanddownInv
<1>6. ASSUME NEW m \in Missions, RequestApproval(m) \/ ResolveApproval(m) PROVE StanddownInv'
  BY <1>1, <1>6 DEF RequestApproval, ResolveApproval, StanddownInv, SuspensionHasReason
<1>7. ASSUME NEW o \in ToolUsers, Tools(o) PROVE StanddownInv'
  <2>1. UNCHANGED <<standdown, timer, crashes>> /\ o \in Operatives
    BY <1>7, ToolUsersAssumption DEF Tools, ToolClaim, ToolComplete, ToolCompleted
  <2>2. UNCHANGED <<state, reason>> \/ SetState(o, "SUSPENDED", "manual")
    BY <1>7 DEF Tools, ToolClaim, ToolComplete, ToolCompleted, ItemCompleted
  <2>3. Kept
    BY <2>1, <2>2, SetStateExplained DEF StanddownInv, SuspensionHasReason
  <2> QED
    BY <1>1, <2>1, <2>3
<1>8. CASE Crash
  <2>1. crashes' # 0 /\ ~standdown'
    BY <1>8 DEF Crash, TypeOK
  <2>2. SuspensionHasReason'
    <3>1. CASE UNCHANGED <<state, reason>>
      BY <3>1 DEF StanddownInv, SuspensionHasReason
    <3>2. ASSUME NEW r \in Runs, SetState(OpOf[r], "CHECKOUT", Unset) PROVE SuspensionHasReason'
      BY <3>2, RunAssumption, SetStateExplained DEF StanddownInv
    <3> QED
      BY <1>8, <3>1, <3>2 DEF Crash
  <2> QED
    BY <2>1, <2>2 DEF StanddownInv, StanddownEnds
<1>9. CASE UNCHANGED vars
  BY <1>9 DEF StanddownInv, SuspensionHasReason, StanddownEnds
<1> QED
  BY <1>2, <1>3, <1>4, <1>5, <1>6, <1>7, <1>8, <1>9 DEF Next

LEMMA SynapseStanddownInv == Spec => []StanddownInv
<1>1. Init => StanddownInv
  BY DEF Init, StanddownInv, SuspensionHasReason, StanddownEnds
<1>2. TypeOK /\ StanddownInv /\ [Next]_vars => StanddownInv'
  BY StanddownStep
<1> QED
  BY <1>1, <1>2, SynapseTypeCorrect, PTL DEF Spec

(***************************************************************************)
(* In every interleaving of sorties, compactions, zombies, tools and       *)
(* crashes a suspended operative says why (enforcer.ts, bootstrap.ts:65).  *)
(***************************************************************************)
THEOREM SynapseSuspensionsExplained == Spec => []SuspensionHasReason
<1>1. StanddownInv => SuspensionHasReason
  BY DEF StanddownInv
<1> QED
  BY <1>1, SynapseStanddownInv, PTL

(***************************************************************************)
(* Until the first crash a stand-down has the timer that ends it           *)
(* (standdown.ts:16-34).                                                   *)
(***************************************************************************)
THEOREM SynapseStanddownEnds == Spec => []StanddownEnds
<1>1. StanddownInv => StanddownEnds
  BY DEF StanddownInv
<1> QED
  BY <1>1, SynapseStanddownInv, PTL

(***************************************************************************)
(* A suspension is lifted by the resume timer, for an operative in its     *)
(* snapshot, or by the catch block of a call of the operative's own, and   *)
(* by nothing else (standdown.ts:29, runner.ts:235).                       *)
(***************************************************************************)
THEOREM SynapseOnlyTimerAndCatchResume == Spec => OnlyTimerAndCatchResume
<1> DEFINE Lifted == \A o \in Operatives : state[o] = "SUSPENDED" =>
                         state'[o] = "SUSPENDED" \/ ResumedByTimer(o) \/ ResumedByCatch(o)
<1>1. ASSUME TypeOK, [Next]_vars PROVE [Lifted]_vars
  <2>1. ASSUME NEW o \in Operatives, NEW s, NEW why, SetState(o, s, why),
               state[o] = "SUSPENDED" => s = "SUSPENDED"
        PROVE  Lifted
    BY <1>1, <2>1 DEF SetState, TypeOK
  <2>2. ASSUME state' = state PROVE Lifted
    BY <2>2
  <2>3. ASSUME NEW r \in Runs, Flight(r) PROVE Lifted
    <3>1. OpOf[r] \in Operatives
      BY RunAssumption
    <3>2. CASE RunSortie(r) \/ Claim(r) \/ Report(r) \/ Caught(r)
      BY <2>2, <3>2 DEF RunSortie, Claim, Report, Caught
    <3>3. CASE Begin(r)
      BY <1>1, <2>1, <2>2, <3>1, <3>3, CheckoutRefused DEF Begin
    <3>4. CASE Orchestrated(r)
      BY <2>1, <3>1, <3>4 DEF Orchestrated, AfterSpending
    <3>5. CASE Complete(r)
      BY <2>1, <2>2, <3>1, <3>5 DEF Complete, ItemCompleted
    <3>6. CASE Catch(r)
      <4>1. ResumedByCatch(OpOf[r])
        BY <1>1, <3>6 DEF Catch, ResumedByCatch, TypeOK
      <4>2. \A o \in Operatives : o # OpOf[r] => state'[o] = state[o]
        BY <1>1, <3>6 DEF Catch, SetState, TypeOK
      <4> QED
        BY <4>1, <4>2
    <3> QED
      BY <2>3, <3>2, <3>3, <3>4, <3>5, <3>6 DEF Flight
  <2>4. ASSUME NEW o \in ToolUsers, Tools(o) PROVE Lifted
    BY <2>1, <2>2, <2>4, ToolUsersAssumption
       DEF Tools, ToolClaim, ToolComplete, ToolCompleted, ItemCompleted
  <2>5. ASSUME NEW o \in Operatives, Zombie(o) PROVE Lifted
    BY <2>1, <2>5 DEF Zombie
  <2>6. CASE Crash
    <3>1. ASSUME NEW r \in Runs, CanMove(OpOf[r], "CHECKOUT"), SetState(OpOf[r], "CHECKOUT", Unset)
          PROVE  Lifted
      BY <1>1, <2>1, <3>1, RunAssumption, CheckoutRefused
    <3> QED
      BY <2>2, <2>6, <3>1 DEF Crash
  <2>7. CASE PreCompaction
    <3>1. PICK stood \in SUBSET {o \in Operatives : state[o] \in {"ACTIVE", "CHECKOUT", "STANDDOWN"}} :
            state' = [o \in Operatives |-> IF o \in stood THEN "STANDDOWN" ELSE state[o]]
      BY <2>7 DEF PreCompaction
    <3> QED
      BY <3>1
  <2>8. CASE Resume
    BY <1>1, <2>8 DEF Resume, ResumedByTimer, TypeOK
  <2>9. ASSUME NEW m \in Missions, RequestApproval(m) \/ ResolveApproval(m) PROVE Lifted
    BY <2>2, <2>9 DEF RequestApproval, ResolveApproval
  <2> QED
    BY <1>1, <2>3, <2>4, <2>5, <2>6, <2>7, <2>8, <2>9 DEF Next
<1>2. TypeOK /\ [Next]_vars => [Lifted]_vars
  BY <1>1
<1> QED
  BY <1>2, SynapseTypeCorrect, PTL DEF Spec, OnlyTimerAndCatchResume

-------------------------------------------------------------------------------
(***************************************************************************)
(* How far an operative can overspend.  The calls still to pay are those   *)
(* that have passed the check at the top of runSortie and have no cost     *)
(* yet; each of them counts as if it had paid the dearest sortie.          *)
(***************************************************************************)
Paying(o) == {r \in CallsOf(o) : pc[r] \in {"echo", "claimed", "orchestrate"}}

Dearest(d) == d \in Costs /\ \A cost \in Costs : cost <= d

OverspendInv ==
    \A o \in Operatives, d \in Costs : Cap > 0 /\ Dearest(d) =>
        spent[o] + Cardinality(Paying(o)) * d < Cap + Cardinality(CallsOf(o)) * d

LEMMA TimesMonotone == ASSUME NEW i \in Nat, NEW k \in Nat, NEW d \in Nat, i <= k PROVE i * d <= k * d
<1> DEFINE j == k - i
<1>1. j \in Nat /\ k = i + j
  OBVIOUS
<1>2. k * d = i * d + j * d
  BY <1>1
<1>3. j * d \in Nat /\ i * d \in Nat
  BY <1>1
<1> QED
  BY <1>2, <1>3

LEMMA PayingFinite ==
    ASSUME NEW o
    PROVE  /\ IsFiniteSet(CallsOf(o)) /\ IsFiniteSet(Paying(o))
           /\ Cardinality(CallsOf(o)) \in Nat /\ Cardinality(Paying(o)) \in Nat
           /\ Cardinality(Paying(o)) <= Cardinality(CallsOf(o))
<1>1. CallsOf(o) \subseteq Runs /\ Paying(o) \subseteq CallsOf(o) /\ IsFiniteSet(Runs)
  BY RunAssumption DEF CallsOf, Paying
<1>2. IsFiniteSet(CallsOf(o))
  BY <1>1, FS_Subset
<1> QED
  BY <1>1, <1>2, FS_Subset, FS_CardinalityType

\* a call that starts has found the budget not yet spent
LEMMA OverspendStarts ==
    ASSUME TypeOK, OverspendInv, NEW r \in Runs, RunSortie(r)
    PROVE  OverspendInv'
<1> SUFFICES ASSUME NEW o \in Operatives, NEW d \in Costs, Cap > 0, Dearest(d)
             PROVE  spent'[o] + Cardinality(Paying(o)') * d < Cap + Cardinality(CallsOf(o)) * d
  BY DEF OverspendInv, CallsOf, Dearest
<1>1. spent' = spent /\ spent[o] \in Nat /\ d \in Nat /\ Cap \in Int
  BY BudgetAssumption DEF RunSortie, TypeOK
<1>2. pc' = [pc EXCEPT ![r] = "echo"]
  BY DEF RunSortie
<1>3. CASE OpOf[r] = o
  <2>1. spent[o] < Cap
    BY <1>3 DEF RunSortie, BudgetLeft
  <2>2. Paying(o)' \subseteq CallsOf(o)
    BY DEF Paying, CallsOf
  <2> DEFINE i == Cardinality(Paying(o)')
             k == Cardinality(CallsOf(o))
  <2>3. i \in Nat /\ k \in Nat /\ i <= k
    BY <2>2, PayingFinite, FS_Subset, FS_CardinalityType
  <2> HIDE DEF i, k
  <2>4. i * d <= k * d /\ i * d \in Nat /\ k * d \in Nat
    BY <1>1, <2>3, TimesMonotone
  <2> QED
    BY <1>1, <2>1, <2>4 DEF i, k
<1>4. CASE OpOf[r] # o
  <2>1. Paying(o)' = Paying(o)
    BY <1>2, <1>4 DEF Paying, CallsOf, TypeOK
  <2> QED
    BY <1>1, <2>1 DEF OverspendInv
<1> QED
  BY <1>3, <1>4

\* a call that pays is no longer one still to pay
LEMMA OverspendPays ==
    ASSUME TypeOK, OverspendInv, NEW r \in Runs, Orchestrated(r)
    PROVE  OverspendInv'
<1> SUFFICES ASSUME NEW o \in Operatives, NEW d \in Costs, Cap > 0, Dearest(d)
             PROVE  spent'[o] + Cardinality(Paying(o)') * d < Cap + Cardinality(CallsOf(o)) * d
  BY DEF OverspendInv, CallsOf, Dearest
<1>1. PICK cost \in Costs : spent' = [spent EXCEPT ![OpOf[r]] = @ + cost]
  BY DEF Orchestrated
<1>2. /\ spent[o] \in Nat /\ d \in Nat /\ Cap \in Int /\ cost \in Nat /\ cost <= d
      /\ OpOf[r] \in Operatives /\ spent \in [Operatives -> Nat]
  BY BudgetAssumption, RunAssumption DEF TypeOK, Dearest
<1>3. pc' = [pc EXCEPT ![r] = "complete"] /\ pc[r] = "orchestrate"
  BY DEF Orchestrated
<1>4. CASE OpOf[r] = o
  <2>1. r \in Paying(o) /\ Paying(o)' = Paying(o) \ {r}
    BY <1>3, <1>4 DEF Paying, CallsOf, TypeOK
  <2> DEFINE i == Cardinality(Paying(o)')
             j == Cardinality(Paying(o))
             k == Cardinality(CallsOf(o))
  <2>2. i = j - 1 /\ i \in Nat /\ j \in Nat /\ k \in Nat
    BY <2>1, PayingFinite, FS_RemoveElement, FS_CardinalityType
  <2>3. spent[o] + j * d < Cap + k * d
    BY DEF OverspendInv
  <2>4. spent'[o] = spent[o] + cost
    BY <1>1, <1>2, <1>4
  <2> HIDE DEF i, j, k
  <2>5. j * d = i * d + d /\ i * d \in Nat /\ j * d \in Nat /\ k * d \in Nat
    BY <1>2, <2>2
  <2>6. spent[o] + cost + i * d < Cap + k * d
    BY <1>2, <2>3, <2>5
  <2> QED
    BY <2>4, <2>6 DEF i, k
<1>5. CASE OpOf[r] # o
  <2>1. Paying(o)' = Paying(o)
    BY <1>3, <1>5 DEF Paying, CallsOf, TypeOK
  <2>2. spent'[o] = spent[o]
    BY <1>1, <1>2, <1>5
  <2> QED
    BY <2>1, <2>2 DEF OverspendInv
<1> QED
  BY <1>4, <1>5

\* nothing else spends, and no call gets behind the check
LEMMA OverspendFrame ==
    ASSUME TypeOK, OverspendInv, spent' = spent, \A o \in Operatives : Paying(o)' \subseteq Paying(o)
    PROVE  OverspendInv'
<1> SUFFICES ASSUME NEW o \in Operatives, NEW d \in Costs, Cap > 0, Dearest(d)
             PROVE  spent[o] + Cardinality(Paying(o)') * d < Cap + Cardinality(CallsOf(o)) * d
  BY DEF OverspendInv, CallsOf, Dearest
<1> DEFINE i == Cardinality(Paying(o)')
           j == Cardinality(Paying(o))
           k == Cardinality(CallsOf(o))
<1>1. i \in Nat /\ j \in Nat /\ k \in Nat /\ i <= j
  BY PayingFinite, FS_Subset, FS_CardinalityType
<1>2. spent[o] + j * d < Cap + k * d
  BY DEF OverspendInv
<1>3. spent[o] \in Nat /\ d \in Nat /\ Cap \in Int
  BY BudgetAssumption DEF TypeOK
<1> HIDE DEF i, j, k
<1>4. i * d <= j * d /\ i * d \in Nat /\ j * d \in Nat /\ k * d \in Nat
  BY <1>1, <1>3, TimesMonotone
<1>5. spent[o] + i * d < Cap + k * d
  BY <1>2, <1>3, <1>4
<1> QED
  BY <1>5 DEF i, k

LEMMA OverspendStep == ASSUME TypeOK, OverspendInv, [Next]_vars PROVE OverspendInv'
<1>1. ASSUME NEW r \in Runs, Flight(r) PROVE OverspendInv'
  <2>1. CASE RunSortie(r)
    BY <2>1, OverspendStarts
  <2>2. CASE Orchestrated(r)
    BY <2>2, OverspendPays
  <2>3. CASE Claim(r) \/ Begin(r) \/ Complete(r) \/ Report(r) \/ Catch(r) \/ Caught(r)
    <3>1. spent' = spent
      BY <2>3 DEF Claim, Begin, Complete, Report, Catch, Caught
    <3>2. \A q \in Runs : pc'[q] \in {"echo", "claimed", "orchestrate"} =>
             pc[q] \in {"echo", "claimed", "orchestrate"}
      BY <2>3 DEF Claim, Begin, Complete, Report, Catch, Caught, TypeOK
    <3>3. \A o \in Operatives : Paying(o)' \subseteq Paying(o)
      BY <3>2 DEF Paying, CallsOf
    <3> QED
      BY <3>1, <3>3, OverspendFrame
  <2> QED
    BY <1>1, <2>1, <2>2, <2>3 DEF Flight
<1>2. CASE \/ PreCompaction \/ Resume \/ UNCHANGED vars
           \/ \E o \in Operatives : Zombie(o)
           \/ \E m \in Missions : RequestApproval(m) \/ ResolveApproval(m)
           \/ \E o \in ToolUsers : Tools(o)
  <2>1. spent' = spent /\ pc' = pc
    BY <1>2 DEF PreCompaction, Resume, Zombie, RequestApproval, ResolveApproval,
                Tools, ToolClaim, ToolComplete, ToolCompleted
  <2>2. \A o \in Operatives : Paying(o)' \subseteq Paying(o)
    BY <2>1 DEF Paying, CallsOf
  <2> QED
    BY <2>1, <2>2, OverspendFrame
<1>3. CASE Crash
  <2>1. spent' = spent /\ \A q \in Runs : pc'[q] = "none"
    BY <1>3 DEF Crash
  <2>2. \A o \in Operatives : Paying(o)' \subseteq Paying(o)
    BY <2>1 DEF Paying, CallsOf
  <2> QED
    BY <2>1, <2>2, OverspendFrame
<1> QED
  BY <1>1, <1>2, <1>3 DEF Next

(***************************************************************************)
(* With ledger failures and resumed operatives too, an operative           *)
(* overshoots its budget by at most one sortie for each call that can be   *)
(* in flight for it (runner.ts:85-87, 171, 235).                           *)
(***************************************************************************)
THEOREM SynapseOverspendBound == Spec => []OverspendBound
<1>1. Init => OverspendInv
  <2> SUFFICES ASSUME Init, NEW o \in Operatives, NEW d \in Costs, Cap > 0
               PROVE  spent[o] + Cardinality(Paying(o)) * d < Cap + Cardinality(CallsOf(o)) * d
    BY DEF OverspendInv
  <2>1. Paying(o) = {} /\ spent[o] = 0
    BY DEF Init, Paying, CallsOf
  <2> DEFINE k == Cardinality(CallsOf(o))
  <2>2. Cardinality(Paying(o)) = 0 /\ k \in Nat /\ d \in Nat /\ Cap \in Int
    BY <2>1, FS_EmptySet, PayingFinite, BudgetAssumption
  <2> HIDE DEF k
  <2>3. k * d \in Nat
    BY <2>2
  <2> QED
    BY <2>1, <2>2, <2>3 DEF k
<1>2. TypeOK /\ OverspendInv /\ [Next]_vars => OverspendInv'
  BY OverspendStep
<1>3. TypeOK /\ OverspendInv => OverspendBound
  <2> SUFFICES ASSUME TypeOK, OverspendInv, NEW o \in Operatives, NEW d \in Costs, Cap > 0, Dearest(d)
               PROVE  spent[o] < Cap + Cardinality(CallsOf(o)) * d
    BY DEF OverspendBound, Dearest
  <2> DEFINE j == Cardinality(Paying(o))
             k == Cardinality(CallsOf(o))
  <2>1. spent[o] + j * d < Cap + k * d
    BY DEF OverspendInv
  <2>2. spent[o] \in Nat /\ d \in Nat /\ Cap \in Int /\ j \in Nat /\ k \in Nat
    BY PayingFinite, BudgetAssumption DEF TypeOK
  <2> HIDE DEF j, k
  <2>3. j * d \in Nat /\ k * d \in Nat
    BY <2>2
  <2>4. spent[o] < Cap + k * d
    BY <2>1, <2>2, <2>3
  <2> QED
    BY <2>4 DEF k
<1> QED
  BY <1>1, <1>2, <1>3, SynapseTypeCorrect, PTL DEF Spec

-------------------------------------------------------------------------------
(***************************************************************************)
(* The deal of the mandate.  missionTitles.map deals round and round, so   *)
(* two missions of one operative are a multiple of numOps apart, and what  *)
(* an operative holds in the end is the last one it was dealt.             *)
(***************************************************************************)
Deal == INSTANCE Mandate

\* The first element of a set of naturals.
LEMMA Least ==
    ASSUME NEW S \in SUBSET Nat, S # {}
    PROVE  \E x \in S : \A y \in S : x <= y
<1>1. PICK x \in S : \A y \in S : ~(<<y, x>> \in OpToRel(<, Nat))
  BY NatLessThanWellFounded, WFMin
<1>2. \A y \in S : ~(y < x)
  BY <1>1 DEF OpToRel
<1> QED
  BY <1>2

\* A positive multiple of n is at least n.
LEMMA Multiple ==
    ASSUME NEW n \in Nat \ {0}, NEW d \in Int, d >= 1
    PROVE  n * d >= n
<1>1. n * d = n * (d - 1) + n
  OBVIOUS
<1>2. n * (d - 1) >= 0
  OBVIOUS
<1> QED
  BY <1>1, <1>2

\* Quotients and remainders.
LEMMA Divided ==
    ASSUME NEW n \in Int, NEW a \in Int, n > 0
    PROVE  a = n * (a \div n) + (a % n)
BY Z3

LEMMA DivMod ==
    ASSUME NEW n \in Nat \ {0}, NEW a \in Nat
    PROVE  /\ a \div n \in Int /\ a % n \in 0..(n - 1)
           /\ a = n * (a \div n) + (a % n)
<1>1. a \div n \in Int /\ a % n \in 0..(n - 1)
  OBVIOUS
<1>2. n \in Int /\ a \in Int /\ n > 0
  OBVIOUS
<1>3. a = n * (a \div n) + (a % n)
  BY <1>2, Divided
<1> QED
  BY <1>1, <1>3

LEMMA SameQuotient ==
    ASSUME NEW n \in Nat \ {0}, NEW p \in Int, NEW q \in Int, NEW r \in 0..(n - 1), NEW s \in 0..(n - 1),
           n * p + r = n * q + s
    PROVE  p = q /\ r = s
<1>1. n * (p - q) = n * p - n * q /\ n * (q - p) = n * q - n * p
  OBVIOUS
<1>2. ~(p - q >= 1)
  <2> SUFFICES ASSUME p - q >= 1 PROVE FALSE
    OBVIOUS
  <2>1. n * (p - q) >= n
    BY Multiple
  <2> QED
    BY <1>1, <2>1
<1>3. ~(q - p >= 1)
  <2> SUFFICES ASSUME q - p >= 1 PROVE FALSE
    OBVIOUS
  <2>1. n * (q - p) >= n
    BY Multiple
  <2> QED
    BY <1>1, <2>1
<1> QED
  BY <1>2, <1>3

\* Deals go round and round: the mission n later goes to the same operative.
LEMMA AssigneeOfFacts ==
    ASSUME NEW n \in Nat \ {0}, NEW k \in Nat \ {0}
    PROVE  /\ Deal!AssigneeOf(k, n) \in 1..n
           /\ k <= n => Deal!AssigneeOf(k, n) = k
           /\ Deal!AssigneeOf(k + n, n) = Deal!AssigneeOf(k, n)
<1>1. Deal!AssigneeOf(k, n) \in 1..n
  BY DEF Deal!AssigneeOf
<1>2. k <= n => Deal!AssigneeOf(k, n) = k
  BY DEF Deal!AssigneeOf
<1>3. Deal!AssigneeOf(k + n, n) = Deal!AssigneeOf(k, n)
  <2> DEFINE a == k - 1
             b == k + n - 1
  <2>1. a \in Nat /\ b \in Nat /\ b = a + n
    OBVIOUS
  <2> HIDE DEF a, b
  <2>2. /\ a \div n \in Int /\ a % n \in 0..(n - 1) /\ a = n * (a \div n) + (a % n)
        /\ b \div n \in Int /\ b % n \in 0..(n - 1) /\ b = n * (b \div n) + (b % n)
    BY <2>1, DivMod
  <2>3. a \div n + 1 \in Int /\ n * (a \div n + 1) = n * (a \div n) + n
    BY <2>2
  <2>4. n * (a \div n + 1) + (a % n) = n * (b \div n) + (b % n)
    BY <2>1, <2>2, <2>3
  <2>5. b % n = a % n
    <3> DEFINE p == a \div n + 1
               q == b \div n
               r == a % n
               t == b % n
    <3>1. p \in Int /\ q \in Int /\ r \in 0..(n - 1) /\ t \in 0..(n - 1) /\ n * p + r = n * q + t
      BY <2>2, <2>3, <2>4
    <3> HIDE DEF p, q, r, t
    <3>2. r = t
      BY <3>1, SameQuotient
    <3> QED
      BY <3>2 DEF r, t
  <2>6. a % n = (k - 1) % n /\ b % n = (k + n - 1) % n
    BY DEF a, b
  <2> QED
    BY <2>5, <2>6 DEF Deal!AssigneeOf
<1> QED
  BY <1>1, <1>2, <1>3

\* Two missions of one operative are a round apart at least.
LEMMA SameAssignee ==
    ASSUME NEW n \in Nat \ {0}, NEW j \in Nat \ {0}, NEW k \in Nat \ {0}, j < k,
           Deal!AssigneeOf(j, n) = Deal!AssigneeOf(k, n)
    PROVE  k >= j + n
<1> DEFINE a == j - 1
           b == k - 1
<1>1. a \in Nat /\ b \in Nat /\ a < b
  OBVIOUS
<1>2. a % n = b % n
  <2>1. a % n \in Int /\ b % n \in Int
    BY <1>1, DivMod
  <2>2. (a % n) + 1 = (b % n) + 1
    BY DEF Deal!AssigneeOf
  <2> HIDE DEF a, b
  <2> QED
    BY <2>1, <2>2
<1>3. /\ a = n * (a \div n) + (a % n) /\ b = n * (b \div n) + (b % n)
      /\ a \div n \in Int /\ b \div n \in Int /\ a % n \in 0..(n - 1)
  BY <1>1, DivMod
<1> HIDE DEF a, b
<1>4. n * (b \div n - a \div n) = n * (b \div n) - n * (a \div n)
  BY <1>3
<1>5. b - a = n * (b \div n - a \div n)
  BY <1>1, <1>2, <1>3, <1>4
<1>6. b \div n - a \div n >= 1
  <2> SUFFICES ASSUME a \div n - b \div n >= 0 PROVE FALSE
    BY <1>3
  <2>1. n * (a \div n - b \div n) >= 0
    BY <1>3
  <2>2. n * (a \div n - b \div n) = n * (a \div n) - n * (b \div n)
    BY <1>3
  <2> QED
    BY <1>1, <1>2, <1>3, <2>1, <2>2
<1>7. b - a >= n
  <2> DEFINE d == b \div n - a \div n
  <2>1. d \in Int /\ d >= 1 /\ b - a = n * d
    BY <1>3, <1>5, <1>6
  <2> HIDE DEF d
  <2> QED
    BY <2>1, Multiple
<1> QED
  BY <1>1, <1>7 DEF a, b

\* g[k]: what the operatives hold after k missions were dealt.
Dealing(n, none, k, g) ==
    g = [j \in 0..k |-> IF j = 0 THEN [o \in 1..n |-> none]
                        ELSE [g[j - 1] EXCEPT ![Deal!AssigneeOf(j, n)] = j]]

\* They hold missions that were dealt to them, and of these the last.
Dealt(n, none, k, ids) ==
    /\ ids \in [1..n -> 1..k \cup {none}]
    /\ \A o \in 1..n : ids[o] # none => Deal!AssigneeOf(ids[o], n) = o
    /\ \A j \in 1..k : ids[Deal!AssigneeOf(j, n)] \in j..k

LEMMA DealingExists ==
    ASSUME NEW n \in Nat \ {0}, NEW none, NEW last \in Nat
    PROVE  \E g : Dealing(n, none, last, g)
<1> DEFINE start == [o \in 1..n |-> none]
           Deals(ids, j) == [ids EXCEPT ![Deal!AssigneeOf(j, n)] = j]
           Bad == {k \in Nat : ~(\E g : Dealing(n, none, k, g))}
<1> SUFFICES ASSUME Bad # {} PROVE FALSE
  OBVIOUS
<1>1. ASSUME NEW k, NEW g
      PROVE  Dealing(n, none, k, g)
             <=> g = [j \in 0..k |-> IF j = 0 THEN start ELSE Deals(g[j - 1], j)]
  BY DEF Dealing
<1> HIDE DEF start, Deals
<1>2. PICK k \in Bad : \A j \in Bad : k <= j
  BY Least
<1>3. CASE k = 0
  <2> DEFINE g == [j \in 0..0 |-> start]
  <2>1. g = [j \in 0..0 |-> IF j = 0 THEN start ELSE Deals(g[j - 1], j)]
    OBVIOUS
  <2> QED
    BY <1>1, <1>2, <1>3, <2>1
<1>4. CASE k # 0
  <2>1. k - 1 \in Nat /\ k - 1 \notin Bad
    BY <1>2, <1>4
  <2>2. PICK f : Dealing(n, none, k - 1, f)
    BY <2>1
  <2> DEFINE g == [j \in 0..k |-> IF j = k THEN Deals(f[k - 1], k) ELSE f[j]]
  <2>3. f = [j \in 0..(k - 1) |-> IF j = 0 THEN start ELSE Deals(f[j - 1], j)]
    BY <1>1, <2>2
  <2>4. ASSUME NEW j \in 0..k
        PROVE  g[j] = IF j = 0 THEN start ELSE Deals(g[j - 1], j)
    <3>1. CASE j = k
      BY <3>1, <2>1, <1>4
    <3>2. CASE j # k /\ j = 0
      BY <3>2, <2>1, <2>3
    <3>3. CASE j # k /\ j # 0
      <4>1. j \in 0..(k - 1) /\ j - 1 \in 0..k /\ j - 1 # k
        BY <3>3, <1>2
      <4>2. f[j] = Deals(f[j - 1], j)
        BY <4>1, <3>3, <2>3
      <4> QED
        BY <4>1, <4>2, <3>3
    <3> QED
      BY <3>1, <3>2, <3>3
  <2>5. g = [j \in 0..k |-> IF j = 0 THEN start ELSE Deals(g[j - 1], j)]
    <3> HIDE DEF g
    <3>1. g = [j \in 0..k |-> g[j]]
      BY DEF g
    <3> QED
      BY <2>4, <3>1
  <2> QED
    BY <1>1, <1>2, <2>5
<1> QED
  BY <1>3, <1>4

LEMMA DealingDeals ==
    ASSUME NEW n \in Nat \ {0}, NEW last \in Nat, NEW none, none \notin 1..last,
           NEW g, Dealing(n, none, last, g)
    PROVE  Dealt(n, none, last, g[last])
<1> DEFINE Bad == {k \in 0..last : ~Dealt(n, none, k, g[k])}
<1>1. SUFFICES ASSUME Bad # {} PROVE FALSE
  OBVIOUS
<1>2. g = [j \in 0..last |-> IF j = 0 THEN [o \in 1..n |-> none]
                             ELSE [g[j - 1] EXCEPT ![Deal!AssigneeOf(j, n)] = j]]
  BY DEF Dealing
<1>3. PICK k \in Bad : \A j \in Bad : k <= j
  <2>1. Bad \in SUBSET Nat
    OBVIOUS
  <2> QED
    BY <1>1, <2>1, Least
<1>4. CASE k = 0
  <2>1. g[0] = [o \in 1..n |-> none]
    BY <1>2
  <2> QED
    BY <1>3, <1>4, <2>1 DEF Dealt
<1>5. CASE k # 0
  <2> DEFINE h == g[k - 1]
             a == Deal!AssigneeOf(k, n)
  <2>1. k \in 1..last /\ k - 1 \in 0..last /\ k - 1 \notin Bad
    BY <1>3, <1>5
  <2>2. Dealt(n, none, k - 1, h)
    BY <2>1
  <2>3. g[k] = [h EXCEPT ![a] = k]
    BY <1>2, <1>5, <2>1
  <2>4. a \in 1..n
    <3>1. k \in Nat \ {0}
      BY <2>1
    <3> QED
      BY <3>1, AssigneeOfFacts
  <2>5. k # none /\ h \in [1..n -> 1..(k - 1) \cup {none}]
    BY <2>1, <2>2 DEF Dealt
  <2>6. g[k] = [o \in 1..n |-> IF o = a THEN k ELSE h[o]]
    BY <2>3, <2>5
  <2>7. ASSUME NEW o \in 1..n PROVE g[k][o] \in 1..k \cup {none}
    <3>1. h[o] \in 1..(k - 1) \cup {none}
      BY <2>5
    <3>2. h[o] \in 1..k \cup {none} /\ k \in 1..k
      BY <2>1, <3>1
    <3> QED
      BY <2>6, <3>2
  <2>8. ASSUME NEW o \in 1..n, g[k][o] # none PROVE Deal!AssigneeOf(g[k][o], n) = o
    BY <2>2, <2>6, <2>8 DEF Dealt
  <2>9. ASSUME NEW j \in 1..k PROVE g[k][Deal!AssigneeOf(j, n)] \in j..k
    <3>1. j \in Nat \ {0}
      BY <2>1
    <3>2. Deal!AssigneeOf(j, n) \in 1..n
      BY <3>1, AssigneeOfFacts
    <3>3. CASE Deal!AssigneeOf(j, n) = a
      BY <2>1, <2>4, <2>6, <3>3
    <3>4. CASE Deal!AssigneeOf(j, n) # a
      <4>1. j \in 1..(k - 1)
        BY <2>1, <3>4
      <4>2. h[Deal!AssigneeOf(j, n)] \in j..(k - 1)
        BY <2>2, <4>1 DEF Dealt
      <4> QED
        BY <2>1, <2>6, <3>2, <3>4, <4>2
    <3> QED
      BY <3>3, <3>4
  <2>10. Dealt(n, none, k, g[k])
    <3>1. g[k] \in [1..n -> 1..k \cup {none}]
      BY <2>7, <2>6
    <3> QED
      BY <3>1, <2>8, <2>9 DEF Dealt
  <2> QED
    BY <1>3, <2>10
<1> QED
  BY <1>4, <1>5

LEMMA MissionsDealt ==
    ASSUME NEW n \in Nat \ {0}, NEW last \in Nat, NEW none, none \notin 1..last
    PROVE  Dealt(n, none, last, Deal!MissionIds(n, last, none))
<1> DEFINE G == CHOOSE g : Dealing(n, none, last, g)
<1>1. Dealing(n, none, last, G)
  BY DealingExists
<1>2. Deal!MissionIds(n, last, none) = G[last]
  BY DEF Deal!MissionIds, Dealing
<1> QED
  BY <1>1, <1>2, DealingDeals

(***************************************************************************)
(* pipeline.ts: a team deployed by a mandate satisfies what Synapse        *)
(* assumes of MissionOf (AssignmentAssumption), however many operatives    *)
(* and missions the two heuristics come up with.                           *)
(***************************************************************************)
THEOREM OneMissionEach ==
    ASSUME NEW n \in Nat \ {0}, NEW last \in Nat, NEW none, none \notin 1..last
    PROVE  LET ids == Deal!MissionIds(n, last, none) IN
           /\ ids \in [1..n -> 1..last \cup {none}]
           /\ \A o, p \in 1..n : ids[o] = ids[p] /\ o # p => ids[o] = none
BY MissionsDealt DEF Dealt

(***************************************************************************)
(* pipeline.ts:114: a mission is still somebody's exactly if it was dealt  *)
(* in the last round.                                                      *)
(***************************************************************************)
THEOREM LastMissionsAreHeld ==
    ASSUME NEW n \in Nat \ {0}, NEW last \in Nat, NEW none, none \notin 1..last, NEW m \in 1..last
    PROVE  (\E o \in 1..n : Deal!MissionIds(n, last, none)[o] = m) <=> m > last - n
<1> DEFINE ids == Deal!MissionIds(n, last, none)
           a == Deal!AssigneeOf(m, n)
<1>1. Dealt(n, none, last, ids)
  BY MissionsDealt
<1> HIDE DEF ids
<1>2. a \in 1..n /\ ids[a] \in m..last /\ ids[a] # none /\ Deal!AssigneeOf(ids[a], n) = a
  <2>1. a \in 1..n
    BY AssigneeOfFacts
  <2>2. ids[a] \in m..last
    BY <1>1 DEF Dealt
  <2> QED
    BY <1>1, <2>1, <2>2 DEF Dealt
<1>3. ASSUME m > last - n PROVE ids[a] = m
  <2> SUFFICES ASSUME ids[a] > m PROVE FALSE
    BY <1>2
  <2>1. ids[a] >= m + n
    BY <1>2, SameAssignee
  <2> QED
    BY <1>2, <1>3, <2>1
<1>4. ASSUME NEW o \in 1..n, ids[o] = m, ~(m > last - n) PROVE FALSE
  <2>1. o = a
    BY <1>1, <1>4 DEF Dealt
  <2>2. m + n \in 1..last /\ Deal!AssigneeOf(m + n, n) = a
    BY <1>4, AssigneeOfFacts
  <2>3. ids[a] \in (m + n)..last
    BY <1>1, <2>2 DEF Dealt
  <2> QED
    BY <1>4, <2>1, <2>3
<1>5. (\E o \in 1..n : ids[o] = m) <=> m > last - n
  BY <1>2, <1>3, <1>4
<1> QED
  BY <1>5 DEF ids

-------------------------------------------------------------------------------
(***************************************************************************)
(* Missions that are no operative's, and what becomes of them.             *)
(***************************************************************************)
LeftOut == {m \in Missions : \A o \in Operatives : MissionOf[o] # m}

LeftOutStayOpen ==
    /\ \A m \in LeftOut : status[m] = "open"
    /\ LeftOut # {} => team = "active"

LEMMA LeftOutFlight ==
    ASSUME TypeOK, LeftOutStayOpen, NEW r \in Runs, Flight(r)
    PROVE  LeftOutStayOpen'
<1>1. \A m \in LeftOut : m \in Missions /\ m # MissionFor(r)
  BY RunAssumption DEF LeftOut, MissionFor
<1>2. ASSUME NEW m \in LeftOut, NEW s, status' = [status EXCEPT ![MissionFor(r)] = s]
      PROVE  status'[m] = status[m]
  BY <1>1, <1>2 DEF TypeOK
<1>3. CASE RunSortie(r) \/ Claim(r) \/ Complete(r) \/ Caught(r)
  BY <1>3 DEF RunSortie, Claim, Complete, Caught, LeftOutStayOpen
<1>4. CASE Begin(r)
  BY <1>2, <1>4 DEF Begin, LeftOutStayOpen
<1>5. CASE Orchestrated(r)
  BY <1>2, <1>5 DEF Orchestrated, MissionEnds, LeftOutStayOpen
<1>6. CASE Catch(r)
  BY <1>2, <1>6 DEF Catch, MissionEnds, LeftOutStayOpen
<1>7. CASE Report(r)
  <2>1. LeftOut # {} => TeamStatus = "active"
    BY <1>1 DEF LeftOutStayOpen, TeamStatus
  <2> QED
    BY <1>7, <2>1 DEF Report, LeftOutStayOpen
<1> QED
  BY <1>3, <1>4, <1>5, <1>6, <1>7 DEF Flight

LEMMA LeftOutStep ==
    ASSUME TypeOK, LeftOutStayOpen, [Next]_vars
    PROVE  LeftOutStayOpen'
<1>1. CASE \E r \in Runs : Flight(r)
  BY <1>1, LeftOutFlight
<1>2. CASE \/ PreCompaction \/ Resume \/ Crash
           \/ \E o \in Operatives : Zombie(o)
           \/ \E m \in Missions : RequestApproval(m) \/ ResolveApproval(m)
  BY <1>2 DEF PreCompaction, Resume, Crash, Zombie, RequestApproval, ResolveApproval, LeftOutStayOpen
<1>3. CASE \E o \in ToolUsers : Tools(o)
  BY <1>3 DEF Tools, ToolClaim, ToolComplete, ToolCompleted, LeftOutStayOpen
<1>4. CASE UNCHANGED vars
  BY <1>4 DEF LeftOutStayOpen
<1> QED
  BY <1>1, <1>2, <1>3, <1>4 DEF Next

(***************************************************************************)
(* A mission that no operative holds stays open, and its team is never     *)
(* done, whatever sorties, tools, compactions and crashes do.              *)
(***************************************************************************)
THEOREM SynapseLeftOutStayOpen == Spec => []LeftOutStayOpen
<1>1. Init => LeftOutStayOpen
  BY DEF Init, LeftOutStayOpen, LeftOut
<1>2. TypeOK /\ LeftOutStayOpen /\ [Next]_vars => LeftOutStayOpen'
  BY LeftOutStep
<1> QED
  BY <1>1, <1>2, SynapseTypeCorrect, PTL DEF Spec

(***************************************************************************)
(* Both together: a mandate that derives more missions than it hires       *)
(* operatives deploys a team that is never done, and the missions dealt    *)
(* before the last round are never flown (pipeline.ts:105, scheduler.ts).  *)
(***************************************************************************)
THEOREM MoreMissionsThanOperatives ==
    ASSUME NEW n \in Nat \ {0}, NEW last \in Nat, last > n,
           Operatives = 1..n, Missions = 1..last, MissionOf = Deal!MissionIds(n, last, Unset)
    PROVE  Spec => [](team = "active" /\ \A m \in 1..(last - n) : status[m] = "open")
<1>1. Unset \notin 1..last
  BY UnsetAssumption
<1>2. ASSUME NEW m \in 1..(last - n) PROVE m \in LeftOut
  <2>1. m \in 1..last /\ ~(m > last - n)
    OBVIOUS
  <2> QED
    BY <1>1, <2>1, LastMissionsAreHeld DEF LeftOut
<1>3. 1 \in 1..(last - n)
  OBVIOUS
<1>4. LeftOutStayOpen => team = "active" /\ \A m \in 1..(last - n) : status[m] = "open"
  BY <1>2, <1>3 DEF LeftOutStayOpen
<1> QED
  BY <1>4, SynapseLeftOutStayOpen, PTL

-------------------------------------------------------------------------------
(***************************************************************************)
(* What the two liveness properties rest on: an active mission is being    *)
(* flown, and an open one can be.                                          *)
(***************************************************************************)
ActiveAreFlown ==
    crashes = 0 => \A m \in Missions : status[m] = "active" => \E r \in AtWork : MissionFor(r) = m

\* A step of one call that leaves the missions alone and is not the end of its work, or
\* that gives its mission the status which goes with where the call is after it.
LEMMA FlownMoves ==
    ASSUME TypeOK, ActiveAreFlown, NEW r \in Runs, NEW to \in Awaits, NEW s,
           pc' = [pc EXCEPT ![r] = to], crashes' = crashes,
           \/ status' = status /\ pc[r] # "orchestrate"
           \/ status' = [status EXCEPT ![MissionFor(r)] = s] /\ (s = "active" => to = "orchestrate")
    PROVE  ActiveAreFlown'
<1> SUFFICES ASSUME crashes = 0, NEW m \in Missions, status'[m] = "active"
             PROVE  \E q \in AtWork' : MissionFor(q) = m
  BY DEF ActiveAreFlown, MissionFor
<1>1. AtWork \ {r} \subseteq AtWork' /\ (to = "orchestrate" => r \in AtWork')
  BY DEF AtWork, TypeOK
<1>2. CASE status' = status /\ pc[r] # "orchestrate"
  BY <1>1, <1>2 DEF ActiveAreFlown, AtWork
<1>3. CASE status' = [status EXCEPT ![MissionFor(r)] = s] /\ (s = "active" => to = "orchestrate")
  <2>1. CASE m = MissionFor(r)
    BY <1>1, <1>3, <2>1 DEF TypeOK
  <2>2. CASE m # MissionFor(r)
    BY <1>1, <1>3, <2>2 DEF TypeOK, ActiveAreFlown
  <2> QED
    BY <2>1, <2>2
<1> QED
  BY <1>2, <1>3

LEMMA FlownFlight ==
    ASSUME TypeOK, ActiveAreFlown, NEW r \in Runs, Flight(r)
    PROVE  ActiveAreFlown'
<1>1. crashes' = crashes /\ \E to \in Awaits : pc' = [pc EXCEPT ![r] = to]
  BY DEF Flight, RunSortie, Claim, Begin, Orchestrated, Complete, Report, Catch, Caught,
         Awaits, counters
<1>2. CASE RunSortie(r) \/ Claim(r) \/ Complete(r) \/ Report(r) \/ Caught(r)
  <2>1. status' = status /\ pc[r] # "orchestrate"
    BY <1>2 DEF RunSortie, Claim, Complete, Report, Caught
  <2> QED
    BY <1>1, <2>1, FlownMoves
<1>3. CASE Begin(r)
  <2>1. CASE CanMove(OpOf[r], "CHECKOUT")
    BY <1>1, <1>3, <2>1, FlownMoves DEF Begin, Awaits
  <2>2. CASE ~CanMove(OpOf[r], "CHECKOUT")
    BY <1>1, <1>3, <2>2, FlownMoves DEF Begin, Awaits
  <2> QED
    BY <2>1, <2>2
<1>4. CASE Orchestrated(r)
  <2>1. PICK out \in Outcomes : status' = [status EXCEPT ![MissionFor(r)] = out]
    BY <1>4 DEF Orchestrated, MissionEnds
  <2> QED
    BY <1>1, <2>1, FlownMoves DEF Outcomes
<1>5. CASE Catch(r)
  <2>1. PICK out \in Outcomes : status' = [status EXCEPT ![MissionFor(r)] = out]
    BY <1>5 DEF Catch, MissionEnds, Outcomes
  <2> QED
    BY <1>1, <2>1, FlownMoves DEF Outcomes
<1> QED
  BY <1>2, <1>3, <1>4, <1>5 DEF Flight

LEMMA FlownStep ==
    ASSUME TypeOK, ActiveAreFlown, [Next]_vars
    PROVE  ActiveAreFlown'
<1>1. CASE \E r \in Runs : Flight(r)
  BY <1>1, FlownFlight
<1>2. CASE \/ PreCompaction \/ Resume
           \/ \E o \in Operatives : Zombie(o)
           \/ \E m \in Missions : RequestApproval(m) \/ ResolveApproval(m)
           \/ \E o \in ToolUsers : Tools(o)
           \/ UNCHANGED vars
  <2>1. UNCHANGED <<status, pc, crashes>>
    BY <1>2 DEF PreCompaction, Resume, Zombie, RequestApproval, ResolveApproval,
                Tools, ToolClaim, ToolComplete, ToolCompleted
  <2> QED
    BY <2>1 DEF ActiveAreFlown, AtWork, MissionFor
<1>3. CASE Crash
  BY <1>3 DEF Crash, TypeOK, ActiveAreFlown
<1> QED
  BY <1>1, <1>2, <1>3 DEF Next

(***************************************************************************)
(* Until the first crash an active mission has a call of runSortie at work *)
(* on it, whose end gives it an outcome; no overlapping call, stand-down,  *)
(* exception or tool leaves it active with nobody to end it (runner.ts:    *)
(* 125, 177, 236).  A crash does, and nothing recovers it on a restart.    *)
(***************************************************************************)
THEOREM SynapseActiveAreFlown == Spec => []ActiveAreFlown
<1>1. Init => ActiveAreFlown
  BY DEF Init, ActiveAreFlown
<1>2. TypeOK /\ ActiveAreFlown /\ [Next]_vars => ActiveAreFlown'
  BY FlownStep
<1> QED
  BY <1>1, <1>2, SynapseTypeCorrect, PTL DEF Spec

\* Nothing was spent for an operative nor reported of it, no other has its item, and no
\* call of its own is past the claim.
Untouched(o) ==
    /\ state[o] \in {"IDLE", "CHECKOUT"} /\ spent[o] = 0 /\ activity[o] # "sortie"
    /\ holder[MissionOf[o]] \in {Unset, o}
    /\ \A r \in Runs : OpOf[r] = o => pc[r] \in {"none", "echo", "claimed"}

OpenAreUntouched ==
    \A o \in Operatives : MissionOf[o] # Unset /\ status[MissionOf[o]] = "open" => Untouched(o)

\* A step that concerns one operative and its mission.
LEMMA UntouchedMoves ==
    ASSUME OpenAreUntouched, NEW o \in Operatives,
           \A p \in Operatives \ {o} :
              state'[p] = state[p] /\ spent'[p] = spent[p] /\ activity'[p] = activity[p],
           \A r \in Runs : OpOf[r] # o => pc'[r] = pc[r],
           \A m \in Missions : m # MissionOf[o] => status'[m] = status[m] /\ holder'[m] = holder[m],
           MissionOf[o] # Unset /\ status'[MissionOf[o]] = "open" => Untouched(o)'
    PROVE  OpenAreUntouched'
<1> SUFFICES ASSUME NEW p \in Operatives, p # o, MissionOf[p] # Unset, status'[MissionOf[p]] = "open"
             PROVE  Untouched(p)'
  BY DEF OpenAreUntouched
<1>1. MissionOf[p] \in Missions /\ MissionOf[p] # MissionOf[o]
  BY AssignmentAssumption
<1>2. Untouched(p)
  BY <1>1 DEF OpenAreUntouched
<1> QED
  BY <1>1, <1>2 DEF Untouched

LEMMA UntouchedFlight ==
    ASSUME TypeOK, OpenAreUntouched, NEW r \in Runs, Flight(r)
    PROVE  OpenAreUntouched'
<1> DEFINE o == OpOf[r]
           m == MissionOf[o]
<1>1. o \in Operatives /\ m \in Missions \cup {Unset} /\ MissionFor(r) = m /\ Unset \notin Missions
  BY RunAssumption, AssignmentAssumption, UnsetAssumption DEF MissionFor
<1>2. \A q \in Runs : OpOf[q] # o => pc'[q] = pc[q]
  BY DEF Flight, RunSortie, Claim, Begin, Orchestrated, Complete, Report, Catch, Caught, TypeOK
<1>3. m # Unset /\ status[m] = "open" => Untouched(o) /\ pc[r] \in {"none", "echo", "claimed"}
  BY <1>1 DEF OpenAreUntouched, Untouched
<1>4. CASE RunSortie(r)
  <2>1. pc' = [pc EXCEPT ![r] = "echo"] /\ UNCHANGED <<state, spent, activity, status, holder>>
    BY <1>4 DEF RunSortie
  <2>2. m # Unset /\ status'[m] = "open" => Untouched(o)'
    BY <1>3, <2>1 DEF Untouched, TypeOK
  <2> QED
    BY <1>1, <1>2, <2>1, <2>2, UntouchedMoves
<1>5. CASE Claim(r)
  <2>1. /\ UNCHANGED <<state, spent, activity, status>>
        /\ \A n \in Missions : n # m => holder'[n] = holder[n]
        /\ m \in Missions => holder'[m] \in {holder[m], o}
    BY <1>1, <1>5 DEF Claim, Board!Take, TypeOK
  <2>2. pc' = [pc EXCEPT ![r] = "claimed"] \/ pc' = [pc EXCEPT ![r] = "none"]
    BY <1>5 DEF Claim
  <2>3. m # Unset /\ status'[m] = "open" => Untouched(o)'
    BY <1>1, <1>3, <2>1, <2>2 DEF Untouched, TypeOK
  <2> QED
    BY <1>1, <1>2, <2>1, <2>3, UntouchedMoves
<1>6. CASE Begin(r)
  <2>1. UNCHANGED <<spent, activity, holder>>
    BY <1>6 DEF Begin
  <2>2. CASE CanMove(o, "CHECKOUT")
    <3>1. state' = [state EXCEPT ![o] = "ACTIVE"] /\ status' = [status EXCEPT ![m] = "active"]
      BY <1>1, <1>6, <2>2 DEF Begin, SetState
    <3> QED
      BY <1>1, <1>2, <2>1, <3>1, UntouchedMoves DEF TypeOK
  <2>3. CASE ~CanMove(o, "CHECKOUT")
    <3>1. pc' = [pc EXCEPT ![r] = "none"] /\ UNCHANGED <<state, status>>
      BY <1>6, <2>3 DEF Begin
    <3>2. m # Unset /\ status'[m] = "open" => Untouched(o)'
      BY <1>3, <2>1, <3>1 DEF Untouched, TypeOK
    <3> QED
      BY <1>1, <1>2, <2>1, <3>1, <3>2, UntouchedMoves
  <2> QED
    BY <2>2, <2>3
<1>7. CASE Orchestrated(r)
  <2>1. PICK out \in Outcomes, cost \in Costs :
           /\ spent' = [spent EXCEPT ![o] = @ + cost] /\ AfterSpending(o, spent[o] + cost)
           /\ status' = [status EXCEPT ![m] = out] /\ Release(o, m, out)
    BY <1>1, <1>7 DEF Orchestrated, MissionEnds
  <2>2. \E s, why : SetState(o, s, why)
    BY <2>1 DEF AfterSpending
  <2>3. \A n \in Missions : n # m => holder'[n] = holder[n]
    BY <2>1 DEF Release, Board!GiveUp, TypeOK
  <2>4. activity' = activity /\ out # "open"
    BY <1>7, <2>1 DEF Orchestrated, Outcomes
  <2> QED
    BY <1>1, <1>2, <2>1, <2>2, <2>3, <2>4, UntouchedMoves DEF SetState, TypeOK
<1>8. CASE Complete(r)
  <2>1. /\ pc[r] = "complete" /\ UNCHANGED <<spent, activity, status, holder>>
        /\ state' = state \/ \E s, why : SetState(o, s, why)
    BY <1>8 DEF Complete, ItemCompleted
  <2> QED
    BY <1>1, <1>2, <1>3, <2>1, UntouchedMoves DEF SetState, TypeOK
<1>9. CASE Report(r)
  <2>1. /\ pc[r] = "report" /\ UNCHANGED <<state, spent, status, holder>>
        /\ activity' = [activity EXCEPT ![o] = IF @ = "unknown" THEN @ ELSE "sortie"]
    BY <1>9 DEF Report
  <2> QED
    BY <1>1, <1>2, <1>3, <2>1, UntouchedMoves DEF TypeOK
<1>10. CASE Catch(r)
  <2>1. /\ SetState(o, "IDLE", Unset) /\ status' = [status EXCEPT ![m] = "failed"]
        /\ Release(o, m, "failed") /\ UNCHANGED <<spent, activity>>
    BY <1>1, <1>10 DEF Catch, MissionEnds
  <2>2. \A n \in Missions : n # m => holder'[n] = holder[n]
    BY <2>1 DEF Release, Board!GiveUp, TypeOK
  <2> QED
    BY <1>1, <1>2, <2>1, <2>2, UntouchedMoves DEF SetState, TypeOK
<1>11. CASE Caught(r)
  <2>1. pc[r] = "catch" /\ UNCHANGED <<state, spent, activity, status, holder>>
    BY <1>11 DEF Caught
  <2> QED
    BY <1>1, <1>2, <1>3, <2>1, UntouchedMoves
<1> QED
  BY <1>4, <1>5, <1>6, <1>7, <1>8, <1>9, <1>10, <1>11 DEF Flight

LEMMA UntouchedStep ==
    ASSUME TypeOK, OpenAreUntouched, ToolUsers = {}, [Next]_vars
    PROVE  OpenAreUntouched'
<1>1. CASE \E r \in Runs : Flight(r)
  BY <1>1, UntouchedFlight
<1>2. CASE PreCompaction \/ Resume \/ Crash \/ \E o \in Operatives : Zombie(o)
  <2>1. UNCHANGED <<spent, status, holder>>
    BY <1>2 DEF PreCompaction, Resume, Crash, Zombie
  <2>2. ASSUME NEW o \in Operatives, Untouched(o), MissionOf[o] # Unset
        PROVE  /\ state'[o] \in {"IDLE", "CHECKOUT"} /\ activity'[o] # "sortie"
               /\ \A r \in Runs : pc'[r] \in {pc[r], "none"}
    <3>1. CASE PreCompaction
      <4>1. PICK stood \in SUBSET {p \in Operatives :
                       /\ state[p] \in {"ACTIVE", "CHECKOUT", "STANDDOWN"}
                       /\ CanMove(p, "STANDDOWN")} :
               state' = [p \in Operatives |-> IF p \in stood THEN "STANDDOWN" ELSE state[p]]
        BY <3>1 DEF PreCompaction
      <4>2. o \notin stood
        BY <2>2, <4>1 DEF Untouched, CanMove, ValidTransitions
      <4> QED
        BY <2>2, <3>1, <4>1, <4>2 DEF PreCompaction, Untouched
    <3>2. CASE Resume
      BY <2>2, <3>2 DEF Resume, Untouched
    <3>3. CASE \E p \in Operatives : Zombie(p)
      BY <2>2, <3>3 DEF Zombie, SetState, Untouched, TypeOK
    <3>4. CASE Crash
      <4>1. state'[o] \in {state[o], "CHECKOUT"}
        BY <3>4, RunAssumption DEF Crash, SetState, TypeOK
      <4> QED
        BY <2>2, <3>4, <4>1 DEF Crash, Untouched
    <3> QED
      BY <1>2, <3>1, <3>2, <3>3, <3>4
  <2> QED
    BY <2>1, <2>2 DEF OpenAreUntouched, Untouched
<1>3. CASE (\E m \in Missions : RequestApproval(m) \/ ResolveApproval(m)) \/ UNCHANGED vars
  <2>1. UNCHANGED <<state, spent, activity, status, holder, pc>>
    BY <1>3 DEF RequestApproval, ResolveApproval
  <2> QED
    BY <2>1 DEF OpenAreUntouched, Untouched
<1> QED
  BY <1>1, <1>2, <1>3 DEF Next

(***************************************************************************)
(* An open mission can always be flown: its operative is one the scheduler *)
(* sends (scheduler.ts:7) and the table lets check out, has its whole      *)
(* budget, and nobody else holds its item; through compactions, zombies,   *)
(* exceptions and crashes, as long as no operative calls the Architects    *)
(* tools itself.                                                           *)
(***************************************************************************)
THEOREM SynapseOpenCanBeFlown ==
    ASSUME ToolUsers = {}
    PROVE  Spec => [](\A o \in Operatives : MissionOf[o] # Unset /\ status[MissionOf[o]] = "open" =>
                         /\ state[o] \in {"IDLE", "CHECKOUT"} /\ CanMove(o, "CHECKOUT")
                         /\ spent[o] = 0 /\ holder[MissionOf[o]] \in {Unset, o})
<1> DEFINE Flyable ==
       \A o \in Operatives : MissionOf[o] # Unset /\ status[MissionOf[o]] = "open" =>
          /\ state[o] \in {"IDLE", "CHECKOUT"} /\ CanMove(o, "CHECKOUT")
          /\ spent[o] = 0 /\ holder[MissionOf[o]] \in {Unset, o}
<1>1. Init => OpenAreUntouched
  BY AssignmentAssumption DEF Init, OpenAreUntouched, Untouched, Board!Init
<1>2. TypeOK /\ OpenAreUntouched /\ [Next]_vars => OpenAreUntouched'
  BY UntouchedStep
<1>3. OpenAreUntouched => Flyable
  BY DEF OpenAreUntouched, Untouched, CanMove, ValidTransitions
<1> QED
  BY <1>1, <1>2, <1>3, SynapseTypeCorrect, PTL DEF Spec
===============================================================================
