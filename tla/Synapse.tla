-------------------------------- MODULE Synapse --------------------------------
(***************************************************************************)
(* Synapse in one process: operatives fly sorties on their missions, claim *)
(* the matching work item from Architects, spend budget, and are suspended *)
(* or stood down.  The tables (state .. pendingApprovals) survive a crash, *)
(* the rest is memory.                                                     *)
(*                                                                         *)
(* runSortie is one asynchronous function; its steps here are its segments *)
(* between awaits.  pc[r] names the await run r is at:                     *)
(*   "echo"         queryEcho (memory recall)                              *)
(*   "claimed"      claimWorkItem has answered                             *)
(*   "orchestrate"  the orchestrator is at work                            *)
(*   "complete"     the item is released, completeWorkItem goes on         *)
(*   "report"       completeWorkItem has answered                          *)
(*   "thrown"       something in the try block threw                       *)
(*   "catch"        as "complete", for the catch block's call              *)
(* Promise continuations run before the next timer, tool call or I/O       *)
(* result: that is Drained.                                                *)
(***************************************************************************)
EXTENDS Integers, FiniteSets

CONSTANTS
    Operatives,
    Missions,       \* the missions of one strike team; each is a work item too
    MissionOf,      \* synapse_operatives.mission_id, as the mandate left it
    Runs,           \* calls of runSortie that can be in flight
    OpOf,           \* the operative each of them is for
    Gated,          \* missions with requires_approval_gate
    Cap,            \* budget_cap_usd of every operative
    Costs,          \* what a sortie may cost
    ToolUsers,      \* operatives that also call the Architects tools themselves
    ToolItems,      \* bound: the items they call them for
    Faults,         \* subset of {"orchestrate", "ledger"}: calls that may throw
    MaxRequests,    \* bound: pending approval requests of a mission
    MaxZombies,     \* bound: sentinel verdicts
    MaxCompactions, \* bound: pre-compaction events
    MaxCrashes,     \* bound: process deaths
    Unset           \* SQL NULL

States == {"IDLE", "ACTIVE", "CHECKOUT", "STANDDOWN", "SUSPENDED", "DONE"}
Outcomes == {"done", "failed", "blocked"}

ASSUME AssignmentAssumption ==
    /\ MissionOf \in [Operatives -> Missions \union {Unset}]
    /\ \A o, p \in Operatives : MissionOf[o] = MissionOf[p] /\ o # p => MissionOf[o] = Unset
ASSUME RunAssumption == OpOf \in [Runs -> Operatives] /\ IsFiniteSet(Runs)
ASSUME ToolUsersAssumption == ToolUsers \subseteq Operatives /\ ToolItems \subseteq Missions
ASSUME BudgetAssumption == Cap \in Int /\ Costs \subseteq Nat
ASSUME UnsetAssumption == Unset \notin Operatives /\ Unset \notin Missions /\ Unset \notin Outcomes
ASSUME BoundsAssumption == {MaxRequests, MaxZombies, MaxCompactions, MaxCrashes} \subseteq Nat

VARIABLES
    state, reason, spent,   \* columns of synapse_operatives
    status,                 \* synapse_missions.status
    team,                   \* synapse_strike_teams.status
    pendingApprovals,       \* rows of synapse_approvals with status 'pending'
    holder,                 \* the active construction lock of each work item
    item,                   \* architects_work_items.status
    pc, outcome,            \* the await each run is at, and the result it carries
    tool,                   \* completeWorkItem called as a tool, after its await
    activity,               \* Architects' operativeActivity
    standdown, timer, paused, \* compaction: flag, resume timer, who was paused
    zombies, compactions, crashes

operativeRows == <<state, reason, spent>>
board == <<holder, item>>
compaction == <<standdown, timer, paused>>
counters == <<zombies, compactions, crashes>>
vars == <<operativeRows, status, team, pendingApprovals, board, pc, outcome,
          tool, activity, compaction, counters>>

\* the Architects' side of the bridge, as far as it promises anything
Board == INSTANCE ClaimBoard WITH WorkItems <- Missions, Free <- Unset

MissionFor(r) == MissionOf[OpOf[r]]

Continuations == {"claimed", "complete", "report", "thrown", "catch"}

Drained ==
    /\ \A r \in Runs : pc[r] \notin Continuations
    /\ \A o \in Operatives : tool[o] = Unset

Init ==
    /\ state = [o \in Operatives |-> "IDLE"]
    /\ reason = [o \in Operatives |-> Unset]
    /\ spent = [o \in Operatives |-> 0]
    /\ status = [m \in Missions |-> "open"]
    /\ team = "active"
    /\ pendingApprovals = [m \in Missions |-> 0]
    /\ Board!Init
    /\ item = [m \in Missions |-> "todo"]
    /\ pc = [r \in Runs |-> "none"]
    /\ outcome = [r \in Runs |-> Unset]
    /\ tool = [o \in Operatives |-> Unset]
    /\ activity = [o \in Operatives |-> "never"]
    /\ standdown = FALSE
    /\ timer = FALSE
    /\ paused = {}
    /\ zombies = 0 /\ compactions = 0 /\ crashes = 0

-------------------------------------------------------------------------------
(***************************************************************************)
(* The operative state machine.  transitionOperative throws on a move that *)
(* the table does not list; the listeners in bootstrap.ts write the        *)
(* columns directly.                                                       *)
(***************************************************************************)
\* faulty: a second checkout is legal while at work
ReentrantTransitions ==
    [IDLE      |-> {"ACTIVE", "CHECKOUT", "STANDDOWN", "SUSPENDED", "DONE"},
     ACTIVE    |-> {"IDLE", "CHECKOUT", "STANDDOWN", "SUSPENDED", "DONE"},
     CHECKOUT  |-> {"ACTIVE", "IDLE", "SUSPENDED"},
     STANDDOWN |-> {"IDLE", "SUSPENDED"},
     SUSPENDED |-> {"IDLE", "DONE"},
     DONE      |-> {"IDLE"}]

\* faulty: an operative at work cannot be stood down
StubbornTransitions == [ReentrantTransitions EXCEPT !.ACTIVE = {"IDLE", "SUSPENDED", "DONE"}]

ValidTransitions ==
    [IDLE      |-> {"ACTIVE", "CHECKOUT", "STANDDOWN", "SUSPENDED", "DONE"},
     ACTIVE    |-> {"IDLE", "STANDDOWN", "SUSPENDED", "DONE"},
     CHECKOUT  |-> {"ACTIVE", "IDLE", "SUSPENDED"},
     STANDDOWN |-> {"IDLE", "SUSPENDED"},
     SUSPENDED |-> {"IDLE", "DONE"},
     DONE      |-> {"IDLE"}]

CanMoveUnchecked(o, s) == s \in States     \* faulty: the table is not consulted

CanMove(o, s) == s = state[o] \/ s \in ValidTransitions[state[o]]

SetState(o, s, why) ==
    /\ state' = [state EXCEPT ![o] = s]
    /\ reason' = [reason EXCEPT ![o] = why]

\* releaseConstructionLock: nothing happens for an operative that is not the holder
Release(o, m, final) ==
    IF holder[m] = o
    THEN /\ Board!GiveUp(m)
         /\ item' = [item EXCEPT ![m] = final]
    ELSE UNCHANGED board

-------------------------------------------------------------------------------
(***************************************************************************)
(* runSortie.  A call that returns before its first await (no mission,     *)
(* budget spent, stand-down, approval pending) changes nothing here.       *)
(***************************************************************************)
\* faulty: the budget is left to enforceBudget
BudgetUnchecked(o) == TRUE

BudgetLeft(o) == Cap > 0 => spent[o] < Cap

RunSortie(r) ==
    LET o == OpOf[r] IN
    /\ Drained
    /\ pc[r] = "none"
    /\ MissionOf[o] # Unset
    /\ BudgetLeft(o)
    /\ ~standdown
    /\ MissionOf[o] \in Gated => pendingApprovals[MissionOf[o]] = 0
    /\ pc' = [pc EXCEPT ![r] = "echo"]
    /\ UNCHANGED <<operativeRows, status, team, pendingApprovals, board, outcome,
                   tool, activity, compaction, counters>>

\* the scheduler's timer filters on the state, the sortie tools do not
ScheduledAtWork(r) == state[OpOf[r]] \in {"ACTIVE", "CHECKOUT"} /\ RunSortie(r)  \* faulty filter

ScheduledSortie(r) == state[OpOf[r]] \in {"IDLE", "CHECKOUT"} /\ RunSortie(r)

Claim(r) ==
    LET o == OpOf[r]  m == MissionFor(r) IN
    /\ pc[r] = "echo"
    /\ \/ /\ Board!Take(o, m)
          /\ item' = [item EXCEPT ![m] = "claimed"]
          /\ pc' = [pc EXCEPT ![r] = "claimed"]
       \/ /\ holder[m] = o
          /\ pc' = [pc EXCEPT ![r] = "claimed"]
          /\ UNCHANGED board
       \/ /\ holder[m] \notin {o, Unset}        \* deferred
          /\ pc' = [pc EXCEPT ![r] = "none"]
          /\ UNCHANGED board
    /\ UNCHANGED <<operativeRows, status, team, pendingApprovals, outcome,
                   tool, activity, compaction, counters>>

(***************************************************************************)
(* CHECKOUT, the sortie row, ACTIVE, the mission.  When the first          *)
(* transition is refused the call is rejected and its claim stays.         *)
(***************************************************************************)
Begin(r) ==
    LET o == OpOf[r] IN
    /\ pc[r] = "claimed"
    /\ IF CanMove(o, "CHECKOUT")
       THEN /\ SetState(o, "ACTIVE", Unset)
            /\ status' = [status EXCEPT ![MissionFor(r)] = "active"]
            /\ pc' = [pc EXCEPT ![r] = "orchestrate"]
       ELSE /\ pc' = [pc EXCEPT ![r] = "none"]
            /\ UNCHANGED <<state, reason, status>>
    /\ UNCHANGED <<spent, team, pendingApprovals, board, outcome,
                   tool, activity, compaction, counters>>

\* faulty: suspended only beyond the cap
AfterSpendingBeyond(o, total) ==
    IF Cap <= 0 \/ total > Cap
    THEN SetState(o, "SUSPENDED", "budget_exceeded")
    ELSE SetState(o, IF state[o] = "SUSPENDED" THEN "SUSPENDED" ELSE "IDLE", reason[o])

\* faulty: a suspension met meanwhile is overwritten
AfterSpendingResumes(o, total) ==
    IF Cap <= 0 \/ total >= Cap
    THEN SetState(o, "SUSPENDED", "budget_exceeded")
    ELSE SetState(o, "IDLE", reason[o])

\* faulty: the second transition does not pass the reason on
AfterSpendingUnexplained(o, total) ==
    IF Cap <= 0 \/ total >= Cap
    THEN SetState(o, "SUSPENDED", Unset)
    ELSE SetState(o, IF state[o] = "SUSPENDED" THEN "SUSPENDED" ELSE "IDLE", Unset)

\* enforceBudget, then the transition out of ACTIVE, which keeps a suspension
AfterSpending(o, total) ==
    IF Cap <= 0 \/ total >= Cap
    THEN SetState(o, "SUSPENDED", "budget_exceeded")
    ELSE SetState(o, IF state[o] = "SUSPENDED" THEN "SUSPENDED" ELSE "IDLE", reason[o])

\* faulty: a failed mission keeps its status
StatusUnlessFailed(m, out) ==
    status' = IF out = "failed" THEN status ELSE [status EXCEPT ![m] = out]

MissionEnds(m, out) == status' = [status EXCEPT ![m] = out]

Orchestrated(r) ==
    LET o == OpOf[r]  m == MissionFor(r) IN
    /\ Drained
    /\ pc[r] = "orchestrate"
    /\ \E out \in Outcomes, cost \in Costs :
          /\ spent' = [spent EXCEPT ![o] = @ + cost]
          /\ AfterSpending(o, spent[o] + cost)
          /\ MissionEnds(m, out)
          /\ Release(o, m, out)
          /\ outcome' = [outcome EXCEPT ![r] = out]
    /\ pc' = [pc EXCEPT ![r] = "complete"]
    /\ UNCHANGED <<team, pendingApprovals, tool, activity, compaction, counters>>

(***************************************************************************)
(* completeWorkItem after its await: the item's status, the ledger, the    *)
(* event; blockedListener suspends the operative of a blocked item.        *)
(***************************************************************************)
ItemCompleted(o, m, out) ==
    /\ item' = [item EXCEPT ![m] = out]
    /\ IF out = "blocked" THEN SetState(o, "SUSPENDED", "manual")
                          ELSE UNCHANGED <<state, reason>>

Complete(r) ==
    LET o == OpOf[r]  m == MissionFor(r) IN
    /\ pc[r] = "complete"
    /\ \/ /\ ItemCompleted(o, m, outcome[r])
          /\ pc' = [pc EXCEPT ![r] = "report"]
       \/ /\ "ledger" \in Faults
          /\ item' = [item EXCEPT ![m] = outcome[r]]
          /\ pc' = [pc EXCEPT ![r] = "thrown"]
          /\ UNCHANGED <<state, reason>>
    /\ UNCHANGED <<spent, status, team, pendingApprovals, holder, outcome,
                   tool, activity, compaction, counters>>

TeamStatus ==
    IF \A m \in Missions : status[m] \in {"done", "failed"} THEN "done" ELSE "active"

\* faulty: onSortieCompleted knows two outcomes only
ReportedAsDone(r) == IF outcome[r] = "failed" THEN "failed" ELSE "done"

ReportedStatus(r) == outcome[r]

\* the team's status, and the completed event that Architects listens to
Report(r) ==
    LET o == OpOf[r] IN
    /\ pc[r] = "report"
    /\ team' = TeamStatus
    /\ item' = [item EXCEPT ![MissionFor(r)] = ReportedStatus(r)]
    /\ activity' = [activity EXCEPT ![o] = IF @ = "unknown" THEN @ ELSE "sortie"]
    /\ pc' = [pc EXCEPT ![r] = "none"]
    /\ outcome' = [outcome EXCEPT ![r] = Unset]
    /\ UNCHANGED <<operativeRows, status, pendingApprovals, holder, tool,
                   compaction, counters>>

\* the catch block up to its await: whatever the operative's state, it becomes IDLE
Catch(r) ==
    LET o == OpOf[r]  m == MissionFor(r) IN
    /\ \/ pc[r] = "thrown"
       \/ pc[r] = "orchestrate" /\ "orchestrate" \in Faults /\ Drained
    /\ SetState(o, "IDLE", Unset)
    /\ MissionEnds(m, "failed")
    /\ Release(o, m, "failed")
    /\ pc' = [pc EXCEPT ![r] = "catch"]
    /\ outcome' = [outcome EXCEPT ![r] = Unset]
    /\ UNCHANGED <<spent, team, pendingApprovals, tool, activity, compaction, counters>>

Caught(r) ==
    /\ pc[r] = "catch"
    /\ item' = [item EXCEPT ![MissionFor(r)] = "failed"]
    /\ pc' = [pc EXCEPT ![r] = "none"]
    /\ UNCHANGED <<operativeRows, status, team, pendingApprovals, holder, outcome,
                   tool, activity, compaction, counters>>

-------------------------------------------------------------------------------
(***************************************************************************)
(* Compaction.  The handler throws at an operative it finds in CHECKOUT    *)
(* (left by a crash): the flag is up, some rows are changed, no timer runs.*)
(***************************************************************************)
PreCompaction ==
    LET active == {o \in Operatives : state[o] \in {"ACTIVE", "CHECKOUT", "STANDDOWN"}}
        refused == {o \in active : ~CanMove(o, "STANDDOWN")} IN
    /\ ~standdown
    /\ compactions < MaxCompactions
    /\ compactions' = compactions + 1
    /\ standdown' = TRUE
    /\ \E stood \in SUBSET (active \ refused) :
          /\ refused = {} => stood = active
          /\ state' = [o \in Operatives |-> IF o \in stood THEN "STANDDOWN" ELSE state[o]]
          /\ reason' = [o \in Operatives |-> IF o \in stood THEN "compaction" ELSE reason[o]]
    /\ timer' = (refused = {})
    /\ paused' = IF refused = {} THEN active ELSE {}
    /\ UNCHANGED <<spent, status, team, pendingApprovals, board, pc, outcome,
                   tool, activity, zombies, crashes>>

\* the timer's tick that finds few enough tokens; the snapshot may be stale by now
Resume ==
    /\ Drained
    /\ timer
    /\ timer' = FALSE
    /\ standdown' = FALSE
    /\ state' = [o \in Operatives |-> IF o \in paused THEN "IDLE" ELSE state[o]]
    /\ reason' = [o \in Operatives |-> IF o \in paused THEN Unset ELSE reason[o]]
    /\ paused' = {}
    /\ UNCHANGED <<spent, status, team, pendingApprovals, board, pc, outcome,
                   tool, activity, counters>>

\* zombieListener, for an operative whose last reported sortie is long ago
Zombie(o) ==
    /\ Drained
    /\ zombies < MaxZombies
    /\ zombies' = zombies + 1
    /\ activity[o] = "sortie"
    /\ SetState(o, "SUSPENDED", "manual")
    /\ UNCHANGED <<spent, status, team, pendingApprovals, board, pc, outcome,
                   tool, activity, compaction, compactions, crashes>>

-------------------------------------------------------------------------------
(* The approval gate.  An approved and a rejected request both unblock.    *)
RequestApproval(m) ==
    /\ Drained
    /\ pendingApprovals[m] < MaxRequests
    /\ pendingApprovals' = [pendingApprovals EXCEPT ![m] = @ + 1]
    /\ UNCHANGED <<operativeRows, status, team, board, pc, outcome, tool, activity,
                   compaction, counters>>

ResolveApproval(m) ==
    /\ Drained
    /\ pendingApprovals[m] > 0
    /\ pendingApprovals' = [pendingApprovals EXCEPT ![m] = @ - 1]
    /\ UNCHANGED <<operativeRows, status, team, board, pc, outcome, tool, activity,
                   compaction, counters>>

-------------------------------------------------------------------------------
(* An operative calls workitem_claim or workitem_complete itself.          *)
ToolClaim(o, m) ==
    /\ Drained
    /\ Board!Take(o, m)
    /\ item' = [item EXCEPT ![m] = "claimed"]
    /\ UNCHANGED <<operativeRows, status, team, pendingApprovals, pc, outcome, tool,
                   activity, compaction, counters>>

ToolComplete(o, m, out) ==
    /\ Drained
    /\ Release(o, m, out)
    /\ tool' = [tool EXCEPT ![o] = [item |-> m, status |-> out]]
    /\ UNCHANGED <<operativeRows, status, team, pendingApprovals, pc, outcome,
                   activity, compaction, counters>>

ToolCompleted(o) ==
    /\ tool[o] # Unset
    /\ ItemCompleted(o, tool[o].item, tool[o].status)
    /\ tool' = [tool EXCEPT ![o] = Unset]
    /\ UNCHANGED <<spent, status, team, pendingApprovals, holder, pc, outcome,
                   activity, compaction, counters>>

(***************************************************************************)
(* The process dies and starts again.  initSynapse and initArchitects read *)
(* nothing back but field reports.  A run that dies between its two        *)
(* transitions leaves the operative in CHECKOUT.                           *)
(***************************************************************************)
Crash ==
    /\ crashes < MaxCrashes
    /\ crashes' = crashes + 1
    /\ \/ UNCHANGED <<state, reason>>
       \/ \E r \in Runs : /\ pc[r] = "claimed"
                          /\ CanMove(OpOf[r], "CHECKOUT")
                          /\ SetState(OpOf[r], "CHECKOUT", Unset)
    /\ pc' = [r \in Runs |-> "none"]
    /\ outcome' = [r \in Runs |-> Unset]
    /\ tool' = [o \in Operatives |-> Unset]
    /\ activity' = [o \in Operatives |-> "unknown"]
    /\ standdown' = FALSE
    /\ timer' = FALSE
    /\ paused' = {}
    /\ UNCHANGED <<spent, status, team, pendingApprovals, board, zombies, compactions>>

-------------------------------------------------------------------------------
Flight(r) ==
    RunSortie(r) \/ Claim(r) \/ Begin(r) \/ Orchestrated(r) \/ Complete(r)
        \/ Report(r) \/ Catch(r) \/ Caught(r)

Tools(o) ==
    \/ \E m \in ToolItems : ToolClaim(o, m) \/ \E out \in Outcomes : ToolComplete(o, m, out)
    \/ ToolCompleted(o)

Next ==
    \/ \E r \in Runs : Flight(r)
    \/ PreCompaction
    \/ Resume
    \/ \E o \in Operatives : Zombie(o)
    \/ \E m \in Missions : RequestApproval(m) \/ ResolveApproval(m)
    \/ \E o \in ToolUsers : Tools(o)
    \/ Crash

Spec == Init /\ [][Next]_vars

(***************************************************************************)
(* The event loop: a settled promise's continuation runs (weak fairness);  *)
(* a due timer and an I/O result are served after finitely many drains,    *)
(* each of which disables them for a moment (strong fairness).  The        *)
(* scheduler's setInterval keeps firing; that memory recall and the        *)
(* orchestrator return or throw is an assumption on the engines.  Nothing  *)
(* is assumed of the resume timer, whose tick waits for a low token count. *)
(***************************************************************************)
SchedulerRuns ==
    \A o \in Operatives : SF_vars(\E r \in Runs : OpOf[r] = o /\ ScheduledSortie(r))

CallsReturn ==
    \A r \in Runs :
        /\ WF_vars(Claim(r) \/ Begin(r) \/ Complete(r) \/ Report(r) \/ Catch(r) \/ Caught(r))
        /\ SF_vars(Orchestrated(r) \/ Catch(r))

ToolsReturn == \A o \in ToolUsers : WF_vars(ToolCompleted(o))

FairSpec == Spec /\ SchedulerRuns /\ CallsReturn /\ ToolsReturn

-------------------------------------------------------------------------------
\* what pc may be, see the top of the module
Awaits == {"none", "echo", "claimed", "orchestrate", "complete", "report", "thrown", "catch"}

TypeOK ==
    /\ state \in [Operatives -> States]
    /\ reason \in [Operatives -> {"budget_exceeded", "compaction", "manual", Unset}]
    /\ spent \in [Operatives -> Nat]
    /\ status \in [Missions -> {"open", "active"} \union Outcomes]
    /\ team \in {"active", "done"}
    /\ pendingApprovals \in [Missions -> Nat]
    /\ holder \in [Missions -> Operatives \union {Unset}]
    /\ item \in [Missions -> {"todo", "claimed"} \union Outcomes]
    /\ pc \in [Runs -> Awaits]
    /\ outcome \in [Runs -> Outcomes \union {Unset}]
    /\ \A r \in Runs : pc[r] \in {"complete", "report"} => outcome[r] # Unset
    /\ tool \in [Operatives -> [item : Missions, status : Outcomes] \union {Unset}]
    /\ activity \in [Operatives -> {"unknown", "never", "sortie"}]
    /\ standdown \in BOOLEAN /\ timer \in BOOLEAN
    /\ paused \subseteq Operatives
    /\ zombies \in Nat /\ compactions \in Nat /\ crashes \in Nat

AtWork == {r \in Runs : pc[r] = "orchestrate"}

Quiet ==
    /\ \A r \in Runs : pc[r] = "none"
    /\ \A o \in Operatives : tool[o] = Unset

(***************************************************************************)
(* state-machine.ts allows no move from ACTIVE to CHECKOUT, so that an     *)
(* operative at work cannot begin a second sortie: two calls of runSortie  *)
(* that passed every check before their awaits still do not work at once.  *)
(***************************************************************************)
SingleFlight == \A r, s \in AtWork : OpOf[r] = OpOf[s] => r = s

(***************************************************************************)
(* enforcer.ts and the check at the top of runSortie: an operative         *)
(* overshoots its budget by its last sortie only, although that check is   *)
(* stale by the time the sortie begins and the cost is known only at its   *)
(* end.                                                                    *)
(***************************************************************************)
BudgetBound ==
    \A o \in Operatives : Cap > 0 /\ spent[o] >= Cap =>
        \E cost \in Costs : spent[o] - cost < Cap

(***************************************************************************)
(* Why the two hold without compaction and ledger failures: an operative   *)
(* at work is ACTIVE or suspended, so CHECKOUT is refused to it, and one   *)
(* that may check out has budget left, whatever its calls read earlier.    *)
(***************************************************************************)
WorkersAreBusy ==
    \A r \in AtWork : /\ state[OpOf[r]] \in {"ACTIVE", "SUSPENDED"}
                      /\ Cap > 0 => spent[OpOf[r]] < Cap

ReadyHaveBudget ==
    \A o \in Operatives : state[o] \in {"IDLE", "CHECKOUT"} /\ Cap > 0 => spent[o] < Cap

FlightInv ==
    /\ ~timer /\ \A r \in Runs : pc[r] # "thrown"
    /\ SingleFlight
    /\ WorkersAreBusy
    /\ ReadyHaveBudget
    /\ BudgetBound

(***************************************************************************)
(* Two writers in two databases agree: when nothing is in flight, a work   *)
(* item nobody holds shows the status of its mission.                      *)
(***************************************************************************)
FreeItemsAgree ==
    Quiet => \A m \in Missions : holder[m] = Unset =>
        item[m] = IF status[m] = "open" THEN "todo" ELSE status[m]

(***************************************************************************)
(* While the orchestrator works for an operative, that operative holds the *)
(* mission's work item, also when another call of its own ends meanwhile.  *)
(***************************************************************************)
WorkIsClaimed == \A r \in AtWork : holder[MissionFor(r)] = OpOf[r]

(***************************************************************************)
(* A suspended operative says why: enforceBudget, the listeners and the    *)
(* transition that ends a sortie all write both columns.                   *)
(***************************************************************************)
SuspensionHasReason ==
    \A o \in Operatives : state[o] = "SUSPENDED" => reason[o] \in {"budget_exceeded", "manual"}

(***************************************************************************)
(* standdown.ts: a stand-down has a timer that will end it, unless a crash *)
(* has left an operative in CHECKOUT, at which the handler throws.         *)
(***************************************************************************)
StanddownEnds == crashes = 0 /\ standdown => timer

(***************************************************************************)
(* Who resumes a suspended operative.  No line of the code does so on      *)
(* purpose; two do: the resume timer (standdown.ts:29), for an operative   *)
(* that was paused and has been suspended since, and the catch block       *)
(* (runner.ts:235) of a call of the operative's own.  Overlapping calls,   *)
(* listeners, tools, approvals, a stand-down and a restart do not.         *)
(***************************************************************************)
ResumedByTimer(o) == o \in paused /\ timer /\ ~timer'

ResumedByCatch(o) == \E r \in Runs : OpOf[r] = o /\ pc[r] # "catch" /\ pc'[r] = "catch"

OnlyTimerAndCatchResume ==
    [][\A o \in Operatives : state[o] = "SUSPENDED" =>
          state'[o] = "SUSPENDED" \/ ResumedByTimer(o) \/ ResumedByCatch(o)]_vars

(***************************************************************************)
(* What the two cost.  BudgetBound fails once a suspension is lifted; what *)
(* is left is the check at the top of runSortie, stale by the time the     *)
(* cost is known: every call in flight may overshoot by its sortie, and    *)
(* none that starts later.                                                 *)
(***************************************************************************)
CallsOf(o) == {r \in Runs : OpOf[r] = o}

OverspendBound ==
    \A o \in Operatives, dearest \in Costs :
        Cap > 0 /\ (\A cost \in Costs : cost <= dearest) =>
            spent[o] < Cap + Cardinality(CallsOf(o)) * dearest

(***************************************************************************)
(* pipeline.ts and scheduler.ts: the mission an operative was left with is *)
(* flown, unless for ever again a stand-down, a suspension, an approval    *)
(* request or another holder of its item keeps the operative off it.  The  *)
(* missions it was dealt before the last one are never flown (theorem      *)
(* MoreMissionsThanOperatives).                                            *)
(***************************************************************************)
KeptOff(o) ==
    \/ standdown
    \/ state[o] = "SUSPENDED"
    \/ pendingApprovals[MissionOf[o]] > 0
    \/ holder[MissionOf[o]] \notin {o, Unset}

LastMissionFlown ==
    \A o \in {OpOf[r] : r \in Runs} : MissionOf[o] # Unset =>
        []<>(status[MissionOf[o]] # "open" \/ KeptOff(o))

(***************************************************************************)
(* runner.ts: a mission that has become active gets an outcome, also when  *)
(* the orchestrator or the ledger throws.  The one exception is a restart: *)
(* the mission it finds active stays so until a call flies it again.       *)
(***************************************************************************)
ActiveMissionsSettle ==
    \A m \in Missions : status[m] = "active" ~>
        \/ status[m] \in Outcomes
        \/ crashes > 0 /\ \A r \in AtWork : MissionFor(r) # m

(***************************************************************************)
(* Sorties as their missions see them: one at a time, each with one        *)
(* outcome.                                                                *)
(***************************************************************************)
Contract == INSTANCE SortieContract WITH working <- {MissionFor(r) : r \in AtWork}

SortieContractSpec == Contract!Spec
===============================================================================
