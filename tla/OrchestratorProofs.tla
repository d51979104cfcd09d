-------------------------- MODULE OrchestratorProofs ---------------------------
(***************************************************************************)
(* Proofs about Orchestrator, for any calls, tasks and threshold, and      *)
(* about McpSession, whose steps are steps of the engine.                  *)
(***************************************************************************)
EXTENDS McpSession, FiniteSetTheorems, TLAPS

--------------------------------------------------------------------------------
(* The circuit's count keeps its types, and opens only at the threshold.   *)
LEMMA CountRunFacts ==
    ASSUME TypeOK, OpenAfterFailures, NEW state, CountRun(state)
    PROVE  streak' \in Nat /\ open' \in BOOLEAN /\ OpenAfterFailures'
<1>1. CASE state = "failed"
  <2>1. streak' = streak + 1 /\ open' = (IF Trips(streak + 1) THEN TRUE ELSE open)
    BY <1>1 DEF CountRun
  <2>2. streak' \in Nat /\ open' \in BOOLEAN
    <3>1. streak' \in Nat
      BY <2>1 DEF TypeOK
    <3>2. open' \in BOOLEAN
      BY <2>1, Zenon DEF TypeOK
    <3> QED
      BY <3>1, <3>2
  <2>3. CASE Trips(streak + 1)
    BY <2>1, <2>2, <2>3 DEF OpenAfterFailures, Trips
  <2>4. CASE ~Trips(streak + 1)
    <3>1. open' = open
      BY <2>1, <2>4
    <3>2. streak >= Threshold => streak' >= Threshold
      BY <2>1, ThresholdAssumption DEF TypeOK
    <3> QED
      BY <2>2, <3>1, <3>2 DEF OpenAfterFailures
  <2> QED
    BY <2>2, <2>3, <2>4
<1>2. CASE state = "merged"
  BY <1>2 DEF TypeOK, OpenAfterFailures, CountRun
<1>3. CASE state \notin {"failed", "merged"}
  BY <1>3 DEF TypeOK, OpenAfterFailures, CountRun
<1> QED
  BY <1>1, <1>2, <1>3

\* The count follows a run, or the call is rejected before it.
LEMMA CountsFacts ==
    ASSUME TypeOK, OpenAfterFailures, NEW c \in Calls, NEW from, Counts(c, from)
    PROVE  /\ streak' \in Nat /\ open' \in BOOLEAN /\ OpenAfterFailures'
           /\ Goes(c, from, "learning") \/ Goes(c, from, "threw")
<1>1. CASE Goes(c, from, "learning") /\ CountRun(result[c])
  BY <1>1, CountRunFacts
<1>2. CASE Goes(c, from, "threw") /\ UNCHANGED <<streak, open>>
  BY <1>2 DEF TypeOK, OpenAfterFailures
<1> QED
  BY <1>1, <1>2 DEF Counts

LEMMA SettlesType ==
    ASSUME TypeOK, NEW c \in Calls, Settles(c)
    PROVE  /\ entry' \in [Tasks -> Runs]
           /\ timers' \in [Tasks -> Nat]
           /\ unlisted' \subseteq Tasks
BY DEF TypeOK, Settles, Runs

\* The engine's variables keep their types, and its circuit is only open
\* with Threshold failures on the count.
TypedCircuit == TypeOK /\ OpenAfterFailures

LEMMA TypedCircuitStep == TypedCircuit /\ [Next]_vars => TypedCircuit'
<1> SUFFICES ASSUME TypeOK, OpenAfterFailures, [Next]_vars
             PROVE  TypedCircuit'
  BY DEF TypedCircuit
<1> USE DEF TypedCircuit
<1>1. ASSUME NEW c \in Calls, Orchestrate(c) PROVE TypedCircuit'
  BY <1>1 DEF Orchestrate, Goes, TypeOK, OpenAfterFailures, runVars
<1>2. ASSUME NEW c \in Calls, PlanFails(c) PROVE TypedCircuit'
  BY <1>2 DEF PlanFails, Goes, TypeOK, OpenAfterFailures, runVars
<1>3. ASSUME NEW c \in Calls, Planned(c) PROVE TypedCircuit'
  <2>1. CASE JoinsRun(c)
    BY <1>3, <2>1 DEF Planned, Goes, TypeOK, OpenAfterFailures, Copied
  <2>2. CASE ~JoinsRun(c)
    BY <1>3, <2>2 DEF Planned, Goes, TypeOK, OpenAfterFailures, Copied, Runs
  <2> QED
    BY <2>1, <2>2
<1>4. ASSUME NEW c \in Calls, RunEnds(c) PROVE TypedCircuit'
  <2>1. result' \in [Calls -> {"none", "threw"} \cup RunStates]
    BY <1>4 DEF RunEnds, TypeOK
  <2> QED
    BY <1>4, <2>1 DEF RunEnds, Goes, TypeOK, OpenAfterFailures
<1>5. ASSUME NEW c \in Calls, RunThrows(c) PROVE TypedCircuit'
  <2>1. streak' \in Nat /\ open' \in BOOLEAN /\ OpenAfterFailures'
    BY <1>5, CountRunFacts DEF RunThrows, TypeOK, OpenAfterFailures
  <2> QED
    BY <1>5, <2>1, SettlesType DEF RunThrows, Goes, TypeOK
<1>6. ASSUME NEW c \in Calls, RunReturns(c) PROVE TypedCircuit'
  <2>1. \/ Goes(c, "settled", "counting") /\ UNCHANGED <<streak, open>>
        \/ Counts(c, "settled")
    BY <1>6 DEF RunReturns
  <2>2. streak' \in Nat /\ open' \in BOOLEAN /\ OpenAfterFailures'
    BY <2>1, CountsFacts DEF TypeOK, OpenAfterFailures
  <2>3. PICK to \in {"counting", "learning", "threw"} : Goes(c, "settled", to)
    BY <2>1, CountsFacts
  <2>4. pc' \in [Calls -> {"idle", "planning", "running", "settled", "sharing",
                           "counting", "learning", "returned", "threw"}]
    BY <2>3 DEF Goes, TypeOK
  <2>5. seen[c].failures \in 0..MaxRepeated
    BY DEF TypeOK, Sessions
  <2>6. Repeated(result[c], seen[c].failures) \in 0..MaxRepeated
    BY <2>5 DEF Repeated, MaxRepeated
  <2>7. session' \in Sessions /\ lastRun' \in Runs
    BY <1>6, <2>6 DEF RunReturns, Sessions, Runs
  <2> QED
    BY <1>6, <2>2, <2>4, <2>7, SettlesType DEF RunReturns, TypeOK
<1>7. ASSUME NEW c \in Calls, CountsLate(c) PROVE TypedCircuit'
  <2>1. /\ streak' \in Nat /\ open' \in BOOLEAN /\ OpenAfterFailures'
        /\ Goes(c, "counting", "learning") \/ Goes(c, "counting", "threw")
    BY <1>7, CountsFacts DEF CountsLate
  <2> QED
    BY <1>7, <2>1 DEF CountsLate, Goes, TypeOK, runVars
<1>8. ASSUME NEW c \in Calls, Learned(c) PROVE TypedCircuit'
  BY <1>8 DEF Learned, Goes, TypeOK, OpenAfterFailures, runVars
<1>9. ASSUME NEW c \in Calls, ShareEnds(c) PROVE TypedCircuit'
  BY <1>9 DEF ShareEnds, Goes, TypeOK, OpenAfterFailures, runVars
<1>10. ASSUME CooldownEnds PROVE TypedCircuit'
  BY <1>10 DEF CooldownEnds, TypeOK, OpenAfterFailures, runVars
<1>11. ASSUME NEW t \in Tasks, DeleteTimer(t) PROVE TypedCircuit'
  BY <1>11 DEF DeleteTimer, Pending, TypeOK, OpenAfterFailures, Runs
<1>12. CASE UNCHANGED vars
  BY <1>12 DEF vars, TypeOK, OpenAfterFailures
<1> QED
  BY <1>1, <1>2, <1>3, <1>5, <1>6, <1>7, <1>8, <1>9, <1>10, <1>11, <1>12, <1>4
     DEF Next, CallStep, Clock

LEMMA TypedCircuitInit == Init => TypedCircuit
<1> SUFFICES ASSUME Init PROVE TypedCircuit
  OBVIOUS
<1>1. Loaded \in Sessions
  BY LoadedAssumption DEF Sessions
<1>2. OpenAfterFailures /\ streak \in Nat /\ open \in BOOLEAN
  BY DEF Init, OpenAfterFailures
<1> QED
  BY <1>1, <1>2 DEF Init, TypedCircuit, TypeOK, Runs

\* Orchestrator's variables keep their types.
THEOREM EngineTypeCorrect == Spec => []TypeOK
<1>1. TypedCircuit => TypeOK
  BY DEF TypedCircuit
<1> QED
  BY <1>1, TypedCircuitInit, TypedCircuitStep, PTL DEF Spec

\* The circuit turns calls away only after Threshold failures that no merge
\* has cleared, in whatever order overlapping runs are counted.
THEOREM CircuitOpensOnFailures == Spec => []OpenAfterFailures
<1>1. TypedCircuit => OpenAfterFailures
  BY DEF TypedCircuit
<1> QED
  BY <1>1, TypedCircuitInit, TypedCircuitStep, PTL DEF Spec

--------------------------------------------------------------------------------
(* The dedupe store: what is listed for a task is running, for that task,  *)
(* and a running call is listed unless its task lost its entry.            *)
ListedIsRunning ==
    \A t \in Tasks : entry[t] # NoRun =>
        entry[t] \in Calls /\ Running(entry[t]) /\ task[entry[t]] = t
RunningIsListed ==
    \A c \in Calls : Running(c) => entry[task[c]] = c \/ task[c] \in unlisted
DedupeInv == ListedIsRunning /\ RunningIsListed

\* The end of a run leaves the other tasks' entries alone.
LEMMA SettlesKeepsDedupe ==
    ASSUME TypeOK, DedupeInv, NEW c \in Calls, Running(c), Settles(c),
           ~Running(c)',
           \A d \in Calls \ {c} : pc'[d] = pc[d], task' = task
    PROVE  DedupeInv'
<1>1. ListedIsRunning'
  <2> SUFFICES ASSUME NEW t \in Tasks, entry'[t] # NoRun
               PROVE  entry'[t] \in Calls /\ Running(entry[t])' /\ task'[entry'[t]] = t
    BY DEF ListedIsRunning, Running
  <2>1. t # task[c] /\ entry'[t] = entry[t]
    BY DEF Settles, TypeOK
  <2>2. entry[t] \in Calls \ {c}
    BY <2>1 DEF DedupeInv, ListedIsRunning
  <2> QED
    BY <2>1, <2>2 DEF DedupeInv, ListedIsRunning, Running
<1>2. RunningIsListed'
  <2> SUFFICES ASSUME NEW d \in Calls, Running(d)'
               PROVE  entry'[task[d]] = d \/ task[d] \in unlisted'
    BY DEF RunningIsListed
  <2>1. d # c /\ Running(d) /\ task[d] \in Tasks
    BY DEF Running, TypeOK
  <2>2. CASE task[d] = task[c]
    BY <2>1, <2>2 DEF Settles
  <2>3. CASE task[d] # task[c]
    BY <2>1, <2>3 DEF Settles, TypeOK, DedupeInv, RunningIsListed
  <2> QED
    BY <2>2, <2>3
<1> QED
  BY <1>1, <1>2 DEF DedupeInv

\* A step that moves a call between states in which it does not run.
LEMMA OtherStepsKeepDedupe ==
    ASSUME TypeOK, DedupeInv, NEW c \in Calls, NEW to,
           ~Running(c), to \notin {"running", "settled"}, pc' = [pc EXCEPT ![c] = to],
           UNCHANGED <<task, entry, unlisted>>
    PROVE  DedupeInv'
BY DEF TypeOK, DedupeInv, ListedIsRunning, RunningIsListed, Running

LEMMA DedupeStep == TypeOK /\ DedupeInv /\ [Next]_vars => DedupeInv'
<1> SUFFICES ASSUME TypeOK, DedupeInv, [Next]_vars
             PROVE  DedupeInv'
  OBVIOUS
<1>1. ASSUME NEW c \in Calls, Orchestrate(c) PROVE DedupeInv'
  BY <1>1, OtherStepsKeepDedupe DEF Orchestrate, Goes, Running, runVars
<1>2. ASSUME NEW c \in Calls, PlanFails(c) PROVE DedupeInv'
  BY <1>2, OtherStepsKeepDedupe DEF PlanFails, Goes, Running, runVars
<1>3. ASSUME NEW c \in Calls, Planned(c) PROVE DedupeInv'
  <2>1. CASE JoinsRun(c)
    BY <1>3, <2>1, OtherStepsKeepDedupe DEF Planned, Goes, Running
  <2>2. CASE ~JoinsRun(c)
    <3>1. /\ entry[task[c]] = NoRun /\ task[c] \in Tasks
          /\ entry' = [entry EXCEPT ![task[c]] = c]
          /\ pc' = [pc EXCEPT ![c] = "running"] /\ pc[c] = "planning"
          /\ UNCHANGED <<task, unlisted>>
      BY <1>3, <2>2 DEF Planned, Goes, JoinsRun, TypeOK
    <3>2. ListedIsRunning'
      BY <3>1 DEF TypeOK, DedupeInv, ListedIsRunning, Running
    <3>3. RunningIsListed'
      <4> SUFFICES ASSUME NEW d \in Calls, Running(d)'
                   PROVE  entry'[task[d]] = d \/ task[d] \in unlisted
        BY <3>1 DEF RunningIsListed
      <4>1. CASE d = c
        BY <3>1, <4>1 DEF TypeOK
      <4>2. CASE d # c
        <5>1. Running(d) /\ task[d] \in Tasks
          BY <3>1, <4>2 DEF Running, TypeOK
        <5>2. entry[task[d]] = d \/ task[d] \in unlisted
          BY <5>1 DEF DedupeInv, RunningIsListed
        <5> QED
          BY <3>1, <4>2, <5>1, <5>2, CallsAssumption DEF TypeOK
      <4> QED
        BY <4>1, <4>2
    <3> QED
      BY <3>2, <3>3 DEF DedupeInv
  <2> QED
    BY <2>1, <2>2
<1>4. ASSUME NEW c \in Calls, RunEnds(c) PROVE DedupeInv'
  BY <1>4 DEF RunEnds, Goes, TypeOK, DedupeInv, ListedIsRunning, RunningIsListed, Running
<1>5. ASSUME NEW c \in Calls, RunThrows(c) PROVE DedupeInv'
  BY <1>5, SettlesKeepsDedupe DEF RunThrows, Goes, Running, TypeOK
<1>6. ASSUME NEW c \in Calls, RunReturns(c) PROVE DedupeInv'
  BY <1>6, SettlesKeepsDedupe DEF RunReturns, Counts, Goes, Running, TypeOK
<1>7. ASSUME NEW c \in Calls, CountsLate(c) PROVE DedupeInv'
  BY <1>7, OtherStepsKeepDedupe DEF CountsLate, Counts, Goes, Running, runVars
<1>8. ASSUME NEW c \in Calls, Learned(c) PROVE DedupeInv'
  BY <1>8, OtherStepsKeepDedupe DEF Learned, Goes, Running, runVars
<1>9. ASSUME NEW c \in Calls, ShareEnds(c) PROVE DedupeInv'
  BY <1>9, OtherStepsKeepDedupe DEF ShareEnds, Goes, Running, runVars
<1>10. ASSUME CooldownEnds PROVE DedupeInv'
  BY <1>10 DEF CooldownEnds, runVars, DedupeInv, ListedIsRunning, RunningIsListed, Running
<1>11. ASSUME NEW t \in Tasks, DeleteTimer(t) PROVE DedupeInv'
  <2>1. ListedIsRunning'
    BY <1>11 DEF DeleteTimer, TypeOK, DedupeInv, ListedIsRunning, Running
  <2>2. RunningIsListed'
    BY <1>11, CallsAssumption DEF DeleteTimer, TypeOK, DedupeInv, RunningIsListed, Running
  <2> QED
    BY <2>1, <2>2 DEF DedupeInv
<1>12. CASE UNCHANGED vars
  BY <1>12 DEF vars, DedupeInv, ListedIsRunning, RunningIsListed, Running
<1> QED
  BY <1>1, <1>2, <1>3, <1>5, <1>6, <1>7, <1>8, <1>9, <1>10, <1>11, <1>12, <1>4
     DEF Next, CallStep, Clock

LEMMA DedupeInit == Init => DedupeInv
BY DEF Init, DedupeInv, ListedIsRunning, RunningIsListed, Running

\* Runs of one task overlap only when a delete timer removed a running
\* entry: the dedupe store's other steps never lose one.
THEOREM RunsAreDeduplicated == Spec => []OneRunPerTask
<1>1. DedupeInv => OneRunPerTask
  BY DEF DedupeInv, RunningIsListed, OneRunPerTask
<1> QED
  BY <1>1, EngineTypeCorrect, DedupeInit, DedupeStep, PTL DEF Spec

\* Whoever joins a run joins one that is under way.
THEOREM SharedRunsAreLive == Spec => SharesLiveRun
<1>1. TypeOK /\ DedupeInv /\ [Next]_vars =>
          [\A c \in Calls : pc[c] = "planning" /\ pc'[c] = "sharing" =>
               shares'[c] \in Calls \ {c} /\ Running(shares'[c])]_vars
  <2> SUFFICES ASSUME TypeOK, DedupeInv, [Next]_vars,
                      NEW c \in Calls, pc[c] = "planning", pc'[c] = "sharing"
               PROVE  shares'[c] \in Calls \ {c} /\ Running(shares'[c])
    OBVIOUS
  <2>1. Planned(c)
    BY DEF Next, CallStep, Clock, Orchestrate, PlanFails, Planned, RunEnds, RunThrows,
           RunReturns, Counts, CountsLate, Learned, ShareEnds, CooldownEnds, DeleteTimer, Goes, TypeOK, vars
  <2>2. JoinsRun(c) /\ shares'[c] = entry[task[c]] /\ task[c] \in Tasks
    BY <2>1 DEF Planned, Goes, TypeOK
  <2> QED
    BY <2>2 DEF JoinsRun, DedupeInv, ListedIsRunning, Running
<1> QED
  BY <1>1, EngineTypeCorrect, DedupeInit, DedupeStep, PTL DEF Spec, SharesLiveRun

--------------------------------------------------------------------------------
(* Who waits for whom: a call that shares a run waits for a call of its    *)
(* own task whose run is under way or has ended.                           *)
AfterRun == {"counting", "learning", "returned", "threw"}
WaitsInv ==
    /\ \A c \in Calls : Ended(c) => pc[c] \in AfterRun \cup {"settled"}
    /\ \A c \in Calls : pc[c] = "settled" => Ended(c)
    /\ \A c \in Calls : pc[c] = "sharing" =>
          /\ shares[c] \in Calls /\ task[shares[c]] = task[c]
          /\ Running(shares[c]) \/ Ended(shares[c])

\* A step that moves one call elsewhere than to "sharing" and ends no run but
\* its own keeps it.
LEMMA OneCallMoves ==
    ASSUME TypeOK, WaitsInv, NEW c \in Calls, NEW from, NEW to, Goes(c, from, to),
           to # "sharing", task' = task,
           \A d \in Calls \ {c} : shares'[d] = shares[d] /\ result'[d] = result[d],
           Ended(c) => Ended(c)',
           from = "running" \/ to = "settled" => Ended(c)',
           Ended(c)' => to \in AfterRun \cup {"settled"}
    PROVE  WaitsInv'
<1>1. /\ pc[c] = from /\ pc'[c] = to
      /\ \A d \in Calls \ {c} : pc'[d] = pc[d]
  BY DEF Goes, TypeOK
<1>2. \A d \in Calls : Ended(d)' => pc'[d] \in AfterRun \cup {"settled"}
  BY <1>1 DEF WaitsInv, Ended
<1>3. \A d \in Calls : Running(d) \/ Ended(d) => Running(d)' \/ Ended(d)'
  BY <1>1 DEF Running, Ended, WaitsInv
<1>4. \A d \in Calls : pc'[d] = "settled" => Ended(d)'
  BY <1>1 DEF WaitsInv, Ended
<1>5. ASSUME NEW d \in Calls, pc'[d] = "sharing"
      PROVE  /\ shares'[d] \in Calls /\ task'[shares'[d]] = task'[d]
             /\ Running(shares[d])' \/ Ended(shares[d])'
  <2>1. d # c /\ pc[d] = "sharing" /\ shares'[d] = shares[d]
    BY <1>1, <1>5
  <2> QED
    BY <1>3, <2>1 DEF WaitsInv, Running, Ended
<1> QED
  BY <1>2, <1>5, <1>4 DEF WaitsInv

LEMMA WaitsStep == TypeOK /\ DedupeInv /\ WaitsInv /\ [Next]_vars => WaitsInv'
<1> SUFFICES ASSUME TypeOK, DedupeInv, WaitsInv, [Next]_vars PROVE WaitsInv'
  OBVIOUS
<1>1. ASSUME NEW c \in Calls, Planned(c) PROVE WaitsInv'
  <2>1. /\ pc[c] = "planning" /\ UNCHANGED <<task, result>> /\ ~Ended(c) /\ ~Ended(c)'
    BY <1>1 DEF Planned, Goes, WaitsInv, AfterRun, Ended
  <2>2. CASE JoinsRun(c)
    <3>1. /\ shares'[c] = entry[task[c]] /\ pc'[c] = "sharing" /\ task[c] \in Tasks
          /\ \A d \in Calls \ {c} : pc'[d] = pc[d] /\ shares'[d] = shares[d]
      BY <1>1, <2>2 DEF Planned, Goes, TypeOK
    <3>2. /\ shares'[c] \in Calls /\ Running(shares'[c]) /\ task[shares'[c]] = task[c]
      BY <2>2, <3>1 DEF JoinsRun, DedupeInv, ListedIsRunning
    <3>3. \A d \in Calls : Running(d) \/ Ended(d) => (Running(d)' \/ Ended(d)') /\ d # c
      BY <2>1, <3>1 DEF Running, Ended
    <3>4. \A d \in Calls : /\ Ended(d)' => pc'[d] \in AfterRun \cup {"settled"}
                           /\ pc'[d] = "settled" => Ended(d)'
      BY <2>1, <3>1 DEF WaitsInv, Ended
    <3>5. ASSUME NEW d \in Calls, pc'[d] = "sharing"
          PROVE  /\ shares'[d] \in Calls /\ task'[shares'[d]] = task'[d]
                 /\ Running(shares[d])' \/ Ended(shares[d])'
      <4>1. CASE d = c
        BY <2>1, <3>2, <3>3, <4>1 DEF Running, Ended
      <4>2. CASE d # c
        <5>1. pc[d] = "sharing" /\ shares'[d] = shares[d]
          BY <3>1, <3>5, <4>2
        <5> QED
          BY <2>1, <3>3, <5>1 DEF WaitsInv, Running, Ended
      <4> QED
        BY <4>1, <4>2
    <3> QED
      BY <3>4, <3>5 DEF WaitsInv
  <2>3. CASE ~JoinsRun(c)
    <3>1. Goes(c, "planning", "running") /\ UNCHANGED shares
      BY <1>1, <2>3 DEF Planned
    <3> QED
      BY <2>1, <3>1, OneCallMoves
  <2> QED
    BY <2>2, <2>3
<1>2. ASSUME NEW c \in Calls, Orchestrate(c) \/ PlanFails(c) PROVE WaitsInv'
  <2>1. UNCHANGED <<task, shares, result>> /\ (Ended(c)' <=> Ended(c))
    BY <1>2 DEF Orchestrate, PlanFails, runVars, Ended
  <2>2. PICK from \in {"idle", "planning"}, to \in {"threw", "planning"} : Goes(c, from, to)
    BY <1>2 DEF Orchestrate, PlanFails
  <2>3. ~Ended(c)
    BY <2>2 DEF Goes, WaitsInv, AfterRun
  <2> QED
    BY <2>1, <2>2, <2>3, OneCallMoves
<1>3. ASSUME NEW c \in Calls, RunEnds(c) PROVE WaitsInv'
  <2>1. UNCHANGED <<task, shares>> /\ Goes(c, "running", "settled")
    BY <1>3 DEF RunEnds
  <2>2. Ended(c)' /\ \A d \in Calls \ {c} : result'[d] = result[d]
    BY <1>3 DEF RunEnds, RunStates, TypeOK, Ended
  <2> QED
    BY <2>1, <2>2, OneCallMoves
<1>4. ASSUME NEW c \in Calls, RunThrows(c) \/ RunReturns(c) PROVE WaitsInv'
  <2>1. UNCHANGED <<task, shares, result>> /\ (Ended(c)' <=> Ended(c))
    BY <1>4 DEF RunThrows, RunReturns, Ended
  <2>2. PICK to \in AfterRun : Goes(c, "settled", to)
    BY <1>4 DEF RunThrows, RunReturns, Counts, AfterRun
  <2>3. to \notin {"sharing", "settled"}
    BY DEF AfterRun
  <2> QED
    BY <2>1, <2>2, <2>3, OneCallMoves
<1>5. ASSUME NEW c \in Calls, CountsLate(c) \/ Learned(c) \/ ShareEnds(c) PROVE WaitsInv'
  <2>1. UNCHANGED <<task, shares, result>> /\ (Ended(c)' <=> Ended(c))
    BY <1>5 DEF CountsLate, Learned, ShareEnds, runVars, Ended
  <2>2. PICK from \in {"counting", "learning", "sharing"}, to \in AfterRun : Goes(c, from, to)
    BY <1>5 DEF CountsLate, Counts, Learned, ShareEnds, AfterRun
  <2>3. to \notin {"sharing", "settled"} /\ from # "running"
    BY DEF AfterRun
  <2> QED
    BY <2>1, <2>2, <2>3, OneCallMoves
<1>6. CASE Clock \/ UNCHANGED vars
  BY <1>6 DEF Clock, CooldownEnds, DeleteTimer, runVars, vars, WaitsInv, Running, Ended
<1> QED
  BY <1>1, <1>2, <1>4, <1>5, <1>6, <1>3 DEF Next, CallStep

LEMMA WaitsInit == Init => WaitsInv
BY DEF Init, WaitsInv, Ended

\* No call waits for one that waits in turn, or for a run that was never
\* started or whose end nobody will report: what a sharing call awaits is
\* another call's run of the same task, under way or ended.
THEOREM SharersAwaitRuns ==
    Spec => [](\A c \in Calls : pc[c] = "sharing" =>
                  /\ shares[c] \in Calls \ {c} /\ task[shares[c]] = task[c]
                  /\ Running(shares[c]) \/ (Ended(shares[c]) /\ pc[shares[c]] \in AfterRun))
<1> DEFINE Awaits ==
       \A c \in Calls : pc[c] = "sharing" =>
          /\ shares[c] \in Calls \ {c} /\ task[shares[c]] = task[c]
          /\ Running(shares[c]) \/ (Ended(shares[c]) /\ pc[shares[c]] \in AfterRun)
<1>1. WaitsInv => Awaits
  BY DEF WaitsInv, Running, AfterRun
<1> HIDE DEF Awaits
<1>2. Spec => []Awaits
  BY <1>1, EngineTypeCorrect, DedupeInit, DedupeStep, WaitsInit, WaitsStep, PTL DEF Spec
<1> QED
  BY <1>2 DEF Awaits

--------------------------------------------------------------------------------
\* The copy of the session that a call writes back names its own run, and
\* every other step keeps the name the session had.
THEOREM SessionFollowsRuns == Spec => []SessionNamesLastRun
<1>1. Init => SessionNamesLastRun
  BY DEF Init, SessionNamesLastRun
<1>2. SessionNamesLastRun /\ [Next]_vars => SessionNamesLastRun'
  BY CallsAssumption
     DEF SessionNamesLastRun, Next, CallStep, Clock, Orchestrate, PlanFails, Planned, Copied,
         RunEnds, RunThrows, RunReturns, CountsLate, Learned, ShareEnds, CooldownEnds, DeleteTimer,
         vars, runVars
<1> QED
  BY <1>1, <1>2, PTL DEF Spec

(* The failures a session counts, and those a call's copy of it counts,    *)
(* are at most the loaded ones and the runs that failed and were followed. *)
BeforeEnd == {"idle", "planning", "running"}
Failed == {c \in Calls : result[c] = "failed" /\ pc[c] # "settled"}
Bound == Loaded.failures + Cardinality(Failed)
CountsFailures ==
    /\ session.failures <= Bound
    /\ \A c \in Calls : seen[c].failures <= Bound
    /\ \A c \in Calls : pc[c] \in BeforeEnd => result[c] = "none"

LEMMA FailedIsFinite ==
    /\ IsFiniteSet(Failed) /\ Cardinality(Failed) \in Nat
    /\ Loaded.failures \in Nat
<1>1. IsFiniteSet(Failed) /\ Cardinality(Failed) \in Nat
  BY CallsAssumption, FS_Subset, FS_CardinalityType DEF Failed
<1>2. Loaded.failures \in 0..MaxRepeated
  BY LoadedAssumption
<1> QED
  BY <1>1, <1>2 DEF MaxRepeated

\* A step that follows no run to its end keeps the count.
LEMMA SameRunsSameCount ==
    ASSUME TypeOK, CountsFailures, UNCHANGED result,
           session' = session,
           \A c \in Calls : seen'[c] = seen[c] \/ seen'[c] = session,
           \A c \in Calls : pc'[c] = "settled" <=> pc[c] = "settled",
           \A c \in Calls : pc'[c] \in BeforeEnd => pc[c] \in BeforeEnd
    PROVE  CountsFailures'
<1>1. Failed' = Failed
  BY DEF Failed
<1>2. Bound' = Bound
  BY <1>1 DEF Bound
<1> QED
  BY <1>2 DEF CountsFailures

\* A run that was followed adds itself to those that failed, or leaves them.
LEMMA FollowedRunCounts ==
    ASSUME TypeOK, NEW c \in Calls, NEW to, Goes(c, "settled", to),
           to # "settled", UNCHANGED result
    PROVE  /\ result[c] = "failed" => Bound' = Bound + 1
           /\ result[c] # "failed" => Bound' = Bound
<1>1. c \notin Failed /\ pc' = [pc EXCEPT ![c] = to]
  BY DEF Failed, Goes
<1>2. CASE result[c] = "failed"
  <2>1. Failed' = Failed \cup {c}
    BY <1>1, <1>2 DEF Failed, TypeOK
  <2>2. Cardinality(Failed') = Cardinality(Failed) + 1
    BY <1>1, <2>1, FailedIsFinite, FS_AddElement
  <2> QED
    BY <1>2, <2>2, FailedIsFinite DEF Bound
<1>3. CASE result[c] # "failed"
  <2>1. Failed' = Failed
    BY <1>1, <1>3 DEF Failed, TypeOK
  <2> QED
    BY <1>3, <2>1 DEF Bound
<1> QED
  BY <1>2, <1>3

LEMMA CountsFailuresStep == TypeOK /\ CountsFailures /\ [Next]_vars => CountsFailures'
<1> SUFFICES ASSUME TypeOK, CountsFailures, [Next]_vars
             PROVE  CountsFailures'
  OBVIOUS
<1>1. ASSUME NEW c \in Calls, Orchestrate(c) PROVE CountsFailures'
  BY <1>1, SameRunsSameCount DEF Orchestrate, Goes, BeforeEnd, runVars, TypeOK
<1>2. ASSUME NEW c \in Calls, PlanFails(c) PROVE CountsFailures'
  BY <1>2, SameRunsSameCount DEF PlanFails, Goes, BeforeEnd, runVars, TypeOK
<1>3. ASSUME NEW c \in Calls, Planned(c) PROVE CountsFailures'
  <2>1. session' = session /\ result' = result
    BY <1>3 DEF Planned, Copied
  <2>2. \A d \in Calls : seen'[d] = seen[d] \/ seen'[d] = session
    BY <1>3 DEF Planned, Copied, TypeOK
  <2>3. /\ \A d \in Calls : pc'[d] = "settled" <=> pc[d] = "settled"
        /\ \A d \in Calls : pc'[d] \in BeforeEnd => pc[d] \in BeforeEnd
    BY <1>3 DEF Planned, Goes, BeforeEnd, TypeOK
  <2> QED
    BY <2>1, <2>2, <2>3, SameRunsSameCount
<1>4. ASSUME NEW c \in Calls, RunEnds(c) PROVE CountsFailures'
  <2>1. /\ pc' = [pc EXCEPT ![c] = "settled"] /\ pc[c] = "running"
        /\ session' = session /\ seen' = seen
        /\ \A d \in Calls \ {c} : result'[d] = result[d]
    BY <1>4 DEF RunEnds, Goes, TypeOK
  <2>2. Failed' = Failed
    <3>1. result[c] = "none"
      BY <2>1 DEF CountsFailures, BeforeEnd
    <3> QED
      BY <2>1, <3>1 DEF Failed, TypeOK
  <2>3. \A d \in Calls : pc'[d] \in BeforeEnd => result'[d] = "none"
    BY <2>1 DEF CountsFailures, BeforeEnd, TypeOK
  <2> QED
    BY <2>1, <2>2, <2>3 DEF CountsFailures, Bound
<1>5. ASSUME NEW c \in Calls, RunThrows(c) PROVE CountsFailures'
  <2>1. Bound' = Bound
    BY <1>5, FollowedRunCounts DEF RunThrows
  <2>2. \A d \in Calls : pc'[d] \in BeforeEnd => pc'[d] = pc[d]
    BY <1>5 DEF RunThrows, Goes, BeforeEnd, TypeOK
  <2> QED
    BY <1>5, <2>1, <2>2 DEF RunThrows, CountsFailures
<1>6. ASSUME NEW c \in Calls, RunReturns(c) PROVE CountsFailures'
  <2>1. PICK to \in {"counting", "learning", "threw"} : Goes(c, "settled", to)
    BY <1>6 DEF RunReturns, Counts
  <2>2. /\ result[c] = "failed" => Bound' = Bound + 1
        /\ result[c] # "failed" => Bound' = Bound
    BY <1>6, <2>1, FollowedRunCounts DEF RunReturns
  <2>3. Bound \in Nat
    BY FailedIsFinite DEF Bound
  <2>4. seen[c].failures \in 0..MaxRepeated /\ seen[c].failures <= Bound
    BY DEF TypeOK, Sessions, CountsFailures
  <2>5. session'.failures <= Bound'
    <3>1. session'.failures = Repeated(result[c], seen[c].failures)
      BY <1>6 DEF RunReturns
    <3> QED
      BY <2>2, <2>3, <2>4, <3>1 DEF Repeated, MaxRepeated
  <2>6. \A d \in Calls : seen'[d].failures <= Bound'
    <3> SUFFICES ASSUME NEW d \in Calls PROVE seen'[d].failures <= Bound'
      OBVIOUS
    <3>1. seen'[d] = seen[d] /\ seen[d].failures \in Nat /\ seen[d].failures <= Bound
      BY <1>6 DEF RunReturns, TypeOK, Sessions, CountsFailures, MaxRepeated
    <3> QED
      BY <2>2, <2>3, <3>1
  <2>7. \A d \in Calls : pc'[d] \in BeforeEnd => result'[d] = "none"
    BY <1>6, <2>1 DEF RunReturns, Goes, BeforeEnd, CountsFailures, TypeOK
  <2> QED
    BY <2>5, <2>6, <2>7 DEF CountsFailures
<1>7. ASSUME NEW c \in Calls, CountsLate(c) PROVE CountsFailures'
  BY <1>7, SameRunsSameCount DEF CountsLate, Counts, Goes, BeforeEnd, runVars, TypeOK
<1>8. ASSUME NEW c \in Calls, Learned(c) PROVE CountsFailures'
  BY <1>8, SameRunsSameCount DEF Learned, Goes, BeforeEnd, runVars, TypeOK
<1>9. ASSUME NEW c \in Calls, ShareEnds(c) PROVE CountsFailures'
  BY <1>9, SameRunsSameCount DEF ShareEnds, Goes, BeforeEnd, runVars, TypeOK
<1>10. ASSUME CooldownEnds PROVE CountsFailures'
  BY <1>10, SameRunsSameCount DEF CooldownEnds, runVars
<1>11. ASSUME NEW t \in Tasks, DeleteTimer(t) PROVE CountsFailures'
  BY <1>11, SameRunsSameCount DEF DeleteTimer
<1>12. CASE UNCHANGED vars
  BY <1>12, SameRunsSameCount DEF vars
<1> QED
  BY <1>1, <1>2, <1>3, <1>5, <1>6, <1>7, <1>8, <1>9, <1>10, <1>11, <1>12, <1>4
     DEF Next, CallStep, Clock

\* Overlapping calls lose counted failures, or bring cleared ones back from
\* a stale copy, but the session never counts more than did fail.
THEOREM NoFailureInvented == Spec => []FailuresHappened
<1>1. Init => CountsFailures
  <2> SUFFICES ASSUME Init PROVE CountsFailures
    OBVIOUS
  <2>1. /\ session = Loaded /\ \A c \in Calls : seen[c] = Loaded
        /\ \A c \in Calls : result[c] = "none"
    BY DEF Init
  <2>2. Loaded.failures <= Bound
    BY FailedIsFinite DEF Bound
  <2> QED
    BY <2>1, <2>2 DEF CountsFailures
<1>2. TypeOK /\ CountsFailures => FailuresHappened
  <2> SUFFICES ASSUME TypeOK, CountsFailures PROVE FailuresHappened
    OBVIOUS
  <2> DEFINE all == {c \in Calls : result[c] = "failed"}
  <2>1. IsFiniteSet(all) /\ Failed \subseteq all
    BY CallsAssumption, FS_Subset DEF Failed
  <2>2. Cardinality(Failed) <= Cardinality(all) /\ Cardinality(all) \in Nat
    BY <2>1, FS_Subset, FS_CardinalityType
  <2>3. session.failures \in Nat /\ session.failures <= Loaded.failures + Cardinality(Failed)
    BY DEF TypeOK, Sessions, CountsFailures, Bound, MaxRepeated
  <2> QED
    BY <2>2, <2>3, FailedIsFinite DEF FailuresHappened
<1> QED
  BY <1>1, <1>2, EngineTypeCorrect, CountsFailuresStep, PTL DEF Spec

--------------------------------------------------------------------------------
\* Under the MCP adapter the engine takes only steps of its own, so all of
\* the above holds of every session a client drives.
THEOREM SessionsDriveTheEngine == McpSpec => Spec
<1>1. McpInit => Init
  BY DEF McpInit
<1>2. [McpNext]_allVars => [Next]_vars
  BY DEF McpNext, allVars, Request, Drives, BootstrapPlans, Answer, ToolThrows, Next
<1> QED
  BY <1>1, <1>2, PTL DEF McpSpec, Spec

(* What the telemetry's operators do to its type, and to what is paid.      *)
Telemetry == [phase : Phases, optimized : BOOLEAN, auto : BOOLEAN, files : BOOLEAN,
              stored : BOOLEAN, dna : BOOLEAN, since : 0..RemindAfter]

\* What t counts as paid was heard, and nothing but a plan in a fresh phase.
Backed(t, h) ==
    /\ t.stored => "store" \in h
    /\ t.dna => "dna" \in h
    /\ t.optimized => h \cap {"optimize", "plan"} # {}
    /\ t.auto => "plan" \in h

LEMMA RecordedFacts ==
    ASSUME NEW t \in Telemetry
    PROVE  /\ Recorded(t) \in Telemetry
           /\ Recorded(t).phase = t.phase
           /\ \A h : Backed(t, h) => Backed(Recorded(t), h)
           /\ /\ Recorded(t).files = t.files /\ Recorded(t).auto = t.auto
              /\ Recorded(t).optimized = t.optimized /\ Recorded(t).stored = t.stored
           /\ t.since >= RemindAfter => Recorded(t).since >= RemindAfter
BY RemindAssumption DEF Recorded, Telemetry, Backed

LEMMA AdvanceFacts ==
    ASSUME NEW t \in Telemetry, NEW next \in Phases
    PROVE  /\ Advance(t, next) \in Telemetry
           /\ Advance(t, next).phase = next
           /\ \A h : Backed(t, h) => Backed(Advance(t, next), h)
           /\ next = "orchestrated" /\ t.phase # next =>
                 \A h : Backed(Advance(t, next), h)
           /\ next \notin {"bootstrapped", "orchestrated"} =>
                 Advance(t, next) = [t EXCEPT !.phase = next]
<1>1. CASE t.phase = next
  <2>1. Advance(t, next) = t
    BY <1>1 DEF Advance
  <2>2. t = [t EXCEPT !.phase = next]
    BY <1>1 DEF Telemetry
  <2> QED
    BY <1>1, <2>1, <2>2
<1>2. CASE t.phase # next /\ next = "bootstrapped"
  BY <1>2 DEF Advance, Telemetry, Backed
<1>3. CASE t.phase # next /\ next = "orchestrated"
  BY <1>3, RemindAssumption DEF Advance, Telemetry, Backed
<1>4. CASE t.phase # next /\ next \notin {"bootstrapped", "orchestrated"}
  BY <1>4 DEF Advance, Telemetry, Backed
<1> QED
  BY <1>1, <1>2, <1>3, <1>4

\* Going to work changes the phase at most, and leaves it only when it was fresh.
LEMMA AtWorkFacts ==
    ASSUME NEW t \in Telemetry
    PROVE  /\ AtWork(t) \in Telemetry
           /\ AtWork(t) = [t EXCEPT !.phase = AtWork(t).phase]
           /\ AtWork(t).phase = IF t.phase = "orchestrated" THEN "working" ELSE t.phase
           /\ \A h : Backed(t, h) => Backed(AtWork(t), h)
<1>1. CASE t.phase = "orchestrated"
  BY <1>1, AdvanceFacts DEF AtWork, Phases
<1>2. CASE t.phase # "orchestrated"
  BY <1>2 DEF AtWork, Telemetry
<1> QED
  BY <1>1, <1>2

LEMMA NoteFilesFacts ==
    ASSUME NEW t \in Telemetry, NEW f \in BOOLEAN
    PROVE  /\ NoteFiles(t, f) \in Telemetry
           /\ NoteFiles(t, f) = [t EXCEPT !.files = NoteFiles(t, f).files]
           /\ t.files => NoteFiles(t, f).files
           /\ \A h : Backed(t, h) => Backed(NoteFiles(t, f), h)
BY DEF NoteFiles, Telemetry, Backed

\* What an answer makes of the telemetry: nothing is paid without being heard,
\* and only a bootstrap and an orchestration open a phase of their own.
LEMMA ObservedFacts ==
    ASSUME NEW t \in Telemetry, NEW tl \in Working \ {"bootstrap"}, NEW f \in BOOLEAN,
           NEW h, Backed(t, h)
    PROVE  /\ Observed(t, tl, f) \in Telemetry
           /\ Backed(Observed(t, tl, f), h \cup ({tl} \cap Paying))
           /\ tl = "orchestrate" /\ t.phase # "orchestrated" =>
                 \A g : Backed(Observed(t, tl, f), g)
           /\ Observed(t, tl, f).phase = "orchestrated" => tl = "orchestrate"
<1> DEFINE g == h \cup ({tl} \cap Paying)
<1>1. Backed(t, g) /\ Phases = {"pre-bootstrap", "bootstrapped", "orchestrated", "working", "closing"}
  BY DEF Backed, Phases
<1>2. CASE tl = "booted"
  <2>1. Observed(t, tl, f) = NoteFiles(Advance(t, "bootstrapped"), f)
    BY <1>2 DEF Observed
  <2> QED
    BY <1>1, <1>2, <2>1, AdvanceFacts, NoteFilesFacts DEF Telemetry
<1>3. CASE tl = "orchestrate"
  <2>1. Observed(t, tl, f) = NoteFiles(Advance(t, "orchestrated"), f)
    BY <1>3 DEF Observed
  <2> QED
    BY <1>1, <1>3, <2>1, AdvanceFacts, NoteFilesFacts
<1>4. CASE tl = "optimize"
  <2> DEFINE u == [t EXCEPT !.optimized = TRUE]
  <2>1. u \in Telemetry
    BY DEF Telemetry
  <2>2. Backed(u, g)
    BY <1>1, <1>4 DEF Backed, Telemetry, Paying
  <2>3. Observed(t, tl, f) = NoteFiles(AtWork(u), f)
    BY <1>4 DEF Observed
  <2> HIDE DEF u
  <2>4. AtWork(u) \in Telemetry /\ Backed(AtWork(u), g) /\ AtWork(u).phase # "orchestrated"
    BY <2>1, <2>2, AtWorkFacts
  <2> QED
    BY <1>4, <2>3, <2>4, NoteFilesFacts DEF Telemetry
<1>5. CASE tl = "inspect"
  <2>1. Observed(t, tl, f) = NoteFiles(AtWork(t), f)
    BY <1>5 DEF Observed
  <2>2. AtWork(t) \in Telemetry /\ Backed(AtWork(t), g) /\ AtWork(t).phase # "orchestrated"
    BY <1>1, AtWorkFacts
  <2> QED
    BY <1>5, <2>1, <2>2, NoteFilesFacts DEF Telemetry
<1>6. CASE tl = "store"
  <2> DEFINE u == [t EXCEPT !.stored = @ \/ t.phase \in AfterOrchestrate]
  <2>1. u \in Telemetry
    BY DEF Telemetry
  <2>2. Backed(u, g)
    BY <1>1, <1>6 DEF Backed, Telemetry, Paying
  <2>3. Observed(t, tl, f) = AtWork(u)
    BY <1>6 DEF Observed
  <2> HIDE DEF u
  <2> QED
    BY <1>6, <2>1, <2>2, <2>3, AtWorkFacts
<1>7. CASE tl = "dna"
  <2> DEFINE u == [t EXCEPT !.dna = TRUE]
  <2>1. u \in Telemetry
    BY DEF Telemetry
  <2>2. Backed(u, g)
    BY <1>1, <1>7 DEF Backed, Telemetry, Paying
  <2>3. Observed(t, tl, f) = Advance(u, "closing")
    BY <1>7 DEF Observed
  <2> HIDE DEF u
  <2> QED
    BY <1>1, <1>7, <2>1, <2>2, <2>3, AdvanceFacts
<1>8. CASE tl = "status"
  <2>1. Observed(t, tl, f) = AtWork(t)
    BY <1>8 DEF Observed
  <2> QED
    BY <1>1, <1>8, <2>1, AtWorkFacts
<1> QED
  BY <1>2, <1>3, <1>4, <1>5, <1>6, <1>7, <1>8 DEF Working, Tools, Gated

--------------------------------------------------------------------------------
(* The adapter's types and what its telemetry counts as paid.               *)
SessionInv ==
    /\ tool \in [Calls -> Working \cup {"none"}]
    /\ bootstrapped \in BOOLEAN /\ telemetry \in Telemetry /\ heard \subseteq Paying
    /\ PaidByAnswers

LEMMA PaidIsBacked ==
    PaidByAnswers <=> /\ Backed(telemetry, heard)
                      /\ telemetry.phase = "orchestrated" => heard \subseteq {"plan"}
BY DEF PaidByAnswers, Backed

LEMMA SessionStep == SessionInv /\ [McpNext]_allVars => SessionInv'
<1> SUFFICES ASSUME SessionInv, [McpNext]_allVars PROVE SessionInv'
  OBVIOUS
<1>1. ASSUME NEW r \in Calls, NEW tl \in Tools, Request(r, tl) PROVE SessionInv'
  <2>1. /\ tool' \in [Calls -> Working \cup {"none"}] /\ bootstrapped' \in BOOLEAN
        /\ heard' = heard /\ telemetry' = Recorded(telemetry)
    BY <1>1 DEF Request, SessionInv, Working
  <2>2. /\ telemetry' \in Telemetry /\ telemetry'.phase = telemetry.phase
        /\ Backed(telemetry', heard')
    BY <2>1, RecordedFacts, PaidIsBacked DEF SessionInv
  <2> QED
    BY <2>1, <2>2, PaidIsBacked DEF SessionInv, PaidByAnswers, Backed
<1>2. ASSUME NEW r \in Calls, BootstrapPlans(r) PROVE SessionInv'
  <2>1. /\ tool' \in [Calls -> Working \cup {"none"}] /\ bootstrapped' \in BOOLEAN
        /\ heard' \subseteq Paying /\ telemetry' \in Telemetry
    BY <1>2 DEF BootstrapPlans, SessionInv, Working, Paying, Marked, Telemetry
  <2>2. PaidByAnswers'
    BY <1>2 DEF BootstrapPlans, SessionInv, PaidByAnswers, Marked, Telemetry
  <2> QED
    BY <2>1, <2>2 DEF SessionInv
<1>3. ASSUME NEW r \in Calls, Answer(r) PROVE SessionInv'
  <2>1. PICK f \in BOOLEAN : telemetry' = Observed(telemetry, tool[r], f)
    BY <1>3 DEF Answer
  <2>2. /\ tool[r] \in Working \ {"bootstrap"}
        /\ telemetry \in Telemetry /\ Backed(telemetry, heard)
    BY <1>3, PaidIsBacked DEF Answer, Answered, SessionInv
  <2>3. /\ telemetry' \in Telemetry
        /\ Backed(telemetry', heard \cup ({tool[r]} \cap Paying))
        /\ tool[r] = "orchestrate" /\ telemetry.phase # "orchestrated" =>
              \A g : Backed(telemetry', g)
        /\ telemetry'.phase = "orchestrated" => tool[r] = "orchestrate"
    BY <2>1, <2>2, ObservedFacts
  <2>4. heard' = IF telemetry.phase # "orchestrated" /\ telemetry'.phase = "orchestrated"
                 THEN {} ELSE heard \cup ({tool[r]} \cap Paying)
    BY <1>3 DEF Answer
  <2>5. Backed(telemetry', heard') /\ heard' \subseteq Paying
    BY <2>3, <2>4 DEF SessionInv
  <2>6. telemetry'.phase = "orchestrated" => heard' \subseteq {"plan"}
    BY <2>3, <2>4 DEF SessionInv, PaidByAnswers, Paying
  <2>7. PaidByAnswers'
    BY <2>5, <2>6 DEF PaidByAnswers, Backed
  <2>8. tool' \in [Calls -> Working \cup {"none"}] /\ bootstrapped' = bootstrapped
    BY <1>3 DEF Answer, SessionInv
  <2> QED
    BY <2>3, <2>5, <2>7, <2>8 DEF SessionInv
<1>4. ASSUME NEW r \in Calls, ToolThrows(r) PROVE SessionInv'
  BY <1>4 DEF ToolThrows, SessionInv, PaidByAnswers
<1>5. CASE UNCHANGED mcpVars
  BY <1>5 DEF mcpVars, SessionInv, PaidByAnswers
<1> QED
  BY <1>1, <1>2, <1>3, <1>4, <1>5 DEF McpNext, Drives, allVars

LEMMA SessionInit == McpInit => SessionInv
<1> SUFFICES ASSUME McpInit PROVE SessionInv
  OBVIOUS
<1>1. telemetry \in Telemetry
  BY RemindAssumption DEF McpInit, Telemetry, Phases
<1> QED
  BY <1>1 DEF McpInit, SessionInv, PaidByAnswers

\* However answers of earlier work arrive, a session counts a debt as paid
\* only by what was heard since the orchestration that owes it.
THEOREM DebtsArePaid == McpSpec => []PaidByAnswers
<1>1. SessionInv => PaidByAnswers
  BY DEF SessionInv
<1> QED
  BY <1>1, SessionInit, SessionStep, PTL DEF McpSpec

\* The adapter's variables keep their types, the engine's beneath them too.
THEOREM SessionTypeCorrect == McpSpec => []McpTypeOK
<1>1. TypeOK /\ SessionInv => McpTypeOK
  BY DEF SessionInv, McpTypeOK, Telemetry
<1> QED
  BY <1>1, SessionInit, SessionStep, SessionsDriveTheEngine, EngineTypeCorrect, PTL DEF McpSpec

--------------------------------------------------------------------------------
(* The reminders of a telemetry, as NeedsOptimize and NeedsStore read them. *)
Reads(t) == t.phase # "pre-bootstrap" /\ ~t.auto /\ t.files /\ ~t.optimized
Keeps(t) == t.phase \in AfterOrchestrate /\ t.since >= RemindAfter /\ ~t.stored

LEMMA AtWorkReminds ==
    ASSUME NEW t \in Telemetry
    PROVE  (Reads(t) => Reads(AtWork(t))) /\ (Keeps(t) => Keeps(AtWork(t)))
BY AtWorkFacts DEF Reads, Keeps, AfterOrchestrate, Telemetry

LEMMA NoteFilesReminds ==
    ASSUME NEW t \in Telemetry, NEW f \in BOOLEAN
    PROVE  (Reads(t) => Reads(NoteFiles(t, f))) /\ (Keeps(t) => Keeps(NoteFiles(t, f)))
BY DEF NoteFiles, Reads, Keeps, Telemetry

\* No answer but those the property names silences a reminder.
LEMMA ObservedReminds ==
    ASSUME NEW t \in Telemetry, NEW f \in BOOLEAN,
           NEW tl \in Working \ {"bootstrap", "booted", "orchestrate"}
    PROVE  /\ Reads(t) /\ tl # "optimize" => Reads(Observed(t, tl, f))
           /\ Keeps(t) /\ tl # "store" => Keeps(Observed(t, tl, f))
<1>1. CASE tl = "optimize"
  <2> DEFINE u == [t EXCEPT !.optimized = TRUE]
  <2>1. u \in Telemetry /\ (Keeps(t) => Keeps(u))
    BY DEF Telemetry, Keeps
  <2>2. Observed(t, tl, f) = NoteFiles(AtWork(u), f)
    BY <1>1 DEF Observed
  <2> HIDE DEF u
  <2> QED
    BY <1>1, <2>1, <2>2, AtWorkFacts, AtWorkReminds, NoteFilesReminds
<1>2. CASE tl = "inspect"
  <2>1. Observed(t, tl, f) = NoteFiles(AtWork(t), f)
    BY <1>2 DEF Observed
  <2> QED
    BY <2>1, AtWorkFacts, AtWorkReminds, NoteFilesReminds
<1>3. CASE tl = "store"
  <2> DEFINE u == [t EXCEPT !.stored = @ \/ t.phase \in AfterOrchestrate]
  <2>1. u \in Telemetry /\ (Reads(t) => Reads(u))
    BY DEF Telemetry, Reads
  <2>2. Observed(t, tl, f) = AtWork(u)
    BY <1>3 DEF Observed
  <2> HIDE DEF u
  <2> QED
    BY <1>3, <2>1, <2>2, AtWorkReminds
<1>4. CASE tl = "dna"
  <2> DEFINE u == [t EXCEPT !.dna = TRUE]
  <2>1. u \in Telemetry /\ (Reads(t) => Reads(u)) /\ (Keeps(t) => Keeps(u))
    BY DEF Telemetry, Reads, Keeps
  <2>2. Observed(t, tl, f) = Advance(u, "closing")
    BY <1>4 DEF Observed
  <2> HIDE DEF u
  <2>3. Observed(t, tl, f) = [u EXCEPT !.phase = "closing"]
    BY <2>1, <2>2, AdvanceFacts DEF Phases
  <2> QED
    BY <2>1, <2>3 DEF Reads, Keeps, Telemetry, AfterOrchestrate
<1>5. CASE tl = "status"
  <2>1. Observed(t, tl, f) = AtWork(t)
    BY <1>5 DEF Observed
  <2> QED
    BY <2>1, AtWorkReminds
<1> QED
  BY <1>1, <1>2, <1>3, <1>4, <1>5 DEF Working, Tools, Gated

\* A reminder that is due is silenced only by what it asks for, or by a new
\* phase (mcp.ts:229-314), in whatever order requests and answers come.
THEOREM RemindersLast == McpSpec => RemindsUntilPaid
<1> DEFINE Lasts ==
       /\ NeedsOptimize("inspect") /\ ~NeedsOptimize("inspect")' =>
             Hears({"optimize", "bootstrap", "booted", "orchestrate"})
       /\ NeedsStore("inspect") /\ ~NeedsStore("inspect")' =>
             Hears({"store", "booted", "orchestrate"})
<1>1. ASSUME SessionInv, [McpNext]_allVars PROVE Lasts
  <2>1. SUFFICES /\ Reads(telemetry) /\ ~Reads(telemetry') =>
                       Hears({"optimize", "bootstrap", "booted", "orchestrate"})
                 /\ Keeps(telemetry) /\ ~Keeps(telemetry') =>
                       Hears({"store", "booted", "orchestrate"})
    BY DEF NeedsOptimize, NeedsStore, Reads, Keeps
  <2>2. ASSUME NEW r \in Calls, NEW tl \in Tools, Request(r, tl)
        PROVE  (Reads(telemetry) => Reads(telemetry')) /\ (Keeps(telemetry) => Keeps(telemetry'))
    BY <1>1, <2>2, RecordedFacts DEF Request, SessionInv, Reads, Keeps
  <2>3. ASSUME NEW r \in Calls, BootstrapPlans(r)
        PROVE  /\ Hears({"optimize", "bootstrap", "booted", "orchestrate"})
               /\ Keeps(telemetry) => Keeps(telemetry')
    <3>1. tool[r] = "bootstrap" /\ tool'[r] = "booted"
      BY <1>1, <2>3 DEF BootstrapPlans, SessionInv
    <3>2. Keeps(telemetry) => Keeps(telemetry')
      BY <1>1, <2>3 DEF BootstrapPlans, SessionInv, Marked, Telemetry, Keeps
    <3> QED
      BY <3>1, <3>2 DEF Hears
  <2>4. ASSUME NEW r \in Calls, Answer(r)
        PROVE  /\ Reads(telemetry) /\ ~Reads(telemetry') =>
                     Hears({"optimize", "bootstrap", "booted", "orchestrate"})
               /\ Keeps(telemetry) /\ ~Keeps(telemetry') =>
                     Hears({"store", "booted", "orchestrate"})
    <3>1. PICK f \in BOOLEAN : telemetry' = Observed(telemetry, tool[r], f)
      BY <2>4 DEF Answer
    <3>2. tool[r] \in Working \ {"bootstrap"} /\ tool'[r] = "none" /\ "none" \notin Working
      BY <1>1, <2>4 DEF Answer, Answered, SessionInv, Working, Tools, Gated
    <3>3. \A tls : tool[r] \in tls => Hears(tls)
      BY <3>2 DEF Hears
    <3>4. CASE tool[r] \in {"booted", "orchestrate"}
      BY <3>3, <3>4
    <3>5. CASE tool[r] \notin {"booted", "orchestrate"}
      <4>1. /\ Reads(telemetry) /\ tool[r] # "optimize" => Reads(telemetry')
            /\ Keeps(telemetry) /\ tool[r] # "store" => Keeps(telemetry')
        BY <1>1, <3>1, <3>2, <3>5, ObservedReminds DEF SessionInv
      <4> QED
        BY <3>3, <4>1
    <3> QED
      BY <3>4, <3>5
  <2>5. CASE telemetry' = telemetry
    BY <2>5
  <2> QED
    BY <1>1, <2>2, <2>3, <2>4, <2>5 DEF McpNext, Drives, ToolThrows, mcpVars, allVars
<1>2. SessionInv /\ [McpNext]_allVars => [Lasts]_allVars
  BY <1>1
<1> QED
  BY <1>2, SessionInit, SessionStep, PTL DEF McpSpec, RemindsUntilPaid
===============================================================================
