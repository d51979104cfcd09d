----------------------------- MODULE Orchestrator -----------------------------
(***************************************************************************)
(* OrchestratorEngine: every orchestrate() call plans its task, then hands *)
(* it to the phantom runtime, unless a call for the same task is already   *)
(* running, whose result it then shares.  Calls of one process overlap at  *)
(* every await.  Failing runs in a row open a circuit that turns calls     *)
(* away for a while.  The session state is copied when the plan is ready   *)
(* and written back, from the copy, when the run ends.                     *)
(*                                                                         *)
(* A call is its own run: the run it starts goes by the call's name.  Of   *)
(* the session state, the last run and the repeated failures are kept.     *)
(***************************************************************************)
EXTENDS Integers, FiniteSets

CONSTANTS
    Calls,      \* calls of orchestrate()
    Tasks,      \* fingerprints: a session, a client and a task's text
    Threshold,  \* CIRCUIT_THRESHOLD
    Loaded,     \* loadSessionState: a new session, or that of an earlier process
    NoRun

ASSUME ThresholdAssumption == Threshold \in Nat \ {0}
ASSUME CallsAssumption == IsFiniteSet(Calls) /\ NoRun \notin Calls

MaxRepeated == 8    \* nextRepeatedFailures stops counting here

ASSUME LoadedAssumption ==
    /\ Loaded \in [lastRun : {Loaded.lastRun}, failures : 0..MaxRepeated]
    /\ Loaded.lastRun \notin Calls

VARIABLES
    pc,        \* where each call is
    task,      \* the task a call was made for
    seen,      \* the session state the call copied when its plan was ready
    shares,    \* the run whose end the call awaits
    result,    \* how the run a call started ended: its promise has settled
    entry,     \* executionDedupeStore: the run listed for a task
    timers,    \* pending timers that delete a task's entry
    unlisted,  \* tasks a timer removed the running run of
    session, lastRun,
    streak,    \* consecutiveFailures
    open       \* now < circuitOpenUntil

vars == <<pc, task, seen, shares, result, entry, timers, unlisted, session,
          lastRun, streak, open>>
runVars == <<shares, result, entry, timers, unlisted, session, lastRun>>

RunStates == {"merged", "rolled_back", "failed"}
Runs == Calls \cup {NoRun}
Sessions == [lastRun : Calls \cup {Loaded.lastRun}, failures : 0..MaxRepeated]

TypeOK ==
    /\ pc \in [Calls -> {"idle", "planning", "running", "settled", "sharing",
                         "counting", "learning", "returned", "threw"}]
    /\ task \in [Calls -> Tasks]
    /\ seen \in [Calls -> Sessions]
    /\ shares \in [Calls -> Runs]
    /\ result \in [Calls -> {"none", "threw"} \cup RunStates]
    /\ entry \in [Tasks -> Runs]
    /\ timers \in [Tasks -> Nat]
    /\ unlisted \subseteq Tasks
    /\ session \in Sessions
    /\ lastRun \in Runs
    /\ streak \in Nat
    /\ open \in BOOLEAN

Init ==
    /\ pc = [c \in Calls |-> "idle"]
    /\ task \in [Calls -> Tasks]
    /\ seen = [c \in Calls |-> Loaded]
    /\ shares = [c \in Calls |-> NoRun]
    /\ result = [c \in Calls |-> "none"]
    /\ entry = [t \in Tasks |-> NoRun]
    /\ timers = [t \in Tasks |-> 0]
    /\ unlisted = {}
    /\ session = Loaded /\ lastRun = NoRun
    /\ streak = 0 /\ open = FALSE

Goes(c, from, to) == pc[c] = from /\ pc' = [pc EXCEPT ![c] = to]
\* until the call that started the run goes on, the dedupe store has it as running
Running(c) == pc[c] \in {"running", "settled"}
EndedWell(c) == result[c] \in RunStates   \* faulty: a rejection is not passed on
Ended(c) == result[c] # "none"

--------------------------------------------------------------------------------
(* The call: checkCircuit at the entry, then induce() and                  *)
(* _prepareExecution(), which await memory, the knowledge fabric and the   *)
(* planner and may throw, or throw between the copy of the session and the *)
(* run, where nothing that is kept here has changed.                       *)
Orchestrate(c) ==
    /\ Goes(c, "idle", IF open THEN "threw" ELSE "planning")
    /\ UNCHANGED <<task, seen, streak, open, runVars>>

PlanFails(c) ==
    /\ Goes(c, "planning", "threw")
    /\ UNCHANGED <<task, seen, streak, open, runVars>>

(* From the plan to the run without an await: the session is copied, and   *)
(* the call either joins the run that is listed or starts and lists its    *)
(* own.                                                                    *)
CopiedAtEntry == Loaded   \* faulty: copied before the awaits
Copied == session
NeverJoins(c) == FALSE        \* faulty
JoinsRun(c) == entry[task[c]] # NoRun

Planned(c) ==
    /\ seen' = [seen EXCEPT ![c] = Copied]
    /\ session' = Copied
    /\ IF JoinsRun(c)
       THEN /\ Goes(c, "planning", "sharing")
            /\ shares' = [shares EXCEPT ![c] = entry[task[c]]]
            /\ UNCHANGED entry
       ELSE /\ Goes(c, "planning", "running")
            /\ entry' = [entry EXCEPT ![task[c]] = c]
            /\ UNCHANGED shares
    /\ UNCHANGED <<task, result, timers, unlisted, lastRun, streak, open>>

(* The circuit: failing runs in a row open it, a merge closes it, any      *)
(* other end leaves it.  Time alone closes it too, and leaves the count.   *)
Trips(n) == n >= Threshold
CountRun(state) ==
    /\ streak' = CASE state = "failed" -> streak + 1
                   [] state = "merged" -> 0
                   [] OTHER -> streak
    /\ open' = CASE state = "failed" /\ Trips(streak + 1) -> TRUE
                 [] state = "merged" -> FALSE
                 [] OTHER -> open

CooldownEnds ==
    /\ open /\ open' = FALSE
    /\ UNCHANGED <<pc, task, seen, streak, runVars>>

\* faulty: the settled promise stays listed until the timer
SettlesListed(c) ==
    /\ timers' = [timers EXCEPT ![task[c]] = @ + 1]
    /\ UNCHANGED <<entry, unlisted>>

(* The run's end: the entry keeps no promise any more, so nothing joins    *)
(* it, and a timer will delete it, whatever the entry is by then.          *)
Settles(c) ==
    /\ entry' = [entry EXCEPT ![task[c]] = NoRun]
    /\ timers' = [timers EXCEPT ![task[c]] = @ + 1]
    /\ unlisted' = IF \E d \in Calls \ {c} : Running(d) /\ task[d] = task[c]
                   THEN unlisted \cup {task[c]} ELSE unlisted \ {task[c]}

(* The run's promise settles.  The call that started it goes on in a later *)
(* step: until then the store still lists the run.                         *)
RunEnds(c) ==
    /\ Goes(c, "running", "settled")
    /\ \E end \in RunStates \cup {"threw"} : result' = [result EXCEPT ![c] = end]
    /\ UNCHANGED <<task, seen, shares, entry, timers, unlisted, session, lastRun, streak, open>>

(* runtime.run() has rejected: unless it is an error of the environment,   *)
(* the circuit counts it, and the session is left as it is.                *)
RunThrows(c) ==
    /\ result[c] = "threw"
    /\ Goes(c, "settled", "threw")
    /\ Settles(c)
    /\ CountRun("failed") \/ UNCHANGED <<streak, open>>
    /\ UNCHANGED <<task, seen, shares, result, session, lastRun>>

Repeated(state, n) ==
    CASE state = "merged" -> 0
      [] state = "failed" -> IF n = MaxRepeated THEN n ELSE n + 1
      [] OTHER -> n

(* The runtime's snapshot is written, then the circuit counts the run: a   *)
(* snapshot that cannot be written rejects the call, uncounted.            *)
Counts(c, from) ==
    \/ Goes(c, from, "learning") /\ CountRun(result[c])
    \/ Goes(c, from, "threw") /\ UNCHANGED <<streak, open>>

(* runtime.run() has returned: the session is written back from the call's *)
(* copy.  The count follows in the same step, or after the lifetime tokens *)
(* were imported, when there was a reading plan.                           *)
RunReturns(c) ==
    /\ result[c] \in RunStates
    /\ Settles(c)
    /\ lastRun' = c
    /\ session' = [lastRun |-> c, failures |-> Repeated(result[c], seen[c].failures)]
    /\ \/ Goes(c, "settled", "counting") /\ UNCHANGED <<streak, open>>
       \/ Counts(c, "settled")
    /\ UNCHANGED <<task, seen, shares, result>>

CountsLate(c) ==
    /\ Counts(c, "counting")
    /\ UNCHANGED <<task, seen, runVars>>

(* storeMemoryAndDispatch: when it rejects, so does the call, whose run    *)
(* stands.                                                                 *)
Learned(c) ==
    /\ Goes(c, "learning", "returned") \/ Goes(c, "learning", "threw")
    /\ UNCHANGED <<task, seen, streak, open, runVars>>

(* The shared promise settles, for every call that awaits it.              *)
ShareEnds(c) ==
    /\ pc[c] = "sharing" /\ Ended(shares[c])
    /\ Goes(c, "sharing", IF result[shares[c]] = "threw" THEN "threw" ELSE "returned")
    /\ UNCHANGED <<task, seen, streak, open, runVars>>

Pending(t) == timers[t] > 0
DeleteTimer(t) ==
    /\ Pending(t)
    /\ timers' = [timers EXCEPT ![t] = @ - 1]
    /\ entry' = [entry EXCEPT ![t] = NoRun]
    /\ unlisted' = IF entry[t] = NoRun THEN unlisted ELSE unlisted \cup {t}
    /\ UNCHANGED <<pc, task, seen, shares, result, session, lastRun, streak, open>>

CallStep(c) ==
    \/ PlanFails(c) \/ Planned(c)
    \/ RunEnds(c) \/ RunThrows(c) \/ RunReturns(c)
    \/ CountsLate(c) \/ Learned(c) \/ ShareEnds(c)

Clock == CooldownEnds \/ \E t \in Tasks : DeleteTimer(t)

Next == Clock \/ \E c \in Calls : Orchestrate(c) \/ CallStep(c)

Spec == Init /\ [][Next]_vars

(* The awaits of a call settle: the planner, the memory and the runtime    *)
(* answer or throw.  Nothing obliges a client to call.                     *)
FairSpec == Spec /\ \A c \in Calls : WF_vars(CallStep(c))

--------------------------------------------------------------------------------
(* Two runs of one task overlap only after the delete timer of an earlier  *)
(* run has removed the entry of a later one: the dedupe store otherwise    *)
(* keeps a task's calls on one run.                                        *)
OneRunPerTask ==
    \A c, d \in Calls :
        Running(c) /\ Running(d) /\ c # d /\ task[c] = task[d] =>
            task[c] \in unlisted

(* A call joins another call's run only until that call has gone on: what  *)
(* the store lists has not been followed by the count, the session and the *)
(* memory of its end yet, whoever listed it.                               *)
SharesLiveRun ==
    [][\A c \in Calls : pc[c] = "planning" /\ pc'[c] = "sharing" =>
           shares'[c] \in Calls \ {c} /\ Running(shares'[c])]_vars

(* However the calls overlap, the session names the run the engine         *)
(* returned last, or the one of an earlier process it was loaded with: a   *)
(* copy taken before that run ended never takes it back.                   *)
SessionNamesLastRun ==
    session.lastRun = IF lastRun = NoRun THEN Loaded.lastRun ELSE lastRun

(* The circuit is open only with Threshold failures on the count, which no *)
(* merge has cleared since.                                                *)
OpenAfterFailures == open => streak >= Threshold

(* The failures the session counts did happen, here or before it was       *)
(* loaded: overlapping calls may lose some or bring cleared ones back, but *)
(* never invent one.                                                       *)
FailuresHappened ==
    session.failures <= Loaded.failures + Cardinality({c \in Calls : result[c] = "failed"})

(* Every call that was let in ends, also one that waits for another call's *)
(* run, however that run ends.                                             *)
EveryCallEnds ==
    \A c \in Calls : pc[c] = "planning" ~> pc[c] \in {"returned", "threw"}
===============================================================================
