------------------------------ MODULE McpSession ------------------------------
(***************************************************************************)
(* MCPAdapter over the orchestrator: tool requests of one client are       *)
(* handled concurrently.  A gate turns tools away until a bootstrap was    *)
(* asked for; SessionTelemetry then follows the session's phase and what   *)
(* the client still owes (token optimisation, a stored memory), which the  *)
(* adapter turns into warnings.  The telemetry moves when a tool has       *)
(* answered, so it moves in the order of the answers.                      *)
(*                                                                         *)
(* A request is a slot of the client, used again once it was answered; a   *)
(* slot orchestrates once, as the engine's call of the same name.          *)
(***************************************************************************)
EXTENDS Orchestrator

CONSTANTS
    RemindAfter     \* 15: calls without a stored memory before the reminder

ASSUME RemindAssumption == RemindAfter \in Nat \ {0}

VARIABLES
    tool,       \* the tool each slot is waiting for
    bootstrapped,
    telemetry,  \* the rest of SessionTelemetry
    heard       \* history: what could pay a debt since an orchestration was observed

mcpVars == <<tool, bootstrapped, telemetry, heard>>
allVars == <<vars, mcpVars>>

\* inspect: mindkit_check and ghost_pass, and without files any other gated tool
Gated == {"bootstrap", "orchestrate", "optimize", "inspect", "store", "dna"}
Tools == Gated \cup {"status"}   \* listings, memory statistics, nexus_status
Working == Tools \cup {"booted"}  \* booted: a bootstrap that has its plan
Paying == {"optimize", "plan", "store", "dna"}  \* plan: the bootstrap's own
Phases == {"pre-bootstrap", "bootstrapped", "orchestrated", "working", "closing"}
NamesFiles == {"booted", "orchestrate", "optimize", "inspect"}
AfterOrchestrate == {"orchestrated", "working", "closing"}

McpTypeOK ==
    /\ TypeOK
    /\ tool \in [Calls -> Working \cup {"none"}]
    /\ heard \subseteq Paying
    /\ bootstrapped \in BOOLEAN
    /\ telemetry \in [phase : Phases, optimized : BOOLEAN, auto : BOOLEAN,
                      files : BOOLEAN, stored : BOOLEAN, dna : BOOLEAN,
                      since : 0..RemindAfter]

McpInit ==
    /\ Init
    /\ tool = [r \in Calls |-> "none"]
    /\ bootstrapped = FALSE /\ heard = {}
    /\ telemetry = [phase |-> "pre-bootstrap", optimized |-> FALSE, auto |-> FALSE,
                    files |-> FALSE, stored |-> FALSE, dna |-> FALSE, since |-> 0]

--------------------------------------------------------------------------------
(* SessionTelemetry *)
Recorded(t) ==
    IF t.phase \in AfterOrchestrate /\ t.since < RemindAfter
    THEN [t EXCEPT !.since = @ + 1] ELSE t

\* faulty: the debts of the last orchestration are kept as paid
AdvanceKeeping(t, next) == [t EXCEPT !.phase = next]

\* faulty: every change of phase drops the reminders
AdvanceResets(t, next) ==
    IF t.phase = next THEN t
    ELSE [phase |-> next, files |-> FALSE, optimized |-> FALSE, auto |-> FALSE,
          stored |-> FALSE, dna |-> FALSE, since |-> 0]

\* a new phase owes its own optimisation; a new orchestration owes everything
Advance(t, next) ==
    CASE t.phase = next -> t
      [] t.phase # next /\ next = "bootstrapped" ->
            [t EXCEPT !.phase = next, !.files = FALSE, !.optimized = FALSE, !.auto = FALSE]
      [] t.phase # next /\ next = "orchestrated" ->
            [phase |-> next, files |-> FALSE, optimized |-> FALSE, auto |-> FALSE,
             stored |-> FALSE, dna |-> FALSE, since |-> 0]
      [] OTHER -> [t EXCEPT !.phase = next]
AtWork(t) == IF t.phase = "orchestrated" THEN Advance(t, "working") ELSE t
NoteFiles(t, f) == IF f THEN [t EXCEPT !.files = TRUE] ELSE t

Observed(t, tl, f) ==
    CASE tl = "booted"      -> NoteFiles(Advance(t, "bootstrapped"), f)
      [] tl = "orchestrate" -> NoteFiles(Advance(t, "orchestrated"), f)
      [] tl = "optimize"    -> NoteFiles(AtWork([t EXCEPT !.optimized = TRUE]), f)
      [] tl = "inspect"     -> NoteFiles(AtWork(t), f)
      [] tl = "store"       -> AtWork([t EXCEPT !.stored = @ \/ t.phase \in AfterOrchestrate])
      [] tl = "dna"         -> Advance([t EXCEPT !.dna = TRUE], "closing")
      [] OTHER              -> AtWork(t)
NeedsOptimize(tl) ==
    /\ tl # "optimize" /\ telemetry.phase # "pre-bootstrap"
    /\ ~telemetry.auto /\ telemetry.files /\ ~telemetry.optimized
NeedsStore(tl) ==
    /\ tl # "store" /\ telemetry.phase \in AfterOrchestrate
    /\ telemetry.since >= RemindAfter /\ ~telemetry.stored

--------------------------------------------------------------------------------
(* A request is counted, and turned away before its tool runs when the     *)
(* session was never asked to bootstrap.  The flag is set before the       *)
(* bootstrap runs, and stays when it fails.                                *)
Admitted(tl) == bootstrapped \/ tl \in {"bootstrap", "status"}

Request(r, tl) ==
    /\ tool[r] = "none"
    /\ tl = "orchestrate" => pc[r] = "idle"
    /\ telemetry' = Recorded(telemetry)
    /\ bootstrapped' = (bootstrapped \/ tl = "bootstrap")
    /\ IF Admitted(tl)
       THEN tool' = [tool EXCEPT ![r] = tl]
       ELSE UNCHANGED tool
    /\ UNCHANGED <<heard, vars>>

(* After its own awaits (induce) the orchestrate tool calls the engine.    *)
Drives(r) ==
    /\ tool[r] = "orchestrate"
    /\ Orchestrate(r)
    /\ UNCHANGED mcpVars

(* The engine's bootstrap returns: one that planned the reading itself     *)
(* marks it at once.                                                       *)
Marked(t) == [t EXCEPT !.auto = TRUE, !.optimized = TRUE]
BootstrapPlans(r) ==
    /\ tool[r] = "bootstrap"
    /\ tool' = [tool EXCEPT ![r] = "booted"]
    /\ \/ telemetry' = Marked(telemetry) /\ heard' = heard \cup {"plan"}
       \/ UNCHANGED <<telemetry, heard>>
    /\ UNCHANGED <<bootstrapped, vars>>

(* The tool answers and is observed; orchestrate answers when the engine's *)
(* call has ended, and answers a call that threw with a text like any      *)
(* other result.  Whether the request named files matters only here.       *)
Answered(r) ==
    /\ tool[r] \notin {"none", "bootstrap"}
    /\ tool[r] = "orchestrate" => pc[r] \in {"returned", "threw"}
Answer(r) ==
    /\ Answered(r)
    /\ \E f \in BOOLEAN :
          /\ f => tool[r] \in NamesFiles
          /\ telemetry' = Observed(telemetry, tool[r], f)
    /\ heard' = IF telemetry.phase # "orchestrated" /\ telemetry'.phase = "orchestrated"
                THEN {} ELSE heard \cup ({tool[r]} \cap Paying)
    /\ tool' = [tool EXCEPT ![r] = "none"]
    /\ UNCHANGED <<bootstrapped, vars>>

(* A tool that throws is not observed, and what a bootstrap marked stays;  *)
(* orchestrate catches what the engine throws, not what comes before.      *)
ToolThrows(r) ==
    /\ tool[r] # "none"
    /\ tool[r] = "orchestrate" => pc[r] = "idle"
    /\ tool' = [tool EXCEPT ![r] = "none"]
    /\ UNCHANGED <<bootstrapped, telemetry, heard, vars>>

McpNext ==
    \/ \E r \in Calls :
          \/ \E tl \in Tools : Request(r, tl)
          \/ Drives(r) \/ BootstrapPlans(r) \/ Answer(r) \/ ToolThrows(r)
          \/ CallStep(r) /\ UNCHANGED mcpVars
    \/ Clock /\ UNCHANGED mcpVars

McpSpec == McpInit /\ [][McpNext]_allVars

--------------------------------------------------------------------------------
(* A debt counts as paid only when what pays it was heard since the        *)
(* orchestration that owes it was observed: a new orchestration starts     *)
(* with its memory and its closing unpaid, whichever answers were on their *)
(* way, and its tokens paid at most by the plan of a bootstrap that has    *)
(* not been observed itself.  The answer may be to an older request.       *)
PaidByAnswers ==
    /\ telemetry.stored => "store" \in heard
    /\ telemetry.dna => "dna" \in heard
    /\ telemetry.optimized => heard \cap {"optimize", "plan"} # {}
    /\ telemetry.auto => "plan" \in heard
    /\ telemetry.phase = "orchestrated" => heard \subseteq {"plan"}

(* A reminder that is due stays due until what it asks for is answered, or *)
(* a bootstrap or an orchestration opens a new phase: no other answer, new *)
(* or late, silences it.                                                   *)
Hears(tls) == \E r \in Calls : tool[r] \in tls /\ tool'[r] # tool[r]
RemindsUntilPaid ==
    [][/\ NeedsOptimize("inspect") /\ ~NeedsOptimize("inspect")' =>
              Hears({"optimize", "bootstrap", "booted", "orchestrate"})
       /\ NeedsStore("inspect") /\ ~NeedsStore("inspect")' =>
              Hears({"store", "booted", "orchestrate"})]_allVars
===============================================================================
