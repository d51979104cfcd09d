--------------------------- MODULE FieldReportLedger ---------------------------
(***************************************************************************)
(* Field reports on their three stores: the markdown ledger under          *)
(* .synapse/ledger, the rows of synapse.db, and the repository's history,  *)
(* to which a timer of each operative process commits the ledger files in  *)
(* batches.  A process that starts restores rows from the ledger.          *)
(*                                                                         *)
(* Every function here is synchronous, so a process does nothing else      *)
(* between the steps of one of them (phase[p] # "idle"); steps of other    *)
(* processes on the same repository come in between, and it may exit       *)
(* anywhere.                                                               *)
(***************************************************************************)
EXTENDS Integers, FiniteSets

CONSTANTS
    Processes,      \* Nexus Prime processes opened on one repository
    Reports,        \* field reports, each a fresh UUID
    Author,         \* the process whose sortie or tool makes a report
    Armed,          \* processes with SYNAPSE_OPERATIVE_ID set and the ledger enabled
    GitRepo,        \* the root holds a .git directory
    NoReport,
    MaxMishaps      \* bound: failing writes and git commands, exits and removals

ASSUME AuthorAssumption == Author \in [Reports -> Processes]
ASSUME ArmedAssumption == Armed \subseteq Processes /\ GitRepo \in BOOLEAN
ASSUME NoReportAssumption == NoReport \notin Reports
ASSUME MishapsAssumption == MaxMishaps \in Nat

VARIABLES
    file,       \* the markdown file of each report: none, partial or intact
    rows,       \* reports with a row in synapse_field_reports
    index,      \* ledger files in git's index
    head,       \* ledger files in the last commit
    outcome,    \* what became of the sortie or tool call that made a report
    missed,     \* history: sortie reports whose row failed since their author's last start
    pending,    \* the module's pending list, per process
    phase,      \* the place of each process in its synchronous section
    report,     \* the report that section is about
    work,       \* the files still to restore, or the batch being committed
    mishaps

vars == <<file, rows, index, head, outcome, missed, pending, phase, report, work,
          mishaps>>
stores == <<file, rows, index, head>>
control == <<phase, report, work>>

Phases == {"down", "restore", "restoreRow", "idle", "write", "row", "add", "commit"}

TypeOK ==
    /\ file \in [Reports -> {"none", "partial", "intact"}]
    /\ rows \subseteq Reports /\ missed \subseteq Reports
    /\ index \subseteq Reports
    /\ head \subseteq Reports
    /\ outcome \in [Reports -> {"none", "open", "recorded", "failed"}]
    /\ pending \in [Processes -> SUBSET Reports]
    /\ phase \in [Processes -> Phases]
    /\ report \in [Processes -> Reports \cup {NoReport}]
    /\ work \in [Processes -> SUBSET Reports]
    /\ mishaps \in 0..MaxMishaps

Init ==
    /\ file = [r \in Reports |-> "none"]
    /\ rows = {} /\ index = {} /\ head = {} /\ missed = {}
    /\ outcome = [r \in Reports |-> "none"]
    /\ pending = [p \in Processes |-> {}]
    /\ phase = [p \in Processes |-> "down"]
    /\ report = [p \in Processes |-> NoReport]
    /\ work = [p \in Processes |-> {}]
    /\ mishaps = 0

\* Process p is in phase ph, about report r, with the files fs left to work on.
Goto(p, ph, r, fs) ==
    /\ phase' = [phase EXCEPT ![p] = ph]
    /\ report' = [report EXCEPT ![p] = r]
    /\ work' = [work EXCEPT ![p] = fs]

Mishap == mishaps < MaxMishaps /\ mishaps' = mishaps + 1

--------------------------------------------------------------------------------
(* Start: restoreSynapseFromLedger.  An exception here is one of            *)
(* initSynapse, and the process does not come up.                           *)

\* faulty: only what reached the history is walked
CommittedFiles == {r \in head : file[r] # "none"}
LedgerFiles == {r \in Reports : file[r] # "none"}

Start(p) ==
    /\ phase[p] = "down"
    /\ Goto(p, "restore", NoReport, LedgerFiles)
    /\ missed' = {r \in missed : Author[r] # p}
    /\ UNCHANGED <<stores, outcome, pending, mishaps>>

\* A file that is gone when its turn comes makes the read throw; one cut short
\* does not parse and is skipped, as is one that has its row.
RestoreFile(p, r) ==
    /\ phase[p] = "restore" /\ r \in work[p]
    /\ LET rest == work[p] \ {r} IN
       CASE file[r] = "none" -> Goto(p, "down", NoReport, {})
         [] file[r] = "intact" /\ r \notin rows -> Goto(p, "restoreRow", r, rest)
         [] OTHER -> Goto(p, "restore", NoReport, rest)
    /\ UNCHANGED <<stores, outcome, missed, pending, mishaps>>

\* The row's key may have been taken since it was looked up: the insert throws.  If it
\* throws for another reason the process does not come up either, which is its Exit.
RestoreRow(p) ==
    /\ phase[p] = "restoreRow"
    /\ rows' = rows \cup {report[p]}
    /\ IF report[p] \in rows THEN Goto(p, "down", NoReport, {})
                             ELSE Goto(p, "restore", NoReport, work[p])
    /\ UNCHANGED <<file, index, head, outcome, missed, pending, mishaps>>

EndRestore(p) ==
    /\ phase[p] = "restore" /\ work[p] = {}
    /\ Goto(p, "idle", NoReport, {})
    /\ UNCHANGED <<stores, outcome, missed, pending, mishaps>>

--------------------------------------------------------------------------------
(* A sortie's report: buildFieldReport, scheduleFieldReportLedgerExport,    *)
(* insertFieldReport.                                                       *)

\* writeFileSync creates the file before it has written it.
BuildFieldReport(p, r) ==
    /\ phase[p] = "idle" /\ Author[r] = p /\ outcome[r] = "none"
    /\ outcome' = [outcome EXCEPT ![r] = "open"]
    /\ \/ /\ file' = [file EXCEPT ![r] = "partial"]
          /\ Goto(p, "write", r, {})
          /\ UNCHANGED mishaps
       \/ Goto(p, "row", r, {}) /\ Mishap /\ UNCHANGED file
    /\ UNCHANGED <<rows, index, head, missed, pending>>

WriteLedgerMarkdown(p) ==
    /\ phase[p] = "write"
    /\ Goto(p, "row", report[p], {})
    /\ \/ /\ file' = [file EXCEPT ![report[p]] = "intact"]
          /\ pending' = [pending EXCEPT ![p] = @ \cup {report[p]}]
          /\ UNCHANGED mishaps
       \/ Mishap /\ UNCHANGED <<file, pending>>
    /\ UNCHANGED <<rows, index, head, outcome, missed>>

\* Another process that started meanwhile may have restored the row already: the insert
\* throws, as it does where the database is locked or full, and the sortie is recorded as
\* failed.
InsertFieldReport(p) ==
    LET r == report[p]
        stored == outcome' = [outcome EXCEPT ![r] = IF r \in rows THEN "failed" ELSE "recorded"]
    IN  /\ phase[p] = "row"
        /\ \/ stored /\ rows' = rows \cup {r} /\ UNCHANGED <<missed, mishaps>>
           \/ /\ Mishap /\ missed' = missed \cup {r} /\ UNCHANGED rows
              /\ outcome' = [outcome EXCEPT ![r] = "failed"]
        /\ Goto(p, "idle", NoReport, {})
        /\ UNCHANGED <<file, index, head, pending>>

\* The nexus_synapse_field_report tool inserts a row and writes no file; the call
\* answers what the insert throws.
SubmitFieldReport(p, r) ==
    /\ phase[p] = "idle" /\ Author[r] = p /\ outcome[r] = "none"
    /\ \/ outcome' = [outcome EXCEPT ![r] = "recorded"] /\ rows' = rows \cup {r} /\ UNCHANGED mishaps
       \/ outcome' = [outcome EXCEPT ![r] = "failed"] /\ Mishap /\ UNCHANGED rows
    /\ UNCHANGED <<file, index, head, missed, pending, control>>

--------------------------------------------------------------------------------
(* The batch committer's tick.  git add and git commit are children the     *)
(* process waits for; either may fail, or time out having taken effect.     *)

\* Outside a git repository the batch is dropped.
CommitTick(p) ==
    /\ phase[p] = "idle" /\ p \in Armed /\ pending[p] # {}
    /\ pending' = [pending EXCEPT ![p] = {}]
    /\ IF GitRepo THEN Goto(p, "add", NoReport, pending[p]) ELSE UNCHANGED control
    /\ UNCHANGED <<stores, outcome, missed, mishaps>>

Missing(p) == {r \in work[p] : file[r] = "none"}
\* git add refuses the whole list for a path neither on disk nor in the index.
Addable(p) == Missing(p) \subseteq index
\* faulty: the files are not added
SameIndex(p) == index
AddedIndex(p) == (index \cup work[p]) \ Missing(p)

\* faulty: the batch is pushed as one entry
Nested(p) == pending[p] \cup {work[p]}
AfterFailure(p) == pending[p] \cup work[p]

PushBack(p) ==
    /\ pending' = [pending EXCEPT ![p] = AfterFailure(p)]
    /\ Goto(p, "idle", NoReport, {})

GitAdd(p) ==
    /\ phase[p] = "add" /\ Addable(p)
    /\ index' = AddedIndex(p)
    /\ \/ Goto(p, "commit", NoReport, work[p]) /\ UNCHANGED <<pending, mishaps>>
       \/ PushBack(p) /\ Mishap
    /\ UNCHANGED <<file, rows, head, outcome, missed>>

\* git commit takes the whole index, and fails when there is nothing new in it.
GitCommit(p) ==
    /\ phase[p] = "commit" /\ index # head
    /\ head' = index
    /\ \/ Goto(p, "idle", NoReport, {}) /\ UNCHANGED <<pending, mishaps>>
       \/ PushBack(p) /\ Mishap
    /\ UNCHANGED <<file, rows, index, outcome, missed>>

GitFails(p) ==
    /\ \/ phase[p] = "add" /\ ~Addable(p) /\ UNCHANGED mishaps
       \/ phase[p] = "commit" /\ index = head /\ UNCHANGED mishaps
       \/ phase[p] \in {"add", "commit"} /\ Mishap
    /\ PushBack(p)
    /\ UNCHANGED <<stores, outcome, missed>>

--------------------------------------------------------------------------------
(* Outside the code's control.                                              *)

\* A process dies, or stops: stop() neither commits nor keeps the pending list.
Exit(p) ==
    /\ phase[p] # "down" /\ Mishap
    /\ pending' = [pending EXCEPT ![p] = {}]
    /\ Goto(p, "down", NoReport, {})
    /\ UNCHANGED <<stores, outcome, missed>>

\* The database, which .gitignore keeps out of the repository, is lost.
LoseDatabase ==
    /\ \A p \in Processes : phase[p] = "down"
    /\ rows # {}
    /\ rows' = {}
    /\ UNCHANGED <<file, index, head, outcome, missed, pending, control, mishaps>>

\* Somebody cleans up, or switches to a branch without the file.
RemoveFile(r) ==
    /\ file[r] = "intact" /\ Mishap
    /\ file' = [file EXCEPT ![r] = "none"]
    /\ UNCHANGED <<rows, index, head, outcome, missed, pending, control>>

--------------------------------------------------------------------------------
\* What a process does once its synchronous section has begun.
Section(p) ==
    \/ \E r \in Reports : RestoreFile(p, r)
    \/ RestoreRow(p) \/ EndRestore(p)
    \/ WriteLedgerMarkdown(p) \/ InsertFieldReport(p)
    \/ GitAdd(p) \/ GitCommit(p) \/ GitFails(p)

Next ==
    \/ \E p \in Processes :
        \/ Start(p) \/ Section(p) \/ CommitTick(p) \/ Exit(p)
        \/ \E r \in Reports : BuildFieldReport(p, r) \/ SubmitFieldReport(p, r)
    \/ LoseDatabase
    \/ \E r \in Reports : RemoveFile(r)

Spec == Init /\ [][Next]_vars

\* A section runs to its end and the interval timer keeps firing; nobody has to
\* start a process, make a report or exit.
FairSpec ==
    /\ Spec
    /\ \A p \in Processes : WF_vars(Section(p)) /\ WF_vars(CommitTick(p))

--------------------------------------------------------------------------------
Waiting(p) == pending[p] \cup (IF phase[p] \in {"add", "commit"} THEN work[p] ELSE {})

\* A process at rest has a row for each of its reports that is intact on disk, whether it
\* died between file and row, lost the database, or failed to insert the row in an earlier
\* life (restorer.ts:60, runner.ts:162-164); one that failed in this life waits for the
\* next start.
OwnReportsRecovered ==
    \A p \in Processes : phase[p] = "idle" =>
        \A r \in Reports : Author[r] = p /\ file[r] = "intact" => r \in rows \cup missed

\* An exported report is committed in the end, unless its process exits or a file
\* of the batch is removed, which git add then refuses for good.
ExportIsCommitted ==
    \A p \in Armed, r \in Reports :
        (GitRepo /\ r \in pending[p])
            ~> (r \in head \/ phase[p] = "down" \/ \E q \in Waiting(p) : file[q] = "none")
================================================================================
