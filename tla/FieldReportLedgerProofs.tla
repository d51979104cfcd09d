------------------------ MODULE FieldReportLedgerProofs ------------------------
(***************************************************************************)
(* Proofs about FieldReportLedger, for any processes, reports and authors  *)
(* and any number of mishaps.                                              *)
(***************************************************************************)
EXTENDS FieldReportLedger, TLAPS

\* What Goto does to the three control variables.
LEMMA GotoType ==
    ASSUME TypeOK, NEW p \in Processes, NEW ph \in Phases,
           NEW r \in Reports \cup {NoReport}, NEW fs \in SUBSET Reports, Goto(p, ph, r, fs)
    PROVE  /\ phase' \in [Processes -> Phases]
           /\ report' \in [Processes -> Reports \cup {NoReport}]
           /\ work' \in [Processes -> SUBSET Reports]
BY DEF TypeOK, Goto

\* The variables that Goto leaves to the action.
StoresOK ==
    /\ file \in [Reports -> {"none", "partial", "intact"}]
    /\ rows \subseteq Reports /\ missed \subseteq Reports
    /\ index \subseteq Reports /\ head \subseteq Reports
    /\ outcome \in [Reports -> {"none", "open", "recorded", "failed"}]
    /\ pending \in [Processes -> SUBSET Reports]
    /\ mishaps \in 0..MaxMishaps

LEMMA GotoTypeOK ==
    ASSUME TypeOK, NEW p \in Processes, NEW ph \in Phases,
           NEW r \in Reports \cup {NoReport}, NEW fs \in SUBSET Reports, Goto(p, ph, r, fs),
           StoresOK'
    PROVE  TypeOK'
<1>1. /\ phase' \in [Processes -> Phases]
      /\ report' \in [Processes -> Reports \cup {NoReport}]
      /\ work' \in [Processes -> SUBSET Reports]
  BY GotoType
<1> QED
  BY <1>1 DEF TypeOK, StoresOK

LEMMA MishapType == ASSUME TypeOK, Mishap PROVE mishaps' \in 0..MaxMishaps
BY MishapsAssumption DEF TypeOK, Mishap

\* A report is named wherever a process is about one.
Named == \A p \in Processes : phase[p] \in {"restoreRow", "write", "row"} => report[p] \in Reports

\* A process only writes reports of its own.
WritesItsOwn ==
    \A p \in Processes : phase[p] \in {"write", "row"} =>
        report[p] \in Reports /\ Author[report[p]] = p

\* A report of its own that is intact on disk has a row, or missed it in this life of p,
\* or p is on its way to it: it is among the files to restore, or the one p is at.
Outstanding(p) ==
    CASE phase[p] = "restore" -> work[p]
      [] phase[p] = "restoreRow" -> work[p] \cup {report[p]}
      [] phase[p] = "row" -> {report[p]}
      [] OTHER -> {}

RecoveryInv ==
    \A p \in Processes : phase[p] # "down" =>
        \A r \in Reports : Author[r] = p /\ file[r] = "intact" => r \in rows \cup missed \cup Outstanding(p)

LedgerInv == TypeOK /\ Named /\ WritesItsOwn /\ RecoveryInv

LEMMA LedgerInit == Init => LedgerInv
BY MishapsAssumption DEF Init, LedgerInv, TypeOK, Named, WritesItsOwn, RecoveryInv, Phases

\* A step of p that moves p alone keeps the invariant if it keeps it for p and
\* takes no row away and writes no file of another process.
LEMMA OneProcess ==
    ASSUME LedgerInv, TypeOK', NEW p \in Processes,
           NEW ph \in Phases, NEW r \in Reports \cup {NoReport}, NEW fs \in SUBSET Reports,
           Goto(p, ph, r, fs),
           rows \subseteq rows', \A s \in missed : s \in missed' \/ Author[s] = p,
           \A s \in Reports : file'[s] = "intact" => file[s] = "intact" \/ Author[s] = p,
           ph \in {"restoreRow", "write", "row"} => r \in Reports,
           ph \in {"write", "row"} => Author[r] = p,
           ph # "down" => \A s \in Reports :
               Author[s] = p /\ file'[s] = "intact" =>
                   \/ s \in rows' \cup missed'
                   \/ ph \in {"restore", "restoreRow"} /\ s \in fs
                   \/ ph \in {"restoreRow", "row"} /\ s = r
    PROVE  LedgerInv'
<1>1. /\ phase'[p] = ph /\ report'[p] = r /\ work'[p] = fs
      /\ \A q \in Processes \ {p} : /\ phase'[q] = phase[q]
                                    /\ report'[q] = report[q]
                                    /\ work'[q] = work[q]
  BY DEF LedgerInv, TypeOK, Goto
<1>2. Named'
  BY <1>1 DEF LedgerInv, Named
<1>3. WritesItsOwn'
  BY <1>1 DEF LedgerInv, WritesItsOwn
<1>4. RecoveryInv'
  <2> SUFFICES ASSUME NEW q \in Processes, phase'[q] # "down", NEW s \in Reports,
                      Author[s] = q, file'[s] = "intact"
               PROVE  s \in rows' \cup missed' \cup Outstanding(q)'
    BY DEF RecoveryInv
  <2>1. CASE q = p
    BY <1>1, <2>1 DEF Outstanding
  <2>2. CASE q # p
    <3>1. s \in rows \cup missed \cup Outstanding(q)
      BY <1>1, <2>2 DEF LedgerInv, RecoveryInv
    <3>2. Outstanding(q)' = Outstanding(q)
      BY <1>1, <2>2 DEF Outstanding
    <3>3. s \in missed => s \in missed'
      BY <2>2
    <3> QED
      BY <3>1, <3>2, <3>3
  <2> QED
    BY <2>1, <2>2
<1> QED
  BY <1>2, <1>3, <1>4 DEF LedgerInv

\* A step that moves no process, takes no row away and completes no file.
LEMMA NoProcess ==
    ASSUME LedgerInv, TypeOK', UNCHANGED control, rows \subseteq rows', missed \subseteq missed',
           \A s \in Reports : file'[s] = "intact" => file[s] = "intact" \/ s \in rows'
    PROVE  LedgerInv'
<1>1. Named' /\ WritesItsOwn'
  BY DEF LedgerInv, Named, WritesItsOwn, control
<1>2. RecoveryInv'
  <2>1. \A p \in Processes : Outstanding(p)' = Outstanding(p)
    BY DEF Outstanding, control
  <2> QED
    BY <2>1 DEF LedgerInv, RecoveryInv, control
<1> QED
  BY <1>1, <1>2 DEF LedgerInv

LEMMA LedgerStep == LedgerInv /\ [Next]_vars => LedgerInv'
<1> SUFFICES ASSUME LedgerInv, [Next]_vars PROVE LedgerInv'
  OBVIOUS
<1> USE DEF Phases
<1>1. TypeOK /\ Named /\ WritesItsOwn /\ RecoveryInv
  BY DEF LedgerInv
<1>2. ASSUME NEW p \in Processes, Start(p) PROVE LedgerInv'
  <2>1. Goto(p, "restore", NoReport, LedgerFiles) /\ LedgerFiles \in SUBSET Reports
    BY <1>2 DEF Start, LedgerFiles
  <2>2. TypeOK'
    <3>1. StoresOK'
      BY <1>2, <1>1, <2>1 DEF Start, stores, TypeOK, StoresOK
    <3> QED
      BY <1>1, <2>1, <3>1, GotoTypeOK
  <2>3. rows' = rows /\ missed' = {r \in missed : Author[r] # p} /\ file' = file
    BY <1>2 DEF Start, stores
  <2> QED
    BY <2>1, <2>2, <2>3, OneProcess DEF LedgerFiles
<1>3. ASSUME NEW p \in Processes, NEW r \in Reports, RestoreFile(p, r) PROVE LedgerInv'
  <2> DEFINE rest == work[p] \ {r}
  <2>1. rest \in SUBSET Reports
    BY <1>1 DEF TypeOK
  <2>2. rows' = rows /\ missed' = missed /\ file' = file /\ phase[p] = "restore" /\ UNCHANGED <<index, head, outcome, pending, mishaps>>
    BY <1>3 DEF RestoreFile, stores
  <2>3. CASE file[r] = "none"
    <3>1. Goto(p, "down", NoReport, {})
      BY <1>3, <2>3 DEF RestoreFile
    <3>2. TypeOK'
      <4>1. StoresOK'
        BY <1>1, <2>2, <3>1 DEF TypeOK, StoresOK
      <4> QED
        BY <1>1, <2>2, <3>1, <4>1, GotoTypeOK
    <3> QED
      BY <2>2, <3>1, <3>2, OneProcess
  <2>4. CASE file[r] = "intact" /\ r \notin rows
    <3>1. Goto(p, "restoreRow", r, rest)
      BY <1>3, <2>4 DEF RestoreFile
    <3>2. TypeOK'
      <4>1. StoresOK'
        BY <1>1, <2>1, <2>2, <3>1 DEF TypeOK, StoresOK
      <4> QED
        BY <1>1, <2>1, <2>2, <3>1, <4>1, GotoTypeOK
    <3>3. \A s \in Reports : Author[s] = p /\ file[s] = "intact" => s \in rows \cup missed \/ s \in rest \/ s = r
      BY <1>1, <2>2 DEF RecoveryInv, Outstanding
    <3> HIDE DEF rest
    <3> QED
      BY <2>1, <2>2, <3>1, <3>2, <3>3, OneProcess
  <2>5. CASE file[r] # "none" /\ ~(file[r] = "intact" /\ r \notin rows)
    <3>1. Goto(p, "restore", NoReport, rest)
      BY <1>3, <2>5 DEF RestoreFile
    <3>2. TypeOK'
      <4>1. StoresOK'
        BY <1>1, <2>1, <2>2, <3>1 DEF TypeOK, StoresOK
      <4> QED
        BY <1>1, <2>1, <2>2, <3>1, <4>1, GotoTypeOK
    <3>3. \A s \in Reports : Author[s] = p /\ file[s] = "intact" => s \in rows \cup missed \/ s \in rest
      BY <1>1, <2>2, <2>5 DEF RecoveryInv, Outstanding
    <3> HIDE DEF rest
    <3> QED
      BY <2>1, <2>2, <3>1, <3>2, <3>3, OneProcess
  <2> QED
    BY <2>3, <2>4, <2>5
<1>4. ASSUME NEW p \in Processes, RestoreRow(p) PROVE LedgerInv'
  <2>1. /\ rows' = rows \cup {report[p]} /\ missed' = missed /\ file' = file /\ phase[p] = "restoreRow"
        /\ UNCHANGED <<index, head, outcome, pending, mishaps>>
    BY <1>4 DEF RestoreRow
  <2>2. report[p] \in Reports /\ work[p] \in SUBSET Reports
    BY <1>1, <2>1 DEF Named, TypeOK
  <2>3. CASE report[p] \in rows
    <3>1. Goto(p, "down", NoReport, {})
      BY <1>4, <2>3 DEF RestoreRow
    <3>2. TypeOK'
      <4>1. StoresOK'
        BY <1>1, <2>1, <2>2, <3>1 DEF TypeOK, StoresOK
      <4> QED
        BY <1>1, <2>1, <2>2, <3>1, <4>1, GotoTypeOK
    <3> QED
      BY <2>1, <3>1, <3>2, OneProcess
  <2>4. CASE report[p] \notin rows
    <3>1. Goto(p, "restore", NoReport, work[p])
      BY <1>4, <2>4 DEF RestoreRow
    <3>2. TypeOK'
      <4>1. StoresOK'
        BY <1>1, <2>1, <2>2, <3>1 DEF TypeOK, StoresOK
      <4> QED
        BY <1>1, <2>1, <2>2, <3>1, <4>1, GotoTypeOK
    <3>3. \A s \in Reports : Author[s] = p /\ file[s] = "intact" => s \in rows' \cup missed' \/ s \in work[p]
      BY <1>1, <2>1 DEF RecoveryInv, Outstanding
    <3> QED
      BY <2>1, <2>2, <3>1, <3>2, <3>3, OneProcess
  <2> QED
    BY <2>3, <2>4
<1>5. ASSUME NEW p \in Processes, EndRestore(p) PROVE LedgerInv'
  <2>1. Goto(p, "idle", NoReport, {}) /\ rows' = rows /\ missed' = missed /\ file' = file
    BY <1>5 DEF EndRestore, stores
  <2>2. TypeOK'
    <3>1. StoresOK'
      BY <1>5, <1>1, <2>1 DEF EndRestore, stores, TypeOK, StoresOK
    <3> QED
      BY <1>1, <2>1, <3>1, GotoTypeOK
  <2>3. \A s \in Reports : Author[s] = p /\ file[s] = "intact" => s \in rows \cup missed
    BY <1>5, <1>1 DEF EndRestore, RecoveryInv, Outstanding
  <2> QED
    BY <2>1, <2>2, <2>3, OneProcess
<1>6. ASSUME NEW p \in Processes, NEW r \in Reports, BuildFieldReport(p, r) PROVE LedgerInv'
  <2>1. /\ Author[r] = p /\ rows' = rows /\ missed' = missed /\ UNCHANGED <<index, head, pending>>
        /\ outcome' = [outcome EXCEPT ![r] = "open"]
    BY <1>6 DEF BuildFieldReport
  <2>2. \A s \in Reports : Author[s] = p /\ file[s] = "intact" => s \in rows \cup missed
    BY <1>6, <1>1 DEF BuildFieldReport, RecoveryInv, Outstanding
  <2>3. CASE file' = [file EXCEPT ![r] = "partial"] /\ Goto(p, "write", r, {}) /\ UNCHANGED mishaps
    <3>1. TypeOK'
      <4>1. StoresOK'
        BY <1>1, <2>1, <2>3 DEF TypeOK, StoresOK
      <4> QED
        BY <1>1, <2>1, <2>3, <4>1, GotoTypeOK
    <3>2. \A s \in Reports : file'[s] = "intact" => file[s] = "intact"
      BY <1>1, <2>3 DEF TypeOK
    <3> QED
      BY <2>1, <2>2, <2>3, <3>1, <3>2, OneProcess
  <2>4. CASE Goto(p, "row", r, {}) /\ Mishap /\ UNCHANGED file
    <3>1. TypeOK'
      <4>1. StoresOK'
        BY <1>1, <2>1, <2>4, MishapType DEF TypeOK, StoresOK
      <4> QED
        BY <1>1, <2>1, <2>4, <4>1, GotoTypeOK
    <3> QED
      BY <2>1, <2>2, <2>4, <3>1, OneProcess
  <2> QED
    BY <1>6, <2>3, <2>4 DEF BuildFieldReport
<1>7. ASSUME NEW p \in Processes, WriteLedgerMarkdown(p) PROVE LedgerInv'
  <2>1. /\ phase[p] = "write" /\ rows' = rows /\ missed' = missed /\ UNCHANGED <<index, head, outcome>>
        /\ Goto(p, "row", report[p], {})
    BY <1>7 DEF WriteLedgerMarkdown
  <2>2. report[p] \in Reports /\ Author[report[p]] = p
    BY <1>1, <2>1 DEF WritesItsOwn
  <2>3. \A s \in Reports : Author[s] = p /\ file[s] = "intact" => s \in rows \cup missed
    BY <1>1, <2>1 DEF RecoveryInv, Outstanding
  <2>4. /\ file' \in [Reports -> {"none", "partial", "intact"}]
        /\ pending' \in [Processes -> SUBSET Reports]
        /\ mishaps' \in 0..MaxMishaps
    BY <1>7, <1>1, <2>2, MishapType DEF WriteLedgerMarkdown, TypeOK
  <2>5. TypeOK'
    <3>1. StoresOK'
      BY <1>1, <2>1, <2>2, <2>4 DEF TypeOK, StoresOK
    <3> QED
      BY <1>1, <2>1, <2>2, <2>4, <3>1, GotoTypeOK
  <2>6. \A s \in Reports : file'[s] = "intact" => file[s] = "intact" \/ s = report[p]
    BY <1>7, <1>1 DEF WriteLedgerMarkdown, TypeOK
  <2> QED
    BY <2>1, <2>2, <2>3, <2>5, <2>6, OneProcess
<1>8. ASSUME NEW p \in Processes, InsertFieldReport(p) PROVE LedgerInv'
  <2>1. /\ phase[p] = "row" /\ file' = file /\ UNCHANGED <<index, head, pending>>
        /\ \/ rows' = rows \cup {report[p]} /\ missed' = missed
           \/ missed' = missed \cup {report[p]} /\ rows' = rows
        /\ Goto(p, "idle", NoReport, {})
    BY <1>8 DEF InsertFieldReport
  <2>2. report[p] \in Reports
    BY <1>1, <2>1 DEF WritesItsOwn
  <2>3. \A s \in Reports : Author[s] = p /\ file[s] = "intact" => s \in rows' \cup missed'
    BY <1>1, <2>1 DEF RecoveryInv, Outstanding
  <2>4. /\ outcome' \in [Reports -> {"none", "open", "recorded", "failed"}]
        /\ mishaps' \in 0..MaxMishaps
    BY <1>8, <1>1, <2>2, MishapType DEF InsertFieldReport, TypeOK
  <2>5. TypeOK'
    <3>1. StoresOK'
      BY <1>1, <2>1, <2>2, <2>4 DEF TypeOK, StoresOK
    <3> QED
      BY <1>1, <2>1, <3>1, GotoTypeOK
  <2> QED
    BY <2>1, <2>3, <2>5, OneProcess
<1>9. ASSUME NEW p \in Processes, NEW r \in Reports, SubmitFieldReport(p, r) PROVE LedgerInv'
  <2>1. /\ UNCHANGED <<file, index, head, missed, pending, control>>
        /\ rows' \subseteq Reports /\ rows \subseteq rows'
        /\ outcome' \in [Reports -> {"none", "open", "recorded", "failed"}]
        /\ mishaps' \in 0..MaxMishaps
    BY <1>9, <1>1, MishapType DEF SubmitFieldReport, TypeOK
  <2>2. TypeOK'
    BY <1>1, <2>1 DEF TypeOK, control
  <2> QED
    BY <2>1, <2>2, NoProcess
<1>10. ASSUME NEW p \in Processes, CommitTick(p) PROVE LedgerInv'
  <2>1. /\ rows' = rows /\ missed' = missed /\ file' = file /\ UNCHANGED <<index, head, outcome, mishaps>>
        /\ pending' \in [Processes -> SUBSET Reports] /\ pending[p] \in SUBSET Reports
    BY <1>10, <1>1 DEF CommitTick, stores, TypeOK
  <2>2. CASE GitRepo
    <3>1. Goto(p, "add", NoReport, pending[p])
      BY <1>10, <2>2 DEF CommitTick
    <3>2. TypeOK'
      <4>1. StoresOK'
        BY <1>1, <2>1, <3>1 DEF TypeOK, StoresOK
      <4> QED
        BY <1>1, <2>1, <3>1, <4>1, GotoTypeOK
    <3>3. \A s \in Reports : Author[s] = p /\ file[s] = "intact" => s \in rows \cup missed
      BY <1>10, <1>1 DEF CommitTick, RecoveryInv, Outstanding
    <3> QED
      BY <2>1, <3>1, <3>2, <3>3, OneProcess
  <2>3. CASE ~GitRepo
    <3>1. UNCHANGED control
      BY <1>10, <2>3 DEF CommitTick
    <3>2. TypeOK'
      BY <1>1, <2>1, <3>1 DEF TypeOK, control
    <3> QED
      BY <2>1, <3>1, <3>2, NoProcess
  <2> QED
    BY <2>2, <2>3
\* The batch is committed, or put back; both leave files and rows alone.
<1>11. ASSUME NEW p \in Processes, GitAdd(p) \/ GitCommit(p) \/ GitFails(p) PROVE LedgerInv'
  <2>1. phase[p] \in {"add", "commit"} /\ rows' = rows /\ missed' = missed /\ file' = file
    BY <1>11 DEF GitAdd, GitCommit, GitFails, stores
  <2>2. \A s \in Reports : Author[s] = p /\ file[s] = "intact" => s \in rows \cup missed
    BY <1>1, <2>1 DEF RecoveryInv, Outstanding
  <2>3. /\ index' \subseteq Reports /\ head' \subseteq Reports
        /\ outcome' = outcome /\ mishaps' \in 0..MaxMishaps
        /\ pending' \in [Processes -> SUBSET Reports]
        /\ work[p] \in SUBSET Reports
    BY <1>11, <1>1, MishapType DEF GitAdd, GitCommit, GitFails, stores, PushBack, AfterFailure,
       AddedIndex, TypeOK
  <2>4. \/ Goto(p, "commit", NoReport, work[p])
        \/ Goto(p, "idle", NoReport, {})
    BY <1>11 DEF GitAdd, GitCommit, GitFails, PushBack
  <2>5. TypeOK'
    <3>1. StoresOK'
      BY <1>1, <2>1, <2>3, <2>4 DEF TypeOK, StoresOK
    <3> QED
      BY <1>1, <2>1, <2>3, <2>4, <3>1, GotoTypeOK
  <2> QED
    BY <2>1, <2>2, <2>3, <2>4, <2>5, OneProcess
<1>12. ASSUME NEW p \in Processes, Exit(p) PROVE LedgerInv'
  <2>1. Goto(p, "down", NoReport, {}) /\ rows' = rows /\ missed' = missed /\ file' = file
    BY <1>12 DEF Exit, stores
  <2>2. TypeOK'
    <3>1. StoresOK'
      BY <1>12, <1>1, <2>1, MishapType DEF Exit, stores, TypeOK, StoresOK
    <3> QED
      BY <1>1, <2>1, <3>1, GotoTypeOK
  <2> QED
    BY <2>1, <2>2, OneProcess
\* The rows go while no process is up.
<1>13. ASSUME LoseDatabase PROVE LedgerInv'
  <2>1. TypeOK'
    BY <1>13, <1>1 DEF LoseDatabase, TypeOK, control
  <2> QED
    BY <1>13, <1>1, <2>1 DEF LoseDatabase, LedgerInv, Named, WritesItsOwn, RecoveryInv, control
<1>14. ASSUME NEW r \in Reports, RemoveFile(r) PROVE LedgerInv'
  <2>1. TypeOK'
    BY <1>14, <1>1, MishapType DEF RemoveFile, TypeOK, control
  <2>2. \A s \in Reports : file'[s] = "intact" => file[s] = "intact"
    BY <1>14, <1>1 DEF RemoveFile, TypeOK
  <2> QED
    BY <1>14, <2>1, <2>2, NoProcess DEF RemoveFile
<1>15. CASE UNCHANGED vars
  <2>1. TypeOK'
    BY <1>15, <1>1 DEF vars, TypeOK
  <2> QED
    BY <1>15, <2>1, NoProcess DEF vars, control
<1> QED
  BY <1>2, <1>3, <1>4, <1>5, <1>6, <1>7, <1>8, <1>9, <1>10, <1>11, <1>12, <1>13, <1>14, <1>15
     DEF Next, Section

LEMMA LedgerInvariant == Spec => []LedgerInv
BY LedgerInit, LedgerStep, PTL DEF Spec

\* The stores, the batches and the place of every process are well formed
\* (field-reports/ledger.ts, restorer.ts).
THEOREM LedgerTypeCorrect == Spec => []TypeOK
<1>1. LedgerInv => TypeOK
  BY DEF LedgerInv
<1> QED
  BY <1>1, LedgerInvariant, PTL

\* Whoever dies where, and however often the database is lost or locked, a process at rest
\* has a row for each intact file of its own, but where the insertion of the row failed
\* since the process started (restorer.ts:60, runner.ts:162-164).
THEOREM OwnReportsAreRecovered == Spec => []OwnReportsRecovered
<1>1. LedgerInv => OwnReportsRecovered
  BY DEF LedgerInv, RecoveryInv, Outstanding, OwnReportsRecovered
<1> QED
  BY <1>1, LedgerInvariant, PTL

--------------------------------------------------------------------------------
(* The batches.                                                             *)

\* A report that waits to be committed was written once and is not written again; a
\* file of the batch at hand that git add was given is in git's index or gone.
BatchInv ==
    /\ \A p \in Processes, r \in Reports :
          r \in Waiting(p) => file[r] # "partial" /\ outcome[r] # "none"
    /\ \A p \in Processes : phase[p] = "write" =>
          file[report[p]] = "partial" /\ outcome[report[p]] # "none"
    /\ \A p \in Processes : phase[p] = "commit" =>
          \A r \in work[p] : r \in index \/ file[r] = "none"

\* What a step may do to a report that was made: its author completes the file, or
\* somebody removes it, and git add takes no file out of the index but a missing one.
Handled(r) ==
    /\ outcome'[r] # "none"
    /\ \/ file'[r] = file[r]
       \/ file[r] = "intact" /\ file'[r] = "none"
       \/ \E p \in Processes : phase[p] = "write" /\ report[p] = r /\ phase'[p] # "write"
    /\ r \in index => r \in index' \/ file[r] = "none"

\* What a step may do to a process: take up a batch, add it, put it back or give it to
\* a commit, with the files of the batch in the index or missing.
Kept(p, r) ==
    \/ r \in Waiting(p)' \/ r \in head' \/ phase'[p] = "down" \/ file'[r] = "none" \/ ~GitRepo

Moved(p) ==
    /\ \A r \in Waiting(p)' : r \in Waiting(p) \/ (phase[p] = "write" /\ r = report[p]
                                                     /\ file'[r] = "intact")
    /\ phase'[p] = "write" =>
          \/ phase[p] = "write" /\ report'[p] = report[p]
          \/ file'[report'[p]] = "partial" /\ outcome'[report'[p]] = "open"
    /\ phase'[p] = "commit" =>
          \A r \in work'[p] : \/ phase[p] = "commit" /\ r \in work[p]
                              \/ r \in index' \/ file'[r] = "none"
    /\ \A r \in Waiting(p) : Kept(p, r)

LEMMA StandsStill ==
    ASSUME LedgerInv, BatchInv, NEW p \in Processes,
           phase'[p] = phase[p], report'[p] = report[p], work'[p] = work[p],
           pending'[p] = pending[p]
    PROVE  Moved(p)
BY DEF Moved, Waiting, Kept

LEMMA GotoMoves ==
    ASSUME LedgerInv, NEW p \in Processes, NEW ph, NEW r, NEW fs, Goto(p, ph, r, fs)
    PROVE  /\ phase'[p] = ph /\ report'[p] = r /\ work'[p] = fs
           /\ \A q \in Processes \ {p} : /\ phase'[q] = phase[q] /\ report'[q] = report[q]
                                         /\ work'[q] = work[q]
BY DEF LedgerInv, TypeOK, Goto

\* Every step handles the reports and moves the processes in these ways.
LEMMA LedgerMoves ==
    ASSUME LedgerInv, BatchInv, Next
    PROVE  /\ \A r \in Reports : outcome[r] # "none" => Handled(r)
           /\ \A p \in Processes : Moved(p)
<1>1. TypeOK /\ Named /\ WritesItsOwn
  BY DEF LedgerInv
<1>2. ASSUME NEW p \in Processes,
             \/ Start(p) \/ RestoreRow(p) \/ EndRestore(p) \/ Exit(p)
             \/ \E r \in Reports : RestoreFile(p, r)
      PROVE  /\ \A r \in Reports : outcome[r] # "none" => Handled(r)
             /\ \A q \in Processes : Moved(q)
  <2>1. /\ UNCHANGED <<file, index, head, outcome>>
        /\ \A q \in Processes \ {p} : pending'[q] = pending[q]
        /\ phase[p] \in {"down", "restore", "restoreRow"} \/ Exit(p)
        /\ \/ pending' = pending
           \/ pending'[p] = {} /\ Exit(p)
    BY <1>2, <1>1 DEF Start, RestoreRow, EndRestore, Exit, RestoreFile, stores, TypeOK
  <2>2. PICK ph \in {"down", "restore", "restoreRow", "idle"} : \E r, fs : Goto(p, ph, r, fs)
    <3>1. CASE \E r \in Reports : RestoreFile(p, r)
      BY <3>1 DEF RestoreFile
    <3>2. CASE ~\E r \in Reports : RestoreFile(p, r)
      BY <1>2, <3>2 DEF Start, RestoreRow, EndRestore, Exit
    <3> QED
      BY <3>1, <3>2
  <2>3. Exit(p) => phase'[p] = "down"
    BY <1>1 DEF Exit, Goto, TypeOK
  <2>4. phase'[p] = ph /\ \A q \in Processes \ {p} : Moved(q)
    BY <2>1, <2>2, GotoMoves, StandsStill
  <2>5. Moved(p)
    BY <2>1, <2>3, <2>4 DEF Moved, Waiting, Kept
  <2> QED
    BY <2>1, <2>4, <2>5 DEF Handled
<1>3. ASSUME NEW p \in Processes, NEW r \in Reports, BuildFieldReport(p, r)
      PROVE  /\ \A s \in Reports : outcome[s] # "none" => Handled(s)
             /\ \A q \in Processes : Moved(q)
  <2>1. /\ phase[p] = "idle" /\ outcome[r] = "none" /\ outcome'[r] = "open"
        /\ \A s \in Reports \ {r} : outcome'[s] = outcome[s] /\ file'[s] = file[s]
        /\ UNCHANGED <<index, head, pending>>
        /\ \/ file'[r] = "partial" /\ Goto(p, "write", r, {})
           \/ Goto(p, "row", r, {})
    BY <1>3, <1>1 DEF BuildFieldReport, TypeOK
  <2>2. /\ phase'[p] = "row" \/ (phase'[p] = "write" /\ report'[p] = r /\ file'[r] = "partial")
        /\ \A q \in Processes \ {p} : Moved(q)
    BY <2>1, GotoMoves, StandsStill
  <2>3. Moved(p)
    BY <2>1, <2>2 DEF Moved, Waiting, Kept
  <2> QED
    BY <2>1, <2>2, <2>3 DEF Handled
<1>4. ASSUME NEW p \in Processes, WriteLedgerMarkdown(p)
      PROVE  /\ \A s \in Reports : outcome[s] # "none" => Handled(s)
             /\ \A q \in Processes : Moved(q)
  <2>1. /\ phase[p] = "write" /\ Goto(p, "row", report[p], {}) /\ report[p] \in Reports
        /\ \A s \in Reports \ {report[p]} : file'[s] = file[s]
        /\ UNCHANGED <<index, head, outcome>>
        /\ \A q \in Processes \ {p} : pending'[q] = pending[q]
        /\ \/ pending'[p] = pending[p] \cup {report[p]} /\ file'[report[p]] = "intact"
           \/ pending'[p] = pending[p]
    BY <1>4, <1>1 DEF WriteLedgerMarkdown, WritesItsOwn, TypeOK
  <2>2. phase'[p] = "row" /\ \A q \in Processes \ {p} : Moved(q)
    BY <2>1, GotoMoves, StandsStill
  <2>3. Moved(p)
    BY <2>1, <2>2 DEF Moved, Waiting, Kept
  <2> QED
    BY <2>1, <2>2, <2>3 DEF Handled
<1>5. ASSUME NEW p \in Processes,
             InsertFieldReport(p) \/ \E r \in Reports : SubmitFieldReport(p, r)
      PROVE  /\ \A s \in Reports : outcome[s] # "none" => Handled(s)
             /\ \A q \in Processes : Moved(q)
  <2>1. /\ UNCHANGED <<file, index, head, pending>>
        /\ \A s \in Reports : outcome[s] # "none" => outcome'[s] # "none"
    BY <1>5, <1>1 DEF InsertFieldReport, SubmitFieldReport, WritesItsOwn, TypeOK
  <2>2. \A q \in Processes : Moved(q)
    <3>1. CASE InsertFieldReport(p)
      <4>1. phase[p] = "row" /\ Goto(p, "idle", NoReport, {})
        BY <3>1 DEF InsertFieldReport
      <4>2. phase'[p] = "idle" /\ \A q \in Processes \ {p} : Moved(q)
        BY <2>1, <4>1, GotoMoves, StandsStill
      <4>3. Moved(p)
        BY <2>1, <4>1, <4>2 DEF Moved, Waiting, Kept
      <4> QED
        BY <4>2, <4>3
    <3>2. CASE \E r \in Reports : SubmitFieldReport(p, r)
      BY <2>1, <3>2, StandsStill DEF SubmitFieldReport, control
    <3> QED
      BY <1>5, <3>1, <3>2
  <2> QED
    BY <2>1, <2>2 DEF Handled
<1>6. ASSUME NEW p \in Processes, CommitTick(p)
      PROVE  /\ \A s \in Reports : outcome[s] # "none" => Handled(s)
             /\ \A q \in Processes : Moved(q)
  <2>1. /\ phase[p] = "idle" /\ UNCHANGED <<file, index, head, outcome>>
        /\ pending'[p] = {} /\ \A q \in Processes \ {p} : pending'[q] = pending[q]
        /\ \/ GitRepo /\ Goto(p, "add", NoReport, pending[p])
           \/ ~GitRepo /\ UNCHANGED control
    BY <1>6, <1>1 DEF CommitTick, stores, TypeOK
  <2>2. CASE GitRepo /\ Goto(p, "add", NoReport, pending[p])
    <3>1. /\ phase'[p] = "add" /\ work'[p] = pending[p]
          /\ \A q \in Processes \ {p} : Moved(q)
      BY <2>1, <2>2, GotoMoves, StandsStill
    <3>2. Moved(p)
      BY <2>1, <3>1 DEF Moved, Waiting, Kept
    <3> QED
      BY <2>1, <3>1, <3>2 DEF Handled
  <2>3. CASE ~GitRepo /\ UNCHANGED control
    <3>1. \A q \in Processes \ {p} : Moved(q)
      BY <2>1, <2>3, StandsStill DEF control
    <3>2. Moved(p)
      BY <2>1, <2>3 DEF Moved, Waiting, Kept, control
    <3> QED
      BY <2>1, <3>1, <3>2 DEF Handled
  <2> QED
    BY <2>1, <2>2, <2>3
<1>7. ASSUME NEW p \in Processes, GitAdd(p) \/ GitCommit(p) \/ GitFails(p)
      PROVE  /\ \A s \in Reports : outcome[s] # "none" => Handled(s)
             /\ \A q \in Processes : Moved(q)
  <2>1. /\ phase[p] \in {"add", "commit"} /\ UNCHANGED <<file, outcome>>
        /\ index' = index \/ index' = AddedIndex(p)
    BY <1>7 DEF GitAdd, GitCommit, GitFails, stores
  <2>2. \/ PushBack(p)
        \/ Goto(p, "commit", NoReport, work[p]) /\ pending' = pending /\ index' = AddedIndex(p)
        \/ /\ Goto(p, "idle", NoReport, {}) /\ pending' = pending
           /\ phase[p] = "commit" /\ head' = index
    BY <1>7 DEF GitAdd, GitCommit, GitFails
  <2>3. ASSUME PushBack(p) PROVE \A q \in Processes : Moved(q)
    <3>1. /\ Goto(p, "idle", NoReport, {}) /\ pending'[p] = pending[p] \cup work[p]
          /\ \A q \in Processes \ {p} : pending'[q] = pending[q]
      BY <1>1, <2>3 DEF PushBack, AfterFailure, TypeOK
    <3>2. phase'[p] = "idle" /\ \A q \in Processes \ {p} : Moved(q)
      BY <3>1, GotoMoves, StandsStill
    <3>3. Moved(p)
      BY <2>1, <3>1, <3>2 DEF Moved, Waiting, Kept
    <3> QED
      BY <3>2, <3>3
  <2>4. ASSUME Goto(p, "commit", NoReport, work[p]), pending' = pending, index' = AddedIndex(p)
        PROVE  \A q \in Processes : Moved(q)
    <3>1. /\ phase'[p] = "commit" /\ work'[p] = work[p]
          /\ \A q \in Processes \ {p} : Moved(q)
      BY <2>4, GotoMoves, StandsStill
    <3>2. \A r \in work[p] : r \in index' \/ file'[r] = "none"
      BY <1>1, <2>1, <2>4 DEF AddedIndex, Missing, TypeOK
    <3>3. Moved(p)
      BY <2>1, <2>4, <3>1, <3>2 DEF Moved, Waiting, Kept
    <3> QED
      BY <3>1, <3>3
  <2>5. ASSUME Goto(p, "idle", NoReport, {}), pending' = pending, phase[p] = "commit", head' = index
        PROVE  \A q \in Processes : Moved(q)
    <3>1. phase'[p] = "idle" /\ \A q \in Processes \ {p} : Moved(q)
      BY <2>5, GotoMoves, StandsStill
    <3>2. \A r \in work[p] : r \in head' \/ file'[r] = "none"
      BY <2>1, <2>5 DEF BatchInv
    <3>3. Moved(p)
      BY <2>1, <2>5, <3>1, <3>2 DEF Moved, Waiting, Kept
    <3> QED
      BY <3>1, <3>3
  <2>6. \A q \in Processes : Moved(q)
    BY <2>2, <2>3, <2>4, <2>5
  <2>7. \A s \in Reports : s \in index => s \in index' \/ file[s] = "none"
    BY <2>1 DEF AddedIndex, Missing
  <2> QED
    BY <2>1, <2>6, <2>7 DEF Handled
<1>8. ASSUME LoseDatabase \/ \E r \in Reports : RemoveFile(r)
      PROVE  /\ \A s \in Reports : outcome[s] # "none" => Handled(s)
             /\ \A q \in Processes : Moved(q)
  <2>1. /\ UNCHANGED <<index, head, outcome, pending, control>>
        /\ \A s \in Reports : file'[s] = file[s] \/ (file[s] = "intact" /\ file'[s] = "none")
    BY <1>8, <1>1 DEF LoseDatabase, RemoveFile, TypeOK
  <2>2. \A q \in Processes : Moved(q)
    BY <2>1, StandsStill DEF control
  <2> QED
    BY <2>1, <2>2 DEF Handled
<1> QED
  BY <1>2, <1>3, <1>4, <1>5, <1>6, <1>7, <1>8 DEF Next, Section

LEMMA BatchStep == LedgerInv /\ LedgerInv' /\ BatchInv /\ [Next]_vars => BatchInv'
<1> SUFFICES ASSUME LedgerInv, LedgerInv', BatchInv, [Next]_vars PROVE BatchInv'
  OBVIOUS
<1>1. CASE UNCHANGED vars
  BY <1>1 DEF vars, BatchInv, Waiting
<1>2. CASE Next
  <2>1. /\ \A r \in Reports : outcome[r] # "none" => Handled(r)
        /\ \A p \in Processes : Moved(p)
    BY <1>2, LedgerMoves
  <2>2. \A p \in Processes : /\ Waiting(p) \subseteq Reports /\ Waiting(p)' \subseteq Reports
                             /\ phase[p] = "write" => report[p] \in Reports /\ Author[report[p]] = p
                             /\ phase'[p] = "write" => report'[p] \in Reports /\ Author[report'[p]] = p
    BY DEF LedgerInv, WritesItsOwn, TypeOK, Waiting
  <2>3. ASSUME NEW p \in Processes, NEW r \in Reports, r \in Waiting(p)'
        PROVE  file'[r] # "partial" /\ outcome'[r] # "none"
    <3>1. CASE r \in Waiting(p)
      <4>1. file[r] # "partial" /\ outcome[r] # "none" /\ Handled(r)
        BY <2>1, <3>1 DEF BatchInv
      <4>2. \A q \in Processes : ~(phase[q] = "write" /\ report[q] = r)
        BY <4>1 DEF BatchInv
      <4> QED
        BY <4>1, <4>2 DEF Handled
    <3>2. CASE phase[p] = "write" /\ r = report[p] /\ file'[r] = "intact"
      BY <2>1, <3>2 DEF BatchInv, Handled
    <3> QED
      BY <2>1, <2>3, <3>1, <3>2 DEF Moved
  <2>4. ASSUME NEW p \in Processes, phase'[p] = "write"
        PROVE  file'[report'[p]] = "partial" /\ outcome'[report'[p]] # "none"
    <3>1. CASE phase[p] = "write" /\ report'[p] = report[p]
      <4>1. file[report[p]] = "partial" /\ Handled(report[p])
        BY <2>1, <2>2, <3>1 DEF BatchInv
      <4>2. \A q \in Processes : phase[q] = "write" /\ report[q] = report[p] => phase'[q] = "write"
        BY <2>2, <2>4, <3>1
      <4> QED
        BY <3>1, <4>1, <4>2 DEF Handled
    <3>2. CASE file'[report'[p]] = "partial" /\ outcome'[report'[p]] = "open"
      BY <3>2
    <3> QED
      BY <2>1, <2>4, <3>1, <3>2 DEF Moved
  <2>5. ASSUME NEW p \in Processes, phase'[p] = "commit", NEW r \in work'[p]
        PROVE  r \in index' \/ file'[r] = "none"
    <3>1. CASE phase[p] = "commit" /\ r \in work[p]
      <4>1. r \in Waiting(p) /\ r \in Reports
        BY <2>2, <3>1 DEF Waiting
      <4>2. file[r] # "partial" /\ Handled(r) /\ (r \in index \/ file[r] = "none")
        BY <2>1, <3>1, <4>1 DEF BatchInv
      <4>3. \A q \in Processes : ~(phase[q] = "write" /\ report[q] = r)
        BY <4>2 DEF BatchInv
      <4> QED
        BY <4>2, <4>3 DEF Handled
    <3>2. CASE ~(phase[p] = "commit" /\ r \in work[p])
      BY <2>1, <2>5, <3>2 DEF Moved
    <3> QED
      BY <3>1, <3>2
  <2> QED
    BY <2>3, <2>4, <2>5 DEF BatchInv
<1> QED
  BY <1>1, <1>2

LEMMA BatchInit == Init => BatchInv
BY DEF Init, BatchInv, Waiting

\* An exported report is never dropped: git may fail or time out wherever it likes, and
\* a report leaves its process's pending list and batch only into the history, with its
\* process, or because its file was removed (ledger.ts:74-81).
THEOREM ExportsAreNotDropped ==
    Spec => [][\A p \in Processes, r \in Reports : r \in Waiting(p) =>
                  \/ r \in Waiting(p)' \/ r \in head'
                  \/ phase'[p] = "down" \/ file'[r] = "none" \/ ~GitRepo]_vars
<1> DEFINE NotDropped ==
       \A p \in Processes, r \in Reports : r \in Waiting(p) =>
          \/ r \in Waiting(p)' \/ r \in head'
          \/ phase'[p] = "down" \/ file'[r] = "none" \/ ~GitRepo
<1>1. LedgerInv /\ BatchInv /\ [Next]_vars => [NotDropped]_vars
  <2> SUFFICES ASSUME LedgerInv, BatchInv, Next PROVE NotDropped
    OBVIOUS
  <2> QED
    BY LedgerMoves DEF Moved, Kept
<1> HIDE DEF NotDropped
<1>2. Spec => [][NotDropped]_vars
  BY <1>1, LedgerInvariant, BatchInit, BatchStep, PTL DEF Spec
<1> QED
  BY <1>2 DEF NotDropped
================================================================================
