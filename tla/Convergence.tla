------------------------------ MODULE Convergence ------------------------------
(***************************************************************************)
(* The Architects' convergence queue over one worklist of architects.db:   *)
(* runConvergenceQueue takes the finished items that are not merged yet,   *)
(* verifies their branches in batches it bisects on failure, and marks     *)
(* them.  Nothing it awaits leaves the process's own turn, but every git   *)
(* probe and every UPDATE is a step of its own, between which other        *)
(* processes claim, release and complete items and branches come and go.   *)
(*                                                                         *)
(* Claiming is reduced to its outcome; ConstructionLocks has its steps.    *)
(***************************************************************************)
EXTENDS Integers, Sequences, FiniteSets

CONSTANTS
    Processes,
    Converging,       \* the processes that are asked for convergence runs
    WorkItems,        \* the worklist, numbered in the order of created_at
    Branches,
    FinalStatuses,    \* statuses passed to completeWorkItem
    InitialRows,      \* rows an item may have when the model begins
    Unset,            \* SQL NULL
    MaxRuns,          \* bound: convergence runs
    MaxEvents         \* bound: what happens besides convergence runs

Statuses == {"todo", "claimed", "done", "blocked", "failed"}
Row == [status : Statuses, branch : Branches \cup {Unset}, mergedAt : BOOLEAN]

ASSUME WorklistAssumption ==
    IsFiniteSet(WorkItems) /\ WorkItems = 1..Cardinality(WorkItems)
ASSUME ConvergingAssumption == Converging \subseteq Processes
ASSUME NullAssumption == Unset \notin Branches \cup Processes
ASSUME RowsAssumption == InitialRows \subseteq Row /\ FinalStatuses \subseteq Statuses
ASSUME ConvergenceBoundsAssumption == {MaxRuns, MaxEvents} \subseteq Nat

VARIABLES
    item,         \* status, branch and merged_at of each work item
    holder,       \* who holds the item's construction lock
    refs,         \* branches that git rev-parse --verify finds
    runs,         \* rows of architects_convergence_runs, oldest first
    paused,       \* the module flag convergencePaused, per process
    call,         \* the convergence run each process is in
    pending,      \* completeWorkItem after its await, per process
    events

vars == <<item, holder, refs, runs, paused, call, pending, events>>

Idle == [pc |-> "idle"]
\* What getWorkItemsForWorklist returned for one item; writes use this copy.
Copy == [id : WorkItems, branch : Branches]
Busy == [pc : {"probe", "mark", "finalize", "fail"}, run : 1..MaxRuns,
         ready : Seq(Copy), segments : Seq(Seq(Copy)), next : Nat \ {0}]
Continuation == [id : WorkItems, status : FinalStatuses, branch : Branches \cup {Unset}]
\* verified is no column: the items whose branch a probe of the run has found.
Run == [items : SUBSET WorkItems, verified : SUBSET WorkItems,
        status : {"running", "merged", "failed", "deferred"}]

TypeOK ==
    /\ item \in [WorkItems -> Row]
    /\ holder \in [WorkItems -> Processes \cup {Unset}]
    /\ refs \subseteq Branches
    /\ runs \in Seq(Run) /\ Len(runs) <= MaxRuns
    /\ paused \in [Processes -> BOOLEAN]
    /\ call \in [Processes -> Busy \cup {Idle}]
    /\ pending \in [Processes -> SUBSET Continuation]
    /\ events \in 0..MaxEvents

Init ==
    /\ item \in [WorkItems -> InitialRows]
    /\ holder = [i \in WorkItems |-> Unset]
    /\ refs \in SUBSET Branches
    /\ runs = <<>>
    /\ paused = [p \in Processes |-> FALSE]
    /\ call = [p \in Processes |-> Idle]
    /\ pending = [p \in Processes |-> {}]
    /\ events = 0

Event == events < MaxEvents /\ events' = events + 1

\* The event loop serves something new once the continuations have run.
AtLoop(p) == call[p] = Idle /\ pending[p] = {}

--------------------------------------------------------------------------------
(* Work items.                                                              *)

UpdatedRow(row, status, branch) ==
    [status |-> status,
     branch |-> IF branch = Unset THEN row.branch ELSE branch,
     mergedAt |-> row.mergedAt \/ status = "done"]

ClaimWorkItem(p, i) ==
    /\ AtLoop(p) /\ holder[i] = Unset /\ Event
    /\ holder' = [holder EXCEPT ![i] = p]
    /\ item' = [item EXCEPT ![i] = UpdatedRow(@, "claimed", Unset)]
    /\ UNCHANGED <<refs, runs, paused, call, pending>>

\* completeWorkItem up to its await: the release writes the status and not
\* merged_at, and only for the holder; the rest runs for anyone.
ReleaseWorkItem(p, i, status, branch) ==
    /\ AtLoop(p) /\ Event
    /\ IF holder[i] = p
       THEN /\ holder' = [holder EXCEPT ![i] = Unset]
            /\ item' = [item EXCEPT ![i].status = status]
       ELSE UNCHANGED <<holder, item>>
    /\ pending' = [pending EXCEPT ![p] =
                      @ \cup {[id |-> i, status |-> status, branch |-> branch]}]
    /\ UNCHANGED <<refs, runs, paused, call>>

CompleteWorkItem(p, c) ==
    /\ call[p] = Idle /\ c \in pending[p]
    /\ item' = [item EXCEPT ![c.id] = UpdatedRow(@, c.status, c.branch)]
    /\ pending' = [pending EXCEPT ![p] = @ \ {c}]
    /\ UNCHANGED <<holder, refs, runs, paused, call, events>>

--------------------------------------------------------------------------------
(* runConvergenceQueue.                                                     *)

Ready(i) == item[i].status = "done" /\ ~item[i].mergedAt /\ item[i].branch # Unset

\* The ready items in the order of the worklist: there is one such sequence.
InOrder ==
    LET ids == {i \in WorkItems : Ready(i)}
    IN  {s \in [1..Cardinality(ids) -> ids] : \A m, n \in DOMAIN s : m < n => s[m] < s[n]}
ReadyCopies == {[k \in DOMAIN s |-> [id |-> s[k], branch |-> item[s[k]].branch]] : s \in InOrder}

Ids(copies) == {copies[k].id : k \in DOMAIN copies}

StartRun(p) ==
    /\ p \in Converging /\ AtLoop(p) /\ Len(runs) < MaxRuns
    /\ IF paused[p]
       THEN /\ runs' = Append(runs, [items |-> {}, verified |-> {}, status |-> "deferred"])
            /\ UNCHANGED call
       ELSE \E ready \in ReadyCopies :
            /\ runs' = Append(runs, [items |-> Ids(ready), verified |-> {},
                                     status |-> "running"])
            /\ call' = [call EXCEPT ![p] =
                  [pc |-> IF ready = <<>> THEN "finalize" ELSE "probe",
                   run |-> Len(runs) + 1, ready |-> ready,
                   segments |-> <<ready>>, next |-> 1]]
    /\ UNCHANGED <<item, holder, refs, paused, pending, events>>

Mid(seg) == Len(seg) \div 2
\* faulty: the second half is not tried
FirstHalf(seg) == <<SubSeq(seg, 1, Mid(seg))>>
Halves(seg) == <<SubSeq(seg, 1, Mid(seg)), SubSeq(seg, Mid(seg) + 1, Len(seg))>>

\* faulty: a batch that passed is tried again
SameBatches(segments) == segments
OtherBatches(segments) == Tail(segments)

\* One git rev-parse.  segments is the stack of bisectMerge: the batch being
\* probed and the halves still to be tried, next the item of the first one.
Probe(p) ==
    LET c == call[p]
        seg == Head(c.segments)
        copy == seg[c.next]
        found == copy.branch \in refs
        after == IF found THEN OtherBatches(c.segments) ELSE Halves(seg) \o OtherBatches(c.segments)
    IN
    /\ c.pc = "probe"
    /\ runs' = IF found THEN [runs EXCEPT ![c.run].verified = @ \cup {copy.id}] ELSE runs
    /\ call' = [call EXCEPT ![p] =
           CASE found /\ c.next < Len(seg) -> [c EXCEPT !.next = @ + 1]
             [] ~found /\ Len(seg) = 1 -> [c EXCEPT !.pc = "fail"]
             [] OTHER -> [c EXCEPT !.segments = after, !.next = 1,
                                   !.pc = IF after = <<>> THEN "mark" ELSE "probe"]]
    /\ UNCHANGED <<item, holder, refs, paused, pending, events>>

\* updateWorkItemStatus with the copy, whatever became of the item meanwhile.
Mark(p) ==
    LET c == call[p]
        copy == c.ready[c.next]
    IN
    /\ c.pc = "mark"
    /\ item' = [item EXCEPT ![copy.id] = UpdatedRow(@, "done", copy.branch)]
    /\ call' = [call EXCEPT ![p] =
           IF c.next < Len(c.ready) THEN [c EXCEPT !.next = @ + 1]
                                    ELSE [c EXCEPT !.pc = "finalize"]]
    /\ UNCHANGED <<holder, refs, runs, paused, pending, events>>

\* faulty: an item's status for a run
OutcomeOfItems(pc) == IF pc = "fail" THEN "failed" ELSE "done"
Outcome(pc) == IF pc = "fail" THEN "failed" ELSE "merged"

FinalizeConvergenceRun(p) ==
    /\ call[p].pc \in {"finalize", "fail"}
    /\ runs' = [runs EXCEPT ![call[p].run].status = Outcome(call[p].pc)]
    /\ call' = [call EXCEPT ![p] = Idle]
    /\ UNCHANGED <<item, holder, refs, paused, pending, events>>

--------------------------------------------------------------------------------
(* The rest of the world.                                                   *)

\* synapse.compaction.standdown and .resumed
SetConvergencePaused(p) ==
    /\ p \in Converging /\ AtLoop(p) /\ Event
    /\ paused' = [paused EXCEPT ![p] = ~@]
    /\ UNCHANGED <<item, holder, refs, runs, call, pending>>

ChangeRef(b) ==
    /\ Event
    /\ refs' = IF b \in refs THEN refs \ {b} ELSE refs \cup {b}
    /\ UNCHANGED <<item, holder, runs, paused, call, pending>>

\* The process dies and is started again: rows and locks stay.
Exit(p) ==
    /\ Event
    /\ ~AtLoop(p) \/ paused[p]
    /\ call' = [call EXCEPT ![p] = Idle]
    /\ pending' = [pending EXCEPT ![p] = {}]
    /\ paused' = [paused EXCEPT ![p] = FALSE]
    /\ UNCHANGED <<item, holder, refs, runs>>

--------------------------------------------------------------------------------
RunStep(p) == Probe(p) \/ Mark(p) \/ FinalizeConvergenceRun(p)

Next ==
    \/ \E p \in Processes :
        \/ StartRun(p) \/ RunStep(p) \/ SetConvergencePaused(p) \/ Exit(p)
        \/ \E i \in WorkItems :
            \/ ClaimWorkItem(p, i)
            \/ \E s \in FinalStatuses, b \in Branches \cup {Unset} :
                  ReleaseWorkItem(p, i, s, b)
        \/ \E c \in pending[p] : CompleteWorkItem(p, c)
    \/ \E b \in Branches : ChangeRef(b)

Spec == Init /\ [][Next]_vars

\* A run goes on until it ends.
FairSpec == Spec /\ \A p \in Processes : WF_vars(RunStep(p))

--------------------------------------------------------------------------------
\* However the batches were cut, a run that merged has found the branch of each of
\* its items (queue.ts:24-33, 59).
MergedWereVerified ==
    \A k \in DOMAIN runs : runs[k].status = "merged" => runs[k].items \subseteq runs[k].verified

BranchesOf(k) ==
    UNION {{call[p].ready[n].branch : n \in DOMAIN call[p].ready} :
              p \in {q \in Processes : call[q] # Idle /\ call[q].run = k}}
Has(k, status) == k \in DOMAIN runs /\ runs[k].status = status
UnderWay(k) == \E p \in Processes : call[p] # Idle /\ call[p].run = k
Abandoned(k) == Has(k, "running") /\ ~UnderWay(k)

\* A run whose branches all exist while it lasts merges, and a run fails when one of its
\* branches is missing all the while, wherever the halving finds it and whatever becomes
\* of the others; only the exit of its process leaves a run without a verdict
\* (queue.ts:24-33, 56-66).
VerdictFollowsBranches ==
    \A k \in 1..MaxRuns :
        /\ [](Has(k, "running") => BranchesOf(k) \subseteq refs) =>
              (UnderWay(k) ~> Has(k, "merged") \/ Abandoned(k))
        /\ \A b \in Branches :
              [](Has(k, "running") => b \notin refs) =>
                 (UnderWay(k) /\ b \in BranchesOf(k) ~> Has(k, "failed") \/ Abandoned(k))
================================================================================
