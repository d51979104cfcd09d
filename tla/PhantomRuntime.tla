---------------------------- MODULE PhantomRuntime ----------------------------
(***************************************************************************)
(* The phantom runtime: SubAgentRuntime.run takes a goal through guardrails,*)
(* coder and verifier workers in git worktrees of their own, the merge     *)
(* oracle and the review gates, applies the chosen patch to the working    *)
(* tree, verifies it there and reverts it when that fails, promotes what   *)
(* the run used, and runs the automations its end triggers, each a child   *)
(* run its parent awaits.  The calls of one process interleave at every    *)
(* await; they share the working tree and the snapshot's latest run.       *)
(*                                                                         *)
(* A run is named by the path that leads to it: <<n>> is the n-th call     *)
(* from outside, Append(r, a) the child that automation a queued after r.  *)
(* A patch is a model value; equal bindings give equal patches.            *)
(***************************************************************************)
EXTENDS Integers, Sequences, FiniteSets

CONSTANTS
    Calls,            \* bound: calls of run() or dispatchStoredMemory() from outside
    Automations,
    Matching,         \* the automations that match the goal of each call
    Coders,           \* the coder workers of a run, in manifest order
    Approach,         \* the strategy of each coder
    Patches,
    Diffs,            \* what the bindings of each call may yield in a worktree
    NoPatch,          \* an empty diff
    Garbled,          \* a synthesized text that git does not take for a patch
    MaxMishaps        \* bound: exceptions and crashes

ASSUME CodersAssumption == IsFiniteSet(Coders) /\ Coders = 1..Cardinality(Coders)
ASSUME MatchingAssumption == Matching \in [Calls -> SUBSET Automations]
ASSUME DiffsAssumption == Diffs \in [Calls -> SUBSET Patches]
ASSUME ApproachAssumption == DOMAIN Approach = Coders
ASSUME PatchAssumption == NoPatch \notin Patches /\ Garbled \notin Patches \cup {NoPatch}
ASSUME MishapAssumption == MaxMishaps \in Nat

VARIABLES
    repo,         \* patches in the working tree of repoRoot
    run,          \* the record of each run and the place of its call
    latest,       \* runtimeSnapshot.latestRun
    promoted,     \* runs whose assets were promoted
    left,         \* history: runs that ended with their patch in the tree and no merge
    mishaps

vars == <<repo, run, latest, promoted, left, mishaps>>

MaxContinuationDepth == 1     \* maxDepth of executeAutomationContinuations

RunIds == UNION {[1..n -> Calls \cup Automations] : n \in 1..3}
Named == {r \in RunIds : r[1] \in Calls /\ \A k \in 2..Len(r) : r[k] \in Automations}
Depth(r) == Len(r) - 1

Terminal == {"merged", "rolled_back", "failed"}
States == Terminal \cup {"none", "planned", "running", "verifying"}
Ended == {"returned", "thrown", "lost"}
Places == Ended \cup {"unstarted", "preflight", "coders", "verify",
                      "apply", "final-verify", "revert", "continue", "waiting"}

Result == [diff : Patches \cup {NoPatch}, over : BOOLEAN, verified : BOOLEAN]
\* What is kept of the results once they are decided on: did every verifier pass,
\* did any, and did one pass the candidate.
Evidence == [all : BOOLEAN, some : BOOLEAN, candidate : BOOLEAN]
NoEvidence == [all |-> FALSE, some |-> FALSE, candidate |-> FALSE]
NoResult == [diff |-> NoPatch, over |-> FALSE, verified |-> FALSE]
Unstarted == [pc |-> "unstarted", state |-> "none", reviewed |-> FALSE,
              results |-> [c \in Coders |-> NoResult], evidence |-> NoEvidence,
              candidate |-> NoPatch, queue |-> {}]

Record == [pc : Places, state : States, reviewed : BOOLEAN,
           results : [Coders -> Result], evidence : Evidence,
           candidate : Patches \cup {NoPatch, Garbled}, queue : SUBSET Automations]

TypeOK ==
    /\ repo \subseteq Patches
    /\ run \in [Named -> Record]
    /\ latest \in [id : Named \cup {<<>>}, state : {"none", "planned"} \cup Terminal]
    /\ promoted \subseteq Named
    /\ left \subseteq Named
    /\ mishaps \in 0..MaxMishaps

Init ==
    /\ repo = {}
    /\ run = [r \in Named |-> Unstarted]
    /\ latest = [id |-> <<>>, state |-> "none"]
    /\ promoted = {}
    /\ left = {}
    /\ mishaps = 0

\* faulty: the snapshot keeps the first record of a run
AttachFirst(r, state) == latest' = IF latest.id = r THEN latest ELSE [id |-> r, state |-> state]
AttachLatestRun(r, state) == latest' = [id |-> r, state |-> state]

--------------------------------------------------------------------------------
(* MergeOracle.merge.  A verified diff scores .84, an unverified one .59,   *)
(* an empty one .09 at most; the scores are given in hundredths.           *)

Mergeable(results) == {c \in Coders : ~results[c].over}

ScoreWorker(result) ==
    IF result.diff = NoPatch THEN 9 ELSE IF result.verified THEN 84 ELSE 59

\* the first of the highest scores: the sort is stable
Best(results, among) ==
    CHOOSE c \in among : \A d \in among :
        \/ ScoreWorker(results[d]) < ScoreWorker(results[c])
        \/ ScoreWorker(results[d]) = ScoreWorker(results[c]) /\ c <= d

Majority(among) ==
    \E a \in Coders : 5 * Cardinality({c \in among : Approach[c] = Approach[a]})
                          >= 3 * Cardinality(among)

Decision(results) ==
    LET among == Mergeable(results)
        best == Best(results, among)
        second == Best(results, among \ {best})
        Above(c, limit) == ScoreWorker(results[c]) > limit
    IN  IF among = {} THEN "reject"
        ELSE IF Above(best, 80) /\ (Majority(among) \/ Cardinality(among) = 1) THEN "apply"
        ELSE IF Cardinality(among) >= 2 /\ Above(best, 60) /\ Above(second, 60) THEN "synthesize"
        ELSE "reject"

\* faulty: a pair where a text belongs
BothDiffs(a, b) == <<a, b>>
\* parseHunks drops the file headers, so a mixture of two diffs is no patch.
Synthesized(a, b) == IF a = b THEN a ELSE Garbled

\* faulty: the worker that finished first
FirstCandidate(results) ==
    IF Mergeable(results) = {} THEN NoPatch ELSE results[CHOOSE c \in Mergeable(results) : TRUE].diff
\* resolveCandidateDiff: the winner's diff whatever the decision was
Candidate(results) ==
    LET among == Mergeable(results)
        best == Best(results, among)
    IN  IF among = {} THEN NoPatch
        ELSE IF Decision(results) = "synthesize"
             THEN Synthesized(results[best].diff, results[Best(results, among \ {best})].diff)
             ELSE results[best].diff

\* faulty: a worker over its budget has no say
GateOpen(results) == \A c \in Mergeable(results) : results[c].diff # NoPatch
\* evaluateReviewGates: the code-review gate is blocked by any verifier that did
\* not pass, the ones skipped for a worker over its budget included.
CodeReviewReady(results) == \A c \in Coders : results[c].verified

--------------------------------------------------------------------------------
(* run, one action for the code between two awaits.                         *)

Begin(r) == [Unstarted EXCEPT !.pc = "preflight", !.state = "planned"]

Run(r) ==
    /\ Depth(r) = 0 /\ run[r].pc = "unstarted"
    /\ run' = [run EXCEPT ![r] = Begin(r)]
    /\ AttachLatestRun(r, "planned")
    /\ UNCHANGED <<repo, promoted, left, mishaps>>

\* Guardrails or a before-mutate hook end the run before anything is changed.
Refuse(r) ==
    /\ run[r].pc = "preflight"
    /\ run' = [run EXCEPT ![r].pc = "returned", ![r].state = "failed"]
    /\ AttachLatestRun(r, "failed")
    /\ UNCHANGED <<repo, promoted, left, mishaps>>

Bootstrap(r) ==
    /\ run[r].pc = "preflight"
    /\ \E reviewed \in BOOLEAN :      \* the crew's plan has a code-review gate
          run' = [run EXCEPT ![r].pc = "coders", ![r].state = "running", ![r].reviewed = reviewed]
    /\ UNCHANGED <<repo, latest, promoted, left, mishaps>>

\* What a coder may deliver.  No diff: nothing changed, the worker is over its
\* budget, or its worktree could not be made.
Deliverable(call) ==
    {res \in Result : /\ res.diff \in Diffs[call] \cup {NoPatch} /\ ~res.verified
                      /\ res.over => res.diff = NoPatch}

\* Worktrees and manifests are the worker's own: the order of the workers does
\* not matter.
RunCoderWorkers(r) ==
    /\ run[r].pc = "coders"
    /\ \E results \in [Coders -> Deliverable(r[1])] :
          run' = [run EXCEPT ![r].pc = "verify", ![r].state = "verifying",
                             ![r].results = results]
    /\ UNCHANGED <<repo, latest, promoted, left, mishaps>>

\* A verifier applies the coder's diff to a worktree and runs the commands; it
\* passes no worker that is over its budget or has no diff.
Verdicts(results) ==
    {[c \in Coders |-> [results[c] EXCEPT !.verified = c \in passed]] :
        passed \in SUBSET {c \in Coders : ~results[c].over /\ results[c].diff # NoPatch}}

MayPromote(r, state) ==
    state = "merged" /\ run[r].evidence.some

\* From the end of applyDecision to the dispatch of run.verified or run.failed;
\* shield and consensus may still refuse the promotion.  What a run was decided
\* on is dropped here unless its patch stays in the tree.
Conclude(r, state) ==
    \E queue \in SUBSET Matching[r[1]], promote \in BOOLEAN :
        /\ promote => MayPromote(r, state)
        /\ run' = [run EXCEPT ![r] =
              IF state = "merged"
              THEN [@ EXCEPT !.pc = "continue", !.state = state, !.queue = queue]
              ELSE [Unstarted EXCEPT !.pc = "continue", !.state = state, !.queue = queue,
                       !.candidate = IF r \in left' THEN run[r].candidate ELSE NoPatch]]
        /\ promoted' = IF promote THEN promoted \cup {r} ELSE promoted
        /\ AttachLatestRun(r, state)

EvidenceFor(results, candidate) ==
    LET verified == {c \in Coders : results[c].verified}
    IN  [all |-> verified = Coders, some |-> verified # {},
         candidate |-> \E c \in verified : results[c].diff = candidate]

\* The verifiers, the oracle, the shield and the gates: the awaits between them
\* touch nothing that runs share.
VerifyAndDecide(r) ==
    /\ run[r].pc = "verify"
    /\ \/ \E results \in Verdicts(run[r].results) :
             LET candidate == Candidate(results) IN
             /\ run[r].reviewed => CodeReviewReady(results)
             /\ candidate # NoPatch
             /\ run' = [run EXCEPT ![r] = [Unstarted EXCEPT
                   !.pc = "apply", !.state = run[r].state, !.reviewed = run[r].reviewed,
                   !.candidate = candidate, !.evidence = EvidenceFor(results, candidate)]]
             /\ UNCHANGED <<latest, promoted>>
       \/ \* the shield, a gate or the lack of a patch stops the run
          UNCHANGED left /\ Conclude(r, "failed")
    /\ UNCHANGED <<repo, left, mishaps>>

\* git apply takes the whole patch or nothing; a patch that is there already,
\* or meets other changes, does not apply.
ApplyPatch(r) ==
    LET p == run[r].candidate IN
    /\ run[r].pc = "apply"
    /\ \/ /\ p \in Patches \ repo
          /\ repo' = repo \cup {p}
          /\ run' = [run EXCEPT ![r].pc = "final-verify"]
          /\ UNCHANGED <<latest, promoted>>
       \/ /\ UNCHANGED <<repo, left>>
          /\ Conclude(r, "failed")
    /\ UNCHANGED <<left, mishaps>>

FinalVerify(r) ==
    /\ run[r].pc = "final-verify"
    /\ \/ Conclude(r, "merged")
       \/ /\ run' = [run EXCEPT ![r].pc = "revert"]
          /\ UNCHANGED <<latest, promoted>>
    /\ UNCHANGED <<repo, left, mishaps>>

\* faulty: the tree is left as the verification found it
NotReverted(p) == repo
Reverted(p) == repo \ {p}

\* git apply -R fails when the commands have rewritten the patched lines; the
\* catch block reports that nothing was applied.
RevertPatch(r) ==
    /\ run[r].pc = "revert"
    /\ \/ /\ repo' = Reverted(run[r].candidate)
          /\ UNCHANGED left
          /\ Conclude(r, "rolled_back")
       \/ /\ left' = left \cup {r}
          /\ UNCHANGED repo
          /\ Conclude(r, "failed")
    /\ UNCHANGED mishaps

--------------------------------------------------------------------------------
(* executeAutomationContinuations.                                          *)

Suppressed(r, a) == Depth(r) >= MaxContinuationDepth \/ (Depth(r) > 0 /\ r[Len(r)] = a)

SuppressContinuation(r, a) ==
    /\ run[r].pc = "continue" /\ a \in run[r].queue /\ Suppressed(r, a)
    /\ run' = [run EXCEPT ![r].queue = @ \ {a}]
    /\ UNCHANGED <<repo, latest, promoted, left, mishaps>>

StartContinuation(r, a) ==
    /\ run[r].pc = "continue" /\ a \in run[r].queue /\ ~Suppressed(r, a)
    /\ run' = [run EXCEPT ![r].pc = "waiting", ![r].queue = @ \ {a},
                          ![Append(r, a)] = Begin(Append(r, a))]
    /\ AttachLatestRun(Append(r, a), "planned")
    /\ UNCHANGED <<repo, promoted, left, mishaps>>

\* faulty: a child that throws is not caught
Returned == {"returned"}
Settled == {"returned", "thrown"}

ContinuationEnds(r) ==
    /\ run[r].pc = "waiting"
    /\ \A a \in Automations : Append(r, a) \in Named =>
           run[Append(r, a)].pc \in {"unstarted"} \cup Settled
    /\ run' = [run EXCEPT ![r].pc = "continue"]
    /\ UNCHANGED <<repo, latest, promoted, left, mishaps>>

Finish(r) ==
    /\ run[r].pc = "continue" /\ run[r].queue = {}
    /\ run' = [run EXCEPT ![r].pc = "returned"]
    /\ UNCHANGED <<repo, latest, promoted, left, mishaps>>

\* dispatchStoredMemory: the automations of memory.stored continue a stand-in
\* that is no run of the runtime.
DispatchStoredMemory(r) ==
    /\ Depth(r) = 0 /\ run[r].pc = "unstarted"
    /\ \E queue \in SUBSET Matching[r[1]] :
          run' = [run EXCEPT ![r].pc = "continue", ![r].queue = queue]
    /\ UNCHANGED <<repo, latest, promoted, left, mishaps>>

--------------------------------------------------------------------------------
(* Exceptions and crashes.                                                  *)

Mishap == mishaps < MaxMishaps /\ mishaps' = mishaps + 1

\* Memory, federation or the artifacts directory fails outside of a try.
Throw(r) ==
    /\ Mishap
    /\ run[r].pc \in {"preflight", "coders", "verify", "continue"}
    /\ run' = [run EXCEPT ![r].pc = "thrown"]
    /\ UNCHANGED <<repo, latest, promoted, left>>

InTree(r) == run[r].pc \in {"final-verify", "revert"}

Crash ==
    /\ Mishap
    /\ run' = [r \in Named |-> IF run[r].pc \in Ended \cup {"unstarted"} THEN run[r]
                               ELSE [run[r] EXCEPT !.pc = "lost"]]
    /\ left' = left \cup {r \in Named : InTree(r)}
    /\ latest' = [id |-> <<>>, state |-> "none"]
    /\ UNCHANGED <<repo, promoted>>

--------------------------------------------------------------------------------
Step(r) ==
    \/ Refuse(r) \/ Bootstrap(r)
    \/ RunCoderWorkers(r) \/ VerifyAndDecide(r)
    \/ ApplyPatch(r) \/ FinalVerify(r) \/ RevertPatch(r)
    \/ ContinuationEnds(r) \/ Finish(r)
    \/ \E a \in Automations : SuppressContinuation(r, a) \/ StartContinuation(r, a)

Next ==
    \/ \E r \in Named : Run(r) \/ DispatchStoredMemory(r) \/ Step(r) \/ Throw(r)
    \/ Crash

Spec == Init /\ [][Next]_vars

\* Awaited work settles: while a call is under way, git, its commands and its workers
\* come to an end.  Every step takes a call further, so one condition is enough.
FairSpec == Spec /\ WF_vars(\E r \in Named : Step(r))

--------------------------------------------------------------------------------
Merged(r) == run[r].state = "merged"
Owner(r, p) == run[r].candidate = p /\ (Merged(r) \/ InTree(r) \/ r \in left)

\* However calls, failed reverts and crashes interleave, the working tree holds the
\* patch of every merged run, and no patch but those of runs that merged, are
\* verifying theirs, or ended with the patch stuck; and each patch belongs to one
\* of them (runtime.ts:2904-2938).
RepoHoldsMerged ==
    \A p \in Patches :
        Cardinality({r \in Named : Owner(r, p)}) = (IF p \in repo THEN 1 ELSE 0)

\* Under a plan with a code-review gate nothing merges unless the verifier of every
\* coder passed (runtime.ts:1299-1308, 3720).
ReviewedMergeVerified ==
    \A r \in Named : run[r].reviewed /\ Merged(r) => run[r].evidence.all

\* What a run used is promoted on the strength of a verified worker: the patch that
\* went into the tree is one a verifier passed, not another worker's
\* (runtime.ts:1319, 2962).
PromotedPatchVerified ==
    \A r \in promoted : Merged(r) /\ run[r].candidate \in repo /\ run[r].evidence.candidate

\* Once its call has returned, the snapshot does not show the run in another state
\* than the run is in, whatever children ran in between (runtime.ts:1316, 3354).
LatestRunIsTrue ==
    latest.id # <<>> /\ run[latest.id].pc \in {"returned", "waiting", "continue"} =>
        latest.state = run[latest.id].state

\* Every call comes to an end, a parent's after its children's, unless the process
\* dies (runtime.ts:3869-3892).
CallsEnd ==
    []<>(\A r \in Named : run[r].pc \in Ended \cup {"unstarted"})
================================================================================
