------------------------- MODULE PhantomRuntimeProofs --------------------------
(***************************************************************************)
(* Proofs about PhantomRuntime, for any calls, automations, workers and    *)
(* patches, any exceptions and any crashes.                                *)
(***************************************************************************)
EXTENDS PhantomRuntime, FiniteSetTheorems, SequenceTheorems, WellFoundedInduction, TLAPS

--------------------------------------------------------------------------------
(* The merge oracle.                                                        *)

\* The first of a set of workers.
LEMMA First ==
    ASSUME NEW S \in SUBSET Nat, S # {}
    PROVE  \E x \in S : \A y \in S : x <= y
<1>1. PICK x \in S : \A y \in S : ~(<<y, x>> \in OpToRel(<, Nat))
  BY NatLessThanWellFounded, WFMin
<1>2. \A y \in S : ~(y < x)
  BY <1>1 DEF OpToRel
<1> QED
  BY <1>2

LEMMA CodersAreNat == Coders \subseteq Nat
<1>1. Cardinality(Coders) \in Nat
  BY CodersAssumption, FS_CardinalityType
<1> QED
  BY <1>1, CodersAssumption

LEMMA ScoreType == ASSUME NEW res \in Result PROVE ScoreWorker(res) \in {9, 59, 84}
BY DEF ScoreWorker

\* The winner is one of the workers compared, and none of them scores higher.
LEMMA BestFacts ==
    ASSUME NEW results \in [Coders -> Result], NEW among \in SUBSET Coders, among # {}
    PROVE  /\ Best(results, among) \in among
           /\ \A d \in among :
                 ScoreWorker(results[d]) <= ScoreWorker(results[Best(results, among)])
<1> DEFINE Score(c) == ScoreWorker(results[c])
           top == {c \in among : \A d \in among : Score(d) <= Score(c)}
<1>1. \A c \in among : Score(c) \in {9, 59, 84}
  BY ScoreType
<1> HIDE DEF Score
<1>2. top # {}
  <2>1. CASE \E c \in among : Score(c) = 84
    BY <1>1, <2>1
  <2>2. CASE ~(\E c \in among : Score(c) = 84) /\ \E c \in among : Score(c) = 59
    BY <1>1, <2>2
  <2>3. CASE ~(\E c \in among : Score(c) = 84) /\ ~(\E c \in among : Score(c) = 59)
    BY <1>1, <2>3
  <2> QED
    BY <2>1, <2>2, <2>3
<1>3. PICK c \in top : \A d \in top : c <= d
  BY <1>2, CodersAreNat, First
<1>4. c \in among /\ \A d \in among : Score(d) < Score(c) \/ (Score(d) = Score(c) /\ c <= d)
  <2> SUFFICES ASSUME NEW d \in among, ~(Score(d) < Score(c))
               PROVE  Score(d) = Score(c) /\ c <= d
    BY <1>3
  <2>1. Score(d) = Score(c)
    BY <1>1, <1>3
  <2>2. d \in top
    BY <1>3, <2>1
  <2> QED
    BY <1>3, <2>1, <2>2
<1> DEFINE b == Best(results, among)
<1>5. b \in among /\ \A d \in among : Score(d) < Score(b) \/ (Score(d) = Score(b) /\ b <= d)
  BY <1>4 DEF Best, Score
<1> QED
  BY <1>1, <1>5 DEF Score

\* The candidate is the winner's diff unless two were mixed; a verified worker
\* wins against one that is not.
LEMMA CandidateFacts ==
    ASSUME NEW results \in [Coders -> Result],
           \A c \in Coders : results[c].verified => ~results[c].over /\ results[c].diff # NoPatch
    PROVE  /\ Candidate(results) \in Patches \cup {NoPatch, Garbled}
           /\ (\E c \in Coders : results[c].verified) /\ Candidate(results) # Garbled
                 => \E c \in Coders : results[c].verified /\ results[c].diff = Candidate(results)
<1> DEFINE among == Mergeable(results)
           best == Best(results, among)
<1>1. among \in SUBSET Coders
  BY DEF Mergeable
<1>2. CASE among = {}
  <2>1. Candidate(results) = NoPatch
    BY <1>2 DEF Candidate
  <2>2. \A c \in Coders : ~results[c].verified
    BY <1>2 DEF Mergeable
  <2> QED
    BY <2>1, <2>2
<1>3. CASE among # {}
  <2>1. /\ best \in among
        /\ \A d \in among : ScoreWorker(results[d]) <= ScoreWorker(results[best])
    BY <1>1, <1>3, BestFacts
  <2>2. Candidate(results) \in {results[best].diff, Garbled}
    BY <1>3 DEF Candidate, Synthesized
  <2>3. results[best] \in Result /\ best \in Coders
    BY <1>1, <2>1
  <2>4. Candidate(results) \in Patches \cup {NoPatch, Garbled}
    BY <2>2, <2>3 DEF Result
  <2>5. ASSUME NEW c \in Coders, results[c].verified PROVE results[best].verified
    <3>1. c \in among /\ results[c].diff # NoPatch
      BY <2>5 DEF Mergeable
    <3>2. ScoreWorker(results[c]) = 84
      BY <2>5, <3>1 DEF ScoreWorker
    <3>3. ScoreWorker(results[best]) >= 84 /\ ScoreWorker(results[best]) \in {9, 59, 84}
      BY <2>1, <2>3, <3>1, <3>2, ScoreType
    <3>4. ScoreWorker(results[best]) = 84
      BY <3>3
    <3> QED
      BY <2>3, <3>4 DEF ScoreWorker, Result
  <2> QED
    BY <2>2, <2>3, <2>4, <2>5
<1> QED
  BY <1>2, <1>3

--------------------------------------------------------------------------------
(* The names of runs.                                                       *)

LEMMA NamedFacts ==
    ASSUME NEW r \in Named
    PROVE  r \in Seq(Calls \cup Automations) /\ Len(r) \in 1..3 /\ r[1] \in Calls
<1>1. PICK n \in 1..3 : r \in [1..n -> Calls \cup Automations]
  BY DEF Named, RunIds
<1>2. r \in Seq(Calls \cup Automations) /\ Len(r) = n
  BY <1>1
<1> QED
  BY <1>1, <1>2 DEF Named

\* A child has a name of its own, one longer than its parent's.
LEMMA ChildFacts ==
    ASSUME NEW r \in Named, NEW a \in Automations
    PROVE  /\ Len(Append(r, a)) = Len(r) + 1 /\ Append(r, a) # r
           /\ \A s \in Named, b \in Automations : Append(s, b) = Append(r, a) => s = r /\ b = a
           /\ Len(r) = 1 => Append(r, a) \in Named
<1>1. r \in Seq(Calls \cup Automations) /\ Len(r) \in 1..3 /\ r[1] \in Calls
  BY NamedFacts
<1>2. /\ Append(r, a) \in Seq(Calls \cup Automations) /\ Len(Append(r, a)) = Len(r) + 1
      /\ \A k \in 1..Len(r) : Append(r, a)[k] = r[k]
      /\ Append(r, a)[Len(r) + 1] = a
  BY <1>1, AppendProperties
<1>3. Append(r, a) # r
  BY <1>1, <1>2
<1>4. ASSUME NEW s \in Named, NEW b \in Automations, Append(s, b) = Append(r, a)
      PROVE  s = r /\ b = a
  <2>1. s \in Seq(Calls \cup Automations)
    BY NamedFacts
  <2> QED
    BY <1>1, <1>4, <2>1, AppendInjective
<1>5. ASSUME Len(r) = 1 PROVE Append(r, a) \in Named
  <2>1. Append(r, a) \in [1..2 -> Calls \cup Automations]
    <3> DEFINE S == Calls \cup Automations
               t == Append(r, a)
    <3>1. t \in Seq(S) /\ Len(t) = 2
      BY <1>2, <1>5
    <3> HIDE DEF S, t
    <3>2. t \in [1..Len(t) -> S]
      BY <3>1, LenProperties
    <3>3. t \in [1..2 -> S]
      BY <3>1, <3>2
    <3> QED
      BY <3>3 DEF S, t
  <2>2. Append(r, a) \in RunIds
    BY <2>1 DEF RunIds
  <2>3. Append(r, a)[1] \in Calls
    BY <1>1, <1>2, <1>5
  <2>4. \A k \in 2..Len(Append(r, a)) : Append(r, a)[k] \in Automations
    BY <1>2, <1>5
  <2> QED
    BY <2>2, <2>3, <2>4 DEF Named
<1> QED
  BY <1>2, <1>3, <1>4, <1>5

--------------------------------------------------------------------------------
(* The invariant.                                                           *)

Late == {"continue", "waiting"} \cup Ended
Working == {"preflight", "coders", "verify", "apply", "final-verify", "revert"}
Trying == {"apply", "final-verify", "revert"}

\* What the record of a run says at each place: nothing before it starts, no merge
\* while it works, and the evidence it was decided on from then to its merge.
RecordOK(r) ==
    /\ run[r].pc = "unstarted" => run[r] = Unstarted
    /\ run[r].pc \in Working \cup {"unstarted"} =>
          run[r].state # "merged" /\ r \notin left /\ r \notin promoted
    /\ run[r].pc \in Trying \/ run[r].state = "merged" =>
          /\ run[r].reviewed => run[r].evidence.all
          /\ run[r].evidence.some /\ run[r].candidate # Garbled => run[r].evidence.candidate
    /\ InTree(r) \/ run[r].state = "merged" => run[r].candidate \in Patches
    /\ r \in promoted => run[r].state = "merged" /\ run[r].evidence.some

\* A child has been started by a parent that will not start it again.
ChildOf(r, a) ==
    Append(r, a) \in Named /\ run[Append(r, a)].pc # "unstarted" =>
        run[r].pc \in Late /\ a \notin run[r].queue

\* A patch is in the tree on account of exactly one run.
OwnInv ==
    /\ \A p \in Patches, r, s \in Named : Owner(r, p) /\ Owner(s, p) => r = s
    /\ \A p \in Patches : p \in repo <=> \E r \in Named : Owner(r, p)

Settling == {"returned", "waiting", "continue"}

LatestInv ==
    latest.id # <<>> =>
        /\ run[latest.id].pc # "unstarted"
        /\ run[latest.id].pc \in Settling => latest.state = run[latest.id].state

PhantomInv ==
    /\ TypeOK
    /\ \A r \in Named : RecordOK(r) /\ \A a \in Automations : ChildOf(r, a)
    /\ OwnInv
    /\ LatestInv

\* A step that changes the record of r alone.
Touched(r) == run' \in [Named -> Record] /\ \A s \in Named \ {r} : run'[s] = run[s]

LEMMA EmptyIsNotNamed == <<>> \notin Named
BY NamedFacts

LEMMA OneRun ==
    ASSUME PhantomInv, TypeOK', NEW r \in Named, Touched(r),
           left' \in {left, left \cup {r}}, promoted' \in {promoted, promoted \cup {r}},
           RecordOK(r)', run'[r].pc # "unstarted",
           run[r].pc # "unstarted" \/ Len(r) = 1,
           \A a \in Automations : Append(r, a) \in Named /\ run[Append(r, a)].pc # "unstarted" =>
               run'[r].pc \in Late /\ a \notin run'[r].queue,
           OwnInv',
           \/ latest' = [id |-> r, state |-> run'[r].state]
           \/ /\ latest' = latest
              /\ latest.id = r /\ run'[r].pc \in Settling => latest.state = run'[r].state
    PROVE  PhantomInv'
<1>1. \A s \in Named : RecordOK(s)'
  <2> TAKE s \in Named
  <2>1. CASE s = r
    BY <2>1
  <2>2. CASE s # r
    BY <2>2 DEF PhantomInv, RecordOK, Touched, InTree
  <2> QED
    BY <2>1, <2>2
<1>2. ASSUME NEW s \in Named, NEW a \in Automations PROVE ChildOf(s, a)'
  <2> SUFFICES ASSUME Append(s, a) \in Named, run'[Append(s, a)].pc # "unstarted"
               PROVE  run'[s].pc \in Late /\ a \notin run'[s].queue
    BY DEF ChildOf
  <2>1. CASE s = r
    <3>1. run'[Append(r, a)] = run[Append(r, a)]
      BY <2>1, ChildFacts DEF Touched
    <3> QED
      BY <2>1, <3>1
  <2>2. CASE s # r /\ Append(s, a) = r
    <3>1. Len(r) # 1
      BY <2>2, ChildFacts, NamedFacts
    <3> QED
      BY <2>2, <3>1 DEF PhantomInv, ChildOf, Touched
  <2>3. CASE s # r /\ Append(s, a) # r
    BY <2>3 DEF PhantomInv, ChildOf, Touched
  <2> QED
    BY <2>1, <2>2, <2>3
<1>3. LatestInv'
  <2>1. CASE latest' = [id |-> r, state |-> run'[r].state]
    BY <2>1 DEF LatestInv
  <2>2. CASE /\ latest' = latest
             /\ latest.id = r /\ run'[r].pc \in Settling => latest.state = run'[r].state
    <3>1. CASE latest.id = r
      BY <2>2, <3>1 DEF LatestInv
    <3>2. CASE latest.id # r
      <4>1. latest.id # <<>> => run'[latest.id] = run[latest.id]
        BY <3>2 DEF PhantomInv, TypeOK, Touched
      <4> QED
        BY <2>2, <4>1 DEF PhantomInv, LatestInv
    <3> QED
      BY <3>1, <3>2
  <2> QED
    BY <2>1, <2>2
<1> QED
  BY <1>1, <1>2, <1>3 DEF PhantomInv

LEMMA OtherOwners ==
    ASSUME NEW r \in Named, Touched(r), left' \in {left, left \cup {r}}
    PROVE  \A s \in Named \ {r}, p \in Patches : Owner(s, p)' <=> Owner(s, p)
BY DEF Touched, Owner, Merged, InTree

LEMMA SameOwner ==
    ASSUME OwnInv, NEW r \in Named, Touched(r), left' \in {left, left \cup {r}}, repo' = repo,
           \A p \in Patches : Owner(r, p)' <=> Owner(r, p)
    PROVE  OwnInv'
<1>1. \A s \in Named, p \in Patches : Owner(s, p)' <=> Owner(s, p)
  BY OtherOwners
<1> HIDE DEF Owner
<1> QED
  BY <1>1 DEF OwnInv

--------------------------------------------------------------------------------
(* The steps.                                                               *)

LEMMA UnstartedType ==
    /\ Unstarted \in Record /\ Unstarted.pc = "unstarted" /\ Unstarted.state = "none"
    /\ Unstarted.candidate = NoPatch /\ Unstarted.queue = {}
BY DEF Unstarted, Record, Places, States, Result, NoResult, Evidence, NoEvidence

\* What Conclude does to the record and to what is promoted.
LEMMA ConcludeEffect ==
    ASSUME TypeOK, NEW r \in Named, NEW state \in {"merged", "rolled_back", "failed"},
           Conclude(r, state)
    PROVE  /\ Touched(r) /\ run'[r].pc = "continue" /\ run'[r].state = state
           /\ state = "merged" => /\ run'[r].candidate = run[r].candidate
                                  /\ run'[r].evidence = run[r].evidence
                                  /\ run'[r].reviewed = run[r].reviewed
           /\ state # "merged" =>
                 run'[r].candidate = IF r \in left' THEN run[r].candidate ELSE NoPatch
           /\ \/ promoted' = promoted
              \/ promoted' = promoted \cup {r} /\ state = "merged" /\ run[r].evidence.some
           /\ latest' = [id |-> r, state |-> state]
<1>1. PICK queue \in SUBSET Matching[r[1]], promote \in BOOLEAN :
        /\ promote => MayPromote(r, state)
        /\ run' = [run EXCEPT ![r] =
              IF state = "merged"
              THEN [@ EXCEPT !.pc = "continue", !.state = state, !.queue = queue]
              ELSE [Unstarted EXCEPT !.pc = "continue", !.state = state, !.queue = queue,
                       !.candidate = IF r \in left' THEN run[r].candidate ELSE NoPatch]]
        /\ promoted' = IF promote THEN promoted \cup {r} ELSE promoted
        /\ AttachLatestRun(r, state)
  BY DEF Conclude
<1>2. queue \subseteq Automations
  BY NamedFacts, MatchingAssumption
<1>3. run[r] \in Record
  BY DEF TypeOK
<1>4. CASE state = "merged"
  <2>1. run' = [run EXCEPT ![r] = [run[r] EXCEPT !.pc = "continue", !.state = state, !.queue = queue]]
    BY <1>1, <1>4
  <2>2. /\ [run[r] EXCEPT !.pc = "continue", !.state = state, !.queue = queue] \in Record
        /\ Touched(r)
    BY <1>2, <1>3, <1>4, <2>1 DEF Record, Touched, TypeOK, Places, States, Terminal
  <2>3. /\ run'[r].pc = "continue" /\ run'[r].state = state
        /\ run'[r].candidate = run[r].candidate
        /\ run'[r].evidence = run[r].evidence
        /\ run'[r].reviewed = run[r].reviewed
    BY <1>3, <2>1 DEF Record, TypeOK
  <2> QED
    BY <1>1, <1>4, <2>2, <2>3 DEF MayPromote, AttachLatestRun
<1>5. CASE state # "merged"
  <2> DEFINE kept == IF r \in left' THEN run[r].candidate ELSE NoPatch
             x == [Unstarted EXCEPT !.pc = "continue", !.state = state, !.queue = queue,
                      !.candidate = kept]
  <2>1. run' = [run EXCEPT ![r] = x]
    BY <1>1, <1>5
  <2>2. kept \in Patches \cup {NoPatch, Garbled}
    BY <1>3 DEF Record
  <2> HIDE DEF kept
  <2>3. /\ x \in Record /\ x.pc = "continue" /\ x.state = state /\ x.candidate = kept
    BY <1>2, <2>2, UnstartedType DEF Record, Places, States, Terminal
  <2> HIDE DEF x
  <2>4. Touched(r) /\ run'[r] = x
    BY <2>1, <2>3 DEF Touched, TypeOK
  <2> QED
    BY <1>1, <1>5, <2>3, <2>4 DEF MayPromote, AttachLatestRun, kept
<1> QED
  BY <1>4, <1>5

\* Types after a step of r that leaves the mishaps alone.
LEMMA TypeAfter ==
    ASSUME TypeOK, NEW r \in Named, Touched(r), repo' \subseteq Patches, mishaps' = mishaps,
           left' \in {left, left \cup {r}}, promoted' \in {promoted, promoted \cup {r}},
           \/ latest' = latest
           \/ /\ latest' = [id |-> r, state |-> run'[r].state]
              /\ run'[r].state \in {"none", "planned"} \cup Terminal
    PROVE  TypeOK'
BY DEF TypeOK, Touched

LEMMA ConcludeStep ==
    ASSUME PhantomInv, NEW r \in Named, NEW state \in {"merged", "rolled_back", "failed"},
           Conclude(r, state), run[r].pc \in {"verify"} \cup Trying,
           left' \in {left, left \cup {r}}, mishaps' = mishaps, repo' \subseteq Patches,
           state = "merged" => run[r].pc = "final-verify" /\ left' = left,
           OwnInv'
    PROVE  PhantomInv'
<1>1. TypeOK /\ RecordOK(r) /\ \A a \in Automations : ChildOf(r, a)
  BY DEF PhantomInv
<1>2. /\ Touched(r) /\ run'[r].pc = "continue" /\ run'[r].state = state
      /\ state = "merged" => /\ run'[r].candidate = run[r].candidate
                             /\ run'[r].evidence = run[r].evidence
                             /\ run'[r].reviewed = run[r].reviewed
      /\ \/ promoted' = promoted
         \/ promoted' = promoted \cup {r} /\ state = "merged" /\ run[r].evidence.some
      /\ latest' = [id |-> r, state |-> state]
  BY <1>1, ConcludeEffect
<1>3. promoted' \in {promoted, promoted \cup {r}}
  BY <1>2
<1>4. TypeOK'
  BY <1>1, <1>2, <1>3, TypeAfter DEF Terminal
<1>5. r \notin promoted /\ (state = "merged" => r \notin left)
  BY <1>1 DEF RecordOK, Working, Trying
<1>6. RecordOK(r)'
  <2>1. CASE state = "merged"
    BY <1>1, <1>2, <1>5, <2>1 DEF RecordOK, Working, Trying, InTree
  <2>2. CASE state # "merged"
    BY <1>1, <1>2, <1>5, <2>2 DEF RecordOK, Working, Trying, InTree
  <2> QED
    BY <2>1, <2>2
<1>7. \A a \in Automations : ~(Append(r, a) \in Named /\ run[Append(r, a)].pc # "unstarted")
  BY <1>1 DEF ChildOf, Late, Ended, Trying
<1> QED
  BY <1>2, <1>3, <1>4, <1>6, <1>7, OneRun DEF Trying

\* A step that only moves a call, its record's flags and its candidate aside.
LEMMA QuietRun ==
    ASSUME PhantomInv, NEW r \in Named, Touched(r), UNCHANGED <<repo, promoted, left, mishaps>>,
           run[r].pc # "unstarted" \/ Len(r) = 1, run'[r].pc # "unstarted",
           RecordOK(r)',
           \A a \in Automations : Append(r, a) \in Named /\ run[Append(r, a)].pc # "unstarted" =>
               run'[r].pc \in Late /\ a \notin run'[r].queue,
           \A p \in Patches : Owner(r, p)' <=> Owner(r, p),
           \/ /\ latest' = [id |-> r, state |-> run'[r].state]
              /\ run'[r].state \in {"none", "planned"} \cup Terminal
           \/ /\ latest' = latest
              /\ latest.id = r /\ run'[r].pc \in Settling => latest.state = run'[r].state
    PROVE  PhantomInv'
<1>1. TypeOK'
  BY TypeAfter DEF PhantomInv, TypeOK
<1>2. OwnInv'
  BY SameOwner DEF PhantomInv
<1> QED
  BY <1>1, <1>2, OneRun

LEMMA RunFacts ==
    ASSUME PhantomInv, NEW r \in Named
    PROVE  /\ TypeOK /\ run[r] \in Record /\ RecordOK(r)
           /\ run[r].pc \notin Late =>
                 \A a \in Automations : ~(Append(r, a) \in Named /\ run[Append(r, a)].pc # "unstarted")
BY DEF PhantomInv, TypeOK, ChildOf

\* Before it applies its patch a run owns none.
LEMMA OwnsNothing ==
    ASSUME PhantomInv, NEW r \in Named, ~InTree(r),
           run[r].pc \in Working \cup {"unstarted"}
    PROVE  \A p \in Patches : ~Owner(r, p)
BY DEF PhantomInv, RecordOK, Owner, Merged

LEMMA BeginFacts ==
    ASSUME NEW r
    PROVE  /\ Begin(r) \in Record /\ Begin(r).pc = "preflight" /\ Begin(r).state = "planned"
           /\ Begin(r).candidate = NoPatch /\ Begin(r).queue = {}
<1>1. PICK x \in Record : x = Unstarted
  BY UnstartedType
<1>2. Begin(r) = [x EXCEPT !.pc = "preflight", !.state = "planned"]
  BY <1>1 DEF Begin
<1>3. /\ [x EXCEPT !.pc = "preflight", !.state = "planned"] \in Record
      /\ [x EXCEPT !.pc = "preflight", !.state = "planned"].candidate = x.candidate
      /\ [x EXCEPT !.pc = "preflight", !.state = "planned"].queue = x.queue
      /\ [x EXCEPT !.pc = "preflight", !.state = "planned"].pc = "preflight"
      /\ [x EXCEPT !.pc = "preflight", !.state = "planned"].state = "planned"
  BY DEF Record, Places, States
<1> QED
  BY <1>1, <1>2, <1>3, UnstartedType

LEMMA RunStep == ASSUME PhantomInv, NEW r \in Named, Run(r) PROVE PhantomInv'
<1>1. /\ run[r].pc = "unstarted" /\ run' = [run EXCEPT ![r] = Begin(r)]
      /\ latest' = [id |-> r, state |-> "planned"] /\ UNCHANGED <<repo, promoted, left, mishaps>>
      /\ Len(r) = 1
  BY NamedFacts DEF Run, AttachLatestRun, Depth
<1>2. Touched(r) /\ run'[r] = Begin(r)
  BY <1>1, RunFacts, BeginFacts DEF Touched, TypeOK
<1>3. RecordOK(r)'
  BY <1>1, <1>2, RunFacts, BeginFacts DEF RecordOK, Working, Trying, InTree
<1>4. \A p \in Patches : ~Owner(r, p) /\ ~Owner(r, p)'
  BY <1>1, <1>2, OwnsNothing, BeginFacts, PatchAssumption DEF Owner, InTree
<1> QED
  BY <1>1, <1>2, <1>3, <1>4, BeginFacts, RunFacts, QuietRun DEF Late, Ended

\* A run that has not reached the tree goes on, or is refused.
LEMMA PreflightStep ==
    ASSUME PhantomInv, NEW r \in Named, run[r].pc \in {"preflight", "coders", "verify"},
           Touched(r), UNCHANGED <<repo, promoted, left, mishaps>>,
           run'[r].pc \in {"coders", "verify", "apply", "returned", "thrown"},
           run'[r].state # "merged",
           run'[r].pc = "apply" =>
              /\ run'[r].reviewed => run'[r].evidence.all
              /\ run'[r].evidence.some /\ run'[r].candidate # Garbled => run'[r].evidence.candidate,
           \/ latest' = [id |-> r, state |-> run'[r].state] /\ run'[r].state = "failed"
           \/ latest' = latest /\ run'[r].pc # "returned"
    PROVE  PhantomInv'
<1>1. r \notin left /\ r \notin promoted /\ run[r].state # "merged"
  BY RunFacts DEF RecordOK, Working
<1>2. RecordOK(r)'
  BY <1>1 DEF RecordOK, Working, Trying, InTree
<1>3. \A p \in Patches : ~Owner(r, p) /\ ~Owner(r, p)'
  BY <1>1, OwnsNothing DEF Owner, Merged, InTree, Working
<1>4. run[r].pc \notin Late
  BY DEF Late, Ended
<1> QED
  BY <1>2, <1>3, <1>4, RunFacts, QuietRun DEF Settling, Terminal

LEMMA RefuseStep == ASSUME PhantomInv, NEW r \in Named, Refuse(r) PROVE PhantomInv'
<1>1. /\ run[r].pc = "preflight"
      /\ run' = [run EXCEPT ![r] = [run[r] EXCEPT !.pc = "returned", !.state = "failed"]]
      /\ latest' = [id |-> r, state |-> "failed"] /\ UNCHANGED <<repo, promoted, left, mishaps>>
  BY DEF Refuse, AttachLatestRun
<1>2. [run[r] EXCEPT !.pc = "returned", !.state = "failed"] \in Record
  <2>1. run[r] \in Record /\ "returned" \in Places /\ "failed" \in States
    BY RunFacts DEF Places, Ended, States, Terminal
  <2> QED
    BY <2>1 DEF Record
<1>3. Touched(r) /\ run'[r].pc = "returned" /\ run'[r].state = "failed"
  BY <1>1, <1>2, RunFacts DEF Touched, TypeOK, Record
<1> QED
  BY <1>1, <1>3, PreflightStep

LEMMA BootstrapStep == ASSUME PhantomInv, NEW r \in Named, Bootstrap(r) PROVE PhantomInv'
<1>1. PICK reviewed \in BOOLEAN : run' =
         [run EXCEPT ![r] = [run[r] EXCEPT !.pc = "coders", !.state = "running", !.reviewed = reviewed]]
  BY DEF Bootstrap
<1>2. [run[r] EXCEPT !.pc = "coders", !.state = "running", !.reviewed = reviewed] \in Record
  <2>1. run[r] \in Record /\ "coders" \in Places /\ "running" \in States
    BY RunFacts DEF Places, States
  <2> QED
    BY <2>1 DEF Record
<1>3. Touched(r) /\ run'[r].pc = "coders" /\ run'[r].state = "running"
  BY <1>1, <1>2, RunFacts DEF Touched, TypeOK, Record
<1> QED
  BY <1>3, PreflightStep DEF Bootstrap

LEMMA RunCoderWorkersStep ==
    ASSUME PhantomInv, NEW r \in Named, RunCoderWorkers(r) PROVE PhantomInv'
<1>1. PICK results \in [Coders -> Deliverable(r[1])] :
         run' = [run EXCEPT ![r].pc = "verify", ![r].state = "verifying", ![r].results = results]
  BY DEF RunCoderWorkers
<1>2. results \in [Coders -> Result]
  BY DEF Deliverable
<1> DEFINE x == [run[r] EXCEPT !.pc = "verify", !.state = "verifying", !.results = results]
<1>3. run' = [run EXCEPT ![r] = x]
  BY <1>1
<1>4. x \in Record /\ x.pc = "verify" /\ x.state = "verifying"
  <2>1. run[r] \in Record /\ "verify" \in Places /\ "verifying" \in States
    BY RunFacts DEF Places, States
  <2> QED
    BY <1>2, <2>1 DEF Record
<1> HIDE DEF x
<1>5. Touched(r) /\ run'[r] = x
  BY <1>3, <1>4, RunFacts DEF Touched, TypeOK
<1> QED
  BY <1>4, <1>5, PreflightStep DEF RunCoderWorkers

\* A run that ends without a patch in the tree.
LEMMA EndsWithout ==
    ASSUME PhantomInv, NEW r \in Named, run[r].pc \in {"verify", "apply"}, Conclude(r, "failed"),
           UNCHANGED <<repo, left, mishaps>>
    PROVE  PhantomInv'
<1>1. r \notin left /\ ~InTree(r)
  BY RunFacts DEF RecordOK, Working, InTree
<1>2. Touched(r) /\ run'[r].candidate = NoPatch
  BY <1>1, RunFacts, ConcludeEffect
<1>3. \A p \in Patches : ~Owner(r, p) /\ ~Owner(r, p)'
  BY <1>1, <1>2, OwnsNothing, PatchAssumption DEF Owner, Working
<1>4. OwnInv'
  BY <1>2, <1>3, SameOwner DEF PhantomInv
<1> QED
  BY <1>4, ConcludeStep, RunFacts DEF Trying, TypeOK

LEMMA VerifyAndDecideStep ==
    ASSUME PhantomInv, NEW r \in Named, VerifyAndDecide(r) PROVE PhantomInv'
<1>1. run[r].pc = "verify" /\ UNCHANGED <<repo, left, mishaps>>
  BY DEF VerifyAndDecide
<1>2. CASE Conclude(r, "failed")
  BY <1>1, <1>2, EndsWithout
<1>3. ASSUME NEW results \in Verdicts(run[r].results),
             run[r].reviewed => CodeReviewReady(results),
             run' = [run EXCEPT ![r] = [Unstarted EXCEPT
                   !.pc = "apply", !.state = run[r].state, !.reviewed = run[r].reviewed,
                   !.candidate = Candidate(results),
                   !.evidence = EvidenceFor(results, Candidate(results))]],
             UNCHANGED <<latest, promoted>>
      PROVE  PhantomInv'
  <2> DEFINE candidate == Candidate(results)
             evidence == EvidenceFor(results, candidate)
             x == [Unstarted EXCEPT !.pc = "apply", !.state = run[r].state,
                      !.reviewed = run[r].reviewed, !.candidate = candidate,
                      !.evidence = evidence]
  <2>1. /\ results \in [Coders -> Result]
        /\ \A c \in Coders : results[c].verified => ~results[c].over /\ results[c].diff # NoPatch
    <3>1. PICK passed \in SUBSET {c \in Coders : /\ ~run[r].results[c].over
                                                 /\ run[r].results[c].diff # NoPatch} :
             results = [c \in Coders |-> [run[r].results[c] EXCEPT !.verified = c \in passed]]
      BY <1>3 DEF Verdicts
    <3>2. run[r].results \in [Coders -> Result]
      BY RunFacts DEF Record
    <3>3. \A c \in Coders : /\ results[c] = [run[r].results[c] EXCEPT !.verified = c \in passed]
                            /\ run[r].results[c] \in Result
      BY <3>1, <3>2
    <3>4. ASSUME NEW c \in Coders
          PROVE  /\ results[c] \in Result
                 /\ results[c].diff = run[r].results[c].diff
                 /\ results[c].over = run[r].results[c].over
                 /\ results[c].verified = (c \in passed)
      <4>1. (c \in passed) \in BOOLEAN
        OBVIOUS
      <4> QED
        BY <3>3, <4>1 DEF Result
    <3>5. results \in [Coders -> Result]
      BY <3>1, <3>4
    <3> QED
      BY <3>4, <3>5
  <2>2. /\ candidate \in Patches \cup {NoPatch, Garbled}
        /\ (\E c \in Coders : results[c].verified) /\ candidate # Garbled
              => \E c \in Coders : results[c].verified /\ results[c].diff = candidate
    BY <2>1, CandidateFacts
  <2> HIDE DEF candidate
  <2>3. /\ evidence \in Evidence
        /\ evidence.all = ({c \in Coders : results[c].verified} = Coders)
        /\ evidence.some = ({c \in Coders : results[c].verified} # {})
        /\ evidence.candidate =
              (\E c \in {d \in Coders : results[d].verified} : results[c].diff = candidate)
    BY DEF EvidenceFor, Evidence
  <2> HIDE DEF evidence
  <2>4. /\ x \in Record /\ x.pc = "apply" /\ x.state = run[r].state /\ x.reviewed = run[r].reviewed
        /\ x.candidate = candidate /\ x.evidence = evidence
    BY <2>2, <2>3, RunFacts, UnstartedType DEF Record, Places
  <2>5. run' = [run EXCEPT ![r] = x]
    BY <1>3 DEF candidate, evidence
  <2> HIDE DEF x
  <2>6. Touched(r) /\ run'[r] = x
    BY <2>4, <2>5, RunFacts DEF Touched, TypeOK
  <2>7. x.reviewed => x.evidence.all
    BY <1>3, <2>3, <2>4 DEF CodeReviewReady
  <2>8. x.evidence.some /\ x.candidate # Garbled => x.evidence.candidate
    BY <2>2, <2>3, <2>4
  <2>9. run[r].state # "merged"
    BY <1>1, RunFacts DEF RecordOK, Working
  <2> QED
    BY <1>1, <1>3, <2>4, <2>6, <2>7, <2>8, <2>9, PreflightStep
<1> QED
  BY <1>2, <1>3 DEF VerifyAndDecide

\* The patch goes into a tree that does not hold it, and the run owns it.
LEMMA ApplyPatchStep == ASSUME PhantomInv, NEW r \in Named, ApplyPatch(r) PROVE PhantomInv'
<1> DEFINE p == run[r].candidate
<1>1. run[r].pc = "apply" /\ UNCHANGED <<left, mishaps>>
  BY DEF ApplyPatch
<1>2. CASE UNCHANGED repo /\ Conclude(r, "failed")
  BY <1>1, <1>2, EndsWithout
<1>3. CASE /\ p \in Patches \ repo
           /\ repo' = repo \cup {p}
           /\ run' = [run EXCEPT ![r].pc = "final-verify"]
           /\ UNCHANGED <<latest, promoted>>
  <2>1. run[r] \in Record /\ "final-verify" \in Places /\ run' = [run EXCEPT ![r] = [run[r] EXCEPT !.pc = "final-verify"]]
    BY <1>3, RunFacts DEF Places
  <2>2. Touched(r)
    <3>1. [run[r] EXCEPT !.pc = "final-verify"] \in Record
      BY <2>1 DEF Record
    <3> QED
      BY <2>1, <3>1, RunFacts DEF Touched, TypeOK
  <2>3. /\ run'[r].pc = "final-verify" /\ run'[r].state = run[r].state
        /\ run'[r].candidate = p /\ run'[r].evidence = run[r].evidence
        /\ run'[r].reviewed = run[r].reviewed
    BY <2>1, RunFacts DEF TypeOK, Record
  <2>4. TypeOK'
    BY <1>1, <1>3, <2>2, TypeAfter, RunFacts DEF TypeOK
  <2>5. RecordOK(r)'
    BY <1>1, <1>3, <2>3, RunFacts DEF RecordOK, Working, Trying, InTree
  <2>6. OwnInv'
    <3>1. \A q \in Patches : ~Owner(r, q) /\ (Owner(r, q)' <=> q = p)
      <4>1. \A q \in Patches : ~Owner(r, q)
        BY <1>1, OwnsNothing DEF InTree, Working
      <4>2. \A q \in Patches : Owner(r, q)' <=> q = p
        BY <2>3 DEF Owner, InTree
      <4> QED
        BY <4>1, <4>2
    <3>2. \A s \in Named \ {r}, q \in Patches : Owner(s, q)' <=> Owner(s, q)
      BY <1>1, <2>2, OtherOwners
    <3>3. OwnInv
      BY DEF PhantomInv
    <3> HIDE DEF p, Owner
    <3>4. \A s \in Named : ~Owner(s, p)
      BY <1>3, <3>3 DEF OwnInv
    <3>5. ASSUME NEW q \in Patches, NEW s \in Named, NEW t \in Named, Owner(s, q)', Owner(t, q)'
          PROVE  s = t
      BY <3>1, <3>2, <3>3, <3>4, <3>5 DEF OwnInv
    <3>6. ASSUME NEW q \in Patches PROVE q \in repo' <=> \E s \in Named : Owner(s, q)'
      <4>1. CASE q = p
        BY <1>3, <3>1, <4>1
      <4>2. CASE q # p
        BY <1>3, <3>1, <3>2, <3>3, <4>2 DEF OwnInv
      <4> QED
        BY <4>1, <4>2
    <3> QED
      BY <3>5, <3>6 DEF OwnInv
  <2>7. run[r].pc \notin Late
    BY <1>1 DEF Late, Ended
  <2> QED
    BY <1>1, <1>3, <2>2, <2>3, <2>4, <2>5, <2>6, <2>7, RunFacts, OneRun DEF Settling
<1> QED
  BY <1>2, <1>3 DEF ApplyPatch

LEMMA FinalVerifyStep == ASSUME PhantomInv, NEW r \in Named, FinalVerify(r) PROVE PhantomInv'
<1>1. run[r].pc = "final-verify" /\ UNCHANGED <<repo, left, mishaps>>
  BY DEF FinalVerify
<1>2. CASE Conclude(r, "merged")
  <2>1. Touched(r) /\ run'[r].candidate = run[r].candidate /\ run'[r].state = "merged"
    BY <1>2, RunFacts, ConcludeEffect
  <2>2. \A p \in Patches : Owner(r, p)' <=> Owner(r, p)
    BY <1>1, <2>1 DEF Owner, Merged, InTree
  <2>3. OwnInv'
    BY <1>1, <2>1, <2>2, SameOwner DEF PhantomInv
  <2> QED
    BY <1>1, <1>2, <2>3, ConcludeStep, RunFacts DEF Trying, TypeOK
<1>3. CASE run' = [run EXCEPT ![r].pc = "revert"] /\ UNCHANGED <<latest, promoted>>
  <2>1. /\ run[r] \in Record /\ "revert" \in Places
        /\ run' = [run EXCEPT ![r] = [run[r] EXCEPT !.pc = "revert"]]
    BY <1>3, RunFacts DEF Places
  <2>2. Touched(r)
    <3>1. [run[r] EXCEPT !.pc = "revert"] \in Record
      BY <2>1 DEF Record
    <3> QED
      BY <2>1, <3>1, RunFacts DEF Touched, TypeOK
  <2>3. /\ run'[r].pc = "revert" /\ run'[r].state = run[r].state
        /\ run'[r].candidate = run[r].candidate /\ run'[r].evidence = run[r].evidence
        /\ run'[r].reviewed = run[r].reviewed
    BY <2>1, RunFacts DEF TypeOK, Record
  <2>4. RecordOK(r)'
    BY <1>1, <1>3, <2>3, RunFacts DEF RecordOK, Working, Trying, InTree
  <2>5. \A p \in Patches : Owner(r, p)' <=> Owner(r, p)
    BY <1>1, <2>3 DEF Owner, Merged, InTree
  <2>6. run[r].pc \notin Late
    BY <1>1 DEF Late, Ended
  <2> QED
    BY <1>1, <1>3, <2>2, <2>3, <2>4, <2>5, <2>6, RunFacts, QuietRun DEF Settling
<1> QED
  BY <1>2, <1>3 DEF FinalVerify

\* Either the patch leaves the tree with its only owner, or it stays and its owner
\* is remembered.
LEMMA RevertPatchStep == ASSUME PhantomInv, NEW r \in Named, RevertPatch(r) PROVE PhantomInv'
<1> DEFINE p == run[r].candidate
<1>1. run[r].pc = "revert" /\ UNCHANGED mishaps
  BY DEF RevertPatch
<1>2. p \in Patches /\ r \notin left /\ Owner(r, p)
  BY <1>1, RunFacts DEF RecordOK, Working, InTree, Owner
<1>3. CASE repo' = repo \ {p} /\ UNCHANGED left /\ Conclude(r, "rolled_back")
  <2>1. Touched(r) /\ run'[r].candidate = NoPatch
    BY <1>2, <1>3, RunFacts, ConcludeEffect
  <2>2. \A q \in Patches : ~Owner(r, q)'
    BY <2>1, PatchAssumption DEF Owner
  <2>3. \A s \in Named \ {r}, q \in Patches : Owner(s, q)' <=> Owner(s, q)
    BY <1>3, <2>1, OtherOwners
  <2>4. \A q \in Patches : Owner(r, q) => q = p
    BY DEF Owner
  <2>5. OwnInv /\ TypeOK
    BY DEF PhantomInv
  <2>6. OwnInv'
    <3> HIDE DEF p, Owner
    <3>1. ASSUME NEW q \in Patches, NEW s \in Named, NEW t \in Named, Owner(s, q)', Owner(t, q)'
          PROVE  s = t
      BY <2>2, <2>3, <2>5, <3>1 DEF OwnInv
    <3>2. ASSUME NEW q \in Patches PROVE q \in repo' <=> \E s \in Named : Owner(s, q)'
      <4>1. CASE q = p
        <5>1. \A s \in Named \ {r} : ~Owner(s, q)
          BY <1>2, <2>5, <4>1 DEF OwnInv
        <5> QED
          BY <1>3, <2>2, <2>3, <4>1, <5>1
      <4>2. CASE q # p
        <5>1. q \in repo' <=> \E s \in Named : Owner(s, q)
          BY <1>3, <2>5, <4>2 DEF OwnInv
        <5> QED
          BY <2>2, <2>3, <2>4, <4>2, <5>1
      <4> QED
        BY <4>1, <4>2
    <3> QED
      BY <3>1, <3>2 DEF OwnInv
  <2>7. repo' \subseteq Patches
    BY <1>3, <2>5 DEF TypeOK
  <2> QED
    BY <1>1, <1>3, <2>6, <2>7, ConcludeStep DEF Trying
<1>4. CASE left' = left \cup {r} /\ UNCHANGED repo /\ Conclude(r, "failed")
  <2>1. Touched(r) /\ run'[r].candidate = p
    BY <1>4, RunFacts, ConcludeEffect
  <2>2. \A q \in Patches : Owner(r, q)' <=> Owner(r, q)
    BY <1>1, <1>4, <2>1 DEF Owner, InTree
  <2>3. OwnInv'
    BY <1>4, <2>1, <2>2, SameOwner DEF PhantomInv
  <2> QED
    BY <1>1, <1>4, <2>3, ConcludeStep, RunFacts DEF Trying, TypeOK
<1> QED
  BY <1>3, <1>4 DEF RevertPatch, Reverted

\* A run that works through its automations keeps what it was decided on.
LEMMA ContinueStep ==
    ASSUME PhantomInv, NEW r \in Named, NEW x \in Record, run' = [run EXCEPT ![r] = x],
           UNCHANGED <<repo, latest, promoted, left, mishaps>>,
           run[r].pc \in Settling, x.pc \in Settling, x.queue \subseteq run[r].queue,
           x.state = run[r].state, x.reviewed = run[r].reviewed,
           x.evidence = run[r].evidence, x.candidate = run[r].candidate
    PROVE  PhantomInv'
<1>1. Touched(r) /\ run'[r] = x
  BY RunFacts DEF Touched, TypeOK
<1>2. /\ x.pc \notin Working \cup {"unstarted"} /\ run[r].pc \notin Working \cup {"unstarted"}
      /\ x.pc \in Late
  BY DEF Settling, Working, Late, Ended
<1>3. RecordOK(r)'
  BY <1>1, <1>2, RunFacts DEF RecordOK, Working, Trying, InTree
<1>4. \A p \in Patches : Owner(r, p)' <=> Owner(r, p)
  BY <1>1, <1>2 DEF Owner, Merged, InTree, Working
<1>5. \A a \in Automations : ChildOf(r, a)
  BY DEF PhantomInv
<1>6. latest.id = r /\ x.pc \in Settling => latest.state = x.state
  <2>1. r # <<>>
    BY EmptyIsNotNamed
  <2> QED
    BY <2>1 DEF PhantomInv, LatestInv
<1> QED
  BY <1>1, <1>2, <1>3, <1>4, <1>5, <1>6, QuietRun DEF ChildOf

LEMMA SuppressContinuationStep ==
    ASSUME PhantomInv, NEW r \in Named, NEW a \in Automations, SuppressContinuation(r, a)
    PROVE  PhantomInv'
<1> DEFINE x == [run[r] EXCEPT !.queue = @ \ {a}]
<1>1. run[r].pc = "continue" /\ UNCHANGED <<repo, latest, promoted, left, mishaps>>
      /\ run' = [run EXCEPT ![r] = x]
  BY DEF SuppressContinuation
<1>2. /\ x \in Record /\ x.pc = "continue" /\ x.queue \subseteq run[r].queue
      /\ x.state = run[r].state /\ x.reviewed = run[r].reviewed
      /\ x.evidence = run[r].evidence /\ x.candidate = run[r].candidate
  <2>1. run[r] \in Record
    BY RunFacts
  <2> QED
    BY <1>1, <2>1 DEF Record
<1> QED
  BY <1>1, <1>2, ContinueStep DEF Settling

LEMMA ContinuationEndsStep ==
    ASSUME PhantomInv, NEW r \in Named, ContinuationEnds(r) PROVE PhantomInv'
<1> DEFINE x == [run[r] EXCEPT !.pc = "continue"]
<1>1. run[r].pc = "waiting" /\ UNCHANGED <<repo, latest, promoted, left, mishaps>>
      /\ run' = [run EXCEPT ![r] = x]
  BY DEF ContinuationEnds
<1>2. /\ x \in Record /\ x.pc = "continue" /\ x.queue \subseteq run[r].queue
      /\ x.state = run[r].state /\ x.reviewed = run[r].reviewed
      /\ x.evidence = run[r].evidence /\ x.candidate = run[r].candidate
  <2>1. run[r] \in Record /\ "continue" \in Places
    BY RunFacts DEF Places
  <2> QED
    BY <1>1, <2>1 DEF Record
<1> QED
  BY <1>1, <1>2, ContinueStep DEF Settling

LEMMA FinishStep == ASSUME PhantomInv, NEW r \in Named, Finish(r) PROVE PhantomInv'
<1> DEFINE x == [run[r] EXCEPT !.pc = "returned"]
<1>1. run[r].pc = "continue" /\ UNCHANGED <<repo, latest, promoted, left, mishaps>>
      /\ run' = [run EXCEPT ![r] = x]
  BY DEF Finish
<1>2. /\ x \in Record /\ x.pc = "returned" /\ x.queue \subseteq run[r].queue
      /\ x.state = run[r].state /\ x.reviewed = run[r].reviewed
      /\ x.evidence = run[r].evidence /\ x.candidate = run[r].candidate
  <2>1. run[r] \in Record /\ "returned" \in Places
    BY RunFacts DEF Places, Ended
  <2> QED
    BY <1>1, <2>1 DEF Record
<1> QED
  BY <1>1, <1>2, ContinueStep DEF Settling

LEMMA DispatchStoredMemoryStep ==
    ASSUME PhantomInv, NEW r \in Named, DispatchStoredMemory(r) PROVE PhantomInv'
<1>1. /\ run[r].pc = "unstarted" /\ Len(r) = 1
      /\ UNCHANGED <<repo, latest, promoted, left, mishaps>>
  BY NamedFacts DEF DispatchStoredMemory, Depth
<1>2. PICK queue \in SUBSET Matching[r[1]] :
         run' = [run EXCEPT ![r].pc = "continue", ![r].queue = queue]
  BY DEF DispatchStoredMemory
<1> DEFINE x == [run[r] EXCEPT !.pc = "continue", !.queue = queue]
<1>3. queue \subseteq Automations
  BY NamedFacts, MatchingAssumption
<1>4. /\ x \in Record /\ x.pc = "continue" /\ x.state = run[r].state
      /\ x.candidate = run[r].candidate
  <2>1. run[r] \in Record /\ "continue" \in Places
    BY RunFacts DEF Places
  <2> QED
    BY <1>3, <2>1 DEF Record
<1>5. run' = [run EXCEPT ![r] = x]
  BY <1>2
<1> HIDE DEF x
<1>6. Touched(r) /\ run'[r] = x
  BY <1>4, <1>5, RunFacts DEF Touched, TypeOK
<1>7. run[r].state # "merged" /\ r \notin left /\ r \notin promoted
  BY <1>1, RunFacts DEF RecordOK
<1>8. RecordOK(r)'
  BY <1>1, <1>4, <1>6, <1>7 DEF RecordOK, Working, Trying, InTree
<1>9. \A p \in Patches : Owner(r, p)' <=> Owner(r, p)
  BY <1>1, <1>4, <1>6, <1>7 DEF Owner, Merged, InTree
<1>10. latest.id # r
  <2>1. r # <<>>
    BY EmptyIsNotNamed
  <2> QED
    BY <1>1, <2>1 DEF PhantomInv, LatestInv
<1>11. run[r].pc \notin Late
  BY <1>1 DEF Late, Ended
<1> QED
  BY <1>1, <1>4, <1>6, <1>8, <1>9, <1>10, <1>11, RunFacts, QuietRun

LEMMA ThrowStep == ASSUME PhantomInv, NEW r \in Named, Throw(r) PROVE PhantomInv'
<1> DEFINE x == [run[r] EXCEPT !.pc = "thrown"]
<1>1. /\ run[r].pc \in {"preflight", "coders", "verify", "continue"}
      /\ UNCHANGED <<repo, latest, promoted, left>>
      /\ run' = [run EXCEPT ![r] = x]
  BY DEF Throw
<1>2. /\ x \in Record /\ x.pc = "thrown" /\ x.queue = run[r].queue
      /\ x.state = run[r].state /\ x.reviewed = run[r].reviewed
      /\ x.evidence = run[r].evidence /\ x.candidate = run[r].candidate
  <2>1. run[r] \in Record /\ "thrown" \in Places
    BY RunFacts DEF Places, Ended
  <2> QED
    BY <1>1, <2>1 DEF Record
<1> HIDE DEF x
<1>3. Touched(r) /\ run'[r] = x
  BY <1>1, <1>2, RunFacts DEF Touched, TypeOK
<1>4. mishaps' \in 0..MaxMishaps
  BY RunFacts, MishapAssumption DEF Throw, Mishap, TypeOK
<1>5. TypeOK'
  BY <1>1, <1>3, <1>4, RunFacts DEF TypeOK, Touched
<1>6. RecordOK(r)'
  BY <1>1, <1>2, <1>3, RunFacts DEF RecordOK, Working, Trying, InTree
<1>7. \A p \in Patches : Owner(r, p)' <=> Owner(r, p)
  BY <1>1, <1>2, <1>3 DEF Owner, Merged, InTree
<1>8. OwnInv'
  BY <1>1, <1>3, <1>7, SameOwner DEF PhantomInv
<1>9. \A a \in Automations : Append(r, a) \in Named /\ run[Append(r, a)].pc # "unstarted" =>
          a \notin run[r].queue
  BY DEF PhantomInv, ChildOf
<1> QED
  BY <1>1, <1>2, <1>3, <1>5, <1>6, <1>8, <1>9, OneRun DEF Late, Ended, Settling

\* A child starts beside its parent: two records change.
LEMMA StartContinuationStep ==
    ASSUME PhantomInv, NEW r \in Named, NEW a \in Automations, StartContinuation(r, a)
    PROVE  PhantomInv'
<1> DEFINE t == Append(r, a)
           x == [run[r] EXCEPT !.pc = "waiting", !.queue = @ \ {a}]
<1>1. /\ run[r].pc = "continue" /\ a \in run[r].queue
      /\ latest' = [id |-> t, state |-> "planned"]
      /\ UNCHANGED <<repo, promoted, left, mishaps>>
      /\ Len(r) = 1
  BY NamedFacts DEF StartContinuation, AttachLatestRun, Suppressed, Depth, MaxContinuationDepth
<1>2. t \in Named /\ t # r
  BY <1>1, ChildFacts
<1>3. run' = [run EXCEPT ![r].pc = "waiting", ![r].queue = @ \ {a}, ![t] = Begin(t)]
  BY DEF StartContinuation
<1>4. /\ x \in Record /\ x.pc = "waiting" /\ x.queue = run[r].queue \ {a}
      /\ x.state = run[r].state /\ x.reviewed = run[r].reviewed
      /\ x.evidence = run[r].evidence /\ x.candidate = run[r].candidate
  <2>1. run[r] \in Record /\ "waiting" \in Places
    BY RunFacts DEF Places
  <2> QED
    BY <2>1 DEF Record
<1>5. run \in [Named -> Record]
  BY DEF PhantomInv, TypeOK
<1>6. run' = [[run EXCEPT ![r] = x] EXCEPT ![t] = Begin(t)]
  BY <1>2, <1>3, <1>5
<1> HIDE DEF x, t
<1>7. /\ run' \in [Named -> Record] /\ run'[r] = x /\ run'[t] = Begin(t)
      /\ \A s \in Named \ {r, t} : run'[s] = run[s]
  BY <1>2, <1>4, <1>5, <1>6, BeginFacts
<1>8. run[t].pc = "unstarted" /\ RecordOK(t) /\ RecordOK(r)
  BY <1>1, <1>2 DEF PhantomInv, ChildOf, t
<1>9. run[t] = Unstarted /\ run[t].state # "merged" /\ t \notin left /\ t \notin promoted
  BY <1>8 DEF RecordOK
<1>10. Begin(t) \in Record /\ Begin(t).pc = "preflight" /\ Begin(t).state = "planned"
  BY BeginFacts
<1>11. TypeOK'
  BY <1>1, <1>2, <1>7 DEF PhantomInv, TypeOK
<1>12. \A s \in Named : RecordOK(s)'
  <2> TAKE s \in Named
  <2>1. CASE s = r
    BY <1>1, <1>4, <1>7, <1>8, <2>1 DEF RecordOK, Working, Trying, InTree
  <2>2. CASE s = t
    BY <1>1, <1>7, <1>9, <1>10, <2>2 DEF RecordOK, Working, Trying, InTree
  <2>3. CASE s \notin {r, t}
    BY <1>1, <1>7, <2>3 DEF PhantomInv, RecordOK, InTree
  <2> QED
    BY <2>1, <2>2, <2>3
<1>13. \A s \in Named, p \in Patches : Owner(s, p)' <=> Owner(s, p)
  <2> TAKE s \in Named, p \in Patches
  <2>1. CASE s = r
    BY <1>1, <1>4, <1>7, <2>1 DEF Owner, Merged, InTree
  <2>2. CASE s = t
    BY <1>1, <1>7, <1>8, <1>9, <1>10, <2>2 DEF Owner, Merged, InTree
  <2>3. CASE s \notin {r, t}
    BY <1>1, <1>7, <2>3 DEF Owner, Merged, InTree
  <2> QED
    BY <2>1, <2>2, <2>3
<1>14. OwnInv'
  <2>1. OwnInv
    BY DEF PhantomInv
  <2> HIDE DEF Owner
  <2> QED
    BY <1>1, <1>13, <2>1 DEF OwnInv
<1>15. ASSUME NEW s \in Named, NEW b \in Automations PROVE ChildOf(s, b)'
  <2> SUFFICES ASSUME Append(s, b) \in Named, run'[Append(s, b)].pc # "unstarted"
               PROVE  run'[s].pc \in Late /\ b \notin run'[s].queue
    BY DEF ChildOf
  <2>1. CASE Append(s, b) = t
    <3>1. s = r /\ b = a
      BY <2>1, ChildFacts DEF t
    <3> QED
      BY <1>4, <1>7, <3>1 DEF Late
  <2>2. CASE Append(s, b) = r
    <3>1. FALSE
      BY <1>1, <2>2, ChildFacts, NamedFacts
    <3> QED
      BY <3>1
  <2>3. CASE Append(s, b) \notin {r, t}
    <3>1. run[Append(s, b)].pc # "unstarted"
      BY <1>7, <2>3
    <3>2. run[s].pc \in Late /\ b \notin run[s].queue
      BY <3>1 DEF PhantomInv, ChildOf
    <3>3. s # t
      BY <1>8, <3>2 DEF Late, Ended
    <3> QED
      BY <1>4, <1>7, <3>2, <3>3 DEF Late
  <2> QED
    BY <2>1, <2>2, <2>3
<1>16. LatestInv'
  BY <1>1, <1>7, <1>10 DEF LatestInv, Settling
<1> QED
  BY <1>11, <1>12, <1>14, <1>15, <1>16 DEF PhantomInv

\* A crash moves every call that was under way, and remembers the patches it left.
LEMMA CrashStep == ASSUME PhantomInv, Crash PROVE PhantomInv'
<1>1. /\ run' = [r \in Named |-> IF run[r].pc \in Ended \cup {"unstarted"} THEN run[r]
                                 ELSE [run[r] EXCEPT !.pc = "lost"]]
      /\ left' = left \cup {r \in Named : InTree(r)}
      /\ latest' = [id |-> <<>>, state |-> "none"]
      /\ UNCHANGED <<repo, promoted>>
  BY DEF Crash
<1>2. ASSUME NEW r \in Named
      PROVE  /\ run'[r] \in Record /\ run'[r].state = run[r].state
             /\ run'[r].reviewed = run[r].reviewed /\ run'[r].evidence = run[r].evidence
             /\ run'[r].candidate = run[r].candidate /\ run'[r].queue = run[r].queue
             /\ IF run[r].pc \in Ended \cup {"unstarted"} THEN run'[r] = run[r]
                ELSE run'[r].pc = "lost"
  <2>1. run[r] \in Record /\ "lost" \in Places
    BY RunFacts DEF Places, Ended
  <2>2. CASE run[r].pc \in Ended \cup {"unstarted"}
    BY <1>1, <2>1, <2>2
  <2>3. CASE run[r].pc \notin Ended \cup {"unstarted"}
    <3>1. run'[r] = [run[r] EXCEPT !.pc = "lost"]
      BY <1>1, <2>3
    <3> QED
      BY <2>1, <2>3, <3>1 DEF Record
  <2> QED
    BY <2>2, <2>3
<1>3. mishaps' \in 0..MaxMishaps
  BY MishapAssumption DEF Crash, Mishap, PhantomInv, TypeOK
<1>4. run' \in [Named -> Record]
  BY <1>1, <1>2
<1>5. TypeOK'
  BY <1>1, <1>3, <1>4 DEF PhantomInv, TypeOK
<1>6. ASSUME NEW r \in Named PROVE RecordOK(r)'
  <2>1. RecordOK(r)
    BY DEF PhantomInv
  <2>2. CASE run[r].pc \in Ended \cup {"unstarted"}
    BY <1>1, <1>2, <2>1, <2>2 DEF RecordOK, Working, Trying, InTree, Ended
  <2>3. CASE run[r].pc \notin Ended \cup {"unstarted"}
    <3>1. run'[r].pc = "lost"
      BY <1>2, <2>3
    <3> QED
      BY <1>1, <1>2, <2>1, <3>1 DEF RecordOK, Working, Trying, InTree
  <2> QED
    BY <2>2, <2>3
<1>7. ASSUME NEW r \in Named, NEW p \in Patches PROVE Owner(r, p)' <=> Owner(r, p)
  BY <1>1, <1>2 DEF Owner, Merged, InTree, Ended
<1>8. OwnInv'
  <2>1. OwnInv
    BY DEF PhantomInv
  <2> HIDE DEF Owner
  <2> QED
    BY <1>1, <1>7, <2>1 DEF OwnInv
<1>9. ASSUME NEW r \in Named, NEW a \in Automations PROVE ChildOf(r, a)'
  <2>1. ChildOf(r, a)
    BY DEF PhantomInv
  <2> SUFFICES ASSUME Append(r, a) \in Named, run'[Append(r, a)].pc # "unstarted"
               PROVE  run'[r].pc \in Late /\ a \notin run'[r].queue
    BY DEF ChildOf
  <2>2. run[Append(r, a)].pc # "unstarted"
    BY <1>2
  <2> QED
    BY <1>2, <2>1, <2>2 DEF ChildOf, Late, Ended
<1>10. LatestInv'
  BY <1>1 DEF LatestInv
<1> QED
  BY <1>5, <1>6, <1>8, <1>9, <1>10 DEF PhantomInv

--------------------------------------------------------------------------------
(* The theorems.                                                            *)

LEMMA PhantomInit == Init => PhantomInv
<1> SUFFICES ASSUME Init PROVE PhantomInv
  OBVIOUS
<1>1. /\ \A r \in Named : run[r] = Unstarted
      /\ run = [r \in Named |-> Unstarted] /\ repo = {} /\ left = {} /\ promoted = {}
      /\ latest = [id |-> <<>>, state |-> "none"] /\ mishaps = 0
  BY DEF Init
<1>2. TypeOK
  BY <1>1, UnstartedType, MishapAssumption DEF TypeOK
<1>3. \A r \in Named : RecordOK(r) /\ \A a \in Automations : ChildOf(r, a)
  BY <1>1, UnstartedType DEF RecordOK, ChildOf, Working, Trying, InTree
<1>4. \A r \in Named, p \in Patches : ~Owner(r, p)
  BY <1>1, UnstartedType, PatchAssumption DEF Owner
<1>5. OwnInv
  BY <1>1, <1>4 DEF OwnInv
<1> QED
  BY <1>1, <1>2, <1>3, <1>5 DEF PhantomInv, LatestInv

LEMMA PhantomStep == PhantomInv /\ [Next]_vars => PhantomInv'
<1> SUFFICES ASSUME PhantomInv, [Next]_vars PROVE PhantomInv'
  OBVIOUS
<1>1. CASE UNCHANGED vars
  BY <1>1 DEF vars, PhantomInv, TypeOK, RecordOK, ChildOf, OwnInv, Owner, Merged, InTree, LatestInv
<1>2. CASE Crash
  BY <1>2, CrashStep
<1>3. ASSUME NEW r \in Named, Run(r) \/ DispatchStoredMemory(r) \/ Step(r) \/ Throw(r)
      PROVE  PhantomInv'
  <2>1. CASE Run(r) \/ DispatchStoredMemory(r) \/ Throw(r)
    BY <2>1, RunStep, DispatchStoredMemoryStep, ThrowStep
  <2>2. CASE Step(r)
    BY <2>2, RefuseStep, BootstrapStep, RunCoderWorkersStep, VerifyAndDecideStep, ApplyPatchStep,
       FinalVerifyStep, RevertPatchStep, ContinuationEndsStep, FinishStep,
       SuppressContinuationStep, StartContinuationStep
       DEF Step
  <2> QED
    BY <1>3, <2>1, <2>2
<1> QED
  BY <1>1, <1>2, <1>3 DEF Next

LEMMA PhantomInvariant == Spec => []PhantomInv
BY PhantomInit, PhantomStep, PTL DEF Spec

\* Every state of the runtime has its type, for any calls, workers and patches
\* (runtime.ts:2614-3360).
THEOREM PhantomTypeCorrect == Spec => []TypeOK
<1>1. PhantomInv => TypeOK
  BY DEF PhantomInv
<1> QED
  BY <1>1, PhantomInvariant, PTL

\* However many calls, reverts that fail and crashes interleave, each patch of the
\* working tree is there on account of exactly one run, and a merged run's patch is
\* there (runtime.ts:2904-2938).
THEOREM TreeHoldsMerged == Spec => []RepoHoldsMerged
<1>1. PhantomInv => RepoHoldsMerged
  <2> SUFFICES ASSUME PhantomInv, NEW p \in Patches
               PROVE  Cardinality({r \in Named : Owner(r, p)}) = (IF p \in repo THEN 1 ELSE 0)
    BY DEF RepoHoldsMerged
  <2>1. /\ \A r, s \in Named : Owner(r, p) /\ Owner(s, p) => r = s
        /\ p \in repo <=> \E r \in Named : Owner(r, p)
    BY DEF PhantomInv, OwnInv
  <2> HIDE DEF Owner
  <2>2. CASE p \in repo
    <3>1. PICK r \in Named : {s \in Named : Owner(s, p)} = {r}
      BY <2>1, <2>2
    <3> QED
      BY <2>2, <3>1, FS_Singleton
  <2>3. CASE p \notin repo
    <3>1. {s \in Named : Owner(s, p)} = {}
      BY <2>1, <2>3
    <3> QED
      BY <2>3, <3>1, FS_EmptySet
  <2> QED
    BY <2>2, <2>3
<1> QED
  BY <1>1, PhantomInvariant, PTL

\* Under a plan with a code-review gate no run merges past a verifier that did not
\* pass, whatever the number of workers (runtime.ts:1299-1308, 3720).
THEOREM ReviewedMerges == Spec => []ReviewedMergeVerified
<1>1. PhantomInv => ReviewedMergeVerified
  BY DEF PhantomInv, RecordOK, ReviewedMergeVerified, Merged
<1> QED
  BY <1>1, PhantomInvariant, PTL

\* The patch of a promoted run is in the tree and a verifier passed it: the oracle
\* prefers a verified worker, and a mixture that is no patch never applies
\* (runtime.ts:1319, 2962).
THEOREM PromotedPatches == Spec => []PromotedPatchVerified
<1>1. PhantomInv => PromotedPatchVerified
  <2> SUFFICES ASSUME PhantomInv, NEW r \in promoted
               PROVE  Merged(r) /\ run[r].candidate \in repo /\ run[r].evidence.candidate
    BY DEF PromotedPatchVerified
  <2>1. r \in Named /\ RecordOK(r)
    BY DEF PhantomInv, TypeOK
  <2>2. Merged(r) /\ run[r].evidence.some /\ run[r].candidate \in Patches
    BY <2>1 DEF RecordOK, Merged
  <2>3. run[r].evidence.candidate
    BY <2>1, <2>2, PatchAssumption DEF RecordOK, Merged
  <2>4. Owner(r, run[r].candidate)
    BY <2>2 DEF Owner
  <2> QED
    BY <2>1, <2>2, <2>3, <2>4 DEF PhantomInv, OwnInv
<1> QED
  BY <1>1, PhantomInvariant, PTL

\* The snapshot's latest run, once its call has settled, is in the state shown: the
\* end of a child never leaves its own record stale (runtime.ts:1316, 3354).
THEOREM SnapshotIsTrue == Spec => []LatestRunIsTrue
<1>1. PhantomInv => LatestRunIsTrue
  BY DEF PhantomInv, LatestInv, LatestRunIsTrue, Settling
<1> QED
  BY <1>1, PhantomInvariant, PTL

--------------------------------------------------------------------------------
(* Who waits for whom.                                                      *)

UnderWay(r) == run[r].pc \notin Ended \cup {"unstarted"}
Children(r) == {a \in Automations : Append(r, a) \in Named}

\* Only calls from outside wait, and none for a child that will not settle; a child
\* is under way only while its parent awaits it, one child at a time.
SerialInv ==
    \A r \in Named :
        /\ run[r].pc = "waiting" => Len(r) = 1
        /\ \A a \in Children(r) :
              /\ run[Append(r, a)].pc = "lost" => run[r].pc = "lost"
              /\ UnderWay(Append(r, a)) =>
                    /\ run[r].pc = "waiting"
                    /\ \A b \in Children(r) : UnderWay(Append(r, b)) => b = a

\* Steps that start no child change one call, which does not come to wait, and which
\* has stopped waiting only if its children have settled.
LEMMA PlainStep ==
    ASSUME PhantomInv, NEW r \in Named,
           \/ Run(r) \/ DispatchStoredMemory(r) \/ Throw(r)
           \/ Refuse(r) \/ Bootstrap(r) \/ RunCoderWorkers(r) \/ VerifyAndDecide(r)
           \/ ApplyPatch(r) \/ FinalVerify(r) \/ RevertPatch(r)
           \/ ContinuationEnds(r) \/ Finish(r)
           \/ \E a \in Automations : SuppressContinuation(r, a)
    PROVE  /\ \A s \in Named \ {r} : run'[s] = run[s]
           /\ run'[r].pc \notin {"waiting", "lost"}
           /\ run[r].pc \notin Ended /\ (UnderWay(r) \/ Len(r) = 1)
           /\ run[r].pc = "waiting" => ContinuationEnds(r)
<1>1. TypeOK /\ run \in [Named -> Record] /\ run[r] \in Record
  BY DEF PhantomInv, TypeOK
<1>2. CASE Run(r) \/ DispatchStoredMemory(r)
  <2>1. run[r].pc = "unstarted" /\ run[r].pc \notin Ended /\ Len(r) = 1
    BY <1>2, NamedFacts DEF Run, DispatchStoredMemory, Depth, Ended
  <2>2. Begin(r).pc = "preflight"
    BY BeginFacts
  <2>3. CASE Run(r)
    BY <1>1, <2>1, <2>2, <2>3 DEF Run
  <2>4. CASE DispatchStoredMemory(r)
    <3>1. PICK queue : run' = [run EXCEPT ![r].pc = "continue", ![r].queue = queue]
      BY <2>4 DEF DispatchStoredMemory
    <3>2. run' = [run EXCEPT ![r] = [run[r] EXCEPT !.pc = "continue", !.queue = queue]]
      BY <3>1
    <3>3. run'[r].pc = "continue"
      BY <1>1, <3>2 DEF Record
    <3> QED
      BY <1>1, <2>1, <3>2, <3>3
  <2> QED
    BY <1>2, <2>3, <2>4
<1>3. CASE Throw(r) \/ Refuse(r) \/ Bootstrap(r) \/ RunCoderWorkers(r)
  BY <1>1, <1>3 DEF Throw, Refuse, Bootstrap, RunCoderWorkers, Record, UnderWay, Ended
<1>4. CASE VerifyAndDecide(r)
  <2>1. UnderWay(r) /\ run[r].pc \notin Ended \cup {"waiting"}
    BY <1>4 DEF VerifyAndDecide, UnderWay, Ended
  <2>2. CASE Conclude(r, "failed")
    BY <1>1, <2>1, <2>2, ConcludeEffect DEF Touched
  <2>3. CASE ~Conclude(r, "failed")
    <3>1. PICK results \in Verdicts(run[r].results) :
             run' = [run EXCEPT ![r] = [Unstarted EXCEPT
                   !.pc = "apply", !.state = run[r].state, !.reviewed = run[r].reviewed,
                   !.candidate = Candidate(results),
                   !.evidence = EvidenceFor(results, Candidate(results))]]
      BY <1>4, <2>3 DEF VerifyAndDecide
    <3>2. run'[r].pc = "apply"
      BY <1>1, <3>1, UnstartedType DEF Record
    <3> QED
      BY <1>1, <2>1, <3>1, <3>2
  <2> QED
    BY <2>2, <2>3
<1>5. CASE ApplyPatch(r) \/ FinalVerify(r) \/ RevertPatch(r)
  <2>1. UnderWay(r) /\ run[r].pc \notin Ended \cup {"waiting"}
    BY <1>5 DEF ApplyPatch, FinalVerify, RevertPatch, UnderWay, Ended
  <2>2. CASE \E state \in {"merged", "rolled_back", "failed"} : Conclude(r, state)
    BY <1>1, <2>1, <2>2, ConcludeEffect DEF Touched
  <2>3. CASE ~\E state \in {"merged", "rolled_back", "failed"} : Conclude(r, state)
    <3>1. \/ run' = [run EXCEPT ![r].pc = "final-verify"]
          \/ run' = [run EXCEPT ![r].pc = "revert"]
      BY <1>5, <2>3 DEF ApplyPatch, FinalVerify, RevertPatch
    <3> QED
      BY <1>1, <2>1, <3>1 DEF Record
  <2> QED
    BY <2>2, <2>3
<1>6. CASE ContinuationEnds(r) \/ Finish(r)
  BY <1>1, <1>6 DEF ContinuationEnds, Finish, Record, UnderWay, Ended
<1>7. CASE \E a \in Automations : SuppressContinuation(r, a)
  BY <1>1, <1>7 DEF SuppressContinuation, Record, UnderWay, Ended
<1> QED
  BY <1>2, <1>3, <1>4, <1>5, <1>6, <1>7

LEMMA PlainStepSerial ==
    ASSUME SerialInv, NEW r \in Named,
           \A s \in Named \ {r} : run'[s] = run[s],
           run'[r].pc \notin {"waiting", "lost"},
           run[r].pc \notin Ended, UnderWay(r) \/ Len(r) = 1,
           run[r].pc = "waiting" => ContinuationEnds(r)
    PROVE  SerialInv'
<1>1. \A a \in Children(r) : ~UnderWay(Append(r, a))
  <2> TAKE a \in Children(r)
  <2>1. CASE run[r].pc = "waiting"
    BY <2>1 DEF ContinuationEnds, Children, UnderWay, Ended, Settled
  <2>2. CASE run[r].pc # "waiting"
    BY <2>2 DEF SerialInv
  <2> QED
    BY <2>1, <2>2
<1>2. ASSUME NEW s \in Named, NEW a \in Children(s)
      PROVE  /\ UnderWay(Append(s, a))' => UnderWay(Append(s, a)) /\ s # r
             /\ run'[Append(s, a)].pc = "lost" => run[Append(s, a)].pc = "lost"
  <2>1. Append(s, a) \in Named /\ Append(s, a) # s /\ Len(Append(s, a)) # 1
    BY ChildFacts, NamedFacts DEF Children
  <2>2. CASE Append(s, a) = r
    BY <2>1, <2>2
  <2>3. CASE Append(s, a) # r
    <3>1. run'[Append(s, a)] = run[Append(s, a)]
      BY <2>1, <2>3
    <3> QED
      BY <1>1, <3>1 DEF UnderWay
  <2> QED
    BY <2>2, <2>3
<1> SUFFICES ASSUME NEW s \in Named
             PROVE  /\ run'[s].pc = "waiting" => Len(s) = 1
                    /\ \A a \in Children(s) :
                          /\ run'[Append(s, a)].pc = "lost" => run'[s].pc = "lost"
                          /\ UnderWay(Append(s, a))' =>
                                /\ run'[s].pc = "waiting"
                                /\ \A b \in Children(s) : UnderWay(Append(s, b))' => b = a
  BY DEF SerialInv, Children
<1>3. run'[s].pc = "waiting" => s # r /\ run'[s] = run[s]
  OBVIOUS
<1>4. run[s].pc = "lost" => s # r
  BY DEF Ended
<1>5. s # r => run'[s] = run[s]
  OBVIOUS
<1>6. /\ run[s].pc = "waiting" => Len(s) = 1
      /\ \A a \in Children(s) :
            /\ run[Append(s, a)].pc = "lost" => run[s].pc = "lost"
            /\ UnderWay(Append(s, a)) =>
                  /\ run[s].pc = "waiting"
                  /\ \A b \in Children(s) : UnderWay(Append(s, b)) => b = a
  BY DEF SerialInv
<1> HIDE DEF UnderWay, Children
<1> QED
  BY <1>2, <1>3, <1>4, <1>5, <1>6

LEMMA StartContinuationSerial ==
    ASSUME PhantomInv, SerialInv, NEW r \in Named, NEW a \in Automations, StartContinuation(r, a)
    PROVE  SerialInv'
<1> DEFINE t == Append(r, a)
<1>1. run[r].pc = "continue" /\ a \in run[r].queue /\ Len(r) = 1
  <2>1. Len(r) \in 1..3
    BY NamedFacts
  <2>2. run[r].pc = "continue" /\ a \in run[r].queue /\ ~Suppressed(r, a)
    BY DEF StartContinuation
  <2>3. ~(Len(r) - 1 >= 1)
    BY <2>2 DEF Suppressed, Depth, MaxContinuationDepth
  <2> QED
    BY <2>1, <2>2, <2>3
<1>2. t \in Named /\ t # r /\ Len(t) = 2 /\ a \in Children(r)
  <2>1. Len(t) = Len(r) + 1 /\ t # r /\ t \in Named
    BY <1>1, ChildFacts
  <2> QED
    BY <1>1, <2>1 DEF Children
<1>3. run \in [Named -> Record] /\ run[r] \in Record
  BY DEF PhantomInv, TypeOK
<1>4. /\ run'[r].pc = "waiting" /\ run'[t].pc = "preflight"
      /\ \A s \in Named \ {r, t} : run'[s] = run[s]
  <2>1. run' = [run EXCEPT ![r].pc = "waiting", ![r].queue = @ \ {a}, ![t] = Begin(t)]
    BY DEF StartContinuation
  <2>2. Begin(t).pc = "preflight"
    BY BeginFacts
  <2> HIDE DEF t
  <2> QED
    BY <1>2, <1>3, <2>1, <2>2 DEF Record
<1>5. /\ \A s \in Named : s # r /\ run[s].pc = "waiting" => s # t /\ run'[s] = run[s]
      /\ run[t].pc = "unstarted" /\ ~UnderWay(t)
  <2>1. run[t].pc = "unstarted"
    BY <1>1, <1>2 DEF PhantomInv, ChildOf
  <2> QED
    BY <1>4, <2>1 DEF UnderWay
<1>6. ASSUME NEW s \in Named, NEW b \in Children(s)
      PROVE  /\ Append(s, b) \in Named /\ Append(s, b) # r /\ Append(s, b) # s
             /\ Append(s, b) = t => s = r /\ b = a
  <2>1. b \in Automations /\ Append(s, b) \in Named
    BY DEF Children
  <2>2. Append(s, b) # s /\ Len(Append(s, b)) = Len(s) + 1 /\ Len(s) \in 1..3
    BY <2>1, ChildFacts, NamedFacts
  <2>3. Append(s, b) = t => s = r /\ b = a
    BY <2>1, ChildFacts
  <2>4. Len(Append(s, b)) # 1
    BY <2>2
  <2>5. Append(s, b) # r
    BY <1>1, <2>4
  <2> QED
    BY <2>1, <2>2, <2>3, <2>5
<1> HIDE DEF t
<1>7. ASSUME NEW s \in Named, NEW b \in Children(s), UnderWay(Append(s, b))'
      PROVE  \/ s = r /\ b = a
             \/ s # r /\ s # t /\ UnderWay(Append(s, b)) /\ run[s].pc = "waiting"
  <2>1. CASE Append(s, b) = t
    BY <1>6, <2>1
  <2>2. CASE Append(s, b) # t
    <3>1. UnderWay(Append(s, b))
      BY <1>4, <1>6, <1>7, <2>2 DEF UnderWay
    <3>2. run[s].pc = "waiting"
      BY <3>1 DEF SerialInv
    <3> QED
      BY <1>1, <1>5, <3>1, <3>2
  <2> QED
    BY <2>1, <2>2
<1>8. ASSUME NEW s \in Named, NEW b \in Children(s), run'[Append(s, b)].pc = "lost"
      PROVE  run'[s].pc = "lost"
  <2>1. Append(s, b) # t /\ run'[Append(s, b)] = run[Append(s, b)]
    BY <1>4, <1>6, <1>8
  <2>2. run[s].pc = "lost"
    BY <1>8, <2>1 DEF SerialInv
  <2>3. s \notin {r, t}
    BY <1>1, <1>5, <2>2
  <2> QED
    BY <1>4, <2>2, <2>3
<1>9. ASSUME NEW s \in Named, run'[s].pc = "waiting" PROVE Len(s) = 1
  <2>1. CASE s = r
    BY <1>1, <2>1
  <2>2. CASE s # r
    BY <1>4, <1>9, <2>2 DEF SerialInv
  <2> QED
    BY <2>1, <2>2
<1>10. ASSUME NEW s \in Named, NEW b \in Children(s), UnderWay(Append(s, b))'
       PROVE  /\ run'[s].pc = "waiting"
              /\ \A c \in Children(s) : UnderWay(Append(s, c))' => c = b
  <2>1. CASE s = r /\ b = a
    BY <1>4, <1>7, <2>1
  <2>2. CASE s # r /\ s # t /\ UnderWay(Append(s, b)) /\ run[s].pc = "waiting"
    <3>1. \A c \in Children(s) : UnderWay(Append(s, c)) => c = b
      BY <2>2 DEF SerialInv
    <3> QED
      BY <1>4, <1>7, <2>2, <3>1
  <2> QED
    BY <1>7, <1>10, <2>1, <2>2
<1> QED
  BY <1>8, <1>9, <1>10 DEF SerialInv, Children

LEMMA CrashSerial == ASSUME PhantomInv, SerialInv, Crash PROVE SerialInv'
<1>1. ASSUME NEW s \in Named
      PROVE  IF UnderWay(s) THEN run'[s].pc = "lost" ELSE run'[s] = run[s]
  <2>1. run' = [r \in Named |-> IF run[r].pc \in Ended \cup {"unstarted"} THEN run[r]
                                ELSE [run[r] EXCEPT !.pc = "lost"]]
    BY DEF Crash
  <2>2. run[s] \in Record
    BY DEF PhantomInv, TypeOK
  <2> QED
    BY <2>1, <2>2 DEF UnderWay, Record
<1>2. \A s \in Named : ~UnderWay(s)' /\ run'[s].pc # "waiting"
  BY <1>1 DEF UnderWay, Ended
<1>3. ASSUME NEW s \in Named, NEW a \in Children(s), run'[Append(s, a)].pc = "lost"
      PROVE  run'[s].pc = "lost"
  <2>1. Append(s, a) \in Named
    BY DEF Children
  <2>2. CASE UnderWay(Append(s, a))
    <3>1. UnderWay(s)
      BY <2>2 DEF SerialInv, UnderWay, Ended
    <3> QED
      BY <1>1, <3>1
  <2>3. CASE ~UnderWay(Append(s, a))
    <3>1. run[s].pc = "lost"
      BY <1>1, <1>3, <2>1, <2>3 DEF SerialInv
    <3> QED
      BY <1>1, <3>1 DEF UnderWay, Ended
  <2> QED
    BY <2>2, <2>3
<1> QED
  BY <1>2, <1>3 DEF SerialInv, Children

LEMMA SerialStep == PhantomInv /\ SerialInv /\ [Next]_vars => SerialInv'
<1> SUFFICES ASSUME PhantomInv, SerialInv, [Next]_vars PROVE SerialInv'
  OBVIOUS
<1>1. CASE UNCHANGED vars
  BY <1>1 DEF vars, SerialInv, UnderWay, Children
<1>2. CASE Crash
  BY <1>2, CrashSerial
<1>3. ASSUME NEW r \in Named, Run(r) \/ DispatchStoredMemory(r) \/ Step(r) \/ Throw(r)
      PROVE  SerialInv'
  <2>1. CASE \E a \in Automations : StartContinuation(r, a)
    BY <2>1, StartContinuationSerial
  <2>2. CASE ~\E a \in Automations : StartContinuation(r, a)
    <3>1. \/ Run(r) \/ DispatchStoredMemory(r) \/ Throw(r)
          \/ Refuse(r) \/ Bootstrap(r) \/ RunCoderWorkers(r) \/ VerifyAndDecide(r)
          \/ ApplyPatch(r) \/ FinalVerify(r) \/ RevertPatch(r)
          \/ ContinuationEnds(r) \/ Finish(r)
          \/ \E a \in Automations : SuppressContinuation(r, a)
      BY <1>3, <2>2 DEF Step
    <3> QED
      BY <3>1, PlainStep, PlainStepSerial
  <2> QED
    BY <2>1, <2>2
<1> QED
  BY <1>1, <1>2, <1>3 DEF Next

\* The automations of a run are worked off one at a time, each while the run awaits it;
\* and a run that waits has a depth of 0 and none of its children waits, or died without
\* it.  So no call ever waits for one that waits in turn: what is awaited can always take
\* a step of its own or has settled (runtime.ts:3869-3892).
THEOREM ContinuationsAreSerial ==
    Spec => [](\A r \in Named, a \in Automations : Append(r, a) \in Named =>
                  /\ UnderWay(Append(r, a)) =>
                        /\ run[r].pc = "waiting"
                        /\ \A b \in Automations :
                              Append(r, b) \in Named /\ UnderWay(Append(r, b)) => b = a
                  /\ run[r].pc = "waiting" => run[Append(r, a)].pc \notin {"waiting", "lost"})
<1> DEFINE Serial ==
       \A r \in Named, a \in Automations : Append(r, a) \in Named =>
          /\ UnderWay(Append(r, a)) =>
                /\ run[r].pc = "waiting"
                /\ \A b \in Automations :
                      Append(r, b) \in Named /\ UnderWay(Append(r, b)) => b = a
          /\ run[r].pc = "waiting" => run[Append(r, a)].pc \notin {"waiting", "lost"}
<1>1. Init => SerialInv
  <2> SUFFICES ASSUME Init PROVE SerialInv
    OBVIOUS
  <2>1. \A r \in Named : run[r].pc = "unstarted"
    BY UnstartedType DEF Init
  <2> QED
    BY <2>1 DEF SerialInv, UnderWay, Children
<1>2. SerialInv => Serial
  <2> SUFFICES ASSUME SerialInv, NEW r \in Named, NEW a \in Automations, Append(r, a) \in Named
               PROVE  /\ UnderWay(Append(r, a)) =>
                            /\ run[r].pc = "waiting"
                            /\ \A b \in Automations :
                                  Append(r, b) \in Named /\ UnderWay(Append(r, b)) => b = a
                      /\ run[r].pc = "waiting" => run[Append(r, a)].pc \notin {"waiting", "lost"}
    OBVIOUS
  <2>1. a \in Children(r) /\ Len(Append(r, a)) # 1
    BY ChildFacts, NamedFacts DEF Children
  <2> QED
    BY <2>1 DEF SerialInv, Children
<1> HIDE DEF Serial
<1>3. Spec => []SerialInv
  BY <1>1, PhantomInvariant, SerialStep, PTL DEF Spec
<1>4. Spec => []Serial
  BY <1>2, <1>3, PTL
<1> QED
  BY <1>4 DEF Serial
================================================================================
