----------------------------- MODULE MemoryEngine -----------------------------
(***************************************************************************)
(* The memory engine: a memory is a row of memory.db and, while it is      *)
(* young, an item of the working set ("prefrontal") in RAM; the vault has  *)
(* one file per live row.  A fact is reconciled with the rows that overlap *)
(* it before it is stored; maintenance ages rows, marks them expired and   *)
(* purges them; flush writes the working set over the rows.                *)
(*                                                                         *)
(* The engine's code is synchronous up to a recall's embedding: a call is  *)
(* one step from mem to a new mem, composed of the operators named after   *)
(* its functions.  Ids count the inserted rows.  A content is a model      *)
(* value; what the checks make of it and of its tags is in the constants.  *)
(***************************************************************************)
EXTENDS Integers, Sequences, FiniteSets

CONSTANTS
    Contents,
    Facts,            \* the facts the extractor takes from a content, at most two
    Overlap,          \* word overlap of two contents, in hundredths
    Negated,          \* contents with a negation,
    Flagged,          \*   with a secret pattern or an unsupported claim,
    Forgetting,       \*   with a delete signal,
    Weak,             \*   of low confidence,
    Ephemeral,        \*   that get a time to live,
    High,             \*   of priority above .9,
    Distrusted,       \*   with a trust below .35,
    Inbox,            \*   whose tags put them into the inbox lane,
    Held,             \*   tagged #quarantine,
    Low,              \*   tagged #scrap, or noise of a priority below .65
    Direct,           \* what is stored without the control plane
    Bundles,          \* what importBundle may be given: sequences of items
    MaxPrefrontal, MaxHippocampus,
    LoadLimit,        \* rows that load looks at
    MaxRows,          \* bound: rows inserted
    MaxMishaps,       \* bound: crashes and failing writes
    Fading            \* bound: contents whose entropy may pass the limits

ASSUME DirectAssumption == Direct \subseteq Contents
ASSUME FactsAssumption == \A c \in Contents : Facts[c] \in Seq(Contents) \ {<<>>}
ASSUME OverlapAssumption ==
    \A c, d \in Contents : Overlap[c, d] \in 0..100 /\ Overlap[c, d] = Overlap[d, c]
ASSUME LimitsAssumption == MaxPrefrontal \in Nat \ {0} /\ MaxHippocampus \in Nat /\ LoadLimit \in Nat
ASSUME BoundsAssumption == MaxRows \in Nat \ {0} /\ MaxMishaps \in Nat

VARIABLES
    mem,          \* database, working set and vault of the engine
    over,         \* ids whose time to live has passed
    up,           \* the engine is open
    mishaps

vars == <<mem, over, up, mishaps>>

Ids == 1..MaxRows
Tiers == {"prefrontal", "hippocampus", "cortex"}
MemoryStates == {"active", "quarantined", "scrap", "expired"}

\* used: recalled at least twice; stale: entropy past the limits of ageing.
Row == [content : Contents, tier : Tiers, state : MemoryStates, used : BOOLEAN, stale : BOOLEAN]

Fresh(content, state) ==
    [content |-> content, tier |-> "prefrontal", state |-> state, used |-> FALSE, stale |-> FALSE]

\* An item of a bundle; supersedes is an id, or 0.
Item == [content : Contents, state : MemoryStates, used : BOOLEAN, stale : BOOLEAN, supersedes : Nat]
ASSUME BundlesAssumption == Bundles \subseteq Seq(Item)

\* History: retired, the ids that were ever marked expired; unseen, those of the rows that
\* the last load did not look at; failed, a synchronisation failed since the last full one.
TypeOK ==
    /\ mem.next \in 1..MaxRows + 1
    /\ mem.rows \in [DOMAIN mem.rows -> Row] /\ DOMAIN mem.rows \subseteq 1..(mem.next - 1)
    /\ mem.ram \in [DOMAIN mem.ram -> Row] /\ DOMAIN mem.ram \subseteq 1..(mem.next - 1)
    /\ mem.files \cup mem.dirty \cup mem.retired \cup mem.unseen \cup over \subseteq 1..(mem.next - 1)
    /\ {mem.full, mem.timer, mem.failed, up} \subseteq BOOLEAN
    /\ mishaps \in 0..MaxMishaps

NoRows == [i \in {} |-> 0]

Init ==
    /\ mem = [rows |-> NoRows, next |-> 1, ram |-> NoRows, files |-> {}, dirty |-> {},
              full |-> FALSE, timer |-> FALSE, failed |-> FALSE,
              retired |-> {}, unseen |-> {}]
    /\ over = {} /\ up = TRUE /\ mishaps = 0

--------------------------------------------------------------------------------
(* Rows.                                                                    *)

Live(m) == {i \in DOMAIN m.rows : m.rows[i].state # "expired"}

SetState(m, ids, state) ==
    [m EXCEPT !.rows = [i \in DOMAIN m.rows |->
                           IF i \in ids THEN [m.rows[i] EXCEPT !.state = state] ELSE m.rows[i]]]
SetTier(m, ids, tier) ==
    [m EXCEPT !.rows = [i \in DOMAIN m.rows |->
                           IF i \in ids THEN [m.rows[i] EXCEPT !.tier = tier] ELSE m.rows[i]]]

Expire(m, ids) ==
    LET known == ids \cap DOMAIN m.rows
    IN  [SetState(m, known, "expired") EXCEPT !.retired = @ \cup known]

ExpireMemories(m) == Expire(m, over)

\* faulty: what is quarantined goes as well
NotActive(m) == {i \in DOMAIN m.rows : m.rows[i].state \in {"expired", "quarantined"}}
Purgeable(m) == {i \in DOMAIN m.rows : m.rows[i].state = "expired"}

PurgeExpired(m) ==
    LET gone == Purgeable(m)
    IN  [m EXCEPT !.rows = [i \in DOMAIN m.rows \ gone |-> m.rows[i]], !.files = @ \ gone]

\* flush: the copies in the working set over the rows, and in again where a row
\* was purged
Flush(m) ==
    [m EXCEPT !.rows = [i \in DOMAIN m.rows \cup DOMAIN m.ram |->
                           IF i \in DOMAIN m.ram THEN m.ram[i] ELSE m.rows[i]]]

--------------------------------------------------------------------------------
(* Vault.                                                                   *)

\* faulty: only a request for all items sets the timer
SyncWhenForced(m, force) == [m EXCEPT !.timer = @ \/ force, !.full = @ \/ force]
SyncVault(m, force) == [m EXCEPT !.timer = TRUE, !.full = @ \/ force]
MarkVaultDirty(m, id) == SyncVault([m EXCEPT !.dirty = @ \cup {id}], FALSE)

SyncVaultFull(m) ==
    LET e == ExpireMemories(m)
    IN  [e EXCEPT !.files = Live(e), !.dirty = {}, !.full = FALSE, !.timer = FALSE,
                  !.failed = FALSE]

NeedsFull(m) == m.full \/ m.dirty = {}

FlushDirtyVault(m, force) ==
    IF force \/ NeedsFull(m) THEN SyncVaultFull(m)
    ELSE LET e == ExpireMemories(m)
         IN  [e EXCEPT !.files = (@ \ e.dirty) \cup (e.dirty \cap Live(e)),
                       !.dirty = {}, !.timer = FALSE]

--------------------------------------------------------------------------------
(* Working set.                                                             *)

\* Higher priority first; a class of priority, which has no finer order here, by age.
Ahead(table, newestFirst, i, j) ==
    LET high == {k \in {i, j} : table[k].content \in High}
    IN  IF high \notin {{}, {i, j}} THEN i \in high
        ELSE IF newestFirst THEN j <= i ELSE i <= j

FirstOf(ids, table, newestFirst, n) ==
    {i \in ids : Cardinality({j \in ids : Ahead(table, newestFirst, j, i)}) <= n}

\* faulty: what leaves the working set keeps its tier in the database
Dropped(m, ids) == m
Demoted(m, ids) == SetTier(m, ids, "hippocampus")

\* the hippocampus gives its first rows to the cortex when it is overfull
Compacted(m) ==
    LET hippo == {i \in DOMAIN m.rows : m.rows[i].tier = "hippocampus"}
    IN  SetTier(m, FirstOf(hippo, m.rows, FALSE, Cardinality(hippo) - MaxHippocampus), "cortex")

Consolidate(m) ==
    LET kept == FirstOf(DOMAIN m.ram, m.ram, FALSE, (MaxPrefrontal + 1) \div 2)
    IN  SyncVault(Compacted(Demoted([m EXCEPT !.ram = [i \in kept |-> m.ram[i]]],
                                    DOMAIN m.ram \ kept)), TRUE)

--------------------------------------------------------------------------------
(* Storing.                                                                 *)

\* checkContent, by the severity of its findings
CheckContent(m, c) ==
    LET others == {m.rows[i].content : i \in Live(m)}
        contradicts == \E d \in others : Overlap[c, d] >= 42 /\ (c \in Negated) # (d \in Negated)
        duplicates == {i \in Live(m) : Overlap[c, m.rows[i].content] >= 86}
    IN  IF c \in Flagged THEN "block"
        ELSE IF contradicts \/ Cardinality(duplicates) > 1 THEN "quarantine"
        ELSE "pass"

\* faulty: a contradiction is all that is looked at
CheckedLightly(m, c) == IF CheckContent(m, c) = "quarantine" THEN "quarantined" ELSE "active"
InferState(m, c) ==
    IF c \in Held \/ CheckContent(m, c) # "pass" THEN "quarantined"
    ELSE IF c \in Low THEN "scrap" ELSE "active"

Fission(m, id) ==
    IF m.rows[id].content \in High THEN SetTier(m, {id}, "cortex") ELSE m

With(table, id, row) == [i \in DOMAIN table \cup {id} |-> IF i = id THEN row ELSE table[i]]

\* faulty: an id is handed out again
InsertedOver(m, row) == [m EXCEPT !.rows = With(@, m.next, row)]
Inserted(m, row) ==
    [m EXCEPT !.next = @ + 1, !.rows = With(@, m.next, row),
              !.retired = IF row.state = "expired" THEN @ \cup {m.next} ELSE @]

Store(m, c, state, superseded) ==
    LET id == m.next
        row == Fresh(c, state)
        expired == Expire(Inserted(m, row), superseded)
        young == [expired EXCEPT !.ram = With(@, id, row)]
        settled == IF Cardinality(DOMAIN young.ram) > MaxPrefrontal THEN Consolidate(young) ELSE young
    IN  MarkVaultDirty(Fission(settled, id), id)

\* reconcileCandidateFact: the rows that overlap the fact, and what to do
Related(m, c) ==
    {i \in Live(m) : /\ m.rows[i].state # "scrap" /\ ~m.rows[i].stale
                     /\ Overlap[c, m.rows[i].content] >= 42}

Decide(m, c) ==
    LET related == Related(m, c)
        Near(i) == Overlap[c, m.rows[i].content]
        opposed == {i \in related : (c \in Negated) # (m.rows[i].content \in Negated)}
        contradiction == CHOOSE i \in opposed : \A j \in opposed : Near(j) <= Near(i)
    IN  IF c \in Forgetting /\ related # {} THEN [action |-> "DELETE", ids |-> related]
        ELSE IF opposed # {}
             THEN IF Near(contradiction) >= 68 THEN [action |-> "UPDATE", ids |-> {contradiction}]
                  ELSE [action |-> "QUARANTINE", ids |-> {contradiction}]
        ELSE IF \E i \in related : Near(i) >= 90 THEN [action |-> "NONE", ids |-> related]
        ELSE IF \E i \in related : Near(i) >= 68 THEN [action |-> "MERGE", ids |-> related]
        ELSE IF c \in Weak THEN [action |-> "QUARANTINE", ids |-> related]
        ELSE [action |-> "ADD", ids |-> {}]

\* Nobody passes storeWithControlPlane a state of his own.
FactState(m, c) == IF c \in Inbox THEN "quarantined" ELSE InferState(m, c)

StoreFact(m, c) ==
    LET decision == Decide(m, c)
    IN  CASE decision.action = "DELETE" -> Expire(m, decision.ids)
          [] decision.action = "NONE" -> m
          [] decision.action = "QUARANTINE" -> Store(m, c, "quarantined", {})
          [] decision.action = "UPDATE" -> Store(m, c, FactState(m, c), decision.ids)
          [] OTHER -> Store(m, c, FactState(m, c), {})

\* fact by fact; the k-th works on what the ones before it left
StoreWithControlPlane(m, c) ==
    LET after[k \in 0..Len(Facts[c])] ==
            IF k = 0 THEN m ELSE StoreFact(after[k - 1], Facts[c][k])
    IN  SyncVault(after[Len(Facts[c])], TRUE)

\* storeMemoryAndDispatch: a content of which no fact was stored is stored whole
StoreMemory(m, c) ==
    LET reconciled == StoreWithControlPlane(m, c)
    IN  IF reconciled.next = m.next THEN Store(reconciled, c, InferState(reconciled, c), {})
        ELSE reconciled

\* existingByFingerprint: the newest live row of each content
Fingerprints(m) ==
    LET Same(c) == {i \in Live(m) : m.rows[i].content = c}
    IN  [c \in {m.rows[i].content : i \in Live(m)} |->
            CHOOSE i \in Same(c) : \A j \in Same(c) : j <= i]

ImportedState(m, item) ==
    IF CheckContent(m, item.content) = "pass" THEN item.state ELSE "quarantined"

\* update-existing: whatever the state of the row is by now
Merged(m, id, item) ==
    LET state == ImportedState(m, item)
        row == [m.rows[id] EXCEPT !.state = state, !.used = @ \/ item.used, !.stale = @ /\ item.stale]
    IN  [m EXCEPT !.rows[id] = row,
                  !.retired = IF state = "expired" THEN @ \cup {id} ELSE @]

\* An item, with the table of fingerprints that the call built before the first one.
ImportItem(s, item) ==
    LET m == s.mem
        c == item.content
    IN  IF c \in DOMAIN s.known THEN [s EXCEPT !.mem = Merged(m, s.known[c], item)]
        ELSE IF \E i \in Live(m) : Overlap[c, m.rows[i].content] >= 86 THEN s
        ELSE [mem |-> Store(m, c, ImportedState(m, item), {item.supersedes}),
              known |-> With(s.known, c, m.next)]

ImportBundle(m, bundle) ==
    LET after[k \in 0..Len(bundle)] ==
            IF k = 0 THEN [mem |-> m, known |-> Fingerprints(m)]
            ELSE ImportItem(after[k - 1], bundle[k])
    IN  SyncVault(after[Len(bundle)].mem, TRUE)

--------------------------------------------------------------------------------
(* Calls and timers.                                                        *)

Room(n) == mem.next + n <= MaxRows + 1
Becomes(outcomes) == up /\ mem' \in outcomes /\ UNCHANGED <<over, up, mishaps>>

StoreMemoryAndDispatch ==
    \E c \in Contents : Room(Len(Facts[c])) /\ Becomes({StoreMemory(mem, c)})

\* Learners, listeners, pipelines and the orchestrator store without the control plane.
StoreDirect == \E c \in Direct : Room(1) /\ Becomes({Store(mem, c, InferState(mem, c), {})})

ShareMemory == \E i \in DOMAIN mem.rows : Becomes({MarkVaultDirty(mem, i)})

ImportMemory ==
    \E bundle \in Bundles : Room(Len(bundle)) /\ Becomes({ImportBundle(mem, bundle)})

\* What a recall does to the rows: hits are those, of the active ones it queries, that it
\* returns for the second time.  It returns contents of the graph mirror and of the pod
\* as well, which are copies that know no state; they have no id, and mark nothing.
Recalled(m, hits) ==
    [m EXCEPT !.rows = [i \in DOMAIN m.rows |->
        IF i \in hits THEN [m.rows[i] EXCEPT !.used = TRUE] ELSE m.rows[i]]]
Recall ==
    LET m == ExpireMemories(mem)
    IN  Becomes({Recalled(m, hits) : hits \in
                     SUBSET {i \in DOMAIN m.rows : m.rows[i].state = "active"}})

Elapse ==
    /\ \E i \in DOMAIN mem.rows \ over : mem.rows[i].content \in Ephemeral /\ over' = over \cup {i}
    /\ UNCHANGED <<mem, up, mishaps>>

VaultTimer == mem.timer /\ Becomes({FlushDirtyVault(mem, FALSE)})

\* The orchestrator's 30 s interval, its dispose, and the compaction sentinel.
PreCompactionFlush == Becomes({FlushDirtyVault(Flush(mem), TRUE)})

\* The rows that ageing takes: active, with an entropy past the limit.
Faded(m) == {i \in DOMAIN m.rows : m.rows[i].state = "active" /\ m.rows[i].stale}
Unused(m) == {i \in DOMAIN m.rows : ~m.rows[i].used}

HealthTick == Becomes({SetState(mem, Faded(mem) \cap Unused(mem), "quarantined")})

\* maintain: active rows of little trust are quarantined, the other faded ones scrap
Scrapped(m) ==
    LET doubted == {i \in DOMAIN m.rows : m.rows[i].state = "active" /\ m.rows[i].content \in Distrusted}
    IN  SyncVault(SetState(SetState(m, doubted, "quarantined"), Faded(m) \ doubted, "scrap"), TRUE)
Maintain == Becomes({Scrapped(ExpireMemories(mem))})

CoolDown(m, cooled) ==
    SyncVault(Consolidate([m EXCEPT !.rows = [i \in DOMAIN m.rows |->
        IF i \in cooled THEN [m.rows[i] EXCEPT !.stale = TRUE] ELSE m.rows[i]]]), TRUE)

\* The rows up to old are older than a week.
AgedOut(m, old) == PurgeExpired(Expire(m, {i \in Faded(m) \cap Unused(m) : i <= old}))

Maintained(cooled, old) == AgedOut(ExpireMemories(CoolDown(mem, cooled)), old)

MaintenanceCycle ==
    Becomes({FlushDirtyVault(Maintained(cooled, old), TRUE) :
                cooled \in SUBSET {i \in DOMAIN mem.rows : mem.rows[i].content \in Fading},
                old \in 0..MaxRows})

Down(m) ==
    [m EXCEPT !.ram = NoRows, !.dirty = {}, !.full = FALSE, !.timer = FALSE, !.failed = FALSE]

\* What a synchronisation that fails leaves: the files of some of the due rows, the first
\* ones if it was a full one, or those of all of them and some of the dead ones removed.
\* The timer is gone, and in the incremental branch so are the dirty ids.
SyncTorn(m, force) ==
    LET e == ExpireMemories(m)
        whole == force \/ NeedsFull(m)
        due == IF whole THEN Live(e) ELSE e.dirty \cap Live(e)
        dead == (IF whole THEN e.files ELSE e.dirty) \ Live(e)
        begun == IF whole THEN {FirstOf(due, e.rows, TRUE, n) : n \in 0..Cardinality(due)}
                 ELSE SUBSET due
        torn == {e.files \cup written : written \in begun}
                    \cup {(e.files \cup due) \ removed : removed \in SUBSET dead}
    IN  {[e EXCEPT !.files = files, !.timer = FALSE, !.failed = TRUE,
                   !.dirty = IF whole THEN @ ELSE {}] : files \in torn}

\* A vault file cannot be written.  The worker logs what a maintenance throws, and the
\* poll of the event file swallows what a flush throws; the engine goes on.
FailureLogged ==
    /\ up /\ mishaps < MaxMishaps
    /\ mem' \in SyncTorn(Maintained({}, 0), TRUE) \cup SyncTorn(Flush(mem), TRUE)
    /\ mishaps' = mishaps + 1
    /\ UNCHANGED <<over, up>>

\* Nobody catches what the vault's timer or the interval's flush throws.
FailureEnds ==
    /\ up /\ mishaps < MaxMishaps
    /\ \E torn \in SyncTorn(Flush(mem), TRUE) \cup (IF mem.timer THEN SyncTorn(mem, FALSE) ELSE {}) :
          mem' = Down(torn)
    /\ up' = FALSE /\ mishaps' = mishaps + 1
    /\ UNCHANGED over

Close ==
    /\ up /\ up' = FALSE
    /\ mem' = Down(FlushDirtyVault(PurgeExpired(ExpireMemories(Flush(mem))), TRUE))
    /\ UNCHANGED <<over, mishaps>>

Crash ==
    /\ up /\ mishaps < MaxMishaps
    /\ up' = FALSE /\ mishaps' = mishaps + 1
    /\ \/ mem' = Down(mem)
       \/ \* after the insertion, before the superseded row is marked
          /\ Room(1)
          /\ \E c \in Contents : mem' = Down(Inserted(mem, Fresh(c, InferState(mem, c))))
    /\ UNCHANGED over

\* load: of the first rows by priority and age those of the first tier make the
\* working set
Load(m) ==
    LET seen == FirstOf(DOMAIN m.rows, m.rows, TRUE, LoadLimit)
        young == {i \in seen : m.rows[i].tier = "prefrontal"}
    IN  SyncVault([m EXCEPT !.ram = [i \in young |-> m.rows[i]],
                            !.unseen = DOMAIN m.rows \ seen], TRUE)

Restart == ~up /\ up' = TRUE /\ mem' = Load(mem) /\ UNCHANGED <<over, mishaps>>

--------------------------------------------------------------------------------
Next ==
    \/ StoreMemoryAndDispatch \/ StoreDirect \/ ShareMemory \/ ImportMemory
    \/ Recall \/ Elapse \/ VaultTimer \/ PreCompactionFlush
    \/ HealthTick \/ Maintain \/ MaintenanceCycle
    \/ FailureLogged \/ FailureEnds \/ Close \/ Crash \/ Restart

Spec == Init /\ [][Next]_vars

\* A timer that is set fires; nobody has to store, flush, maintain, close or restart.
FairSpec == Spec /\ WF_vars(VaultTimer)

--------------------------------------------------------------------------------
(* Properties.                                                              *)

\* No row and no copy in the working set of a content with a secret pattern or an
\* unsupported claim is active, through reconciliation, import, flush of an old copy or
\* restart: the queries for active rows do not return it (memory.ts:1738, 2108).  It says
\* nothing of the graph mirror and the pod, which know no state (memory.ts:1343, 1976).
FlaggedNeverActive ==
    \A table \in {mem.rows, mem.ram} : \A i \in DOMAIN table :
        table[i].content \in Flagged => table[i].state # "active"

\* Working set and database agree on what is young: every row of the first tier is in the
\* working set, so that it can be consolidated, or is one that the last load did not look
\* at, having 500 rows ahead of it (memory.ts:863, 894, 2057-2077).
PrefrontalTracked ==
    up => {i \in DOMAIN mem.rows : mem.rows[i].tier = "prefrontal"}
              \subseteq DOMAIN mem.ram \cup mem.unseen

\* No memory is lost without a verdict: a stored row is in the database, through
\* crashes and purges, unless it was once marked expired (memory.ts:3545).
RowsLeaveExpired ==
    \A i \in 1..(mem.next - 1) : i \in DOMAIN mem.rows \/ i \in mem.retired

\* Every memory that stays alive gets its file, unless the engine goes down; where a
\* synchronisation failed with its timer gone, it waits for the next call that asks for all
\* of them (memory.ts:2233, 2258-2292).
EveryMemoryProjected ==
    \A i \in Ids :
        []<>(up /\ i \in Live(mem) => i \in mem.files \/ (mem.failed /\ ~mem.timer))

\* A superseded memory stays expired: "equal(priorRow.state, 'expired')"
\* (test/memory-regressions.test.ts:285).  A flush writes the working set's old copy
\* of it over the row (memory.ts:1125).
ExpiredStaysExpired ==
    [][\A i \in DOMAIN mem.rows \cap DOMAIN mem'.rows :
          mem.rows[i].state = "expired" => mem'.rows[i].state = "expired"]_vars
================================================================================
