--------------------------- MODULE ConstructionLocks ---------------------------
(***************************************************************************)
(* The Architects' claim path: DispatchGovernor (one per process, in       *)
(* memory), acquireConstructionLock / releaseConstructionLock and          *)
(* completeWorkItem over architects.db, the SQLite file that every process *)
(* opened on the same repository shares.                                   *)
(*                                                                         *)
(* A process is single-threaded JavaScript.  Each statement that touches   *)
(* the database is one action, so statements of DIFFERENT processes        *)
(* interleave (no transaction spans them); a process that has started a    *)
(* synchronous section (call[p] # Idle) does nothing else until it ends.   *)
(* completeWorkItem awaits releaseConstructionLock: what follows the await *)
(* is a continuation in pending[p], and other calls of the same process    *)
(* may run before it.                                                      *)
(***************************************************************************)
EXTENDS Integers, Sequences, FiniteSets

CONSTANTS
    Processes,      \* Nexus Prime processes opened on one repository
    Operatives,
    WorkItems,
    Limit,          \* ArchitectsConfig.maxConcurrent; <= 0 means unthrottled
    Statuses,       \* status strings callers pass to completeWorkItem
    RowIds,         \* ids of lock rows; bound: how many are referred to at once
    MaxDispatch,    \* bound: dispatched plus queued entries of one process
    MaxPending,     \* bound: completions of one process waiting after their await
    MaxCrashes,     \* bound: process deaths
    Unset           \* SQL NULL

\* what the CHECK constraint on architects_work_items.status lists
ItemStatuses == {"todo", "claimed", "in_progress", "done", "failed", "blocked"}

ASSUME LimitAssumption == Limit \in Int
ASSUME UnsetAssumption == Unset \notin Operatives /\ Unset \notin RowIds
ASSUME BoundsAssumption == {MaxDispatch, MaxPending, MaxCrashes} \subseteq Nat

VARIABLES
    lockRows,    \* rows of architects_construction_locks with released_at NULL
    itemStatus,  \* architects_work_items.status
    itemLock,    \* architects_work_items.construction_lock_id
    active,      \* DispatchGovernor.active, per process
    queue,       \* DispatchGovernor.queue, per process
    call,        \* the synchronous section each process is in
    pending,     \* continuations of completeWorkItem after its await
    crashes

vars == <<lockRows, itemStatus, itemLock, active, queue, call, pending, crashes>>
tables == <<lockRows, itemStatus, itemLock>>
governor == <<active, queue>>

\* proc, the process that inserts the row, is history: no column holds it
LockRow == [id : RowIds, item : WorkItems, op : Operatives, proc : Processes]
Entry == [op : Operatives, item : WorkItems]

Idle == [pc |-> "idle"]
AcquireCall == [pc : {"insertLock", "setClaimed", "linkLock"}, row : LockRow]
ReleaseCall == [pc : {"releaseRow", "setFinal"}, row : LockRow,
                by : Operatives, status : Statuses]
Continuation == [op : Operatives, item : WorkItems, status : Statuses]

\* faulty: the lock is looked up through the item's construction_lock_id
LinkedRowsOf(i) == {r \in lockRows : r.item = i /\ itemLock[i] = r.id}

RowsOf(i) == {r \in lockRows : r.item = i}

Throttled == Limit > 0

\* randomUUID: an id that no row, no call and no item refers to any more
UsedIds ==
    {r.id : r \in lockRows} \union {call[p].row.id : p \in {p \in Processes : call[p] # Idle}}
        \union {itemLock[i] : i \in WorkItems}

NewId == CHOOSE id \in RowIds : id \notin UsedIds

Init ==
    /\ lockRows = {}
    /\ itemStatus = [i \in WorkItems |-> "todo"]
    /\ itemLock = [i \in WorkItems |-> Unset]
    /\ active = [p \in Processes |-> 0]
    /\ queue = [p \in Processes |-> <<>>]
    /\ call = [p \in Processes |-> Idle]
    /\ pending = [p \in Processes |-> {}]
    /\ crashes = 0

-------------------------------------------------------------------------------
(***************************************************************************)
(* DispatchGovernor.                                                       *)
(***************************************************************************)
Dispatch(p, o, i) ==
    IF ~Throttled \/ active[p] < Limit
    THEN /\ active' = [active EXCEPT ![p] = @ + 1]
         /\ UNCHANGED queue
    ELSE /\ queue' = [queue EXCEPT ![p] = Append(@, [op |-> o, item |-> i])]
         /\ UNCHANGED active

AfterComplete(p) == IF active[p] > 0 THEN active[p] - 1 ELSE 0

\* faulty: a finished entry does not start the next one
CompleteOnly(p) ==
    /\ active' = [active EXCEPT ![p] = AfterComplete(p)]
    /\ UNCHANGED queue

Complete(p) ==
    IF queue[p] = <<>>
    THEN /\ active' = [active EXCEPT ![p] = AfterComplete(p)]
         /\ UNCHANGED queue
    ELSE /\ active' = [active EXCEPT ![p] = AfterComplete(p) + 1]
         /\ queue' = [queue EXCEPT ![p] = Tail(@)]

-------------------------------------------------------------------------------
(***************************************************************************)
(* claimWorkItem: governor.dispatch, whose outcome nobody looks at, then   *)
(* acquireConstructionLock, whose first statement reads the active lock.   *)
(***************************************************************************)
\* faulty: the lock of an operative is not given back to it
HeldByOther(i, o) == \E r \in RowsOf(i) : r.op # o

\* held by o, whose lock is returned, or contested
Held(i, o) == RowsOf(i) # {}

ClaimWorkItem(p, o, i) ==
    /\ call[p] = Idle
    /\ active[p] + Len(queue[p]) < MaxDispatch
    /\ \E id \in RowIds : id \notin UsedIds
    /\ Dispatch(p, o, i)
    /\ IF Held(i, o)
       THEN UNCHANGED call
       ELSE call' = [call EXCEPT ![p] =
                [pc |-> "insertLock",
                 row |-> [id |-> NewId, item |-> i, op |-> o, proc |-> p]]]
    /\ UNCHANGED <<tables, pending, crashes>>

InsertLock(p) ==
    /\ call[p].pc = "insertLock"
    /\ lockRows' = lockRows \union {call[p].row}
    /\ call' = [call EXCEPT ![p].pc = "setClaimed"]
    /\ UNCHANGED <<itemStatus, itemLock, governor, pending, crashes>>

SetClaimed(p) ==
    /\ call[p].pc = "setClaimed"
    /\ itemStatus' = [itemStatus EXCEPT ![call[p].row.item] = "claimed"]
    /\ call' = [call EXCEPT ![p].pc = "linkLock"]
    /\ UNCHANGED <<lockRows, itemLock, governor, pending, crashes>>

LinkLock(p) ==
    /\ call[p].pc = "linkLock"
    /\ itemLock' = [itemLock EXCEPT ![call[p].row.item] = call[p].row.id]
    /\ call' = [call EXCEPT ![p] = Idle]
    /\ UNCHANGED <<lockRows, itemStatus, governor, pending, crashes>>

-------------------------------------------------------------------------------
(***************************************************************************)
(* completeWorkItem: any operative may name any item.  A caller that does  *)
(* not hold the lock releases nothing and goes straight to the             *)
(* continuation, which writes the status all the same.  With several       *)
(* active rows SQLite may return any of them.                              *)
(***************************************************************************)
CompleteWorkItem(p, o, i, s) ==
    LET rest == [op |-> o, item |-> i, status |-> s] IN
    /\ call[p] = Idle
    /\ rest \notin pending[p]
    /\ Cardinality(pending[p]) < MaxPending
    /\ \/ /\ RowsOf(i) = {} \/ \E r \in RowsOf(i) : r.op # o
          /\ pending' = [pending EXCEPT ![p] = @ \union {rest}]
          /\ UNCHANGED call
       \/ \E r \in RowsOf(i) :
            /\ r.op = o
            /\ call' = [call EXCEPT ![p] =
                    [pc |-> "releaseRow", row |-> r, by |-> o, status |-> s]]
            /\ UNCHANGED pending
    /\ UNCHANGED <<tables, governor, crashes>>

ReleaseRow(p) ==
    /\ call[p].pc = "releaseRow"
    /\ lockRows' = lockRows \ {call[p].row}
    /\ call' = [call EXCEPT ![p].pc = "setFinal"]
    /\ UNCHANGED <<itemStatus, itemLock, governor, pending, crashes>>

(***************************************************************************)
(* The CHECK constraint on status makes this UPDATE throw for a string it  *)
(* does not list: the call is rejected with the row already released.      *)
(***************************************************************************)
SetFinal(p) ==
    LET c == call[p] IN
    /\ c.pc = "setFinal"
    /\ IF c.status \in ItemStatuses
       THEN /\ itemStatus' = [itemStatus EXCEPT ![c.row.item] = c.status]
            /\ itemLock' = [itemLock EXCEPT ![c.row.item] = Unset]
            /\ pending' = [pending EXCEPT ![p] = @ \union
                  {[op |-> c.by, item |-> c.row.item, status |-> c.status]}]
       ELSE UNCHANGED <<itemStatus, itemLock, pending>>
    /\ call' = [call EXCEPT ![p] = Idle]
    /\ UNCHANGED <<lockRows, governor, crashes>>

(***************************************************************************)
(* After the await: updateWorkItemStatus, ledger.record, the completed or  *)
(* blocked event, governor.complete.  The status UPDATE throws for an      *)
(* unknown status and ledger.record throws when its file cannot be         *)
(* written; either way governor.complete is skipped.                       *)
(***************************************************************************)
FinishComplete(p, c) ==
    /\ call[p] = Idle
    /\ c \in pending[p]
    /\ pending' = [pending EXCEPT ![p] = @ \ {c}]
    /\ IF c.status \in ItemStatuses
       THEN /\ itemStatus' = [itemStatus EXCEPT ![c.item] = c.status]
            /\ Complete(p) \/ UNCHANGED governor    \* recorded, or the ledger threw
       ELSE UNCHANGED <<itemStatus, governor>>
    /\ UNCHANGED <<lockRows, itemLock, call, crashes>>

(***************************************************************************)
(* A process dies between two statements and is started again: the tables  *)
(* keep what was written, the governor and every call in flight are lost.  *)
(***************************************************************************)
Crash(p) ==
    /\ crashes < MaxCrashes
    /\ crashes' = crashes + 1
    /\ call' = [call EXCEPT ![p] = Idle]
    /\ pending' = [pending EXCEPT ![p] = {}]
    /\ active' = [active EXCEPT ![p] = 0]
    /\ queue' = [queue EXCEPT ![p] = <<>>]
    /\ UNCHANGED tables

-------------------------------------------------------------------------------
Step(p) ==
    \/ \E o \in Operatives, i \in WorkItems :
          \/ ClaimWorkItem(p, o, i)
          \/ \E s \in Statuses : CompleteWorkItem(p, o, i, s)
    \/ InsertLock(p)
    \/ SetClaimed(p)
    \/ LinkLock(p)
    \/ ReleaseRow(p)
    \/ SetFinal(p)
    \/ \E c \in pending[p] : FinishComplete(p, c)
    \/ Crash(p)

Next == \E p \in Processes : Step(p)

Spec == Init /\ [][Next]_vars

-------------------------------------------------------------------------------
TypeOK ==
    /\ lockRows \subseteq LockRow
    /\ itemStatus \in [WorkItems -> ItemStatuses]
    /\ itemLock \in [WorkItems -> RowIds \union {Unset}]
    /\ active \in [Processes -> Nat]
    /\ queue \in [Processes -> Seq(Entry)]
    /\ call \in [Processes -> {Idle} \union AcquireCall \union ReleaseCall]
    /\ pending \in [Processes -> SUBSET Continuation]
    /\ crashes \in Nat

(***************************************************************************)
(* manager.ts, as construction-locks.test.ts has it ("contested lock       *)
(* should be rejected"): a work item never has two active locks.  False    *)
(* with two processes, since the test for an active lock and the insertion *)
(* of the new row are separate statements.                                 *)
(***************************************************************************)
MutualExclusion == \A r, s \in lockRows : r.item = s.item => r = s

(***************************************************************************)
(* What manager.ts does guarantee, for any number of processes: the claims *)
(* of one process exclude each other, also when rows of its own outlive    *)
(* its crash and other processes insert and release between its            *)
(* statements, so that an item has at most one lock for each process.      *)
(***************************************************************************)
OneRowPerProcess ==
    \A r, s \in lockRows : r.item = s.item /\ r.proc = s.proc => r = s

(***************************************************************************)
(* Why OneRowPerProcess holds: what a process read stays true of its own   *)
(* rows until it inserts, since nobody else inserts in its name.           *)
(***************************************************************************)
InsertIsSafe ==
    \A p \in Processes :
        call[p].pc = "insertLock" =>
            /\ call[p].row.proc = p
            /\ \A r \in RowsOf(call[p].row.item) : r.proc # p

LockInv == OneRowPerProcess /\ InsertIsSafe

(***************************************************************************)
(* governor.ts: no entry waits in the queue while a slot is free, and no   *)
(* more than Limit entries are dispatched.                                 *)
(***************************************************************************)
WorkConserving ==
    \A p \in Processes : Throttled =>
        /\ active[p] <= Limit
        /\ queue[p] # <<>> => active[p] = Limit

-------------------------------------------------------------------------------
(***************************************************************************)
(* The promise these calls implement: seen from one process, an item's     *)
(* holder is the operative it locked the item for, and passes on through a *)
(* release only.  A release may come from any process.                     *)
(***************************************************************************)
HolderIn(rows) == IF rows = {} THEN Unset ELSE (CHOOSE r \in rows : TRUE).op

holderFor(p) == [i \in WorkItems |-> HolderIn({r \in lockRows : r.item = i /\ r.proc = p})]

Promise(p) == INSTANCE ClaimBoard WITH Free <- Unset, holder <- holderFor(p)

boards == [p \in Processes |-> holderFor(p)]

BoardsStart == \A p \in Processes : Promise(p)!Init

BoardsStep == \A p \in Processes : Promise(p)!Next \/ UNCHANGED holderFor(p)

ClaimBoardSpec == BoardsStart /\ [][BoardsStep]_boards
===============================================================================
