------------------------ MODULE ConstructionLocksProofs ------------------------
(***************************************************************************)
(* Proofs about ConstructionLocks for every set of processes, operatives   *)
(* and items, every limit and every bound.                                 *)
(***************************************************************************)
EXTENDS ConstructionLocks, TLAPS

Calls == {Idle} \union AcquireCall \union ReleaseCall

(***************************************************************************)
(* What a process is doing is determined by its program counter.           *)
(***************************************************************************)
LEMMA CallKinds ==
  ASSUME TypeOK, NEW p \in Processes
  PROVE  /\ call[p].pc \in {"insertLock", "setClaimed", "linkLock"}
               => call[p] \in AcquireCall
         /\ call[p].pc \in {"releaseRow", "setFinal"} => call[p] \in ReleaseCall
<1>1. call[p] \in Calls
  BY DEF TypeOK, Calls
<1>2. CASE call[p] = Idle
  BY <1>2 DEF Idle
<1>3. CASE call[p] \in AcquireCall
  BY <1>3 DEF AcquireCall
<1>4. CASE call[p] \in ReleaseCall
  BY <1>4 DEF ReleaseCall
<1> QED
  BY <1>1, <1>2, <1>3, <1>4 DEF Calls

(***************************************************************************)
(* The governor's two operations keep its count a natural number and its   *)
(* queue a sequence of entries.                                            *)
(***************************************************************************)
LEMMA DispatchType ==
  ASSUME active \in [Processes -> Nat], queue \in [Processes -> Seq(Entry)],
         NEW p \in Processes, NEW o \in Operatives, NEW i \in WorkItems,
         Dispatch(p, o, i)
  PROVE  active' \in [Processes -> Nat] /\ queue' \in [Processes -> Seq(Entry)]
<1> DEFINE e == [op |-> o, item |-> i]
<1>1. e \in Entry
  BY DEF Entry
<1>2. Append(queue[p], e) \in Seq(Entry)
  BY <1>1
<1> HIDE DEF e
<1>3. CASE ~Throttled \/ active[p] < Limit
  BY <1>3 DEF Dispatch
<1>4. CASE ~(~Throttled \/ active[p] < Limit)
  BY <1>2, <1>4 DEF Dispatch, e
<1> QED
  BY <1>3, <1>4

LEMMA CompleteType ==
  ASSUME active \in [Processes -> Nat], queue \in [Processes -> Seq(Entry)],
         NEW p \in Processes, Complete(p)
  PROVE  active' \in [Processes -> Nat] /\ queue' \in [Processes -> Seq(Entry)]
<1>1. AfterComplete(p) \in Nat /\ AfterComplete(p) + 1 \in Nat
  BY DEF AfterComplete
<1>2. CASE queue[p] = <<>>
  BY <1>1, <1>2 DEF Complete
<1>3. CASE queue[p] # <<>>
  <2>1. Tail(queue[p]) \in Seq(Entry)
    BY <1>3
  <2> QED
    BY <1>1, <1>3, <2>1 DEF Complete
<1> QED
  BY <1>2, <1>3

(***************************************************************************)
(* Every variable keeps its type: governor counts never go negative, and a *)
(* status string the schema does not list never reaches the table.         *)
(***************************************************************************)
THEOREM LocksTypeCorrect == Spec => []TypeOK
<1>1. Init => TypeOK
  <2> SUFFICES ASSUME Init PROVE TypeOK
    OBVIOUS
  <2>1. queue \in [Processes -> Seq(Entry)]
    <3>1. <<>> \in Seq(Entry)
      OBVIOUS
    <3> QED
      BY <3>1 DEF Init
  <2> QED
    BY <2>1 DEF Init, TypeOK, ItemStatuses
<1>2. ASSUME TypeOK, [Next]_vars PROVE TypeOK'
  <2>1. CASE UNCHANGED vars
    BY <1>2, <2>1 DEF TypeOK, vars
  <2> SUFFICES ASSUME NEW p \in Processes, Step(p) PROVE TypeOK'
    BY <1>2, <2>1 DEF Next
  <2>2. ASSUME NEW o \in Operatives, NEW i \in WorkItems, ClaimWorkItem(p, o, i)
        PROVE  TypeOK'
    <3>1. active' \in [Processes -> Nat] /\ queue' \in [Processes -> Seq(Entry)]
      BY <1>2, <2>2, DispatchType DEF TypeOK, ClaimWorkItem
    <3>2. NewId \in RowIds
      BY <2>2 DEF ClaimWorkItem, NewId
    <3> DEFINE claim == [pc |-> "insertLock",
                         row |-> [id |-> NewId, item |-> i, op |-> o, proc |-> p]]
    <3>4. claim \in AcquireCall
      BY <3>2 DEF AcquireCall, LockRow
    <3>5. call' = call \/ call' = [call EXCEPT ![p] = claim]
      BY <2>2 DEF ClaimWorkItem
    <3> HIDE DEF claim
    <3>3. call' \in [Processes -> Calls]
      BY <1>2, <3>4, <3>5 DEF TypeOK, Calls
    <3> QED
      BY <1>2, <2>2, <3>1, <3>3 DEF TypeOK, ClaimWorkItem, tables, Calls
  <2>3. CASE InsertLock(p)
    <3>1. call[p] \in AcquireCall
      BY <1>2, <2>3, CallKinds DEF InsertLock
    <3>2. call[p].row \in LockRow /\ [call[p] EXCEPT !.pc = "setClaimed"] \in AcquireCall
      BY <3>1 DEF AcquireCall
    <3>3. call' \in [Processes -> Calls]
      BY <1>2, <2>3, <3>2 DEF TypeOK, InsertLock, Calls
    <3> QED
      BY <1>2, <2>3, <3>2, <3>3 DEF TypeOK, InsertLock, governor, Calls
  <2>4. CASE SetClaimed(p)
    <3>1. call[p] \in AcquireCall
      BY <1>2, <2>4, CallKinds DEF SetClaimed
    <3>2. [call[p] EXCEPT !.pc = "linkLock"] \in AcquireCall
      BY <3>1 DEF AcquireCall
    <3>3. call' \in [Processes -> Calls]
      BY <1>2, <2>4, <3>2 DEF TypeOK, SetClaimed, Calls
    <3> QED
      BY <1>2, <2>4, <3>3 DEF TypeOK, SetClaimed, governor, Calls, ItemStatuses
  <2>5. CASE LinkLock(p)
    <3>1. call[p] \in AcquireCall
      BY <1>2, <2>5, CallKinds DEF LinkLock
    <3>2. call[p].row.id \in RowIds
      BY <3>1 DEF AcquireCall, LockRow
    <3>3. call' \in [Processes -> Calls]
      BY <1>2, <2>5 DEF TypeOK, LinkLock, Calls
    <3> QED
      BY <1>2, <2>5, <3>2, <3>3 DEF TypeOK, LinkLock, governor, Calls
  <2>6. ASSUME NEW o \in Operatives, NEW i \in WorkItems, NEW s \in Statuses,
               CompleteWorkItem(p, o, i, s)
        PROVE  TypeOK'
    <3>1. [op |-> o, item |-> i, status |-> s] \in Continuation
      BY DEF Continuation
    <3>2. pending' \in [Processes -> SUBSET Continuation]
      <4> DEFINE rest == [op |-> o, item |-> i, status |-> s]
      <4>1. pending' = pending
            \/ pending' = [pending EXCEPT ![p] = @ \union {rest}]
        BY <2>6 DEF CompleteWorkItem
      <4>2. pending[p] \union {rest} \in SUBSET Continuation
        BY <1>2, <3>1 DEF TypeOK
      <4> HIDE DEF rest
      <4> QED
        BY <1>2, <4>1, <4>2 DEF TypeOK
    <3>3. ASSUME NEW r \in RowsOf(i)
          PROVE  [pc |-> "releaseRow", row |-> r, by |-> o, status |-> s] \in ReleaseCall
      BY <1>2, <3>3 DEF TypeOK, RowsOf, ReleaseCall
    <3>4. call' \in [Processes -> Calls]
      BY <1>2, <2>6, <3>3 DEF TypeOK, CompleteWorkItem, Calls
    <3> QED
      BY <1>2, <2>6, <3>2, <3>4 DEF TypeOK, CompleteWorkItem, tables, governor, Calls
  <2>7. CASE ReleaseRow(p)
    <3>1. call[p] \in ReleaseCall
      BY <1>2, <2>7, CallKinds DEF ReleaseRow
    <3>2. [call[p] EXCEPT !.pc = "setFinal"] \in ReleaseCall
      BY <3>1 DEF ReleaseCall
    <3>3. call' \in [Processes -> Calls]
      BY <1>2, <2>7, <3>2 DEF TypeOK, ReleaseRow, Calls
    <3> QED
      BY <1>2, <2>7, <3>3 DEF TypeOK, ReleaseRow, governor, Calls
  <2>8. CASE SetFinal(p)
    <3> DEFINE c == call[p]
               rest == [op |-> c.by, item |-> c.row.item, status |-> c.status]
    <3>1. c \in ReleaseCall
      BY <1>2, <2>8, CallKinds DEF SetFinal
    <3>2. c.row.item \in WorkItems /\ c.by \in Operatives /\ c.status \in Statuses
      BY <3>1 DEF ReleaseCall, LockRow
    <3>3. rest \in Continuation
      BY <3>2 DEF Continuation
    <3>4. call' \in [Processes -> Calls]
      BY <1>2, <2>8 DEF TypeOK, SetFinal, Calls
    <3>5. pending' \in [Processes -> SUBSET Continuation]
      <4>1. pending' = pending
            \/ pending' = [pending EXCEPT ![p] = @ \union {rest}]
        BY <2>8 DEF SetFinal
      <4>2. pending[p] \union {rest} \in SUBSET Continuation
        BY <1>2, <3>3 DEF TypeOK
      <4> HIDE DEF rest
      <4> QED
        BY <1>2, <4>1, <4>2 DEF TypeOK
    <3>6. itemStatus' \in [WorkItems -> ItemStatuses]
          /\ itemLock' \in [WorkItems -> RowIds \union {Unset}]
      BY <1>2, <2>8, <3>2 DEF TypeOK, SetFinal
    <3> QED
      BY <1>2, <2>8, <3>4, <3>5, <3>6 DEF TypeOK, SetFinal, governor, Calls
  <2>9. ASSUME NEW c \in pending[p], FinishComplete(p, c) PROVE TypeOK'
    <3>1. c.item \in WorkItems
      BY <1>2, <2>9 DEF TypeOK, Continuation
    <3>2. active' \in [Processes -> Nat] /\ queue' \in [Processes -> Seq(Entry)]
      BY <1>2, <2>9, CompleteType DEF TypeOK, FinishComplete, governor
    <3>3. itemStatus' \in [WorkItems -> ItemStatuses]
      BY <1>2, <2>9, <3>1 DEF TypeOK, FinishComplete
    <3>4. pending' \in [Processes -> SUBSET Continuation]
      BY <1>2, <2>9 DEF TypeOK, FinishComplete
    <3> QED
      BY <1>2, <2>9, <3>2, <3>3, <3>4 DEF TypeOK, FinishComplete
  <2>10. CASE Crash(p)
    <3>1. <<>> \in Seq(Entry)
      OBVIOUS
    <3>2. active' \in [Processes -> Nat] /\ queue' \in [Processes -> Seq(Entry)]
      BY <1>2, <2>10, <3>1 DEF TypeOK, Crash
    <3>3. call' \in [Processes -> Calls] /\ pending' \in [Processes -> SUBSET Continuation]
      BY <1>2, <2>10 DEF TypeOK, Crash, Calls
    <3> QED
      BY <1>2, <2>10, <3>2, <3>3 DEF TypeOK, Crash, tables, Calls
  <2> QED
    BY <2>2, <2>3, <2>4, <2>5, <2>6, <2>7, <2>8, <2>9, <2>10 DEF Step
<1> QED
  BY <1>1, <1>2, PTL DEF Spec

-------------------------------------------------------------------------------
(***************************************************************************)
(* The governor never dispatches more than its limit and never lets an     *)
(* entry wait while a slot is free, whatever is claimed, completed, failed *)
(* or crashed and by however many processes.                               *)
(***************************************************************************)
THEOREM GovernorWorkConserving == Spec => []WorkConserving
<1>1. Init => WorkConserving
  BY LimitAssumption DEF Init, WorkConserving, Throttled
<1>2. ASSUME TypeOK, WorkConserving, [Next]_vars PROVE WorkConserving'
  <2>1. CASE UNCHANGED vars
    BY <1>2, <2>1 DEF WorkConserving, vars, Throttled
  <2> SUFFICES ASSUME NEW p \in Processes, Step(p), Throttled,
                      NEW q \in Processes
               PROVE  active'[q] <= Limit /\ (queue'[q] # <<>> => active'[q] = Limit)
    BY <1>2, <2>1 DEF Next, WorkConserving, Throttled
  <2>2. /\ active[q] <= Limit /\ (queue[q] # <<>> => active[q] = Limit)
        /\ active \in [Processes -> Nat] /\ queue \in [Processes -> Seq(Entry)]
        /\ Limit \in Int /\ Limit > 0
    BY <1>2, LimitAssumption DEF WorkConserving, TypeOK, Throttled
  <2>3. CASE UNCHANGED governor
    BY <2>2, <2>3 DEF governor
  <2>4. CASE \E o \in Operatives, i \in WorkItems : Dispatch(p, o, i)
    <3>1. PICK o \in Operatives, i \in WorkItems : Dispatch(p, o, i)
      BY <2>4
    <3>2. CASE active[p] < Limit
      <4>1. active' = [active EXCEPT ![p] = @ + 1] /\ queue' = queue
        BY <3>1, <3>2 DEF Dispatch
      <4> QED
        BY <2>2, <3>2, <4>1
    <3>3. CASE ~(active[p] < Limit)
      <4>1. active' = active
            /\ queue' = [queue EXCEPT ![p] = Append(@, [op |-> o, item |-> i])]
        BY <3>1, <3>3 DEF Dispatch
      <4>2. CASE q = p
        BY <2>2, <3>3, <4>1, <4>2
      <4>3. CASE q # p
        BY <2>2, <4>1, <4>3
      <4> QED
        BY <4>2, <4>3
    <3> QED
      BY <3>2, <3>3
  <2>5. CASE Complete(p)
    <3>1. CASE q # p
      <4>1. active'[q] = active[q] /\ queue'[q] = queue[q]
        BY <2>2, <2>5, <3>1 DEF Complete
      <4> QED
        BY <2>2, <4>1
    <3>2. CASE q = p /\ queue[p] = <<>>
      <4>1. active'[p] = AfterComplete(p) /\ queue'[p] = <<>>
        BY <2>2, <2>5, <3>2 DEF Complete
      <4> QED
        BY <2>2, <3>2, <4>1 DEF AfterComplete
    <3>3. CASE q = p /\ queue[p] # <<>>
      <4>1. active'[p] = AfterComplete(p) + 1
        BY <2>2, <2>5, <3>3 DEF Complete
      <4> QED
        BY <2>2, <3>3, <4>1 DEF AfterComplete
    <3> QED
      BY <3>1, <3>2, <3>3
  <2>6. CASE Crash(p)
    BY <2>2, <2>6 DEF Crash
  <2>7. \/ UNCHANGED governor
        \/ \E o \in Operatives, i \in WorkItems : Dispatch(p, o, i)
        \/ Complete(p)
        \/ Crash(p)
    BY DEF Step, ClaimWorkItem, InsertLock, SetClaimed, LinkLock, CompleteWorkItem,
           ReleaseRow, SetFinal, FinishComplete
  <2> QED
    BY <2>3, <2>4, <2>5, <2>6, <2>7
<1> QED
  BY <1>1, <1>2, LocksTypeCorrect, PTL DEF Spec

-------------------------------------------------------------------------------
(***************************************************************************)
(* How one step changes the lock table.                                    *)
(***************************************************************************)
LEMMA LockTableSteps ==
  ASSUME NEW p \in Processes, Step(p)
  PROVE  \/ UNCHANGED lockRows
         \/ InsertLock(p)
         \/ ReleaseRow(p)
BY DEF Step, ClaimWorkItem, InsertLock, SetClaimed, LinkLock, CompleteWorkItem,
       ReleaseRow, SetFinal, FinishComplete, Crash, tables

(***************************************************************************)
(* A process about to insert has just looked, or was about to insert and   *)
(* somebody else made the step.                                            *)
(***************************************************************************)
LEMMA ReadyToInsert ==
  ASSUME TypeOK, NEW p \in Processes, Step(p),
         NEW q \in Processes, call'[q].pc = "insertLock"
  PROVE  \/ q # p /\ call'[q] = call[q]
         \/ /\ q = p /\ UNCHANGED lockRows
            /\ RowsOf(call'[q].row.item) = {} /\ call'[q].row.proc = q
<1>1. ASSUME q # p PROVE call'[q] = call[q]
  <2>1. ASSUME NEW o \in Operatives, NEW i \in WorkItems, ClaimWorkItem(p, o, i)
        PROVE  call'[q] = call[q]
    BY <1>1, <2>1 DEF TypeOK, ClaimWorkItem
  <2>2. ASSUME NEW o \in Operatives, NEW i \in WorkItems, NEW s \in Statuses,
               CompleteWorkItem(p, o, i, s)
        PROVE  call'[q] = call[q]
    BY <1>1, <2>2 DEF TypeOK, CompleteWorkItem
  <2>3. ASSUME InsertLock(p) \/ SetClaimed(p) \/ LinkLock(p) \/ ReleaseRow(p) \/ SetFinal(p)
        PROVE  call'[q] = call[q]
    BY <1>1, <2>3 DEF TypeOK, InsertLock, SetClaimed, LinkLock, ReleaseRow, SetFinal
  <2>4. ASSUME NEW c \in pending[p], FinishComplete(p, c) PROVE call'[q] = call[q]
    BY <2>4 DEF FinishComplete
  <2>5. ASSUME Crash(p) PROVE call'[q] = call[q]
    BY <1>1, <2>5 DEF TypeOK, Crash
  <2> QED
    BY <2>1, <2>2, <2>3, <2>4, <2>5 DEF Step
<1>2. CASE q = p
  <2>1. ASSUME NEW o \in Operatives, NEW i \in WorkItems, ClaimWorkItem(p, o, i)
        PROVE  /\ UNCHANGED lockRows
               /\ RowsOf(call'[p].row.item) = {} /\ call'[p].row.proc = p
    <3> DEFINE claim == [pc |-> "insertLock",
                         row |-> [id |-> NewId, item |-> i, op |-> o, proc |-> p]]
    <3>1. call[p] = Idle /\ UNCHANGED lockRows
      BY <2>1 DEF ClaimWorkItem, tables
    <3>2. call'[p] # Idle
      BY <1>2 DEF Idle
    <3>3. RowsOf(i) = {} /\ call' = [call EXCEPT ![p] = claim]
      BY <2>1, <3>1, <3>2 DEF ClaimWorkItem, Held
    <3>4. call'[p] = claim
      BY <3>3 DEF TypeOK
    <3> QED
      BY <3>1, <3>3, <3>4
  <2>2. ASSUME InsertLock(p) PROVE FALSE
    BY <1>2, <2>2 DEF TypeOK, InsertLock
  <2>3. ASSUME SetClaimed(p) PROVE FALSE
    BY <1>2, <2>3 DEF TypeOK, SetClaimed
  <2>4. ASSUME LinkLock(p) PROVE FALSE
    BY <1>2, <2>4 DEF TypeOK, LinkLock, Idle
  <2>5. ASSUME NEW o \in Operatives, NEW i \in WorkItems, NEW s \in Statuses,
               CompleteWorkItem(p, o, i, s)
        PROVE  FALSE
    BY <1>2, <2>5 DEF TypeOK, CompleteWorkItem, Idle
  <2>6. ASSUME ReleaseRow(p) PROVE FALSE
    BY <1>2, <2>6 DEF TypeOK, ReleaseRow
  <2>7. ASSUME SetFinal(p) PROVE FALSE
    BY <1>2, <2>7 DEF TypeOK, SetFinal, Idle
  <2>8. ASSUME NEW c \in pending[p], FinishComplete(p, c) PROVE FALSE
    BY <1>2, <2>8 DEF FinishComplete, Idle
  <2>9. ASSUME Crash(p) PROVE FALSE
    BY <1>2, <2>9 DEF TypeOK, Crash, Idle
  <2> QED
    BY <1>2, <2>1, <2>2, <2>3, <2>4, <2>5, <2>6, <2>7, <2>8, <2>9 DEF Step
<1> QED
  BY <1>1, <1>2

(***************************************************************************)
(* LockInv is preserved by every step of every process.                    *)
(***************************************************************************)
LEMMA LockInvStep ==
  ASSUME TypeOK, LockInv, [Next]_vars
  PROVE  LockInv'
<1>1. CASE UNCHANGED vars
  BY <1>1 DEF LockInv, OneRowPerProcess, InsertIsSafe, RowsOf, vars
<1> SUFFICES ASSUME NEW p \in Processes, Step(p) PROVE LockInv'
  BY <1>1 DEF Next
<1>2. OneRowPerProcess'
  <2>1. CASE UNCHANGED lockRows
    BY <2>1 DEF LockInv, OneRowPerProcess
  <2>2. CASE InsertLock(p)
    BY <2>2 DEF InsertLock, LockInv, OneRowPerProcess, InsertIsSafe, RowsOf
  <2>3. CASE ReleaseRow(p)
    BY <2>3 DEF ReleaseRow, LockInv, OneRowPerProcess
  <2> QED
    BY <2>1, <2>2, <2>3, LockTableSteps
<1>3. InsertIsSafe'
  <2> SUFFICES ASSUME NEW q \in Processes, call'[q].pc = "insertLock"
               PROVE  /\ call'[q].row.proc = q
                      /\ \A r \in lockRows' : r.item = call'[q].row.item => r.proc # q
    BY DEF InsertIsSafe, RowsOf
  <2>1. CASE /\ q = p /\ UNCHANGED lockRows
             /\ RowsOf(call'[q].row.item) = {} /\ call'[q].row.proc = q
    BY <2>1 DEF RowsOf
  <2>2. CASE q # p /\ call'[q] = call[q]
    <3>1. /\ call[q].row.proc = q
          /\ \A r \in lockRows : r.item = call[q].row.item => r.proc # q
      BY <2>2 DEF LockInv, InsertIsSafe, RowsOf
    <3>2. ASSUME NEW r \in lockRows', r \notin lockRows PROVE r.proc # q
      <4>1. InsertLock(p) /\ r = call[p].row
        BY <3>2, LockTableSteps DEF InsertLock, ReleaseRow
      <4>2. call[p].row.proc = p
        BY <4>1 DEF LockInv, InsertIsSafe, InsertLock
      <4> QED
        BY <2>2, <4>1, <4>2
    <3> QED
      BY <2>2, <3>1, <3>2
  <2> QED
    BY <2>1, <2>2, ReadyToInsert
<1> QED
  BY <1>2, <1>3 DEF LockInv

(***************************************************************************)
(* However many processes race on one database, no process ever locks an   *)
(* item that it has locked already, across any sequence of claims,         *)
(* completions and crashes.                                                *)
(***************************************************************************)
THEOREM LocksOnePerProcess == Spec => []OneRowPerProcess
<1>1. Init => LockInv
  BY DEF Init, LockInv, OneRowPerProcess, InsertIsSafe, Idle
<1>2. TypeOK /\ LockInv /\ [Next]_vars => LockInv'
  BY LockInvStep
<1>3. LockInv => OneRowPerProcess
  BY DEF LockInv
<1> QED
  BY <1>1, <1>2, <1>3, LocksTypeCorrect, PTL DEF Spec

-------------------------------------------------------------------------------
(***************************************************************************)
(* Seen from each process, claims and completions implement ClaimBoard: an *)
(* item passes from one holder to the next only through a release.         *)
(***************************************************************************)
OwnRows(p, i) == {r \in lockRows : r.item = i /\ r.proc = p}

THEOREM LocksImplementClaimBoard == Spec => ClaimBoardSpec
<1>1. Init => BoardsStart
  BY DEF Init, BoardsStart, Promise!Init, holderFor, HolderIn
<1>2. ASSUME TypeOK, LockInv, [Next]_vars
      PROVE  BoardsStep
  <2> SUFFICES ASSUME NEW q \in Processes
               PROVE  Promise(q)!Next \/ UNCHANGED holderFor(q)
    BY DEF BoardsStep
  <2>1. CASE UNCHANGED lockRows
    BY <2>1 DEF holderFor
  <2> SUFFICES ASSUME NEW p \in Processes, Step(p), InsertLock(p) \/ ReleaseRow(p)
               PROVE  Promise(q)!Next \/ UNCHANGED holderFor(q)
    BY <1>2, <2>1, LockTableSteps DEF Next, vars
  <2>0. call[p].row \in LockRow
    BY <1>2, CallKinds DEF InsertLock, ReleaseRow, AcquireCall, ReleaseCall
  <2> PICK row \in LockRow : row = call[p].row
    BY <2>0
  <2> PICK i \in WorkItems : i = row.item
    BY DEF LockRow
  <2>2. row.op \in Operatives
    BY DEF LockRow
  <2>3. /\ holderFor(q)[i] = HolderIn(OwnRows(q, i))
        /\ holderFor(q)'[i] = HolderIn(OwnRows(q, i)')
    BY <2>2 DEF holderFor, OwnRows
  <2>4. \A j \in WorkItems : OwnRows(q, j)' = OwnRows(q, j)
            => holderFor(q)'[j] = holderFor(q)[j]
    BY DEF holderFor, OwnRows
  <2>5. lockRows' = lockRows \union {row} \/ lockRows' = lockRows \ {row}
    BY DEF InsertLock, ReleaseRow
  <2>6. \A j \in WorkItems : j # i => holderFor(q)'[j] = holderFor(q)[j]
    <3> SUFFICES ASSUME NEW j \in WorkItems, j # i
                 PROVE  OwnRows(q, j)' = OwnRows(q, j)
      BY <2>4
    <3> QED
      BY <2>5 DEF OwnRows
  <2>7. CASE row.proc # q
    <3>1. \A j \in WorkItems : OwnRows(q, j)' = OwnRows(q, j)
      BY <2>5, <2>7 DEF OwnRows
    <3>2. \A j \in WorkItems : holderFor(q)'[j] = holderFor(q)[j]
      BY <2>4, <3>1
    <3> QED
      BY <3>2 DEF holderFor
  <2>8. CASE row.proc = q /\ InsertLock(p)
    <3>1. OwnRows(q, i) = {} /\ lockRows' = lockRows \union {row}
      BY <1>2, <2>8 DEF InsertLock, LockInv, InsertIsSafe, RowsOf, OwnRows
    <3>2. holderFor(q)[i] = Unset
      BY <2>3, <3>1 DEF HolderIn
    <3>3. holderFor(q)'[i] = row.op
      <4>1. OwnRows(q, i)' = {row}
        BY <2>8, <3>1 DEF OwnRows
      <4>2. HolderIn({row}) = row.op
        BY DEF HolderIn
      <4> QED
        BY <2>3, <4>1, <4>2
    <3>4. holderFor(q)' = [holderFor(q) EXCEPT ![i] = row.op]
      BY <2>2, <2>6, <3>3 DEF holderFor
    <3> QED
      BY <2>2, <3>2, <3>4 DEF Promise!Next, Promise!Take
  <2>9. CASE row.proc = q /\ ReleaseRow(p) /\ row \in lockRows
    <3>1. OwnRows(q, i) = {row}
      BY <1>2, <2>9 DEF LockInv, OneRowPerProcess, OwnRows
    <3>2. holderFor(q)[i] = row.op
      BY <2>3, <3>1 DEF HolderIn
    <3>3. holderFor(q)'[i] = Unset
      <4>1. OwnRows(q, i)' = {}
        BY <2>9, <3>1 DEF OwnRows, ReleaseRow
      <4> QED
        BY <2>3, <4>1 DEF HolderIn
    <3>4. holderFor(q)' = [holderFor(q) EXCEPT ![i] = Unset]
      BY <2>2, <2>6, <3>3 DEF holderFor
    <3> QED
      BY <2>2, <3>2, <3>4, UnsetAssumption DEF Promise!Next, Promise!GiveUp
  <2>10. CASE ReleaseRow(p) /\ row \notin lockRows
    <3>1. lockRows' = lockRows
      BY <2>10 DEF ReleaseRow
    <3> QED
      BY <3>1 DEF holderFor
  <2> QED
    BY <2>7, <2>8, <2>9, <2>10
<1>3. Init => LockInv
  BY DEF Init, LockInv, OneRowPerProcess, InsertIsSafe, Idle
<1>4. TypeOK /\ LockInv /\ [Next]_vars => LockInv'
  BY LockInvStep
<1>5. TypeOK /\ LockInv /\ [Next]_vars => [BoardsStep]_boards
  BY <1>2
<1> QED
  BY <1>1, <1>3, <1>4, <1>5, LocksTypeCorrect, PTL DEF Spec, ClaimBoardSpec
===============================================================================
