--------------------------- MODULE ConvergenceProofs ---------------------------
(***************************************************************************)
(* Proofs about Convergence, for any processes, worklist and branches, any *)
(* number of runs and any interference with the items they were given.     *)
(***************************************************************************)
EXTENDS Convergence, FiniteSetTheorems, SequenceTheorems, TLAPS

Batches == Seq(Seq(Copy))
Places == {"probe", "mark", "finalize", "fail"}

LEMMA BoundsAreNat == MaxRuns \in Nat /\ MaxEvents \in Nat
BY ConvergenceBoundsAssumption

LEMMA IdleIsNotBusy == \A c \in Busy : c # Idle /\ c.pc # "idle"
BY DEF Busy, Idle

LEMMA BusyCall ==
    ASSUME TypeOK, NEW p \in Processes, call[p].pc \in Places
    PROVE  call[p] \in Busy
BY DEF TypeOK, Idle, Places

LEMMA BusyFields ==
    ASSUME NEW c \in Busy
    PROVE  /\ c.pc \in Places /\ c.run \in 1..MaxRuns /\ c.ready \in Seq(Copy)
           /\ c.segments \in Batches /\ c.next \in Nat \ {0}
BY DEF Busy, Places, Batches

\* The changes a step makes to the place of a run.
LEMMA Advanced ==
    ASSUME NEW c \in Busy, NEW n \in Nat \ {0}
    PROVE  LET d == [c EXCEPT !.next = n] IN
           /\ d \in Busy /\ d.pc = c.pc /\ d.run = c.run /\ d.ready = c.ready
           /\ d.segments = c.segments /\ d.next = n
BY DEF Busy

LEMMA Turned ==
    ASSUME NEW c \in Busy, NEW pc \in Places
    PROVE  LET d == [c EXCEPT !.pc = pc] IN
           d \in Busy /\ d.pc = pc /\ d.run = c.run /\ d.ready = c.ready
BY DEF Busy, Places

LEMMA NextBatch ==
    ASSUME NEW c \in Busy, NEW segs \in Batches
    PROVE  LET pc == IF segs = <<>> THEN "mark" ELSE "probe"
               d == [c EXCEPT !.segments = segs, !.next = 1, !.pc = pc] IN
           /\ d \in Busy /\ d.pc = pc /\ d.run = c.run /\ d.ready = c.ready
           /\ d.segments = segs /\ d.next = 1
<1>1. PICK pc \in Places : pc = IF segs = <<>> THEN "mark" ELSE "probe"
  BY DEF Places
<1>2. PICK n \in Nat \ {0} : n = 1
  OBVIOUS
<1> DEFINE d == [c EXCEPT !.segments = segs, !.next = n, !.pc = pc]
<1>3. d \in Busy
  BY DEF Busy, Places, Batches
<1>4. d.pc = pc
  BY DEF Busy
<1>5. d.run = c.run /\ d.ready = c.ready
  BY DEF Busy
<1>6. d.segments = segs
  BY DEF Busy
<1>7. d.next = n
  BY DEF Busy
<1> QED
  BY <1>1, <1>2, <1>3, <1>4, <1>5, <1>6, <1>7

LEMMA CopyType == ASSUME NEW copy \in Copy PROVE copy.id \in WorkItems /\ copy.branch \in Branches
BY DEF Copy

LEMMA UpdatedRowType ==
    ASSUME NEW row \in Row, NEW status \in Statuses, NEW b \in Branches \cup {Unset}
    PROVE  UpdatedRow(row, status, b) \in Row
BY DEF UpdatedRow, Row

\* What a run starts with is a sequence of copies.
LEMMA ReadyCopiesType ==
    ASSUME TypeOK, NEW ready \in ReadyCopies
    PROVE  ready \in Seq(Copy) /\ Ids(ready) \subseteq WorkItems
<1> DEFINE ids == {i \in WorkItems : Ready(i)}
           n == Cardinality(ids)
<1>1. PICK s \in InOrder : ready = [k \in DOMAIN s |-> [id |-> s[k], branch |-> item[s[k]].branch]]
  BY DEF ReadyCopies
<1>2. n \in Nat
  BY WorklistAssumption, FS_Subset, FS_CardinalityType
<1>3. s \in [1..n -> ids]
  BY <1>1 DEF InOrder
<1>4. \A k \in 1..n : s[k] \in WorkItems /\ item[s[k]].branch \in Branches
  BY <1>3 DEF TypeOK, Row, Ready
<1> HIDE DEF n
<1>5. ready \in [1..n -> Copy]
  BY <1>1, <1>3, <1>4 DEF Copy
<1>6. ready \in Seq(Copy)
  BY <1>2, <1>5, SeqDef
<1>7. \A k \in DOMAIN ready : ready[k].id \in WorkItems
  BY <1>5 DEF Copy
<1> QED
  BY <1>6, <1>7 DEF Ids

\* bisectMerge's halves are not empty, and every item of the batch is in one.
LEMMA HalvesFacts ==
    ASSUME NEW seg \in Seq(Copy), Len(seg) >= 2
    PROVE  /\ Halves(seg) \in Batches /\ Len(Halves(seg)) = 2
           /\ Mid(seg) \in 1..(Len(seg) - 1)
           /\ Halves(seg)[1] = SubSeq(seg, 1, Mid(seg))
           /\ Halves(seg)[2] = SubSeq(seg, Mid(seg) + 1, Len(seg))
           /\ Len(Halves(seg)[1]) = Mid(seg) /\ Len(Halves(seg)[2]) = Len(seg) - Mid(seg)
           /\ \A k \in 1..Mid(seg) : Halves(seg)[1][k] = seg[k]
           /\ \A k \in 1..(Len(seg) - Mid(seg)) : Halves(seg)[2][k] = seg[Mid(seg) + k]
<1>1. Mid(seg) \in 1..(Len(seg) - 1)
  BY DEF Mid
<1> DEFINE a == SubSeq(seg, 1, Mid(seg))
           b == SubSeq(seg, Mid(seg) + 1, Len(seg))
<1>2. \A k \in 1..Len(seg) : seg[k] \in Copy
  BY ElementOfSeq
<1>3. /\ a \in Seq(Copy) /\ Len(a) = Mid(seg)
      /\ \A k \in 1..Mid(seg) : a[k] = seg[k]
  BY <1>1, <1>2, SubSeqProperties
<1>4. /\ b \in Seq(Copy) /\ Len(b) = Len(seg) - Mid(seg)
      /\ \A k \in 1..(Len(seg) - Mid(seg)) : b[k] = seg[Mid(seg) + k]
  BY <1>1, <1>2, SubSeqProperties
<1>5. Halves(seg) = <<a, b>>
  BY DEF Halves
<1> HIDE DEF a, b
<1>6. /\ <<a, b>> \in Batches /\ Len(<<a, b>>) = 2 /\ <<a, b>>[1] = a /\ <<a, b>>[2] = b
  BY <1>3, <1>4 DEF Batches
<1> QED
  BY <1>1, <1>3, <1>4, <1>5, <1>6 DEF a, b

--------------------------------------------------------------------------------
(* The invariant: what a run has still to try or has verified is all it was *)
(* given.                                                                   *)

\* Item i is in a batch that is still to try, or in the rest of the first one.
ToTry(segs, next, i) ==
    \E s \in 1..Len(segs) : \E k \in 1..Len(segs[s]) :
        segs[s][k].id = i /\ (s = 1 => k >= next)

AtBatch(segs, next) ==
    /\ segs # <<>> /\ next <= Len(segs[1])
    /\ \A s \in 1..Len(segs) : segs[s] # <<>>

Covered(c, rs) ==
    /\ c.run \in 1..Len(rs)
    /\ c.pc \in {"probe", "mark"} => c.ready # <<>>
    /\ c.pc = "mark" => c.next <= Len(c.ready)
    /\ c.pc = "probe" =>
          /\ AtBatch(c.segments, c.next)
          /\ \A i \in rs[c.run].items :
                i \in rs[c.run].verified \/ ToTry(c.segments, c.next, i)
    /\ c.pc \in {"mark", "finalize"} => rs[c.run].items \subseteq rs[c.run].verified

CoverInv == \A p \in Processes : call[p] # Idle => Covered(call[p], runs)

ConvInv == TypeOK /\ CoverInv /\ MergedWereVerified

\* Runs keep the items they were given and what they have verified.
Grows == /\ Len(runs') >= Len(runs)
         /\ \A k \in 1..Len(runs) : /\ runs'[k].items = runs[k].items
                                    /\ runs[k].verified \subseteq runs'[k].verified

LEMMA CoveredGrows ==
    ASSUME NEW c, Covered(c, runs), Grows, Len(runs) \in Nat, Len(runs') \in Nat
    PROVE  Covered(c, runs')
BY DEF Covered, Grows

LEMMA OneCall ==
    ASSUME TypeOK, CoverInv, NEW p \in Processes, NEW c,
           call' = [call EXCEPT ![p] = c], Grows, runs' \in Seq(Run),
           c # Idle => Covered(c, runs')
    PROVE  CoverInv'
<1>1. Len(runs) \in Nat /\ Len(runs') \in Nat
  BY LenProperties DEF TypeOK
<1> SUFFICES ASSUME NEW q \in Processes, call'[q] # Idle
             PROVE  Covered(call'[q], runs')
  BY DEF CoverInv
<1>2. CASE q = p
  BY <1>2 DEF TypeOK
<1>3. CASE q # p
  <2>1. call'[q] = call[q]
    BY <1>3 DEF TypeOK
  <2>2. Covered(call[q], runs)
    BY <2>1 DEF CoverInv
  <2> QED
    BY <1>1, <2>1, <2>2, CoveredGrows
<1> QED
  BY <1>2, <1>3

LEMMA ConvInit == Init => ConvInv
<1> SUFFICES ASSUME Init PROVE ConvInv
  OBVIOUS
<1>1. runs \in Seq(Run) /\ Len(runs) = 0
  BY EmptySeq DEF Init
<1>2. TypeOK
  BY <1>1, BoundsAreNat, RowsAssumption DEF Init, TypeOK
<1> QED
  BY <1>1, <1>2 DEF Init, ConvInv, CoverInv, MergedWereVerified

--------------------------------------------------------------------------------
(* The steps of a run.                                                      *)

LEMMA StartRunStep == ASSUME ConvInv, NEW p \in Processes, StartRun(p) PROVE ConvInv'
<1>1. TypeOK /\ CoverInv /\ MergedWereVerified
  BY DEF ConvInv
<1>2. /\ runs \in Seq(Run) /\ Len(runs) \in Nat /\ Len(runs) + 1 <= MaxRuns /\ MaxRuns \in Nat
      /\ UNCHANGED <<item, holder, refs, paused, pending, events>>
  BY <1>1, LenProperties, BoundsAreNat DEF StartRun, TypeOK
<1>3. ASSUME NEW row \in Run, runs' = Append(runs, row), row.status # "merged"
      PROVE  /\ runs' \in Seq(Run) /\ Len(runs') = Len(runs) + 1
             /\ Grows /\ runs'[Len(runs) + 1] = row /\ MergedWereVerified'
  <2>1. /\ runs' \in Seq(Run) /\ Len(runs') = Len(runs) + 1
        /\ \A k \in 1..Len(runs) : runs'[k] = runs[k]
        /\ runs'[Len(runs) + 1] = row
    BY <1>2, <1>3, AppendProperties
  <2>2. Grows
    BY <1>2, <2>1 DEF Grows
  <2>3. DOMAIN runs = 1..Len(runs) /\ DOMAIN runs' = 1..Len(runs')
    BY <1>2, <2>1, LenProperties
  <2>4. MergedWereVerified'
    BY <1>1, <1>2, <1>3, <2>1, <2>3 DEF MergedWereVerified
  <2> QED
    BY <2>1, <2>2, <2>4
<1>4. CASE paused[p]
  <2> DEFINE row == [items |-> {}, verified |-> {}, status |-> "deferred"]
  <2>1. row \in Run /\ row.status # "merged"
    BY DEF Run
  <2>2. runs' = Append(runs, row) /\ call' = call
    BY <1>4 DEF StartRun
  <2> HIDE DEF row
  <2>3. runs' \in Seq(Run) /\ Len(runs') = Len(runs) + 1 /\ Grows /\ MergedWereVerified'
    BY <1>3, <2>1, <2>2
  <2>4. TypeOK'
    BY <1>1, <1>2, <2>2, <2>3 DEF TypeOK
  <2>5. CoverInv'
    BY <1>1, <1>2, <2>2, <2>3, CoveredGrows DEF CoverInv
  <2> QED
    BY <2>3, <2>4, <2>5 DEF ConvInv
<1>5. CASE ~paused[p]
  <2>1. PICK ready \in ReadyCopies :
           /\ runs' = Append(runs, [items |-> Ids(ready), verified |-> {}, status |-> "running"])
           /\ call' = [call EXCEPT ![p] =
                  [pc |-> IF ready = <<>> THEN "finalize" ELSE "probe",
                   run |-> Len(runs) + 1, ready |-> ready,
                   segments |-> <<ready>>, next |-> 1]]
    BY <1>5 DEF StartRun
  <2> DEFINE row == [items |-> Ids(ready), verified |-> {}, status |-> "running"]
             c == [pc |-> IF ready = <<>> THEN "finalize" ELSE "probe",
                   run |-> Len(runs) + 1, ready |-> ready,
                   segments |-> <<ready>>, next |-> 1]
  <2>2. ready \in Seq(Copy) /\ Ids(ready) \subseteq WorkItems
    BY <1>1, ReadyCopiesType
  <2>3. row \in Run /\ row.status # "merged" /\ row.items = Ids(ready) /\ row.verified = {}
    BY <2>2 DEF Run
  <2>4. /\ c.pc = (IF ready = <<>> THEN "finalize" ELSE "probe")
        /\ c.run = Len(runs) + 1 /\ c.ready = ready /\ c.segments = <<ready>> /\ c.next = 1
        /\ c \in Busy
    BY <1>2, <2>2 DEF Busy
  <2>5. runs' = Append(runs, row) /\ call' = [call EXCEPT ![p] = c]
    BY <2>1
  <2> HIDE DEF row, c
  <2>6. /\ runs' \in Seq(Run) /\ Len(runs') = Len(runs) + 1
        /\ Grows /\ runs'[Len(runs) + 1] = row /\ MergedWereVerified'
    BY <1>3, <2>3, <2>5
  <2>7. TypeOK'
    BY <1>1, <1>2, <2>4, <2>5, <2>6 DEF TypeOK
  <2>8. Covered(c, runs')
    <3>1. /\ Len(c.segments) = 1 /\ c.segments[1] = ready
          /\ DOMAIN ready = 1..Len(ready) /\ Len(ready) \in Nat
      BY <2>2, <2>4, LenProperties
    <3>2. CASE ready = <<>>
      <4>1. Ids(ready) = {}
        BY <3>2 DEF Ids
      <4> QED
        BY <1>2, <2>3, <2>4, <2>6, <3>2, <4>1 DEF Covered
    <3>3. CASE ready # <<>>
      <4>1. Len(ready) >= 1
        BY <2>2, <3>3, EmptySeq
      <4>2. \A i \in Ids(ready) : ToTry(c.segments, c.next, i)
        BY <2>4, <3>1 DEF Ids, ToTry
      <4>3. AtBatch(c.segments, c.next)
        BY <2>4, <3>1, <3>3, <4>1 DEF AtBatch
      <4> QED
        BY <1>2, <2>3, <2>4, <2>6, <3>3, <4>2, <4>3 DEF Covered
    <3> QED
      BY <3>2, <3>3
  <2>9. CoverInv'
    BY <1>1, <2>5, <2>6, <2>8, OneCall
  <2> QED
    BY <2>6, <2>7, <2>9 DEF ConvInv
<1> QED
  BY <1>4, <1>5

\* A step that leaves runs alone and takes one call to c.
LEMMA QuietMove ==
    ASSUME ConvInv, NEW p \in Processes, NEW c, call' = [call EXCEPT ![p] = c],
           UNCHANGED runs, TypeOK', c # Idle => Covered(c, runs)
    PROVE  ConvInv'
<1>1. Grows /\ runs' \in Seq(Run)
  BY LenProperties DEF Grows, TypeOK
<1>2. CoverInv'
  BY <1>1, OneCall DEF ConvInv
<1> QED
  BY <1>2 DEF ConvInv, MergedWereVerified

\* The batch whose last item was found is done with.
LEMMA BatchPassed ==
    ASSUME NEW segs \in Batches, NEW next, AtBatch(segs, next), next = Len(segs[1])
    PROVE  /\ Tail(segs) \in Batches
           /\ \A i : ToTry(segs, next, i) => i = segs[1][next].id \/ ToTry(Tail(segs), 1, i)
           /\ Tail(segs) # <<>> => AtBatch(Tail(segs), 1)
           /\ Tail(segs) = <<>> => \A i : ~ToTry(Tail(segs), 1, i)
<1> DEFINE rest == Tail(segs)
<1>1. /\ segs \in Seq(Seq(Copy)) /\ segs # <<>>
      /\ \A s \in 1..Len(segs) : segs[s] # <<>>
  BY DEF AtBatch, Batches
<1>2. /\ rest \in Seq(Seq(Copy)) /\ Len(rest) = Len(segs) - 1 /\ Len(segs) \in Nat
      /\ \A s \in 1..Len(rest) : rest[s] = segs[s + 1]
  BY <1>1, HeadTailProperties, LenProperties
<1>3. \A s \in 1..Len(segs) : segs[s] \in Seq(Copy)
  BY <1>1, ElementOfSeq
<1>4. \A s \in 1..Len(segs) : Len(segs[s]) \in Nat /\ Len(segs[s]) >= 1
  <2> TAKE s \in 1..Len(segs)
  <2>1. segs[s] \in Seq(Copy) /\ segs[s] # <<>>
    BY <1>1, <1>3
  <2> QED
    BY <2>1, EmptySeq
<1> HIDE DEF rest
<1>5. ASSUME NEW i, ToTry(segs, next, i) PROVE i = segs[1][next].id \/ ToTry(rest, 1, i)
  <2>1. PICK s \in 1..Len(segs) : \E k \in 1..Len(segs[s]) :
           segs[s][k].id = i /\ (s = 1 => k >= next)
    BY <1>5 DEF ToTry
  <2>2. PICK k \in 1..Len(segs[s]) : segs[s][k].id = i /\ (s = 1 => k >= next)
    BY <2>1
  <2>3. CASE s = 1
    <3>1. k = next
      BY <1>4, <2>2, <2>3
    <3> QED
      BY <2>2, <2>3, <3>1
  <2>4. CASE s # 1
    <3>1. s - 1 \in 1..Len(rest) /\ (s - 1) + 1 = s
      BY <1>2, <2>4
    <3>2. rest[s - 1] = segs[s]
      BY <1>2, <3>1
    <3>3. k \in 1..Len(rest[s - 1]) /\ rest[s - 1][k].id = i /\ k >= 1
      BY <1>4, <2>2, <3>2
    <3> QED
      BY <3>1, <3>3 DEF ToTry
  <2> QED
    BY <2>3, <2>4
<1>6. ASSUME rest # <<>> PROVE AtBatch(rest, 1)
  <2>1. \A s \in 1..Len(rest) : s + 1 \in 1..Len(segs)
    BY <1>2
  <2>2. \A s \in 1..Len(rest) : rest[s] # <<>> /\ Len(rest[s]) >= 1
    BY <1>1, <1>2, <1>4, <2>1
  <2>3. 1 \in 1..Len(rest)
    BY <1>2, <1>6, EmptySeq
  <2> QED
    BY <1>6, <2>2, <2>3 DEF AtBatch
<1>7. ASSUME rest = <<>>, NEW i PROVE ~ToTry(rest, 1, i)
  BY <1>7 DEF ToTry
<1> QED
  BY <1>2, <1>5, <1>6, <1>7 DEF rest, Batches

\* A batch that failed is tried again in two halves.
LEMMA BatchFailed ==
    ASSUME NEW segs \in Batches, NEW next, AtBatch(segs, next), Len(segs[1]) >= 2
    PROVE  LET after == Halves(segs[1]) \o Tail(segs) IN
           /\ after \in Batches /\ after # <<>>
           /\ AtBatch(after, 1)
           /\ \A i : ToTry(segs, next, i) => ToTry(after, 1, i)
<1> DEFINE seg == segs[1]
           halves == Halves(seg)
           rest == Tail(segs)
           after == halves \o rest
           mid == Mid(seg)
           n == Len(seg)
<1>1. /\ segs \in Seq(Seq(Copy)) /\ segs # <<>>
      /\ \A s \in 1..Len(segs) : segs[s] # <<>>
  BY DEF AtBatch, Batches
<1>2. /\ rest \in Seq(Seq(Copy)) /\ Len(rest) = Len(segs) - 1 /\ Len(segs) \in Nat \ {0}
      /\ \A s \in 1..Len(rest) : rest[s] = segs[s + 1]
  BY <1>1, HeadTailProperties, LenProperties, EmptySeq
<1>3. seg \in Seq(Copy) /\ n \in Nat /\ n >= 2
  <2>1. \A s \in 1..Len(segs) : segs[s] \in Seq(Copy)
    BY <1>1, ElementOfSeq
  <2>2. seg \in Seq(Copy)
    BY <1>2, <2>1
  <2> QED
    BY <2>2, LenProperties
<1>4. /\ halves \in Seq(Seq(Copy)) /\ Len(halves) = 2
      /\ mid \in 1..(n - 1)
      /\ Len(halves[1]) = mid /\ Len(halves[2]) = n - mid
      /\ \A k \in 1..mid : halves[1][k] = seg[k]
      /\ \A k \in 1..(n - mid) : halves[2][k] = seg[mid + k]
  BY <1>3, HalvesFacts DEF Batches
<1> HIDE DEF seg, halves, rest, mid, n
<1>5. /\ after \in Seq(Seq(Copy)) /\ Len(after) = 2 + Len(rest)
      /\ \A s \in 1..(2 + Len(rest)) : after[s] = IF s <= 2 THEN halves[s] ELSE rest[s - 2]
  <2>1. /\ after \in Seq(Seq(Copy)) /\ Len(after) = Len(halves) + Len(rest)
        /\ \A s \in 1..(Len(halves) + Len(rest)) :
              after[s] = IF s <= Len(halves) THEN halves[s] ELSE rest[s - Len(halves)]
    <3> DEFINE S == Seq(Copy)
    <3>1. halves \in Seq(S) /\ rest \in Seq(S)
      BY <1>2, <1>4
    <3> HIDE DEF S
    <3>2. /\ after \in Seq(S) /\ Len(after) = Len(halves) + Len(rest)
          /\ \A s \in 1..(Len(halves) + Len(rest)) :
                after[s] = IF s <= Len(halves) THEN halves[s] ELSE rest[s - Len(halves)]
      BY <3>1, ConcatProperties
    <3> QED
      BY <3>2 DEF S
  <2> HIDE DEF after
  <2> QED
    BY <1>4, <2>1
<1> HIDE DEF after
<1>6. /\ Len(after) = Len(segs) + 1
      /\ after[1] = halves[1] /\ after[2] = halves[2]
  BY <1>2, <1>5
<1>7. ASSUME NEW s \in 2..Len(segs) PROVE s + 1 \in 1..Len(after) /\ after[s + 1] = segs[s]
  <2>1. /\ s + 1 \in 1..(2 + Len(rest)) /\ ~(s + 1 <= 2) /\ (s + 1) - 2 = s - 1
        /\ s - 1 \in 1..Len(rest) /\ (s - 1) + 1 = s
    BY <1>2
  <2>2. after[s + 1] = rest[s - 1]
    BY <1>5, <2>1
  <2>3. rest[s - 1] = segs[s]
    BY <1>2, <2>1
  <2> QED
    BY <1>5, <2>1, <2>2, <2>3
<1>8. ASSUME NEW i, ToTry(segs, next, i) PROVE ToTry(after, 1, i)
  <2>1. PICK s \in 1..Len(segs) : \E k \in 1..Len(segs[s]) : segs[s][k].id = i
    BY <1>8 DEF ToTry
  <2>2. PICK k \in 1..Len(segs[s]) : segs[s][k].id = i
    BY <2>1
  <2>3. CASE s = 1
    <3>1. k \in 1..n /\ seg[k].id = i
      BY <2>2, <2>3 DEF seg, n
    <3>2. CASE k <= mid
      <4>1. k \in 1..mid /\ k >= 1
        BY <1>3, <1>4, <3>1, <3>2
      <4>2. k \in 1..Len(after[1]) /\ after[1][k].id = i
        BY <1>4, <1>6, <3>1, <4>1
      <4>3. 1 \in 1..Len(after)
        BY <1>2, <1>6
      <4> QED
        BY <4>1, <4>2, <4>3 DEF ToTry
    <3>3. CASE k > mid
      <4>1. k - mid \in 1..(n - mid) /\ mid + (k - mid) = k /\ k - mid >= 1
        BY <1>3, <1>4, <3>1, <3>3
      <4>2. k - mid \in 1..Len(after[2]) /\ after[2][k - mid].id = i
        BY <1>4, <1>6, <3>1, <4>1
      <4>3. 2 \in 1..Len(after)
        BY <1>2, <1>6
      <4> QED
        BY <4>1, <4>2, <4>3 DEF ToTry
    <3> QED
      BY <1>3, <1>4, <3>1, <3>2, <3>3
  <2>4. CASE s # 1
    <3>1. s \in 2..Len(segs) /\ s + 1 # 1
      BY <1>2, <2>4
    <3>2. s + 1 \in 1..Len(after) /\ after[s + 1] = segs[s]
      BY <1>7, <3>1
    <3>3. k \in 1..Len(after[s + 1]) /\ after[s + 1][k].id = i
      BY <2>2, <3>2
    <3> QED
      BY <3>1, <3>2, <3>3 DEF ToTry
  <2> QED
    BY <2>3, <2>4
<1>9. AtBatch(after, 1)
  <2>1. Len(after[1]) >= 1 /\ Len(after[2]) >= 1
    BY <1>3, <1>4, <1>6
  <2>2. after[1] # <<>> /\ after[2] # <<>>
    BY <2>1, EmptySeq
  <2>3. \A s \in 1..Len(after) : after[s] # <<>>
    <3> TAKE s \in 1..Len(after)
    <3>1. CASE s \in {1, 2}
      BY <2>2, <3>1
    <3>2. CASE s \notin {1, 2}
      <4>1. s - 1 \in 2..Len(segs) /\ (s - 1) + 1 = s /\ s - 1 \in 1..Len(segs)
        BY <1>2, <1>6, <3>2
      <4>2. after[(s - 1) + 1] = segs[s - 1]
        BY <1>7, <4>1
      <4> QED
        BY <1>1, <4>1, <4>2
    <3> QED
      BY <3>1, <3>2
  <2>4. after # <<>>
    BY <1>2, <1>6, EmptySeq
  <2> QED
    BY <2>1, <2>3, <2>4 DEF AtBatch
<1>10. after # <<>>
  BY <1>9 DEF AtBatch
<1> QED
  BY <1>5, <1>8, <1>9, <1>10 DEF after, halves, rest, seg, Batches

LEMMA ProbeStep == ASSUME ConvInv, NEW p \in Processes, Probe(p) PROVE ConvInv'
<1> DEFINE c == call[p]
           seg == Head(c.segments)
           copy == seg[c.next]
           found == copy.branch \in refs
<1>1. TypeOK /\ CoverInv /\ MergedWereVerified /\ c.pc = "probe"
  BY DEF ConvInv, Probe
<1>2. c \in Busy
  BY <1>1, BusyCall DEF Places
<1>3. /\ c.run \in 1..MaxRuns /\ c.ready \in Seq(Copy) /\ c.segments \in Batches
      /\ c.next \in Nat \ {0}
  BY <1>2, BusyFields
<1>4. Covered(c, runs)
  BY <1>2, <1>1, IdleIsNotBusy DEF CoverInv
<1>5. /\ c.run \in 1..Len(runs) /\ c.ready # <<>> /\ AtBatch(c.segments, c.next)
      /\ \A i \in runs[c.run].items :
            i \in runs[c.run].verified \/ ToTry(c.segments, c.next, i)
  BY <1>1, <1>4 DEF Covered
<1>6. /\ seg = c.segments[1] /\ seg \in Seq(Copy) /\ Len(seg) \in Nat
      /\ c.next \in 1..Len(seg)
  <2>1. c.segments \in Seq(Seq(Copy)) /\ c.segments # <<>>
    BY <1>3, <1>5 DEF AtBatch, Batches
  <2>2. seg = c.segments[1] /\ seg \in Seq(Copy)
    BY <2>1, HeadTailProperties
  <2>3. Len(seg) \in Nat
    BY <2>2, LenProperties
  <2> QED
    BY <1>3, <1>5, <2>2, <2>3 DEF AtBatch
<1>7. Len(seg) \in Nat /\ Len(seg) >= 1
  BY <1>6
<1>8. copy \in Copy
  BY <1>6, ElementOfSeq
<1>9. copy.id \in WorkItems
  BY <1>8, CopyType
<1>10. /\ runs \in Seq(Run) /\ Len(runs) \in Nat /\ Len(runs) <= MaxRuns
      /\ UNCHANGED <<item, holder, refs, paused, pending, events>>
  BY <1>1, LenProperties DEF TypeOK, Probe
<1>11. Covered([c EXCEPT !.pc = "fail"], runs)
  BY <1>2, <1>5 DEF Covered, Busy
<1> DEFINE after == IF found THEN Tail(c.segments) ELSE Halves(seg) \o Tail(c.segments)
           d == [c EXCEPT !.segments = after, !.next = 1,
                          !.pc = IF after = <<>> THEN "mark" ELSE "probe"]
<1>12. CASE found
  <2> DEFINE row == [runs[c.run] EXCEPT !.verified = @ \cup {copy.id}]
  <2>1. runs' = [runs EXCEPT ![c.run] = row]
    BY <1>12 DEF Probe
  <2>2. runs[c.run] \in Run
    BY <1>5, <1>10, ElementOfSeq
  <2>3. /\ row \in Run /\ row.items = runs[c.run].items /\ row.status = runs[c.run].status
        /\ row.verified = runs[c.run].verified \cup {copy.id}
    BY <1>9, <2>2 DEF Run
  <2> HIDE DEF row
  <2>4. /\ runs' \in Seq(Run) /\ Len(runs') = Len(runs)
        /\ \A k \in 1..Len(runs) : runs'[k] = IF k = c.run THEN row ELSE runs[k]
    BY <1>5, <1>10, <2>1, <2>3, ExceptSeq
  <2>5. Grows
    BY <1>10, <2>3, <2>4 DEF Grows
  <2>6. MergedWereVerified'
    <3>1. DOMAIN runs = 1..Len(runs) /\ DOMAIN runs' = 1..Len(runs)
      BY <1>10, <2>4, LenProperties
    <3>2. \A k \in 1..Len(runs) : /\ runs'[k].status = runs[k].status
                                  /\ runs'[k].items = runs[k].items
                                  /\ runs[k].verified \subseteq runs'[k].verified
      BY <2>3, <2>4
    <3> QED
      BY <1>1, <3>1, <3>2 DEF MergedWereVerified
  <2>7. /\ runs'[c.run].items = runs[c.run].items
        /\ runs'[c.run].verified = runs[c.run].verified \cup {copy.id}
    BY <1>5, <2>3, <2>4
  <2>8. ASSUME NEW e \in Busy, call' = [call EXCEPT ![p] = e], Covered(e, runs')
        PROVE  ConvInv'
    <3>1. TypeOK'
      BY <1>1, <1>10, <2>4, <2>8 DEF TypeOK
    <3>2. CoverInv'
      BY <1>1, <2>4, <2>5, <2>8, OneCall
    <3> QED
      BY <2>6, <3>1, <3>2 DEF ConvInv
  <2>9. CASE c.next < Len(seg)
    <3> DEFINE e == [c EXCEPT !.next = c.next + 1]
    <3>1. call' = [call EXCEPT ![p] = e]
      BY <1>12, <2>9 DEF Probe
    <3>2. /\ e \in Busy /\ e.pc = "probe" /\ e.run = c.run /\ e.ready = c.ready
          /\ e.segments = c.segments /\ e.next = c.next + 1
      <4>1. c.next + 1 \in Nat \ {0}
        BY <1>3
      <4> HIDE DEF c
      <4> QED
        BY <1>2, <1>1, <4>1, Advanced
    <3>3. AtBatch(e.segments, e.next)
      BY <1>5, <1>6, <2>9, <3>2 DEF AtBatch
    <3>4. \A i : ToTry(c.segments, c.next, i) =>
              i = copy.id \/ ToTry(c.segments, c.next + 1, i)
      <4> SUFFICES ASSUME NEW i, ToTry(c.segments, c.next, i), i # copy.id
                   PROVE  ToTry(c.segments, c.next + 1, i)
        OBVIOUS
      <4>1. PICK s \in 1..Len(c.segments) : \E k \in 1..Len(c.segments[s]) :
               c.segments[s][k].id = i /\ (s = 1 => k >= c.next)
        BY DEF ToTry
      <4>2. PICK k \in 1..Len(c.segments[s]) :
               c.segments[s][k].id = i /\ (s = 1 => k >= c.next)
        BY <4>1
      <4>3. s = 1 => k >= c.next + 1
        BY <1>3, <1>6, <4>2
      <4> QED
        BY <4>2, <4>3 DEF ToTry
    <3>5. Covered(e, runs')
      <4>1. \A i \in runs'[e.run].items :
               i \in runs'[e.run].verified \/ ToTry(e.segments, e.next, i)
        BY <1>5, <2>7, <3>2, <3>4
      <4> QED
        BY <1>5, <2>4, <3>2, <3>3, <4>1 DEF Covered
    <3> HIDE DEF e
    <3> QED
      BY <2>8, <3>1, <3>2, <3>5
  <2>10. CASE ~(c.next < Len(seg))
    <3>1. c.next = Len(c.segments[1])
      BY <1>6, <2>10
    <3>2. after = Tail(c.segments)
      BY <1>12
    <3>3. call' = [call EXCEPT ![p] = d]
      BY <1>12, <2>10 DEF Probe, OtherBatches
    <3>4. /\ after \in Batches
          /\ \A i : ToTry(c.segments, c.next, i) => i = copy.id \/ ToTry(after, 1, i)
          /\ after # <<>> => AtBatch(after, 1)
          /\ after = <<>> => \A i : ~ToTry(after, 1, i)
      BY <1>3, <1>5, <1>6, <3>1, <3>2, BatchPassed
    <3> HIDE DEF after
    <3>5. /\ d \in Busy /\ d.pc = (IF after = <<>> THEN "mark" ELSE "probe")
          /\ d.run = c.run /\ d.ready = c.ready /\ d.segments = after /\ d.next = 1
      <4>1. (IF after = <<>> THEN "mark" ELSE "probe") \in Places
        BY DEF Places
      <4>2. PICK x \in Busy : x = c
        BY <1>2
      <4>3. LET e == [x EXCEPT !.segments = after, !.next = 1, !.pc = (IF after = <<>> THEN "mark" ELSE "probe")] IN
            /\ e \in Busy /\ e.pc = (IF after = <<>> THEN "mark" ELSE "probe")
            /\ e.run = x.run /\ e.ready = x.ready /\ e.segments = after /\ e.next = 1
        <5>1. after \in Batches
          BY <3>4
        <5> QED
          BY <5>1, NextBatch
      <4> QED
        BY <4>1, <4>2, <4>3
    <3>6. 1 <= Len(c.ready)
      BY <1>3, <1>5, EmptySeq
    <3>7. \A i \in runs'[d.run].items : i \in runs'[d.run].verified \/ ToTry(after, 1, i)
      BY <1>5, <2>7, <3>4, <3>5
    <3>8. Covered(d, runs')
      BY <1>5, <2>4, <3>4, <3>5, <3>6, <3>7 DEF Covered
    <3> HIDE DEF d
    <3> QED
      BY <2>8, <3>3, <3>5, <3>8
  <2> QED
    BY <2>9, <2>10
<1>13. CASE ~found
  <2>1. runs' = runs
    BY <1>13 DEF Probe
  <2>2. ASSUME NEW e \in Busy, call' = [call EXCEPT ![p] = e], Covered(e, runs)
        PROVE  ConvInv'
    <3>1. TypeOK'
      BY <1>1, <1>10, <2>1, <2>2 DEF TypeOK
    <3> QED
      BY <2>1, <2>2, <3>1, QuietMove
  <2>3. CASE Len(seg) = 1
    <3> DEFINE e == [c EXCEPT !.pc = "fail"]
    <3>1. call' = [call EXCEPT ![p] = e]
      BY <1>13, <2>3 DEF Probe
    <3>2. e \in Busy
      BY <1>2, Turned DEF Places
    <3> QED
      BY <1>11, <2>2, <3>1, <3>2
  <2>4. CASE Len(seg) # 1
    <3>1. Len(c.segments[1]) >= 2
      <4>1. \A n \in Nat : n >= 1 /\ n # 1 => n >= 2
        OBVIOUS
      <4>2. Len(seg) >= 2
        BY <1>7, <2>4, <4>1
      <4> HIDE DEF seg, c
      <4> QED
        BY <1>6, <4>2
    <3>2. after = Halves(c.segments[1]) \o Tail(c.segments)
      BY <1>6, <1>13
    <3>3. call' = [call EXCEPT ![p] = d]
      BY <1>13, <2>4 DEF Probe, OtherBatches
    <3>4. /\ after \in Batches /\ after # <<>> /\ AtBatch(after, 1)
          /\ \A i : ToTry(c.segments, c.next, i) => ToTry(after, 1, i)
      BY <1>3, <1>5, <3>1, <3>2, BatchFailed
    <3> HIDE DEF after
    <3>5. /\ d \in Busy /\ d.pc = "probe"
          /\ d.run = c.run /\ d.ready = c.ready /\ d.segments = after /\ d.next = 1
      <4>1. after # <<>> /\ (IF after = <<>> THEN "mark" ELSE "probe") \in Places
        BY <3>4 DEF Places
      <4>2. PICK x \in Busy : x = c
        BY <1>2
      <4>3. LET e == [x EXCEPT !.segments = after, !.next = 1, !.pc = (IF after = <<>> THEN "mark" ELSE "probe")] IN
            /\ e \in Busy /\ e.pc = (IF after = <<>> THEN "mark" ELSE "probe")
            /\ e.run = x.run /\ e.ready = x.ready /\ e.segments = after /\ e.next = 1
        <5>1. after \in Batches
          BY <3>4
        <5> QED
          BY <5>1, NextBatch
      <4> QED
        BY <4>1, <4>2, <4>3
    <3>6. Covered(d, runs)
      BY <1>5, <3>4, <3>5 DEF Covered
    <3> HIDE DEF d
    <3> QED
      BY <2>2, <3>3, <3>5, <3>6
  <2> QED
    BY <2>3, <2>4
<1> QED
  BY <1>12, <1>13

LEMMA MarkStep == ASSUME ConvInv, NEW p \in Processes, Mark(p) PROVE ConvInv'
<1> DEFINE c == call[p]
           copy == c.ready[c.next]
<1>1. TypeOK /\ CoverInv /\ c.pc = "mark" /\ UNCHANGED <<holder, refs, runs, paused, pending, events>>
  BY DEF ConvInv, Mark
<1>2. c \in Busy
  BY <1>1, BusyCall DEF Places
<1>3. c.run \in 1..MaxRuns /\ c.ready \in Seq(Copy) /\ c.next \in Nat \ {0}
  BY <1>2, BusyFields
<1>4. Covered(c, runs)
  BY <1>2, <1>1, IdleIsNotBusy DEF CoverInv
<1>5. Len(c.ready) \in Nat /\ c.next \in 1..Len(c.ready)
  BY <1>1, <1>3, <1>4, LenProperties DEF Covered
<1>6. copy.id \in WorkItems /\ copy.branch \in Branches
  BY <1>3, <1>5, ElementOfSeq, CopyType
<1>7. item' \in [WorkItems -> Row]
  <2>1. item[copy.id] \in Row
    BY <1>1, <1>6 DEF TypeOK
  <2>2. UpdatedRow(item[copy.id], "done", copy.branch) \in Row
    BY <1>6, <2>1, UpdatedRowType DEF Statuses
  <2>3. item' = [item EXCEPT ![copy.id] = UpdatedRow(item[copy.id], "done", copy.branch)]
    BY DEF Mark
  <2> QED
    BY <1>1, <2>2, <2>3 DEF TypeOK
<1>8. ASSUME NEW e \in Busy, call' = [call EXCEPT ![p] = e], Covered(e, runs)
      PROVE  ConvInv'
  <2>1. TypeOK'
    BY <1>1, <1>7, <1>8 DEF TypeOK
  <2> QED
    BY <1>1, <1>8, <2>1, QuietMove
<1>9. CASE c.next < Len(c.ready)
  <2> DEFINE e == [c EXCEPT !.next = c.next + 1]
  <2>1. call' = [call EXCEPT ![p] = e]
    BY <1>9 DEF Mark
  <2>2. /\ e \in Busy /\ e.pc = "mark" /\ e.run = c.run /\ e.ready = c.ready
        /\ e.next = c.next + 1
    <3>1. c.next + 1 \in Nat \ {0}
      BY <1>3
    <3> HIDE DEF c
    <3> QED
      BY <1>2, <1>1, <3>1, Advanced
  <2>3. Covered(e, runs)
    BY <1>1, <1>4, <1>5, <1>9, <2>2 DEF Covered
  <2> HIDE DEF e
  <2> QED
    BY <1>8, <2>1, <2>2, <2>3
<1>10. CASE ~(c.next < Len(c.ready))
  <2> DEFINE e == [c EXCEPT !.pc = "finalize"]
  <2>1. call' = [call EXCEPT ![p] = e]
    BY <1>10 DEF Mark
  <2>2. /\ e \in Busy /\ e.pc = "finalize" /\ e.run = c.run
    BY <1>2, Turned DEF Places
  <2>3. Covered(e, runs)
    BY <1>1, <1>4, <2>2 DEF Covered
  <2> HIDE DEF e
  <2> QED
    BY <1>8, <2>1, <2>2, <2>3
<1> QED
  BY <1>9, <1>10

LEMMA FinalizeStep ==
    ASSUME ConvInv, NEW p \in Processes, FinalizeConvergenceRun(p) PROVE ConvInv'
<1> DEFINE c == call[p]
           row == [runs[c.run] EXCEPT !.status = Outcome(c.pc)]
<1>1. /\ TypeOK /\ CoverInv /\ MergedWereVerified /\ c.pc \in {"finalize", "fail"}
      /\ UNCHANGED <<item, holder, refs, paused, pending, events>>
  BY DEF ConvInv, FinalizeConvergenceRun
<1>2. c \in Busy /\ runs \in Seq(Run) /\ Len(runs) \in Nat /\ DOMAIN runs = 1..Len(runs)
  BY <1>1, BusyCall, LenProperties DEF Places, TypeOK
<1>3. Covered(c, runs)
  BY <1>2, <1>1, IdleIsNotBusy DEF CoverInv
<1>4. c.run \in 1..Len(runs) /\ (c.pc = "finalize" => runs[c.run].items \subseteq runs[c.run].verified)
  BY <1>3 DEF Covered
<1>5. runs[c.run] \in Run
  BY <1>2, <1>4, ElementOfSeq
<1>6. /\ row \in Run /\ row.items = runs[c.run].items /\ row.verified = runs[c.run].verified
      /\ row.status = "merged" => c.pc = "finalize"
  BY <1>1, <1>5 DEF Run, Outcome
<1>7. runs' = [runs EXCEPT ![c.run] = row]
  BY DEF FinalizeConvergenceRun
<1> HIDE DEF row
<1>8. /\ runs' \in Seq(Run) /\ Len(runs') = Len(runs)
      /\ \A k \in 1..Len(runs) : runs'[k] = IF k = c.run THEN row ELSE runs[k]
  BY <1>2, <1>4, <1>6, <1>7, ExceptSeq
<1>9. DOMAIN runs' = 1..Len(runs)
  BY <1>8, LenProperties
<1>10. Grows
  BY <1>2, <1>6, <1>8 DEF Grows
<1>11. MergedWereVerified'
  BY <1>1, <1>2, <1>4, <1>6, <1>8, <1>9 DEF MergedWereVerified
<1>12. call' = [call EXCEPT ![p] = Idle]
  BY DEF FinalizeConvergenceRun
<1>13. TypeOK'
  BY <1>1, <1>8, <1>12 DEF TypeOK
<1>14. CoverInv'
  BY <1>1, <1>8, <1>10, <1>12, OneCall
<1> QED
  BY <1>11, <1>13, <1>14 DEF ConvInv

--------------------------------------------------------------------------------
\* A step that moves no run.
LEMMA NoRun == ASSUME ConvInv, TypeOK', UNCHANGED <<runs, call>> PROVE ConvInv'
BY DEF ConvInv, CoverInv, MergedWereVerified

LEMMA EventType == ASSUME TypeOK, Event PROVE events' \in 0..MaxEvents
BY BoundsAreNat DEF TypeOK, Event

LEMMA ConvStep == ConvInv /\ [Next]_vars => ConvInv'
<1> SUFFICES ASSUME ConvInv, [Next]_vars PROVE ConvInv'
  OBVIOUS
<1>1. TypeOK
  BY DEF ConvInv
<1>2. ASSUME NEW p \in Processes, StartRun(p) PROVE ConvInv'
  BY <1>2, StartRunStep
<1>3. ASSUME NEW p \in Processes, RunStep(p) PROVE ConvInv'
  BY <1>3, ProbeStep, MarkStep, FinalizeStep DEF RunStep
<1>4. ASSUME NEW p \in Processes, SetConvergencePaused(p) PROVE ConvInv'
  <2>1. TypeOK'
    BY <1>4, <1>1, EventType DEF SetConvergencePaused, TypeOK
  <2> QED
    BY <1>4, <2>1, NoRun DEF SetConvergencePaused
<1>5. ASSUME NEW p \in Processes, Exit(p) PROVE ConvInv'
  <2>1. call' = [call EXCEPT ![p] = Idle] /\ UNCHANGED runs
    BY <1>5 DEF Exit
  <2>2. TypeOK'
    BY <1>5, <1>1, <2>1, EventType DEF Exit, TypeOK
  <2> QED
    BY <2>1, <2>2, QuietMove
<1>6. ASSUME NEW p \in Processes, NEW i \in WorkItems, ClaimWorkItem(p, i) PROVE ConvInv'
  <2>1. UpdatedRow(item[i], "claimed", Unset) \in Row
    BY <1>1, UpdatedRowType DEF TypeOK, Statuses
  <2>2. TypeOK'
    BY <1>6, <1>1, <2>1, EventType DEF ClaimWorkItem, TypeOK
  <2> QED
    BY <1>6, <2>2, NoRun DEF ClaimWorkItem
<1>7. ASSUME NEW p \in Processes, NEW i \in WorkItems, NEW s \in FinalStatuses,
             NEW b \in Branches \cup {Unset}, ReleaseWorkItem(p, i, s, b)
      PROVE  ConvInv'
  <2>1. s \in Statuses
    BY RowsAssumption
  <2>2. /\ [item EXCEPT ![i].status = s] \in [WorkItems -> Row]
        /\ [holder EXCEPT ![i] = Unset] \in [WorkItems -> Processes \cup {Unset}]
        /\ [id |-> i, status |-> s, branch |-> b] \in Continuation
    BY <1>1, <2>1 DEF TypeOK, Row, Continuation
  <2>3. item' \in [WorkItems -> Row] /\ holder' \in [WorkItems -> Processes \cup {Unset}]
    BY <1>7, <1>1, <2>2 DEF ReleaseWorkItem, TypeOK
  <2>4. pending' \in [Processes -> SUBSET Continuation]
    BY <1>7, <1>1, <2>2 DEF ReleaseWorkItem, TypeOK
  <2>5. TypeOK'
    BY <1>7, <1>1, <2>3, <2>4, EventType DEF ReleaseWorkItem, TypeOK
  <2> QED
    BY <1>7, <2>5, NoRun DEF ReleaseWorkItem
<1>8. ASSUME NEW p \in Processes, NEW c \in pending[p], CompleteWorkItem(p, c) PROVE ConvInv'
  <2>1. c \in Continuation
    BY <1>1 DEF TypeOK
  <2>2. c.id \in WorkItems /\ c.status \in Statuses /\ c.branch \in Branches \cup {Unset}
    BY <2>1, RowsAssumption DEF Continuation
  <2>3. UpdatedRow(item[c.id], c.status, c.branch) \in Row
    BY <1>1, <2>2, UpdatedRowType DEF TypeOK
  <2>4. TypeOK'
    BY <1>8, <1>1, <2>2, <2>3 DEF CompleteWorkItem, TypeOK
  <2> QED
    BY <1>8, <2>4, NoRun DEF CompleteWorkItem
<1>9. ASSUME NEW b \in Branches, ChangeRef(b) PROVE ConvInv'
  <2>1. TypeOK'
    BY <1>9, <1>1, EventType DEF ChangeRef, TypeOK
  <2> QED
    BY <1>9, <2>1, NoRun DEF ChangeRef
<1>10. CASE UNCHANGED vars
  <2>1. TypeOK'
    BY <1>10, <1>1 DEF vars, TypeOK
  <2> QED
    BY <1>10, <2>1, NoRun DEF vars
<1> QED
  BY <1>2, <1>3, <1>4, <1>5, <1>6, <1>7, <1>8, <1>9, <1>10 DEF Next

LEMMA ConvInvariant == Spec => []ConvInv
BY ConvInit, ConvStep, PTL DEF Spec

\* Rows, runs, the stack of batches of every run and every waiting completion are
\* well formed (convergence/queue.ts).
THEOREM ConvergenceTypeCorrect == Spec => []TypeOK
<1>1. ConvInv => TypeOK
  BY DEF ConvInv
<1> QED
  BY <1>1, ConvInvariant, PTL

\* Whatever other processes do to the items and the branches while a run lasts, and
\* however the bisection cuts, a run that merged has found every branch it was given
\* (queue.ts:24-33, 59).
THEOREM MergesAreVerified == Spec => []MergedWereVerified
<1>1. ConvInv => MergedWereVerified
  BY DEF ConvInv
<1> QED
  BY <1>1, ConvInvariant, PTL

--------------------------------------------------------------------------------
(* What the bisection tries.                                                *)

Within(segs, x) == \E s \in 1..Len(segs) : \E k \in 1..Len(segs[s]) : segs[s][k] = x

\* Whatever the bisection has still to try comes from the copies the run was given.
DrawnInv ==
    \A p \in Processes : call[p].pc = "probe" =>
        \A x : Within(call[p].segments, x) => \E n \in 1..Len(call[p].ready) : call[p].ready[n] = x

\* Cutting a batch, or dropping one that passed, brings nothing new.
LEMMA RestWithin ==
    ASSUME NEW segs \in Batches, segs # <<>>, NEW x, Within(Tail(segs), x)
    PROVE  Within(segs, x)
<1>1. /\ Tail(segs) \in Batches /\ Len(Tail(segs)) = Len(segs) - 1 /\ Len(segs) \in Nat
      /\ \A s \in 1..Len(Tail(segs)) : Tail(segs)[s] = segs[s + 1]
  BY HeadTailProperties, LenProperties DEF Batches
<1>2. PICK s \in 1..Len(Tail(segs)) : \E k \in 1..Len(Tail(segs)[s]) : Tail(segs)[s][k] = x
  BY DEF Within
<1>3. s + 1 \in 1..Len(segs) /\ Tail(segs)[s] = segs[s + 1]
  BY <1>1
<1> QED
  BY <1>2, <1>3 DEF Within

LEMMA HalvesWithin ==
    ASSUME NEW segs \in Batches, segs # <<>>, Len(segs[1]) >= 2,
           NEW x, Within(Halves(segs[1]) \o Tail(segs), x)
    PROVE  Within(segs, x)
<1> DEFINE seg == segs[1]
           halves == Halves(seg)
           rest == Tail(segs)
           S == Seq(Copy)
<1>1. /\ segs \in Seq(S) /\ Len(segs) \in Nat \ {0} /\ 1 \in 1..Len(segs)
      /\ \A s \in 1..Len(segs) : segs[s] \in S
  <2>1. segs \in Seq(S) /\ Len(segs) \in Nat \ {0}
    BY EmptySeq, LenProperties DEF Batches
  <2> QED
    BY <2>1, ElementOfSeq
<1>2. seg \in Seq(Copy) /\ Len(seg) \in Nat
  BY <1>1, LenProperties
<1>3. /\ halves \in Seq(S) /\ Len(halves) = 2 /\ Mid(seg) \in 1..(Len(seg) - 1)
      /\ Len(halves[1]) = Mid(seg) /\ Len(halves[2]) = Len(seg) - Mid(seg)
      /\ \A k \in 1..Mid(seg) : halves[1][k] = seg[k]
      /\ \A k \in 1..(Len(seg) - Mid(seg)) : halves[2][k] = seg[Mid(seg) + k]
  BY <1>2, HalvesFacts DEF Batches
<1>4. rest \in Seq(S) /\ Len(rest) \in Nat
  BY <1>1, HeadTailProperties, LenProperties, EmptySeq
<1> HIDE DEF seg, halves, rest, S
<1>5. /\ Len(halves \o rest) = 2 + Len(rest)
      /\ \A s \in 1..(2 + Len(rest)) :
            (halves \o rest)[s] = IF s <= 2 THEN halves[s] ELSE rest[s - 2]
  <2>1. /\ Len(halves \o rest) = Len(halves) + Len(rest)
        /\ \A s \in 1..(Len(halves) + Len(rest)) :
              (halves \o rest)[s] = IF s <= Len(halves) THEN halves[s] ELSE rest[s - Len(halves)]
    <3>1. halves \in Seq(S) /\ rest \in Seq(S)
      BY <1>3, <1>4
    <3> QED
      BY <3>1, ConcatProperties
  <2> QED
    BY <1>3, <2>1
<1>6. PICK s \in 1..(2 + Len(rest)) :
         \E k \in 1..Len((halves \o rest)[s]) : (halves \o rest)[s][k] = x
  BY <1>5 DEF Within, halves, rest, seg
<1>7. PICK k \in 1..Len((halves \o rest)[s]) : (halves \o rest)[s][k] = x
  BY <1>6
<1>8. CASE s = 1
  <2>1. (halves \o rest)[s] = halves[1]
    BY <1>5, <1>8
  <2>2. k \in 1..Len(seg) /\ seg[k] = x
    BY <1>2, <1>3, <1>7, <2>1
  <2> QED
    BY <1>1, <2>2 DEF Within, seg
<1>9. CASE s = 2
  <2>1. (halves \o rest)[s] = halves[2]
    BY <1>5, <1>9
  <2>2. k \in 1..(Len(seg) - Mid(seg)) /\ seg[Mid(seg) + k] = x
    BY <1>3, <1>7, <2>1
  <2>3. Mid(seg) + k \in 1..Len(seg)
    BY <1>2, <1>3, <2>2
  <2> QED
    BY <1>1, <2>2, <2>3 DEF Within, seg
<1>10. CASE s > 2
  <2>1. s - 2 \in 1..Len(rest) /\ (halves \o rest)[s] = rest[s - 2]
    BY <1>4, <1>5, <1>10
  <2>2. Within(rest, x)
    BY <1>7, <2>1 DEF Within
  <2> QED
    BY <2>2, RestWithin DEF rest
<1> QED
  BY <1>4, <1>8, <1>9, <1>10

\* A run begins with one batch, of all it was given.
LEMMA FirstBatch ==
    ASSUME NEW ready, NEW x, Within(<<ready>>, x)
    PROVE  \E n \in 1..Len(ready) : ready[n] = x
<1>1. Len(<<ready>>) = 1 /\ <<ready>>[1] = ready
  OBVIOUS
<1> QED
  BY <1>1 DEF Within

\* The first batch is at hand while a run probes.
LEMMA AtHand ==
    ASSUME ConvInv, NEW p \in Processes, call[p].pc = "probe"
    PROVE  /\ call[p] \in Busy /\ call[p].segments \in Batches /\ call[p].segments # <<>>
           /\ Head(call[p].segments) = call[p].segments[1]
           /\ Len(call[p].segments[1]) \in Nat /\ call[p].next \in 1..Len(call[p].segments[1])
           /\ Within(call[p].segments, call[p].segments[1][call[p].next])
<1> DEFINE c == call[p]
<1>1. c \in Busy
  BY BusyCall DEF ConvInv, Places
<1>2. c.segments \in Batches /\ c.next \in Nat \ {0}
  BY <1>1, BusyFields
<1>3. AtBatch(c.segments, c.next)
  BY <1>1, IdleIsNotBusy DEF ConvInv, CoverInv, Covered
<1>4. /\ c.segments \in Seq(Seq(Copy)) /\ c.segments # <<>>
      /\ Len(c.segments) \in Nat \ {0} /\ 1 \in 1..Len(c.segments)
  BY <1>2, <1>3, EmptySeq, LenProperties DEF AtBatch, Batches
<1>5. Head(c.segments) = c.segments[1] /\ c.segments[1] \in Seq(Copy)
  BY <1>4, HeadTailProperties
<1>6. Len(c.segments[1]) \in Nat
  BY <1>5, LenProperties
<1>7. c.next \in 1..Len(c.segments[1])
  BY <1>2, <1>3, <1>6 DEF AtBatch
<1> QED
  BY <1>1, <1>2, <1>4, <1>5, <1>6, <1>7 DEF Within

\* The call a probe leaves, and the batches it has still to try.
LEMMA ProbeMoves ==
    ASSUME ConvInv, NEW p \in Processes, Probe(p)
    PROVE  /\ call[p].pc = "probe" /\ \A q \in Processes \ {p} : call'[q] = call[q]
           /\ call'[p] \in Busy /\ call'[p].ready = call[p].ready
           /\ call'[p].pc = "probe" =>
                 \A x : Within(call'[p].segments, x) => Within(call[p].segments, x)
           /\ call'[p].pc = "fail" => call[p].segments[1][call[p].next].branch \notin refs
<1> DEFINE c == call[p]
           segs == c.segments
           seg == segs[1]
           copy == seg[c.next]
           found == copy.branch \in refs
           after == IF found THEN Tail(segs) ELSE Halves(seg) \o Tail(segs)
           d == [c EXCEPT !.segments = after, !.next = 1,
                          !.pc = IF after = <<>> THEN "mark" ELSE "probe"]
<1>1. /\ c \in Busy /\ segs \in Batches /\ segs # <<>> /\ c.pc = "probe"
      /\ Head(segs) = seg /\ Len(seg) \in Nat /\ c.next \in 1..Len(seg)
      /\ AtBatch(segs, c.next)
  BY AtHand, IdleIsNotBusy DEF Probe, ConvInv, CoverInv, Covered
<1>2. call' = [call EXCEPT ![p] =
           CASE found /\ c.next < Len(seg) -> [c EXCEPT !.next = @ + 1]
             [] ~found /\ Len(seg) = 1 -> [c EXCEPT !.pc = "fail"]
             [] OTHER -> d]
  BY <1>1 DEF Probe, OtherBatches
<1>3. call \in [Processes -> Busy \cup {Idle}]
  BY DEF ConvInv, TypeOK
<1> HIDE DEF found, after
<1>4. CASE found /\ c.next < Len(seg)
  <2>1. call'[p] = [c EXCEPT !.next = @ + 1] /\ \A q \in Processes \ {p} : call'[q] = call[q]
    BY <1>2, <1>3, <1>4
  <2>2. PICK n \in Nat \ {0} : n = c.next + 1
    BY <1>1
  <2>3. call'[p] = [c EXCEPT !.next = n]
    BY <2>1, <2>2
  <2>4. /\ call'[p] \in Busy /\ call'[p].pc = "probe" /\ call'[p].ready = c.ready
        /\ call'[p].segments = segs
    BY <1>1, <2>3, Advanced
  <2> QED
    BY <1>1, <2>1, <2>4
<1>5. CASE ~found /\ Len(seg) = 1
  <2>1. call'[p] = [c EXCEPT !.pc = "fail"] /\ \A q \in Processes \ {p} : call'[q] = call[q]
    BY <1>2, <1>3, <1>5
  <2>2. PICK pc \in Places : pc = "fail"
    BY DEF Places
  <2>3. call'[p] \in Busy /\ call'[p].pc = "fail" /\ call'[p].ready = c.ready
    BY <1>1, <2>1, <2>2, Turned
  <2> QED
    BY <1>1, <1>5, <2>1, <2>3 DEF found
<1>6. CASE ~(found /\ c.next < Len(seg)) /\ ~(~found /\ Len(seg) = 1)
  <2>1. call'[p] = d /\ \A q \in Processes \ {p} : call'[q] = call[q]
    BY <1>2, <1>3, <1>6
  <2>2. after \in Batches /\ \A x : Within(after, x) => Within(segs, x)
    <3>1. CASE found
      <4>1. c.next = Len(seg)
        BY <1>1, <1>6, <3>1
      <4>2. after = Tail(segs) /\ after \in Batches
        BY <1>1, <3>1, <4>1, BatchPassed DEF after
      <4> QED
        BY <1>1, <4>2, RestWithin
    <3>2. CASE ~found
      <4>1. Len(seg) >= 2
        <5>1. \A n \in Nat : n >= 1 /\ n # 1 => n >= 2
          OBVIOUS
        <5>2. Len(seg) \in Nat /\ Len(seg) >= 1
          BY <1>1
        <5>3. Len(seg) # 1
          BY <1>6, <3>2
        <5> QED
          BY <5>1, <5>2, <5>3
      <4>2. after = Halves(seg) \o Tail(segs) /\ after \in Batches
        BY <1>1, <3>2, <4>1, BatchFailed DEF after
      <4> QED
        BY <1>1, <4>1, <4>2, HalvesWithin
    <3> QED
      BY <3>1, <3>2
  <2>3. /\ d \in Busy /\ d.ready = c.ready /\ d.segments = after /\ d.pc \in {"mark", "probe"}
    <3>1. c \in Busy /\ after \in Batches
      BY <1>1, <2>2
    <3> HIDE DEF c
    <3>2. /\ d \in Busy /\ d.pc = IF after = <<>> THEN "mark" ELSE "probe"
          /\ d.ready = c.ready /\ d.segments = after
      BY <3>1, NextBatch
    <3> HIDE DEF d
    <3> QED
      BY <3>2
  <2> HIDE DEF d
  <2> QED
    BY <1>1, <2>1, <2>2, <2>3
<1> QED
  BY <1>4, <1>5, <1>6

\* No other step brings a call to probe or to fail.
LEMMA OtherMoves ==
    ASSUME ConvInv, [Next]_vars, NEW p \in Processes, ~StartRun(p), ~Probe(p)
    PROVE  call'[p] = call[p] \/ call'[p].pc \notin {"probe", "fail"}
<1>1. TypeOK /\ call \in [Processes -> Busy \cup {Idle}]
  BY DEF ConvInv, TypeOK
<1>2. CASE Mark(p)
  <2> DEFINE c == call[p]
  <2>1. c \in Busy /\ c.pc = "mark"
    BY <1>2, <1>1, BusyCall DEF Mark, Places
  <2>2. call'[p] = IF c.next < Len(c.ready) THEN [c EXCEPT !.next = @ + 1]
                                            ELSE [c EXCEPT !.pc = "finalize"]
    BY <1>2, <1>1 DEF Mark
  <2>3. [c EXCEPT !.next = @ + 1].pc = "mark" /\ [c EXCEPT !.pc = "finalize"].pc = "finalize"
    BY <2>1 DEF Busy
  <2> QED
    BY <2>2, <2>3
<1>3. CASE FinalizeConvergenceRun(p) \/ Exit(p)
  BY <1>3, <1>1 DEF FinalizeConvergenceRun, Exit, Idle
<1>4. CASE \E q \in Processes \ {p} : RunStep(q) \/ StartRun(q) \/ Exit(q)
  BY <1>4, <1>1 DEF RunStep, Probe, Mark, FinalizeConvergenceRun, StartRun, Exit
<1>5. CASE \/ \E q \in Processes :
              \/ SetConvergencePaused(q)
              \/ \E i \in WorkItems :
                    \/ ClaimWorkItem(q, i)
                    \/ \E s \in FinalStatuses, b \in Branches \cup {Unset} :
                          ReleaseWorkItem(q, i, s, b)
              \/ \E c \in pending[q] : CompleteWorkItem(q, c)
           \/ \E b \in Branches : ChangeRef(b)
           \/ UNCHANGED vars
  BY <1>5 DEF SetConvergencePaused, ClaimWorkItem, ReleaseWorkItem, CompleteWorkItem, ChangeRef, vars
<1> QED
  BY <1>2, <1>3, <1>4, <1>5 DEF Next, RunStep

LEMMA DrawnStep == ConvInv /\ DrawnInv /\ [Next]_vars => DrawnInv'
<1> SUFFICES ASSUME ConvInv, DrawnInv, [Next]_vars, NEW p \in Processes, call'[p].pc = "probe",
                    NEW x, Within(call'[p].segments, x)
             PROVE  \E n \in 1..Len(call'[p].ready) : call'[p].ready[n] = x
  BY DEF DrawnInv
<1>1. CASE Probe(p)
  <2>1. /\ call[p].pc = "probe" /\ call'[p].ready = call[p].ready
        /\ Within(call[p].segments, x)
    BY <1>1, ProbeMoves
  <2> QED
    BY <2>1 DEF DrawnInv
<1>2. CASE StartRun(p)
  <2>1. call \in [Processes -> Busy \cup {Idle}] /\ call[p] = Idle
    BY <1>2 DEF ConvInv, TypeOK, StartRun, AtLoop
  <2>2. ~paused[p]
    BY <1>2, <2>1 DEF StartRun, Idle
  <2>3. PICK ready \in ReadyCopies : call' = [call EXCEPT ![p] =
                  [pc |-> IF ready = <<>> THEN "finalize" ELSE "probe",
                   run |-> Len(runs) + 1, ready |-> ready,
                   segments |-> <<ready>>, next |-> 1]]
    BY <1>2, <2>2 DEF StartRun
  <2>4. call'[p].ready = ready /\ call'[p].segments = <<ready>>
    BY <2>1, <2>3
  <2> QED
    BY <2>4, FirstBatch
<1>3. CASE ~StartRun(p) /\ ~Probe(p)
  <2>1. call'[p] = call[p]
    BY <1>3, OtherMoves
  <2> QED
    BY <2>1 DEF DrawnInv
<1> QED
  BY <1>1, <1>2, <1>3

LEMMA DrawnInit == Init => DrawnInv
BY DEF Init, DrawnInv, Idle

\* No run fails for nothing: whatever happens to items, branches and other processes,
\* and however often the bisection cuts, a run turns to failure only at a probe of a
\* branch of its own items that git does not have then (queue.ts:24-33, 60).
THEOREM FailuresAreFound ==
    Spec => [][\A p \in Processes : call[p].pc # "fail" /\ call'[p].pc = "fail" =>
                  ~(BranchesOf(call[p].run) \subseteq refs)]_vars
<1> DEFINE Found == \A p \in Processes : call[p].pc # "fail" /\ call'[p].pc = "fail" =>
                        ~(BranchesOf(call[p].run) \subseteq refs)
<1>1. ConvInv /\ DrawnInv /\ [Next]_vars => [Found]_vars
  <2> SUFFICES ASSUME ConvInv, DrawnInv, [Next]_vars, NEW p \in Processes,
                      call[p].pc # "fail", call'[p].pc = "fail"
               PROVE  ~(BranchesOf(call[p].run) \subseteq refs)
    BY DEF Found
  <2>1. call \in [Processes -> Busy \cup {Idle}]
    BY DEF ConvInv, TypeOK
  <2>2. ~StartRun(p)
    <3>1. SUFFICES ASSUME StartRun(p) PROVE FALSE
      OBVIOUS
    <3>2. call[p] = Idle
      BY <3>1 DEF StartRun, AtLoop
    <3>3. CASE paused[p]
      BY <3>1, <3>2, <3>3 DEF StartRun, Idle
    <3>4. CASE ~paused[p]
      <4>1. PICK ready \in ReadyCopies : call' = [call EXCEPT ![p] =
                  [pc |-> IF ready = <<>> THEN "finalize" ELSE "probe",
                   run |-> Len(runs) + 1, ready |-> ready,
                   segments |-> <<ready>>, next |-> 1]]
        BY <3>1, <3>4 DEF StartRun
      <4>2. call'[p].pc \in {"finalize", "probe"}
        BY <2>1, <4>1
      <4> QED
        BY <4>2
    <3> QED
      BY <3>3, <3>4
  <2>3. Probe(p)
    BY <2>2, OtherMoves
  <2> DEFINE copy == call[p].segments[1][call[p].next]
  <2>4. /\ call[p].pc = "probe" /\ copy.branch \notin refs
        /\ Within(call[p].segments, copy) /\ call[p] \in Busy
    BY <2>3, ProbeMoves, AtHand
  <2>5. PICK n \in 1..Len(call[p].ready) : call[p].ready[n] = copy
    BY <2>4 DEF DrawnInv
  <2>6. call[p].ready \in Seq(Copy) /\ DOMAIN call[p].ready = 1..Len(call[p].ready)
    BY <2>4, BusyFields, LenProperties
  <2>7. call[p] # Idle
    BY <2>4, IdleIsNotBusy
  <2>8. copy.branch \in {call[p].ready[m].branch : m \in DOMAIN call[p].ready}
    BY <2>5, <2>6
  <2>9. copy.branch \in BranchesOf(call[p].run)
    BY <2>7, <2>8 DEF BranchesOf
  <2> QED
    BY <2>4, <2>9
<1> HIDE DEF Found
<1>2. Spec => [][Found]_vars
  BY <1>1, ConvInvariant, DrawnInit, DrawnStep, PTL DEF Spec
<1> QED
  BY <1>2 DEF Found
================================================================================
