------------------------- MODULE MemoryEngineProofs -------------------------
(***************************************************************************)
(* Proofs about MemoryEngine: types, the safety properties of the runs,    *)
(* what brings a memory back, and why each gets its file; for every table  *)
(* of contents, bundle and bound.                                          *)
(*                                                                         *)
(* Calls are operators from one memory to the next, so the invariant is a  *)
(* predicate of a memory, Sound, and each operator gets the lemma that it  *)
(* keeps Sound and what the operators built on it need of it.              *)
(***************************************************************************)
EXTENDS MemoryEngine, FiniteSetTheorems, WellFoundedInduction, TLAPS

Tables == UNION {[I -> Row] : I \in SUBSET Nat}

Memories == [rows : Tables, next : Nat, ram : Tables, files : SUBSET Nat, dirty : SUBSET Nat,
             full : BOOLEAN, timer : BOOLEAN, failed : BOOLEAN,
             retired : SUBSET Nat, unseen : SUBSET Nat]

\* Ids that were handed out.
Past(m) == 1..(m.next - 1)

\* What a row, or a copy of one, may be: its id was handed out, it was retired if it
\* says so, and with a secret in it it is not active.
Judged(m, i, row) ==
    /\ i \in Past(m)
    /\ row.state = "expired" => i \in m.retired
    /\ row.content \in Flagged => row.state # "active"

Sound(m) ==
    /\ m \in Memories
    /\ m.next >= 1
    /\ m.files \subseteq DOMAIN m.rows /\ m.dirty \subseteq Past(m)
    /\ m.retired \subseteq Past(m) /\ m.unseen \subseteq Past(m)
    /\ \A i \in DOMAIN m.rows : Judged(m, i, m.rows[i])
    /\ \A i \in DOMAIN m.ram : Judged(m, i, m.ram[i])
    /\ \A i \in Past(m) : i \in DOMAIN m.rows \/ i \in m.retired

Tracked(m) ==
    \A i \in DOMAIN m.rows : m.rows[i].tier = "prefrontal" => i \in DOMAIN m.ram \cup m.unseen

\* No row comes or goes, none changes its content or gets back into the first tier,
\* and the history is kept.
SameRows(m, n) ==
    /\ m.retired \subseteq n.retired
    /\ DOMAIN n.rows = DOMAIN m.rows
    /\ \A i \in DOMAIN m.rows :
          /\ n.rows[i].content = m.rows[i].content
          /\ n.rows[i].tier = "prefrontal" => m.rows[i].tier = "prefrontal"

\* n is what a step inside a call may make of m; it settles if it brings nothing back.
Rewrites(m, n) ==
    /\ Sound(n)
    /\ n.next = m.next
    /\ SameRows(m, n)
    /\ Tracked(m) => Tracked(n)

Settles(m, n) == Rewrites(m, n) /\ Live(n) \subseteq Live(m)

\* What was live no longer is not live again.
Buries(m, n) == Live(n) \cap Past(m) \subseteq Live(m)

--------------------------------------------------------------------------------
(* Tables and rows.                                                         *)

\* A function from ids to rows is a table, and the other way round.
LEMMA TableIntro ==
    ASSUME NEW I \in SUBSET Nat, NEW t \in [I -> Row]
    PROVE  t \in Tables
BY DEF Tables

LEMMA TableElim ==
    ASSUME NEW t \in Tables
    PROVE  DOMAIN t \in SUBSET Nat /\ t \in [DOMAIN t -> Row]
<1>1. PICK I \in SUBSET Nat : t \in [I -> Row]
  BY DEF Tables
<1>2. DOMAIN t = I
  BY <1>1
<1> QED
  BY <1>1, <1>2

\* Fields of a memory have their types.
LEMMA Fields ==
    ASSUME NEW m \in Memories
    PROVE  /\ m.rows \in Tables /\ m.ram \in Tables /\ m.next \in Nat
           /\ m.files \in SUBSET Nat /\ m.dirty \in SUBSET Nat /\ m.retired \in SUBSET Nat
           /\ m.full \in BOOLEAN /\ m.timer \in BOOLEAN /\ m.failed \in BOOLEAN
           /\ m.unseen \in SUBSET Nat
BY DEF Memories

\* A step that keeps the rows and their contents, ages no row back into the first tier,
\* and gives a row a state that fits its content and the history, rewrites; it settles if
\* what is expired stays so.
LEMMA Patched ==
    ASSUME NEW m, Sound(m), NEW n \in Memories,
           n.next = m.next, n.ram = m.ram, n.unseen = m.unseen,
           m.retired \subseteq n.retired, n.retired \subseteq Past(m),
           n.files \subseteq DOMAIN m.rows, n.dirty \subseteq Past(m),
           DOMAIN n.rows = DOMAIN m.rows,
           \A i \in DOMAIN m.rows :
              /\ n.rows[i].content = m.rows[i].content
              /\ n.rows[i].tier = "prefrontal" => m.rows[i].tier = "prefrontal"
              /\ \/ n.rows[i].state = m.rows[i].state
                 \/ /\ n.rows[i].state = "expired" => i \in n.retired
                    /\ m.rows[i].content \in Flagged => n.rows[i].state # "active"
    PROVE  /\ Rewrites(m, n)
           /\ (\A i \in DOMAIN m.rows : m.rows[i].state = "expired" => n.rows[i].state = "expired")
                 => Settles(m, n)
<1>1. Past(n) = Past(m)
  BY DEF Past
<1>2. ASSUME NEW i \in DOMAIN n.rows PROVE Judged(n, i, n.rows[i])
  BY <1>1 DEF Sound, Judged
<1>3. ASSUME NEW i \in DOMAIN n.ram PROVE Judged(n, i, n.ram[i])
  BY <1>1 DEF Sound, Judged
<1>4. \A i \in Past(n) : i \in DOMAIN n.rows \/ i \in n.retired
  BY <1>1 DEF Sound
<1>5. Sound(n)
  BY <1>1, <1>2, <1>3, <1>4 DEF Sound
<1>6. SameRows(m, n)
  BY DEF SameRows
<1>7. Tracked(m) => Tracked(n)
  BY DEF Tracked
<1>8. Rewrites(m, n)
  BY <1>5, <1>6, <1>7 DEF Rewrites
<1>9. ASSUME \A i \in DOMAIN m.rows : m.rows[i].state = "expired" => n.rows[i].state = "expired"
      PROVE  Live(n) \subseteq Live(m)
  BY <1>9 DEF Live
<1> QED
  BY <1>8, <1>9 DEF Settles

\* Rewriting fields of rows in place.
LEMMA PatchedRows ==
    ASSUME NEW m, Sound(m), NEW t \in [DOMAIN m.rows -> Row],
           NEW retired \in SUBSET Past(m), m.retired \subseteq retired,
           \A i \in DOMAIN m.rows :
              /\ t[i].content = m.rows[i].content
              /\ t[i].tier = "prefrontal" => m.rows[i].tier = "prefrontal"
              /\ \/ t[i].state = m.rows[i].state
                 \/ /\ t[i].state = "expired" => i \in retired
                    /\ m.rows[i].content \in Flagged => t[i].state # "active"
    PROVE  LET n == [m EXCEPT !.rows = t, !.retired = retired]
           IN  /\ Rewrites(m, n)
               /\ (\A i \in DOMAIN m.rows : m.rows[i].state = "expired" => t[i].state = "expired")
                     => Settles(m, n)
<1> DEFINE n == [m EXCEPT !.rows = t, !.retired = retired]
<1>1. m \in Memories /\ Past(m) \subseteq Nat
  BY DEF Sound, Past
<1>2. t \in Tables /\ DOMAIN t = DOMAIN m.rows
  BY <1>1, Fields, TableElim, TableIntro
<1>3. n \in Memories
  BY <1>1, <1>2 DEF Memories
<1>4. /\ n.next = m.next /\ n.ram = m.ram /\ n.files = m.files /\ n.dirty = m.dirty
      /\ n.rows = t /\ n.retired = retired /\ n.unseen = m.unseen
  BY <1>1 DEF Memories
<1> HIDE DEF n
<1>5. /\ Rewrites(m, n)
      /\ (\A i \in DOMAIN m.rows : m.rows[i].state = "expired" => t[i].state = "expired")
            => Settles(m, n)
  BY <1>2, <1>3, <1>4, Patched DEF Sound
<1> QED
  BY <1>5 DEF n

\* SetState and SetTier are rewritings.
LEMMA SetStateIsPatch ==
    ASSUME NEW m, Sound(m), NEW ids, NEW state \in MemoryStates
    PROVE  LET t == [i \in DOMAIN m.rows |->
                        IF i \in ids THEN [m.rows[i] EXCEPT !.state = state] ELSE m.rows[i]]
           IN  /\ SetState(m, ids, state) = [m EXCEPT !.rows = t]
               /\ t \in [DOMAIN m.rows -> Row]
               /\ \A i \in DOMAIN m.rows :
                     /\ t[i].content = m.rows[i].content /\ t[i].tier = m.rows[i].tier
                     /\ t[i].state = IF i \in ids THEN state ELSE m.rows[i].state
<1> DEFINE t == [i \in DOMAIN m.rows |->
                   IF i \in ids THEN [m.rows[i] EXCEPT !.state = state] ELSE m.rows[i]]
<1>1. m.rows \in [DOMAIN m.rows -> Row]
  BY Fields, TableElim DEF Sound
<1>2. ASSUME NEW i \in DOMAIN m.rows
      PROVE  /\ t[i] \in Row
             /\ t[i].content = m.rows[i].content /\ t[i].tier = m.rows[i].tier
             /\ t[i].state = IF i \in ids THEN state ELSE m.rows[i].state
  <2>1. m.rows[i] \in Row
    BY <1>1
  <2> QED
    BY <2>1 DEF Row
<1> QED
  BY <1>2 DEF SetState

LEMMA SetStateSettles ==
    ASSUME NEW m, Sound(m), NEW ids \in SUBSET Live(m), NEW state \in {"quarantined", "scrap"}
    PROVE  Settles(m, SetState(m, ids, state))
<1> DEFINE t == [i \in DOMAIN m.rows |->
                   IF i \in ids THEN [m.rows[i] EXCEPT !.state = state] ELSE m.rows[i]]
<1>1. /\ SetState(m, ids, state) = [m EXCEPT !.rows = t]
      /\ t \in [DOMAIN m.rows -> Row]
      /\ \A i \in DOMAIN m.rows :
            /\ t[i].content = m.rows[i].content /\ t[i].tier = m.rows[i].tier
            /\ t[i].state = IF i \in ids THEN state ELSE m.rows[i].state
  <2>1. state \in MemoryStates
    BY DEF MemoryStates
  <2> QED
    BY <2>1, SetStateIsPatch
<1> HIDE DEF t
<1>2. /\ m.retired \in SUBSET Past(m)
      /\ \A i \in ids : m.rows[i].state # "expired"
  BY DEF Sound, Live
<1>3. Settles(m, [m EXCEPT !.rows = t, !.retired = m.retired])
  BY <1>1, <1>2, PatchedRows
<1>4. [m EXCEPT !.rows = t, !.retired = m.retired] = [m EXCEPT !.rows = t]
  BY DEF Sound, Memories
<1> QED
  BY <1>1, <1>3, <1>4

LEMMA SetTierSettles ==
    ASSUME NEW m, Sound(m), NEW ids, NEW tier \in {"hippocampus", "cortex"}
    PROVE  /\ Settles(m, SetTier(m, ids, tier))
           /\ SetTier(m, ids, tier).ram = m.ram /\ SetTier(m, ids, tier).unseen = m.unseen
           /\ \A i \in DOMAIN m.rows :
                 SetTier(m, ids, tier).rows[i].tier = IF i \in ids THEN tier ELSE m.rows[i].tier
<1> DEFINE t == [i \in DOMAIN m.rows |->
                   IF i \in ids THEN [m.rows[i] EXCEPT !.tier = tier] ELSE m.rows[i]]
<1>1. m.rows \in [DOMAIN m.rows -> Row]
  BY Fields, TableElim DEF Sound
<1>2. ASSUME NEW i \in DOMAIN m.rows
      PROVE  /\ t[i] \in Row
             /\ t[i].content = m.rows[i].content /\ t[i].state = m.rows[i].state
             /\ t[i].tier = IF i \in ids THEN tier ELSE m.rows[i].tier
  <2>1. m.rows[i] \in Row
    BY <1>1
  <2> QED
    BY <2>1 DEF Row, Tiers
<1>3. t \in [DOMAIN m.rows -> Row]
  BY <1>2
<1>4. SetTier(m, ids, tier) = [m EXCEPT !.rows = t]
  BY DEF SetTier
<1> HIDE DEF t
<1>5. m.retired \in SUBSET Past(m)
  BY DEF Sound
<1>6. Settles(m, [m EXCEPT !.rows = t, !.retired = m.retired])
  BY <1>2, <1>3, <1>5, PatchedRows
<1>7. [m EXCEPT !.rows = t, !.retired = m.retired] = [m EXCEPT !.rows = t]
  BY DEF Sound, Memories
<1>8. /\ [m EXCEPT !.rows = t].ram = m.ram /\ [m EXCEPT !.rows = t].rows = t
      /\ [m EXCEPT !.rows = t].unseen = m.unseen
  BY DEF Sound, Memories
<1> QED
  BY <1>2, <1>4, <1>6, <1>7, <1>8

\* What is marked expired enters the history.
LEMMA ExpireSettles ==
    ASSUME NEW m, Sound(m), NEW ids
    PROVE  /\ Settles(m, Expire(m, ids))
           /\ Expire(m, ids).ram = m.ram /\ Expire(m, ids).unseen = m.unseen
<1> DEFINE known == ids \cap DOMAIN m.rows
           t == [i \in DOMAIN m.rows |->
                   IF i \in known THEN [m.rows[i] EXCEPT !.state = "expired"] ELSE m.rows[i]]
<1>1. /\ SetState(m, known, "expired") = [m EXCEPT !.rows = t]
      /\ t \in [DOMAIN m.rows -> Row]
      /\ \A i \in DOMAIN m.rows :
            /\ t[i].content = m.rows[i].content /\ t[i].tier = m.rows[i].tier
            /\ t[i].state = IF i \in known THEN "expired" ELSE m.rows[i].state
  BY SetStateIsPatch DEF MemoryStates
<1>2. Expire(m, ids) = [[m EXCEPT !.rows = t] EXCEPT !.retired = @ \cup known]
  BY <1>1 DEF Expire
<1> HIDE DEF t
<1>3. [[m EXCEPT !.rows = t] EXCEPT !.retired = @ \cup known]
        = [m EXCEPT !.rows = t, !.retired = m.retired \cup known]
  BY DEF Sound, Memories
<1>4. m.retired \cup known \in SUBSET Past(m)
  BY DEF Sound, Judged
<1>5. Settles(m, [m EXCEPT !.rows = t, !.retired = m.retired \cup known])
  BY <1>1, <1>4, PatchedRows
<1>6. /\ [m EXCEPT !.rows = t, !.retired = m.retired \cup known].ram = m.ram
      /\ [m EXCEPT !.rows = t, !.retired = m.retired \cup known].unseen = m.unseen
  BY DEF Sound, Memories
<1> QED
  BY <1>2, <1>3, <1>5, <1>6

\* A request for a synchronisation, and its end, leave rows and working set alone.
LEMMA SyncVaultSettles ==
    ASSUME NEW m, Sound(m), NEW force \in BOOLEAN
    PROVE  Settles(m, SyncVault(m, force)) /\ SyncVault(m, force).ram = m.ram
<1> DEFINE n == SyncVault(m, force)
<1>1. m \in Memories
  BY DEF Sound
<1>2. /\ n \in Memories
      /\ n.next = m.next /\ n.ram = m.ram /\ n.files = m.files /\ n.dirty = m.dirty
      /\ n.rows = m.rows /\ n.retired = m.retired /\ n.unseen = m.unseen
  BY <1>1 DEF Memories, SyncVault
<1> HIDE DEF n
<1>3. Settles(m, n)
  BY <1>2, Patched DEF Sound
<1> QED
  BY <1>2, <1>3 DEF n

LEMMA MarkVaultDirtySettles ==
    ASSUME NEW m, Sound(m), NEW id \in Past(m)
    PROVE  Settles(m, MarkVaultDirty(m, id))
<1> DEFINE n == [m EXCEPT !.dirty = @ \cup {id}]
<1>1. m \in Memories
  BY DEF Sound
<1>2. Past(m) \subseteq Nat
  BY DEF Past
<1>3. /\ n \in Memories
      /\ n.next = m.next /\ n.ram = m.ram /\ n.files = m.files /\ n.dirty = m.dirty \cup {id}
      /\ n.rows = m.rows /\ n.retired = m.retired /\ n.unseen = m.unseen
  BY <1>1, <1>2 DEF Memories
<1> HIDE DEF n
<1>4. Settles(m, n)
  BY <1>3, Patched DEF Sound
<1>5. Settles(n, SyncVault(n, FALSE))
  BY <1>4, SyncVaultSettles DEF Settles, Rewrites
<1>6. MarkVaultDirty(m, id) = SyncVault(n, FALSE)
  BY DEF MarkVaultDirty, n
<1> QED
  BY <1>4, <1>5, <1>6 DEF Settles, Rewrites, SameRows

\* Steps that settle one after the other settle.
LEMMA SettlesTwice ==
    ASSUME NEW l, NEW m, NEW n, Settles(l, m), Settles(m, n)
    PROVE  Settles(l, n)
BY DEF Settles, Rewrites, SameRows

\* The end of a synchronisation, a good one or not.
Synced(m, files, dirty, full, failed) ==
    [m EXCEPT !.files = files, !.dirty = dirty, !.full = full, !.timer = FALSE, !.failed = failed]

LEMMA SyncedSettles ==
    ASSUME NEW m, Sound(m), NEW files \in SUBSET DOMAIN m.rows, NEW dirty \in SUBSET Past(m),
           NEW full \in BOOLEAN, NEW failed \in BOOLEAN
    PROVE  Settles(m, Synced(m, files, dirty, full, failed))
<1> DEFINE n == Synced(m, files, dirty, full, failed)
<1>1. m \in Memories /\ DOMAIN m.rows \subseteq Nat /\ Past(m) \subseteq Nat
  BY Fields, TableElim DEF Sound, Past
<1>2. /\ n \in Memories
      /\ n.next = m.next /\ n.ram = m.ram /\ n.files = files /\ n.dirty = dirty
      /\ n.rows = m.rows /\ n.retired = m.retired /\ n.unseen = m.unseen
  BY <1>1 DEF Memories, Synced
<1> HIDE DEF n
<1>3. Settles(m, n)
  BY <1>2, Patched DEF Sound
<1> QED
  BY <1>3 DEF n

LEMMA ExpireMemoriesSettles ==
    ASSUME NEW m, Sound(m)
    PROVE  Settles(m, ExpireMemories(m)) /\ Sound(ExpireMemories(m))
BY ExpireSettles DEF ExpireMemories, Settles, Rewrites

\* What FlushDirtyVault and SyncTorn come to, by the kind of synchronisation.
LEMMA FlushDirtyVaultSynced ==
    ASSUME NEW m, Sound(m), NEW force
    PROVE  LET e == ExpireMemories(m)
           IN  FlushDirtyVault(m, force) =
                  IF force \/ NeedsFull(m) THEN Synced(e, Live(e), {}, FALSE, FALSE)
                  ELSE Synced(e, (e.files \ e.dirty) \cup (e.dirty \cap Live(e)), {}, e.full, e.failed)
<1> DEFINE e == ExpireMemories(m)
<1>1. e \in Memories
  BY ExpireMemoriesSettles DEF Sound
<1>2. FlushDirtyVault(m, force) =
         IF force \/ NeedsFull(m)
         THEN [e EXCEPT !.files = Live(e), !.dirty = {}, !.full = FALSE, !.timer = FALSE,
                        !.failed = FALSE]
         ELSE [e EXCEPT !.files = (@ \ e.dirty) \cup (e.dirty \cap Live(e)),
                        !.dirty = {}, !.timer = FALSE]
  BY DEF FlushDirtyVault, SyncVaultFull
<1> HIDE DEF e
<1>3. \A files : [e EXCEPT !.files = files, !.dirty = {}, !.timer = FALSE]
                  = Synced(e, files, {}, e.full, e.failed)
  BY <1>1 DEF Synced, Memories
<1>4. [e EXCEPT !.files = (@ \ e.dirty) \cup (e.dirty \cap Live(e)), !.dirty = {}, !.timer = FALSE]
        = [e EXCEPT !.files = (e.files \ e.dirty) \cup (e.dirty \cap Live(e)),
                    !.dirty = {}, !.timer = FALSE]
  BY <1>1 DEF Memories
<1> QED
  BY <1>2, <1>3, <1>4 DEF Synced, e

LEMMA FlushDirtyVaultSettles ==
    ASSUME NEW m, Sound(m), NEW force
    PROVE  Settles(m, FlushDirtyVault(m, force))
<1> DEFINE e == ExpireMemories(m)
<1>1. Settles(m, e) /\ Sound(e)
  BY ExpireMemoriesSettles
<1>2. FlushDirtyVault(m, force) =
         IF force \/ NeedsFull(m) THEN Synced(e, Live(e), {}, FALSE, FALSE)
         ELSE Synced(e, (e.files \ e.dirty) \cup (e.dirty \cap Live(e)), {}, e.full, e.failed)
  BY FlushDirtyVaultSynced
<1> HIDE DEF e
<1>3. /\ Live(e) \subseteq DOMAIN e.rows
      /\ (e.files \ e.dirty) \cup (e.dirty \cap Live(e)) \subseteq DOMAIN e.rows
      /\ e.full \in BOOLEAN /\ e.failed \in BOOLEAN
  BY <1>1, Fields DEF Sound, Live
<1>4. Settles(e, FlushDirtyVault(m, force))
  BY <1>1, <1>2, <1>3, SyncedSettles
<1> QED
  BY <1>1, <1>4, SettlesTwice

LEMMA SyncTornSettles ==
    ASSUME NEW m, Sound(m), NEW force, NEW n \in SyncTorn(m, force)
    PROVE  Settles(m, n) /\ n.failed = TRUE
<1> DEFINE e == ExpireMemories(m)
           whole == force \/ NeedsFull(m)
           due == IF whole THEN Live(e) ELSE e.dirty \cap Live(e)
           dead == (IF whole THEN e.files ELSE e.dirty) \ Live(e)
           begun == IF whole THEN {FirstOf(due, e.rows, TRUE, k) : k \in 0..Cardinality(due)}
                    ELSE SUBSET due
           torn == {e.files \cup written : written \in begun}
                      \cup {(e.files \cup due) \ removed : removed \in SUBSET dead}
           dirty == IF whole THEN e.dirty ELSE {}
<1>1. Settles(m, e) /\ Sound(e) /\ e \in Memories
  BY ExpireMemoriesSettles DEF Sound
<1>2. PICK files \in torn :
         n = [e EXCEPT !.files = files, !.timer = FALSE, !.failed = TRUE,
                       !.dirty = IF whole THEN @ ELSE {}]
  BY DEF SyncTorn
<1> HIDE DEF e, whole
<1>3. due \subseteq DOMAIN e.rows /\ e.files \subseteq DOMAIN e.rows
  BY <1>1 DEF Sound, Live
<1>4. \A written \in begun : written \subseteq due
  BY DEF FirstOf
<1> HIDE DEF due, begun, dead
<1>5. files \in SUBSET DOMAIN e.rows
  <2>1. CASE \E written \in begun : files = e.files \cup written
    BY <2>1, <1>3, <1>4
  <2>2. CASE \E removed \in SUBSET dead : files = (e.files \cup due) \ removed
    BY <2>2, <1>3
  <2> QED
    BY <1>2, <2>1, <2>2
<1> HIDE DEF torn
<1>6. n = Synced(e, files, dirty, e.full, TRUE)
  BY <1>1, <1>2 DEF Synced, Memories
<1>7. dirty \in SUBSET Past(e) /\ e.full \in BOOLEAN
  BY <1>1, Fields DEF Sound
<1> HIDE DEF dirty
<1>8. Settles(e, n)
  BY <1>1, <1>5, <1>6, <1>7, SyncedSettles
<1>9. n.failed = TRUE
  BY <1>1, <1>6 DEF Synced, Memories
<1> QED
  BY <1>1, <1>8, <1>9, SettlesTwice

--------------------------------------------------------------------------------
(* Working set and store.                                                   *)

\* Another working set, of items that may be items.
LEMMA RamReplaced ==
    ASSUME NEW m, Sound(m), NEW I \in SUBSET Past(m), NEW r \in [I -> Row],
           \A i \in I : Judged(m, i, r[i])
    PROVE  LET n == [m EXCEPT !.ram = r]
           IN  /\ Sound(n) /\ n.ram = r /\ n.rows = m.rows /\ n.next = m.next
               /\ n.retired = m.retired /\ n.unseen = m.unseen
<1> DEFINE n == [m EXCEPT !.ram = r]
<1>1. m \in Memories /\ I \in SUBSET Nat
  BY DEF Sound, Past
<1>2. r \in Tables
  BY <1>1, TableIntro
<1>3. /\ n \in Memories
      /\ n.next = m.next /\ n.ram = r /\ n.files = m.files /\ n.dirty = m.dirty
      /\ n.rows = m.rows /\ n.retired = m.retired /\ n.unseen = m.unseen
  BY <1>1, <1>2 DEF Memories
<1> HIDE DEF n
<1>4. Past(n) = Past(m)
  BY <1>3 DEF Past
<1>5. ASSUME NEW i \in DOMAIN n.rows PROVE Judged(n, i, n.rows[i])
  BY <1>3, <1>4 DEF Sound, Judged
<1>6. ASSUME NEW i \in DOMAIN n.ram PROVE Judged(n, i, n.ram[i])
  BY <1>3, <1>4 DEF Judged
<1>7. Sound(n)
  BY <1>3, <1>4, <1>5, <1>6 DEF Sound
<1> QED
  BY <1>3, <1>7 DEF n

LEMMA CompactedSettles ==
    ASSUME NEW m, Sound(m)
    PROVE  Settles(m, Compacted(m)) /\ Compacted(m).ram = m.ram
<1> DEFINE hippo == {i \in DOMAIN m.rows : m.rows[i].tier = "hippocampus"}
           ids == FirstOf(hippo, m.rows, FALSE, Cardinality(hippo) - MaxHippocampus)
<1>1. Compacted(m) = SetTier(m, ids, "cortex")
  BY DEF Compacted
<1> HIDE DEF ids
<1> QED
  BY <1>1, SetTierSettles

\* Consolidation: what leaves the working set leaves the first tier.
LEMMA ConsolidateSettles ==
    ASSUME NEW m, Sound(m)
    PROVE  Settles(m, Consolidate(m))
<1> DEFINE kept == FirstOf(DOMAIN m.ram, m.ram, FALSE, (MaxPrefrontal + 1) \div 2)
           left == DOMAIN m.ram \ kept
           r == [i \in kept |-> m.ram[i]]
           m1 == [m EXCEPT !.ram = r]
           m2 == Demoted(m1, left)
           m3 == Compacted(m2)
<1>1. kept \subseteq DOMAIN m.ram
  BY DEF FirstOf
<1>2. Consolidate(m) = SyncVault(m3, TRUE)
  BY DEF Consolidate
<1> HIDE DEF kept
<1>3. /\ m.ram \in [DOMAIN m.ram -> Row]
      /\ \A i \in DOMAIN m.ram : Judged(m, i, m.ram[i])
      /\ DOMAIN m.ram \subseteq Past(m)
  BY Fields, TableElim DEF Sound, Judged
<1>4. r \in [kept -> Row] /\ (\A i \in kept : Judged(m, i, r[i])) /\ kept \in SUBSET Past(m)
  BY <1>1, <1>3
<1> HIDE DEF r
<1>5. /\ Sound(m1) /\ m1.ram = r /\ m1.rows = m.rows /\ m1.next = m.next
      /\ m1.retired = m.retired /\ m1.unseen = m.unseen
  BY <1>4, RamReplaced
<1> HIDE DEF m1
<1>6. /\ Settles(m1, m2) /\ m2.ram = r /\ m2.unseen = m.unseen
      /\ \A i \in DOMAIN m.rows :
            m2.rows[i].tier = IF i \in left THEN "hippocampus" ELSE m.rows[i].tier
  BY <1>5, SetTierSettles DEF Demoted
<1>7. DOMAIN m2.rows = DOMAIN m.rows
  BY <1>5, <1>6 DEF Settles, Rewrites, SameRows
<1>8. Tracked(m) => Tracked(m2)
  BY <1>4, <1>6, <1>7 DEF Tracked
<1>9. Settles(m, m2)
  BY <1>5, <1>6, <1>8 DEF Settles, Rewrites, SameRows, Live
<1> HIDE DEF m2
<1>10. Settles(m2, m3)
  BY <1>9, CompactedSettles DEF Settles, Rewrites
<1> HIDE DEF m3
<1>11. Settles(m3, SyncVault(m3, TRUE))
  BY <1>10, SyncVaultSettles DEF Settles, Rewrites
<1> QED
  BY <1>2, <1>9, <1>10, <1>11, SettlesTwice

LEMMA FissionSettles ==
    ASSUME NEW m, Sound(m), NEW id
    PROVE  Settles(m, Fission(m, id))
<1>1. Settles(m, m)
  BY DEF Settles, Rewrites, SameRows
<1> QED
  BY <1>1, SetTierSettles DEF Fission

\* The state that a checked content is stored with.
LEMMA InferStateFacts ==
    ASSUME NEW m, NEW c
    PROVE  /\ InferState(m, c) \in MemoryStates /\ FactState(m, c) \in MemoryStates
           /\ c \in Flagged => InferState(m, c) # "active" /\ FactState(m, c) # "active"
BY DEF InferState, FactState, CheckContent, MemoryStates

\* An insertion takes the next id; every other row stays.
LEMMA InsertedFacts ==
    ASSUME NEW m, Sound(m), NEW c \in Contents, NEW state \in MemoryStates,
           c \in Flagged => state # "active"
    PROVE  LET n == Inserted(m, Fresh(c, state))
           IN  /\ Sound(n) /\ n.next = m.next + 1 /\ n.ram = m.ram /\ n.unseen = m.unseen
               /\ DOMAIN n.rows = DOMAIN m.rows \cup {m.next}
               /\ n.rows[m.next] = Fresh(c, state)
               /\ m.next \notin DOMAIN m.rows
               /\ \A i \in DOMAIN m.rows : n.rows[i] = m.rows[i]
               /\ m.next \in n.retired <=> state = "expired"
               /\ Live(n) \subseteq Live(m) \cup {m.next}
<1> DEFINE row == Fresh(c, state)
           n == Inserted(m, row)
           t == With(m.rows, m.next, row)
           retired == IF state = "expired" THEN m.retired \cup {m.next} ELSE m.retired
<1>1. m \in Memories /\ m.next \in Nat \ {0}
  BY Fields DEF Sound
<1>2. row \in Row /\ row.state = state /\ row.content = c
  BY DEF Fresh, Row, Tiers
<1>3. m.rows \in [DOMAIN m.rows -> Row] /\ DOMAIN m.rows \in SUBSET Nat
  BY <1>1, Fields, TableElim
<1>4. m.next \notin Past(m) /\ m.next \notin DOMAIN m.rows /\ m.next \notin m.retired
  BY <1>1 DEF Past, Sound, Judged
<1>5. /\ DOMAIN t = DOMAIN m.rows \cup {m.next}
      /\ t[m.next] = row
      /\ \A i \in DOMAIN m.rows : t[i] = m.rows[i]
  BY <1>4 DEF With
<1>6. t \in [DOMAIN m.rows \cup {m.next} -> Row]
  BY <1>2, <1>3 DEF With
<1>7. t \in Tables
  BY <1>1, <1>3, <1>6, TableIntro
<1>8. n = [m EXCEPT !.next = m.next + 1, !.rows = t, !.retired = retired]
  BY <1>1, <1>2 DEF Inserted
<1>9. retired \in SUBSET Nat /\ m.next + 1 \in Nat
  BY <1>1, Fields
<1> HIDE DEF t, retired
<1>10. /\ n \in Memories
       /\ n.next = m.next + 1 /\ n.ram = m.ram /\ n.files = m.files /\ n.dirty = m.dirty
       /\ n.rows = t /\ n.retired = retired /\ n.unseen = m.unseen
  BY <1>1, <1>7, <1>8, <1>9 DEF Memories
<1> HIDE DEF n, row
<1>11. Past(n) = Past(m) \cup {m.next}
  BY <1>1, <1>10 DEF Past
<1>12. retired \subseteq Past(n) /\ m.retired \subseteq retired
       /\ (m.next \in retired <=> state = "expired")
  BY <1>4, <1>11 DEF Sound, retired
<1>13. ASSUME NEW i \in DOMAIN n.rows PROVE Judged(n, i, n.rows[i])
  <2>1. CASE i = m.next
    BY <2>1, <1>2, <1>5, <1>10, <1>11, <1>12 DEF Judged
  <2>2. CASE i \in DOMAIN m.rows
    BY <2>2, <1>5, <1>10, <1>11, <1>12 DEF Sound, Judged
  <2> QED
    BY <2>1, <2>2, <1>5, <1>10
<1>14. ASSUME NEW i \in DOMAIN n.ram PROVE Judged(n, i, n.ram[i])
  BY <1>10, <1>11, <1>12 DEF Sound, Judged
<1>15. \A i \in Past(n) : i \in DOMAIN n.rows \/ i \in n.retired
  BY <1>5, <1>10, <1>11, <1>12 DEF Sound
<1>16. Sound(n)
  BY <1>1, <1>5, <1>10, <1>11, <1>12, <1>13, <1>14, <1>15 DEF Sound
<1>17. Live(n) \subseteq Live(m) \cup {m.next}
  BY <1>5, <1>10 DEF Live
<1> QED
  BY <1>4, <1>5, <1>10, <1>12, <1>16, <1>17 DEF n, row

\* A store before the working set is consolidated: one row of the content is new, in the
\* working set too, and nothing else comes, goes or changes content.
Young(m, c, state, superseded) ==
    LET expired == Expire(Inserted(m, Fresh(c, state)), superseded)
    IN  [expired EXCEPT !.ram = With(@, m.next, Fresh(c, state))]

LEMMA YoungFacts ==
    ASSUME NEW m, Sound(m), NEW c \in Contents, NEW state \in MemoryStates,
           c \in Flagged => state # "active", NEW superseded
    PROVE  LET n == Young(m, c, state, superseded)
           IN  /\ Sound(n) /\ n.next = m.next + 1
               /\ Tracked(m) => Tracked(n)
               /\ DOMAIN n.rows = DOMAIN m.rows \cup {m.next}
               /\ \A i \in DOMAIN m.rows : n.rows[i].content = m.rows[i].content
               /\ n.rows[m.next].content = c
               /\ m.next \notin DOMAIN m.rows /\ m.next \in Past(n)
               /\ Live(n) \subseteq Live(m) \cup {m.next}
<1> DEFINE id == m.next
           row == Fresh(c, state)
           ins == Inserted(m, row)
           ex == Expire(ins, superseded)
           ram == With(ex.ram, id, row)
           young == [ex EXCEPT !.ram = ram]
<1>1. /\ Sound(ins) /\ ins.next = id + 1 /\ ins.ram = m.ram /\ ins.unseen = m.unseen
      /\ DOMAIN ins.rows = DOMAIN m.rows \cup {id}
      /\ ins.rows[id] = row
      /\ id \notin DOMAIN m.rows
      /\ \A i \in DOMAIN m.rows : ins.rows[i] = m.rows[i]
      /\ id \in ins.retired <=> state = "expired"
      /\ Live(ins) \subseteq Live(m) \cup {id}
  BY InsertedFacts
<1>2. row \in Row /\ row.state = state /\ row.content = c
  BY DEF Fresh, Row, Tiers
<1> HIDE DEF ins, row
<1>3. Settles(ins, ex) /\ ex.ram = m.ram /\ ex.unseen = m.unseen
  BY <1>1, ExpireSettles
<1> HIDE DEF ex
<1>4. Sound(ex) /\ ex.next = id + 1 /\ id \in Past(ex)
  <2>1. id \in Nat \ {0}
    BY Fields DEF Sound
  <2> QED
    BY <1>1, <1>3, <2>1 DEF Settles, Rewrites, Past
<1>5. /\ ex.ram \in [DOMAIN ex.ram -> Row]
      /\ \A i \in DOMAIN ex.ram : Judged(ex, i, ex.ram[i])
      /\ DOMAIN ex.ram \subseteq Past(ex)
  BY <1>4, Fields, TableElim DEF Sound, Judged
<1>6. Judged(ex, id, row)
  BY <1>1, <1>2, <1>3, <1>4 DEF Settles, Rewrites, SameRows, Judged
<1>7. ram \in [DOMAIN ex.ram \cup {id} -> Row]
  BY <1>2, <1>5 DEF With
<1>8. \A i \in DOMAIN ex.ram \cup {id} : Judged(ex, i, ram[i])
  BY <1>5, <1>6 DEF With
<1>9. DOMAIN ex.ram \cup {id} \in SUBSET Past(ex)
  BY <1>4, <1>5
<1> HIDE DEF ram
<1>10. /\ Sound(young) /\ young.ram = ram /\ young.rows = ex.rows /\ young.next = ex.next
       /\ young.unseen = m.unseen
  BY <1>3, <1>4, <1>7, <1>8, <1>9, RamReplaced
<1>11. Young(m, c, state, superseded) = young
  BY DEF Young, young, ram, ex, ins, row
<1> HIDE DEF young
<1>12. Tracked(m) => Tracked(young)
  BY <1>1, <1>3, <1>7, <1>10 DEF Tracked, Settles, Rewrites, SameRows
<1>13. Live(young) \subseteq Live(m) \cup {id}
  BY <1>1, <1>3, <1>10 DEF Settles, Live
<1>14. id \in Past(young)
  BY <1>4, <1>10 DEF Past
<1> QED
  BY <1>1, <1>2, <1>3, <1>10, <1>11, <1>12, <1>13, <1>14 DEF Settles, Rewrites, SameRows

\* The working set is consolidated if it is overfull.
Settled(young) == IF Cardinality(DOMAIN young.ram) > MaxPrefrontal THEN Consolidate(young) ELSE young

LEMMA StoreUnfolds ==
    ASSUME NEW m, NEW c, NEW state, NEW superseded
    PROVE  Store(m, c, state, superseded) =
              MarkVaultDirty(Fission(Settled(Young(m, c, state, superseded)), m.next), m.next)
BY DEF Store, Settled, Young

\* A store adds one row of its content, and nothing else comes, goes or changes content.
LEMMA StoreFacts ==
    ASSUME NEW m, Sound(m), NEW c \in Contents, NEW state \in MemoryStates,
           c \in Flagged => state # "active", NEW superseded
    PROVE  LET n == Store(m, c, state, superseded)
           IN  /\ Sound(n) /\ n.next = m.next + 1
               /\ Tracked(m) => Tracked(n)
               /\ DOMAIN n.rows = DOMAIN m.rows \cup {m.next}
               /\ \A i \in DOMAIN m.rows : n.rows[i].content = m.rows[i].content
               /\ n.rows[m.next].content = c
               /\ m.next \notin DOMAIN m.rows
               /\ Live(n) \subseteq Live(m) \cup {m.next}
<1> DEFINE id == m.next
           young == Young(m, c, state, superseded)
           settled == Settled(young)
           split == Fission(settled, id)
<1>1. /\ Sound(young) /\ young.next = id + 1
      /\ Tracked(m) => Tracked(young)
      /\ DOMAIN young.rows = DOMAIN m.rows \cup {id}
      /\ \A i \in DOMAIN m.rows : young.rows[i].content = m.rows[i].content
      /\ young.rows[id].content = c
      /\ id \notin DOMAIN m.rows /\ id \in Past(young)
      /\ Live(young) \subseteq Live(m) \cup {id}
  BY YoungFacts
<1>2. Store(m, c, state, superseded) = MarkVaultDirty(split, id)
  BY StoreUnfolds
<1> HIDE DEF young
<1>3. Settles(young, settled)
  BY <1>1, ConsolidateSettles DEF Settled, Settles, Rewrites, SameRows
<1> HIDE DEF settled
<1>4. Settles(settled, split)
  BY <1>3, FissionSettles DEF Settles, Rewrites
<1> HIDE DEF split
<1>5. Settles(split, MarkVaultDirty(split, id))
  BY <1>1, <1>3, <1>4, MarkVaultDirtySettles DEF Settles, Rewrites, Past
<1>6. Settles(young, MarkVaultDirty(split, id))
  BY <1>3, <1>4, <1>5, SettlesTwice
<1> QED
  BY <1>1, <1>2, <1>6 DEF Settles, Rewrites, SameRows

--------------------------------------------------------------------------------
(* Calls that store.                                                        *)

\* n is what a call that inserts at most k rows may make of m.
Grows(m, n, k) ==
    /\ Sound(n)
    /\ m.next <= n.next /\ n.next <= m.next + k
    /\ Tracked(m) => Tracked(n)

\* Such a call, if it is not a flush or an import, brings nothing back either.
Stores(m, n, k) == Grows(m, n, k) /\ Buries(m, n)

LEMMA StoreFactGrows ==
    ASSUME NEW m, Sound(m), NEW c \in Contents
    PROVE  Stores(m, StoreFact(m, c), 1)
<1>1. m.next \in Nat /\ m.next \notin Past(m)
  BY Fields DEF Sound, Past
<1>2. Stores(m, m, 1)
  BY <1>1 DEF Stores, Buries, Grows
<1>3. \A ids : Stores(m, Expire(m, ids), 1)
  BY <1>1, ExpireSettles DEF Stores, Buries, Grows, Settles, Rewrites
<1>4. \A superseded : Stores(m, Store(m, c, "quarantined", superseded), 1)
  BY <1>1, StoreFacts DEF Stores, Buries, Grows, MemoryStates
<1>5. \A superseded : Stores(m, Store(m, c, FactState(m, c), superseded), 1)
  <2>1. FactState(m, c) \in MemoryStates /\ (c \in Flagged => FactState(m, c) # "active")
    BY InferStateFacts
  <2> QED
    BY <1>1, <2>1, StoreFacts DEF Stores, Buries, Grows
<1> DEFINE decision == Decide(m, c)
<1> HIDE DEF decision
<1>6. StoreFact(m, c) = CASE decision.action = "DELETE" -> Expire(m, decision.ids)
                          [] decision.action = "NONE" -> m
                          [] decision.action = "QUARANTINE" -> Store(m, c, "quarantined", {})
                          [] decision.action = "UPDATE" ->
                                Store(m, c, FactState(m, c), decision.ids)
                          [] OTHER -> Store(m, c, FactState(m, c), {})
  BY DEF StoreFact, decision
<1> QED
  BY <1>2, <1>3, <1>4, <1>5, <1>6

\* The first element of a set of naturals.
LEMMA Least ==
    ASSUME NEW S \in SUBSET Nat, S # {}
    PROVE  \E x \in S : \A y \in S : x <= y
<1>1. PICK x \in S : \A y \in S : ~(<<y, x>> \in OpToRel(<, Nat))
  BY NatLessThanWellFounded, WFMin
<1>2. \A y \in S : ~(y < x)
  BY <1>1 DEF OpToRel
<1> QED
  BY <1>2

\* The memories between the facts of a content, as a function on 0..n.
AfterFacts(m, facts, n, f) ==
    f = [k \in 0..n |-> IF k = 0 THEN m ELSE StoreFact(f[k - 1], facts[k])]

\* The recursion over the facts defines a function: a shortest list of facts for which
\* it did not would have a shorter one, whose function it extends.
LEMMA AfterFactsExists ==
    ASSUME NEW m, NEW facts, NEW n \in Nat
    PROVE  \E f : AfterFacts(m, facts, n, f)
<1> DEFINE Bad == {k \in Nat : ~(\E f : AfterFacts(m, facts, k, f))}
<1> SUFFICES ASSUME Bad # {} PROVE FALSE
  OBVIOUS
<1>1. PICK k \in Bad : \A j \in Bad : k <= j
  BY Least
<1>2. CASE k = 0
  <2> DEFINE f == [j \in 0..0 |-> m]
  <2>1. f = [j \in 0..0 |-> IF j = 0 THEN m ELSE StoreFact(f[j - 1], facts[j])]
    OBVIOUS
  <2> QED
    BY <1>1, <1>2, <2>1 DEF AfterFacts
<1>3. CASE k # 0
  <2>1. k - 1 \in Nat /\ k - 1 \notin Bad
    BY <1>1, <1>3
  <2>2. PICK g : AfterFacts(m, facts, k - 1, g)
    BY <2>1
  <2> DEFINE f == [j \in 0..k |-> IF j = k THEN StoreFact(g[k - 1], facts[k]) ELSE g[j]]
  <2>3. g = [j \in 0..(k - 1) |-> IF j = 0 THEN m ELSE StoreFact(g[j - 1], facts[j])]
    BY <2>2 DEF AfterFacts
  <2>4. ASSUME NEW j \in 0..k
        PROVE  f[j] = IF j = 0 THEN m ELSE StoreFact(f[j - 1], facts[j])
    <3>1. CASE j = k
      BY <3>1, <2>1, <1>3
    <3>2. CASE j # k /\ j = 0
      BY <3>2, <2>1, <2>3
    <3>3. CASE j # k /\ j # 0
      <4>1. j \in 0..(k - 1) /\ j - 1 \in 0..k /\ j - 1 # k
        BY <3>3, <1>1
      <4>2. g[j] = StoreFact(g[j - 1], facts[j])
        BY <4>1, <3>3, <2>3
      <4> QED
        BY <4>1, <4>2, <3>3
    <3> QED
      BY <3>1, <3>2, <3>3
  <2>5. f = [j \in 0..k |-> IF j = 0 THEN m ELSE StoreFact(f[j - 1], facts[j])]
    <3> HIDE DEF f
    <3>1. f = [j \in 0..k |-> f[j]]
      BY DEF f
    <3> QED
      BY <2>4, <3>1
  <2> QED
    BY <1>1, <2>5 DEF AfterFacts
<1> QED
  BY <1>2, <1>3

\* After k facts at most k rows are new, by induction over the facts.
LEMMA AfterFactsGrows ==
    ASSUME NEW m, Sound(m), NEW facts \in Seq(Contents), NEW f,
           AfterFacts(m, facts, Len(facts), f)
    PROVE  Stores(m, f[Len(facts)], Len(facts))
<1> DEFINE n == Len(facts)
           Bad == {k \in 0..n : ~Stores(m, f[k], k)}
<1>1. n \in Nat /\ m.next \in Nat
  BY Fields DEF Sound
<1>2. f = [k \in 0..n |-> IF k = 0 THEN m ELSE StoreFact(f[k - 1], facts[k])]
  BY DEF AfterFacts
<1>3. SUFFICES ASSUME Bad # {} PROVE FALSE
  BY <1>1
<1>4. PICK k \in Bad : \A j \in Bad : k <= j
  <2>1. Bad \in SUBSET Nat
    BY <1>1
  <2> QED
    BY <1>3, <2>1, Least
<1>5. CASE k = 0
  <2>1. f[0] = m
    BY <1>1, <1>2
  <2> QED
    BY <1>1, <1>4, <1>5, <2>1 DEF Stores, Buries, Grows
<1>6. CASE k # 0
  <2>1. k \in 1..n /\ k - 1 \in 0..n /\ k - 1 \notin Bad /\ k \in Nat
    BY <1>1, <1>4, <1>6
  <2>2. Stores(m, f[k - 1], k - 1)
    BY <2>1
  <2>3. f[k] = StoreFact(f[k - 1], facts[k]) /\ facts[k] \in Contents
    BY <1>2, <1>6, <2>1
  <2>4. Stores(f[k - 1], f[k], 1)
    BY <2>2, <2>3, StoreFactGrows DEF Stores, Grows
  <2>5. f[k].next \in Nat /\ f[k - 1].next \in Nat
    BY <2>2, <2>4, Fields DEF Stores, Grows, Sound
  <2>6. Past(m) \subseteq Past(f[k - 1])
    BY <1>1, <2>2, <2>5 DEF Stores, Grows, Past
  <2>7. Stores(m, f[k], k)
    BY <1>1, <2>1, <2>2, <2>4, <2>5, <2>6 DEF Stores, Buries, Grows
  <2> QED
    BY <1>4, <2>7
<1> QED
  BY <1>5, <1>6

LEMMA Synchronised ==
    ASSUME NEW m, NEW n, NEW k, Grows(m, n, k)
    PROVE  /\ Grows(m, SyncVault(n, TRUE), k) /\ SyncVault(n, TRUE).next = n.next
           /\ Live(SyncVault(n, TRUE)) \subseteq Live(n)
BY SyncVaultSettles DEF Grows, Settles, Rewrites

LEMMA StoreWithControlPlaneGrows ==
    ASSUME NEW m, Sound(m), NEW c \in Contents
    PROVE  Stores(m, StoreWithControlPlane(m, c), Len(Facts[c]))
<1> DEFINE facts == Facts[c]
           after == CHOOSE f : AfterFacts(m, facts, Len(facts), f)
<1>1. facts \in Seq(Contents) /\ Len(facts) \in Nat
  BY FactsAssumption
<1>2. StoreWithControlPlane(m, c) = SyncVault(after[Len(facts)], TRUE)
  BY DEF StoreWithControlPlane, AfterFacts
<1> HIDE DEF facts
<1>3. AfterFacts(m, facts, Len(facts), after)
  BY <1>1, AfterFactsExists
<1> HIDE DEF after
<1>4. Stores(m, after[Len(facts)], Len(facts))
  BY <1>1, <1>3, AfterFactsGrows
<1> QED
  BY <1>2, <1>4, Synchronised DEF Stores, Buries, facts

\* A content of which nothing was stored is stored whole, in the place of its first fact.
LEMMA StoreMemoryGrows ==
    ASSUME NEW m, Sound(m), NEW c \in Contents
    PROVE  Stores(m, StoreMemory(m, c), Len(Facts[c]))
<1> DEFINE n == StoreWithControlPlane(m, c)
<1>1. Stores(m, n, Len(Facts[c]))
  BY StoreWithControlPlaneGrows
<1> HIDE DEF n
<1>2. InferState(n, c) \in MemoryStates /\ (c \in Flagged => InferState(n, c) # "active")
  BY InferStateFacts
<1>3. Len(Facts[c]) \in Nat \ {0}
  <2>1. Facts[c] \in Seq(Contents) /\ Facts[c] # <<>>
    BY FactsAssumption
  <2> QED
    BY <2>1
<1>4. m.next \in Nat /\ m.next \notin Past(m)
  BY Fields DEF Sound, Past
<1>5. CASE n.next = m.next
  <2> DEFINE whole == Store(n, c, InferState(n, c), {})
  <2>1. Sound(whole) /\ whole.next = n.next + 1 /\ (Tracked(n) => Tracked(whole))
        /\ Live(whole) \subseteq Live(n) \cup {n.next}
    BY <1>1, <1>2, StoreFacts DEF Stores, Grows
  <2>2. StoreMemory(m, c) = whole
    BY <1>5 DEF StoreMemory, n
  <2> HIDE DEF whole
  <2> QED
    BY <1>1, <1>3, <1>4, <1>5, <2>1, <2>2 DEF Stores, Buries, Grows
<1>6. CASE n.next # m.next
  BY <1>1, <1>6 DEF StoreMemory, n
<1> QED
  BY <1>5, <1>6

--------------------------------------------------------------------------------
(* Import.                                                                  *)

\* The table of fingerprints, and what an import is in between two items: the table
\* points at rows of the content it is asked for.
Fingers == UNION {[C -> Nat] : C \in SUBSET Contents}

Importing(s) ==
    /\ s \in [mem : Memories, known : Fingers]
    /\ Sound(s.mem)
    /\ \A c \in DOMAIN s.known :
          s.known[c] \in DOMAIN s.mem.rows /\ s.mem.rows[s.known[c]].content = c

LEMMA FingersElim ==
    ASSUME NEW known \in Fingers
    PROVE  DOMAIN known \in SUBSET Contents /\ known \in [DOMAIN known -> Nat]
<1>1. PICK C \in SUBSET Contents : known \in [C -> Nat]
  BY DEF Fingers
<1>2. DOMAIN known = C
  BY <1>1
<1> QED
  BY <1>1, <1>2

\* The last of a set of ids.
LEMMA Greatest ==
    ASSUME NEW n \in Nat, NEW S \in SUBSET (1..n), S # {}
    PROVE  \E x \in S : \A y \in S : y <= x
<1> DEFINE T == {n - i : i \in S}
<1>1. T \in SUBSET Nat /\ T # {}
  <2>1. \A i \in S : n - i \in Nat
    OBVIOUS
  <2> QED
    BY <2>1
<1>2. PICK z \in T : \A t \in T : z <= t
  BY <1>1, Least
<1>3. PICK x \in S : z = n - x
  BY <1>2
<1>4. ASSUME NEW y \in S PROVE y <= x
  <2>1. n - x <= n - y
    BY <1>2, <1>3
  <2> QED
    BY <2>1
<1> QED
  BY <1>4

LEMMA FingerprintsFacts ==
    ASSUME NEW m, Sound(m)
    PROVE  Importing([mem |-> m, known |-> Fingerprints(m)])
<1> DEFINE Same(c) == {i \in Live(m) : m.rows[i].content = c}
           C == {m.rows[i].content : i \in Live(m)}
           Newest(c) == CHOOSE i \in Same(c) : \A j \in Same(c) : j <= i
           known == [c \in C |-> Newest(c)]
           s == [mem |-> m, known |-> known]
<1>1. m.next - 1 \in Nat /\ Live(m) \subseteq 1..(m.next - 1) /\ Live(m) \subseteq DOMAIN m.rows
  BY Fields DEF Sound, Judged, Past, Live
<1>2. C \subseteq Contents
  <2>1. \A i \in DOMAIN m.rows : m.rows[i] \in Row
    BY Fields, TableElim DEF Sound
  <2> QED
    BY <1>1, <2>1 DEF Row
<1>3. ASSUME NEW c \in C PROVE Newest(c) \in Same(c)
  <2>1. Same(c) # {} /\ Same(c) \in SUBSET (1..(m.next - 1))
    BY <1>1
  <2>2. \E i \in Same(c) : \A j \in Same(c) : j <= i
    BY <1>1, <2>1, Greatest
  <2> QED
    BY <2>2
<1> HIDE DEF Newest
<1>4. \A c \in C : Newest(c) \in Nat
  BY <1>1, <1>3
<1>5. known \in [C -> Nat]
  BY <1>4
<1>6. known \in Fingers
  BY <1>2, <1>5 DEF Fingers
<1>7. \A c \in DOMAIN known : known[c] \in DOMAIN m.rows /\ m.rows[known[c]].content = c
  BY <1>1, <1>3
<1>8. Fingerprints(m) = known
  BY DEF Fingerprints, Newest
<1> HIDE DEF known
<1>9. s \in [mem : Memories, known : Fingers] /\ s.mem = m /\ s.known = known
  BY <1>6 DEF Sound
<1> QED
  BY <1>7, <1>8, <1>9 DEF Importing

LEMMA ImportedStateFacts ==
    ASSUME NEW m, NEW item \in Item
    PROVE  /\ ImportedState(m, item) \in MemoryStates
           /\ item.content \in Flagged => ImportedState(m, item) # "active"
BY DEF ImportedState, CheckContent, Item, MemoryStates

\* An update of the row that the table of fingerprints points at.
LEMMA MergedRewrites ==
    ASSUME NEW m, Sound(m), NEW item \in Item, NEW id \in DOMAIN m.rows,
           m.rows[id].content = item.content
    PROVE  Rewrites(m, Merged(m, id, item))
<1> DEFINE state == ImportedState(m, item)
           row == [m.rows[id] EXCEPT !.state = state, !.used = @ \/ item.used,
                                     !.stale = @ /\ item.stale]
           t == [m.rows EXCEPT ![id] = row]
           retired == IF state = "expired" THEN m.retired \cup {id} ELSE m.retired
<1>1. state \in MemoryStates /\ (item.content \in Flagged => state # "active")
  BY ImportedStateFacts
<1> HIDE DEF state
<1>2. m \in Memories /\ m.rows \in [DOMAIN m.rows -> Row] /\ m.rows[id] \in Row
  BY Fields, TableElim DEF Sound
<1>3. item.used \in BOOLEAN /\ item.stale \in BOOLEAN
  BY DEF Item
<1>4. /\ row \in Row
      /\ row.content = m.rows[id].content /\ row.tier = m.rows[id].tier /\ row.state = state
  BY <1>1, <1>2, <1>3 DEF Row
<1>5. Merged(m, id, item) = [m EXCEPT !.rows = t, !.retired = retired]
  BY <1>2 DEF Merged, state, Memories
<1> HIDE DEF row
<1>6. /\ t \in [DOMAIN m.rows -> Row]
      /\ \A i \in DOMAIN m.rows : t[i] = IF i = id THEN row ELSE m.rows[i]
  BY <1>2, <1>4
<1> HIDE DEF t
<1>7. retired \in SUBSET Past(m) /\ m.retired \subseteq retired
      /\ (state = "expired" => id \in retired)
  BY DEF Sound, Judged
<1> HIDE DEF retired
<1>8. ASSUME NEW i \in DOMAIN m.rows
      PROVE  /\ t[i].content = m.rows[i].content
             /\ t[i].tier = "prefrontal" => m.rows[i].tier = "prefrontal"
             /\ \/ t[i].state = m.rows[i].state
                \/ /\ t[i].state = "expired" => i \in retired
                   /\ m.rows[i].content \in Flagged => t[i].state # "active"
  <2>1. CASE i = id
    <3>1. t[i] = row
      BY <1>6, <2>1
    <3> QED
      BY <1>1, <1>4, <1>7, <2>1, <3>1
  <2>2. CASE i # id
    BY <1>6, <2>2
  <2> QED
    BY <2>1, <2>2
<1>9. Rewrites(m, [m EXCEPT !.rows = t, !.retired = retired])
  BY <1>6, <1>7, <1>8, PatchedRows
<1> QED
  BY <1>5, <1>9

LEMMA ImportItemGrows ==
    ASSUME NEW s, Importing(s), NEW item \in Item
    PROVE  Importing(ImportItem(s, item)) /\ Grows(s.mem, ImportItem(s, item).mem, 1)
<1> DEFINE m == s.mem
           c == item.content
<1>1. Sound(m) /\ s \in [mem : Memories, known : Fingers] /\ m.next \in Nat
  BY Fields DEF Importing, Sound
<1>2. DOMAIN s.known \in SUBSET Contents /\ s.known \in [DOMAIN s.known -> Nat]
  BY <1>1, FingersElim
<1>3. c \in Contents
  BY DEF Item
<1>4. CASE c \in DOMAIN s.known
  <2> DEFINE n == Merged(m, s.known[c], item)
             after == [s EXCEPT !.mem = n]
  <2>1. Rewrites(m, n)
    BY <1>1, <1>4, MergedRewrites DEF Importing
  <2>2. ImportItem(s, item) = after
    BY <1>4 DEF ImportItem
  <2> HIDE DEF n
  <2>3. n \in Memories
    BY <2>1 DEF Settles, Rewrites, Sound
  <2>4. after \in [mem : Memories, known : Fingers] /\ after.mem = n /\ after.known = s.known
    BY <1>1, <2>3
  <2>5. Importing(after)
    BY <2>1, <2>4 DEF Importing, Settles, Rewrites, SameRows
  <2> QED
    BY <1>1, <2>1, <2>2, <2>4, <2>5 DEF Grows, Settles, Rewrites
<1>5. CASE c \notin DOMAIN s.known /\ \E i \in Live(m) : Overlap[c, m.rows[i].content] >= 86
  <2>1. ImportItem(s, item) = s
    BY <1>5 DEF ImportItem
  <2> QED
    BY <1>1, <2>1 DEF Grows
<1>6. CASE c \notin DOMAIN s.known /\ ~\E i \in Live(m) : Overlap[c, m.rows[i].content] >= 86
  <2> DEFINE n == Store(m, c, ImportedState(m, item), {item.supersedes})
             known == With(s.known, c, m.next)
             after == [mem |-> n, known |-> known]
  <2>1. /\ ImportedState(m, item) \in MemoryStates
        /\ c \in Flagged => ImportedState(m, item) # "active"
    BY ImportedStateFacts
  <2>2. /\ Sound(n) /\ n.next = m.next + 1
        /\ Tracked(m) => Tracked(n)
        /\ DOMAIN n.rows = DOMAIN m.rows \cup {m.next}
        /\ \A i \in DOMAIN m.rows : n.rows[i].content = m.rows[i].content
        /\ n.rows[m.next].content = c
    BY <1>1, <1>3, <2>1, StoreFacts
  <2>3. ImportItem(s, item) = after
    BY <1>6 DEF ImportItem
  <2> HIDE DEF n
  <2>4. known \in [DOMAIN s.known \cup {c} -> Nat] /\ DOMAIN s.known \cup {c} \in SUBSET Contents
    BY <1>1, <1>2, <1>3 DEF With
  <2>5. known \in Fingers
    BY <2>4 DEF Fingers
  <2>6. \A d \in DOMAIN s.known \cup {c} : known[d] = IF d = c THEN m.next ELSE s.known[d]
    BY DEF With
  <2> HIDE DEF known
  <2>7. after \in [mem : Memories, known : Fingers] /\ after.mem = n /\ after.known = known
    BY <2>2, <2>5 DEF Sound
  <2> HIDE DEF after
  <2>8. ASSUME NEW d \in DOMAIN after.known
        PROVE  after.known[d] \in DOMAIN n.rows /\ n.rows[after.known[d]].content = d
    <3>1. CASE d = c
      BY <3>1, <2>2, <2>4, <2>6, <2>7
    <3>2. CASE d # c
      <4>1. d \in DOMAIN s.known
        BY <3>2, <2>4, <2>7
      <4>2. s.known[d] \in DOMAIN m.rows /\ m.rows[s.known[d]].content = d
        BY <4>1 DEF Importing
      <4> QED
        BY <3>2, <4>1, <4>2, <2>2, <2>6, <2>7
    <3> QED
      BY <3>1, <3>2
  <2>9. Importing(after)
    BY <2>2, <2>7, <2>8 DEF Importing
  <2> QED
    BY <1>1, <2>2, <2>3, <2>7, <2>9 DEF Grows
<1> QED
  BY <1>4, <1>5, <1>6

\* What an import is after each item, as a function on 0..n.
AfterItems(s0, items, n, f) ==
    f = [k \in 0..n |-> IF k = 0 THEN s0 ELSE ImportItem(f[k - 1], items[k])]

\* The recursion over the items defines a function, as that over the facts.
LEMMA AfterItemsExists ==
    ASSUME NEW s0, NEW items, NEW n \in Nat
    PROVE  \E f : AfterItems(s0, items, n, f)
<1> DEFINE Bad == {k \in Nat : ~(\E f : AfterItems(s0, items, k, f))}
<1> SUFFICES ASSUME Bad # {} PROVE FALSE
  OBVIOUS
<1>1. PICK k \in Bad : \A j \in Bad : k <= j
  BY Least
<1>2. CASE k = 0
  <2> DEFINE f == [j \in 0..0 |-> s0]
  <2>1. f = [j \in 0..0 |-> IF j = 0 THEN s0 ELSE ImportItem(f[j - 1], items[j])]
    OBVIOUS
  <2> QED
    BY <1>1, <1>2, <2>1 DEF AfterItems
<1>3. CASE k # 0
  <2>1. k - 1 \in Nat /\ k - 1 \notin Bad
    BY <1>1, <1>3
  <2>2. PICK g : AfterItems(s0, items, k - 1, g)
    BY <2>1
  <2> DEFINE f == [j \in 0..k |-> IF j = k THEN ImportItem(g[k - 1], items[k]) ELSE g[j]]
  <2>3. g = [j \in 0..(k - 1) |-> IF j = 0 THEN s0 ELSE ImportItem(g[j - 1], items[j])]
    BY <2>2 DEF AfterItems
  <2>4. ASSUME NEW j \in 0..k
        PROVE  f[j] = IF j = 0 THEN s0 ELSE ImportItem(f[j - 1], items[j])
    <3>1. CASE j = k
      BY <3>1, <2>1, <1>3
    <3>2. CASE j # k /\ j = 0
      BY <3>2, <2>1, <2>3
    <3>3. CASE j # k /\ j # 0
      <4>1. j \in 0..(k - 1) /\ j - 1 \in 0..k /\ j - 1 # k
        BY <3>3, <1>1
      <4>2. g[j] = ImportItem(g[j - 1], items[j])
        BY <4>1, <3>3, <2>3
      <4> QED
        BY <4>1, <4>2, <3>3
    <3> QED
      BY <3>1, <3>2, <3>3
  <2>5. f = [j \in 0..k |-> IF j = 0 THEN s0 ELSE ImportItem(f[j - 1], items[j])]
    <3> HIDE DEF f
    <3>1. f = [j \in 0..k |-> f[j]]
      BY DEF f
    <3> QED
      BY <2>4, <3>1
  <2> QED
    BY <1>1, <2>5 DEF AfterItems
<1> QED
  BY <1>2, <1>3

\* After k items at most k rows are new, and the table still points at rows.
LEMMA AfterItemsGrows ==
    ASSUME NEW s0, Importing(s0), NEW items \in Seq(Item), NEW f,
           AfterItems(s0, items, Len(items), f)
    PROVE  Grows(s0.mem, f[Len(items)].mem, Len(items))
<1> DEFINE n == Len(items)
           Holds(k) == Importing(f[k]) /\ Grows(s0.mem, f[k].mem, k)
           Bad == {k \in 0..n : ~Holds(k)}
<1>1. n \in Nat /\ s0.mem.next \in Nat /\ Sound(s0.mem)
  BY Fields DEF Importing, Sound
<1>2. f = [k \in 0..n |-> IF k = 0 THEN s0 ELSE ImportItem(f[k - 1], items[k])]
  BY DEF AfterItems
<1>3. SUFFICES ASSUME Bad # {} PROVE FALSE
  BY <1>1
<1>4. PICK k \in Bad : \A j \in Bad : k <= j
  <2>1. Bad \in SUBSET Nat
    BY <1>1
  <2> QED
    BY <1>3, <2>1, Least
<1>5. CASE k = 0
  <2>1. f[0] = s0
    BY <1>1, <1>2
  <2> QED
    BY <1>1, <1>4, <1>5, <2>1 DEF Grows
<1>6. CASE k # 0
  <2>1. k \in 1..n /\ k - 1 \in 0..n /\ k - 1 \notin Bad /\ k \in Nat
    BY <1>1, <1>4, <1>6
  <2>2. Importing(f[k - 1]) /\ Grows(s0.mem, f[k - 1].mem, k - 1)
    BY <2>1
  <2>3. f[k] = ImportItem(f[k - 1], items[k]) /\ items[k] \in Item
    BY <1>2, <1>6, <2>1
  <2>4. Importing(f[k]) /\ Grows(f[k - 1].mem, f[k].mem, 1)
    BY <2>2, <2>3, ImportItemGrows
  <2>5. f[k].mem.next \in Nat /\ f[k - 1].mem.next \in Nat
    BY <2>2, <2>4, Fields DEF Grows, Sound
  <2>6. Grows(s0.mem, f[k].mem, k)
    BY <1>1, <2>1, <2>2, <2>4, <2>5 DEF Grows
  <2> QED
    BY <1>4, <2>4, <2>6
<1> QED
  BY <1>5, <1>6

LEMMA ImportBundleGrows ==
    ASSUME NEW m, Sound(m), NEW bundle \in Bundles
    PROVE  Grows(m, ImportBundle(m, bundle), Len(bundle))
<1> DEFINE s0 == [mem |-> m, known |-> Fingerprints(m)]
           after == CHOOSE f : AfterItems(s0, bundle, Len(bundle), f)
<1>1. bundle \in Seq(Item) /\ Len(bundle) \in Nat
  BY BundlesAssumption
<1>2. ImportBundle(m, bundle) = SyncVault(after[Len(bundle)].mem, TRUE)
  BY DEF ImportBundle, AfterItems
<1>3. Importing(s0) /\ s0.mem = m
  BY FingerprintsFacts
<1> HIDE DEF s0
<1>4. AfterItems(s0, bundle, Len(bundle), after)
  BY <1>1, AfterItemsExists
<1> HIDE DEF after
<1>5. Grows(m, after[Len(bundle)].mem, Len(bundle))
  BY <1>1, <1>3, <1>4, AfterItemsGrows
<1> QED
  BY <1>2, <1>5, Synchronised

--------------------------------------------------------------------------------
(* Calls that age, write and load.                                          *)

LEMMA SettlesGrows ==
    ASSUME NEW m, Sound(m), NEW n, Settles(m, n)
    PROVE  Grows(m, n, 0)
<1>1. m.next \in Nat
  BY Fields DEF Sound
<1> QED
  BY <1>1 DEF Settles, Rewrites, Grows

LEMMA SettlesStores ==
    ASSUME NEW m, Sound(m), NEW n, Settles(m, n)
    PROVE  Stores(m, n, 0)
BY SettlesGrows DEF Settles, Stores, Buries

LEMMA GrowsTwice ==
    ASSUME NEW l, Sound(l), NEW m, NEW n, Grows(l, m, 0), Grows(m, n, 0)
    PROVE  Grows(l, n, 0)
<1>1. l.next \in Nat /\ m.next \in Nat /\ n.next \in Nat
  BY Fields DEF Sound, Grows
<1> QED
  BY <1>1 DEF Grows

\* Marks of use and of age are rewritings.
LEMMA MarkSettles ==
    ASSUME NEW m, Sound(m), NEW t \in [DOMAIN m.rows -> Row],
           \A i \in DOMAIN m.rows :
              /\ t[i].content = m.rows[i].content /\ t[i].tier = m.rows[i].tier
              /\ t[i].state = m.rows[i].state
    PROVE  Settles(m, [m EXCEPT !.rows = t])
<1>1. m.retired \in SUBSET Past(m)
  BY DEF Sound
<1>2. Settles(m, [m EXCEPT !.rows = t, !.retired = m.retired])
  BY <1>1, PatchedRows
<1>3. [m EXCEPT !.rows = t, !.retired = m.retired] = [m EXCEPT !.rows = t]
  BY DEF Sound, Memories
<1> QED
  BY <1>2, <1>3

LEMMA RecalledSettles ==
    ASSUME NEW m, Sound(m), NEW hits
    PROVE  Settles(m, Recalled(m, hits))
<1> DEFINE t == [i \in DOMAIN m.rows |->
                   IF i \in hits THEN [m.rows[i] EXCEPT !.used = TRUE] ELSE m.rows[i]]
<1>1. m.rows \in [DOMAIN m.rows -> Row]
  BY Fields, TableElim DEF Sound
<1>2. ASSUME NEW i \in DOMAIN m.rows
      PROVE  /\ t[i] \in Row /\ t[i].content = m.rows[i].content
             /\ t[i].tier = m.rows[i].tier /\ t[i].state = m.rows[i].state
  <2>1. m.rows[i] \in Row
    BY <1>1
  <2> QED
    BY <2>1 DEF Row
<1>3. t \in [DOMAIN m.rows -> Row] /\ Recalled(m, hits) = [m EXCEPT !.rows = t]
  BY <1>2 DEF Recalled
<1> HIDE DEF t
<1> QED
  BY <1>2, <1>3, MarkSettles

LEMMA CoolDownSettles ==
    ASSUME NEW m, Sound(m), NEW cooled
    PROVE  Settles(m, CoolDown(m, cooled))
<1> DEFINE t == [i \in DOMAIN m.rows |->
                   IF i \in cooled THEN [m.rows[i] EXCEPT !.stale = TRUE] ELSE m.rows[i]]
           n == [m EXCEPT !.rows = t]
<1>1. m.rows \in [DOMAIN m.rows -> Row]
  BY Fields, TableElim DEF Sound
<1>2. ASSUME NEW i \in DOMAIN m.rows
      PROVE  /\ t[i] \in Row /\ t[i].content = m.rows[i].content
             /\ t[i].tier = m.rows[i].tier /\ t[i].state = m.rows[i].state
  <2>1. m.rows[i] \in Row
    BY <1>1
  <2> QED
    BY <2>1 DEF Row
<1>3. t \in [DOMAIN m.rows -> Row] /\ CoolDown(m, cooled) = SyncVault(Consolidate(n), TRUE)
  BY <1>2 DEF CoolDown
<1> HIDE DEF t
<1>4. Settles(m, n)
  BY <1>2, <1>3, MarkSettles
<1> HIDE DEF n
<1>5. Settles(n, Consolidate(n))
  BY <1>4, ConsolidateSettles DEF Settles, Rewrites
<1>6. Settles(Consolidate(n), SyncVault(Consolidate(n), TRUE))
  BY <1>5, SyncVaultSettles DEF Settles, Rewrites
<1> QED
  BY <1>3, <1>4, <1>5, <1>6, SettlesTwice

\* A purge takes rows that are expired, which the history remembers.
LEMMA PurgeExpiredGrows ==
    ASSUME NEW m, Sound(m)
    PROVE  Grows(m, PurgeExpired(m), 0) /\ Live(PurgeExpired(m)) \subseteq Live(m)
<1> DEFINE gone == Purgeable(m)
           t == [i \in DOMAIN m.rows \ gone |-> m.rows[i]]
           n == [m EXCEPT !.rows = t, !.files = m.files \ gone]
<1>1. m \in Memories /\ m.next \in Nat
  BY Fields DEF Sound
<1>2. m.rows \in [DOMAIN m.rows -> Row] /\ DOMAIN m.rows \in SUBSET Nat
  BY <1>1, Fields, TableElim
<1>3. t \in Tables
  <2>1. t \in [DOMAIN m.rows \ gone -> Row]
    BY <1>2
  <2> QED
    BY <1>2, <2>1, TableIntro
<1>4. m.files \ gone \in SUBSET Nat
  BY <1>1, Fields
<1>5. PurgeExpired(m) = n
  BY <1>1 DEF PurgeExpired, Memories
<1>6. \A i \in DOMAIN m.rows : i \in gone => i \in m.retired
  BY DEF Purgeable, Sound, Judged
<1>7. DOMAIN t = DOMAIN m.rows \ gone /\ \A i \in DOMAIN t : t[i] = m.rows[i]
  OBVIOUS
<1> HIDE DEF t, gone
<1>8. /\ n \in Memories
      /\ n.next = m.next /\ n.ram = m.ram /\ n.files = m.files \ gone /\ n.dirty = m.dirty
      /\ n.rows = t /\ n.retired = m.retired /\ n.unseen = m.unseen
  BY <1>1, <1>3, <1>4 DEF Memories
<1> HIDE DEF n
<1>9. Past(n) = Past(m)
  BY <1>8 DEF Past
<1>10. ASSUME NEW i \in DOMAIN n.rows PROVE Judged(n, i, n.rows[i])
  BY <1>7, <1>8, <1>9 DEF Sound, Judged
<1>11. ASSUME NEW i \in DOMAIN n.ram PROVE Judged(n, i, n.ram[i])
  BY <1>8, <1>9 DEF Sound, Judged
<1>12. \A i \in Past(n) : i \in DOMAIN n.rows \/ i \in n.retired
  BY <1>6, <1>7, <1>8, <1>9 DEF Sound
<1>13. Sound(n)
  BY <1>7, <1>8, <1>9, <1>10, <1>11, <1>12 DEF Sound
<1>14. Tracked(m) => Tracked(n)
  BY <1>7, <1>8 DEF Tracked
<1>15. Live(n) \subseteq Live(m)
  BY <1>7, <1>8 DEF Live
<1> QED
  BY <1>1, <1>5, <1>8, <1>13, <1>14, <1>15 DEF Grows

\* A flush writes copies, which are as sound as rows, and so brings back only rows that
\* the working set tracks.
LEMMA FlushGrows ==
    ASSUME NEW m, Sound(m)
    PROVE  Grows(m, Flush(m), 0)
<1> DEFINE t == [i \in DOMAIN m.rows \cup DOMAIN m.ram |->
                   IF i \in DOMAIN m.ram THEN m.ram[i] ELSE m.rows[i]]
           n == [m EXCEPT !.rows = t]
<1>1. m \in Memories /\ m.next \in Nat
  BY Fields DEF Sound
<1>2. /\ m.rows \in [DOMAIN m.rows -> Row] /\ DOMAIN m.rows \in SUBSET Nat
      /\ m.ram \in [DOMAIN m.ram -> Row] /\ DOMAIN m.ram \in SUBSET Nat
  BY <1>1, Fields, TableElim
<1>3. t \in Tables
  <2>1. t \in [DOMAIN m.rows \cup DOMAIN m.ram -> Row]
    BY <1>2
  <2> QED
    BY <1>2, <2>1, TableIntro
<1>4. Flush(m) = n
  BY DEF Flush
<1>5. /\ DOMAIN t = DOMAIN m.rows \cup DOMAIN m.ram
      /\ \A i \in DOMAIN t : t[i] = IF i \in DOMAIN m.ram THEN m.ram[i] ELSE m.rows[i]
  OBVIOUS
<1> HIDE DEF t
<1>6. /\ n \in Memories
      /\ n.next = m.next /\ n.ram = m.ram /\ n.files = m.files /\ n.dirty = m.dirty
      /\ n.rows = t /\ n.retired = m.retired /\ n.unseen = m.unseen
  BY <1>1, <1>3 DEF Memories
<1> HIDE DEF n
<1>7. Past(n) = Past(m)
  BY <1>6 DEF Past
<1>8. ASSUME NEW i \in DOMAIN n.rows PROVE Judged(n, i, n.rows[i])
  <2>1. Judged(m, i, n.rows[i])
    BY <1>5, <1>6 DEF Sound
  <2> QED
    BY <1>6, <1>7, <2>1 DEF Judged
<1>9. ASSUME NEW i \in DOMAIN n.ram PROVE Judged(n, i, n.ram[i])
  BY <1>6, <1>7 DEF Sound, Judged
<1>10. \A i \in Past(n) : i \in DOMAIN n.rows \/ i \in n.retired
  BY <1>5, <1>6, <1>7 DEF Sound
<1>11. Sound(n)
  BY <1>5, <1>6, <1>7, <1>8, <1>9, <1>10 DEF Sound
<1>12. Tracked(m) => Tracked(n)
  BY <1>5, <1>6 DEF Tracked
<1> QED
  BY <1>1, <1>4, <1>6, <1>11, <1>12 DEF Grows

LEMMA FlushDirtyVaultGrows ==
    ASSUME NEW m, Sound(m), NEW n, Grows(m, n, 0), NEW force
    PROVE  Grows(m, FlushDirtyVault(n, force), 0) /\ Live(FlushDirtyVault(n, force)) \subseteq Live(n)
<1>1. Grows(n, FlushDirtyVault(n, force), 0) /\ Live(FlushDirtyVault(n, force)) \subseteq Live(n)
  BY FlushDirtyVaultSettles, SettlesGrows DEF Grows, Settles
<1> QED
  BY <1>1, GrowsTwice

LEMMA MaintainedGrows ==
    ASSUME NEW m, Sound(m), NEW cooled, NEW old
    PROVE  LET n == AgedOut(ExpireMemories(CoolDown(m, cooled)), old)
           IN  Grows(m, n, 0) /\ Live(n) \subseteq Live(m)
<1> DEFINE cold == CoolDown(m, cooled)
           aged == ExpireMemories(cold)
           marked == Expire(aged, {i \in Faded(aged) \cap Unused(aged) : i <= old})
<1>1. Settles(m, cold)
  BY CoolDownSettles
<1> HIDE DEF cold
<1>2. Settles(cold, aged)
  BY <1>1, ExpireSettles DEF Settles, Rewrites, ExpireMemories
<1> HIDE DEF aged
<1>3. Settles(aged, marked)
  BY <1>2, ExpireSettles DEF Settles, Rewrites
<1>4. AgedOut(aged, old) = PurgeExpired(marked)
  BY DEF AgedOut
<1> HIDE DEF marked
<1>5. Settles(m, marked)
  BY <1>1, <1>2, <1>3, SettlesTwice
<1>6. Grows(m, marked, 0) /\ Sound(marked)
  BY <1>5, SettlesGrows DEF Settles, Rewrites
<1>7. Grows(marked, PurgeExpired(marked), 0) /\ Live(PurgeExpired(marked)) \subseteq Live(m)
  BY <1>5, <1>6, PurgeExpiredGrows DEF Settles
<1>8. Grows(m, PurgeExpired(marked), 0)
  BY <1>6, <1>7, GrowsTwice
<1> QED
  BY <1>4, <1>7, <1>8 DEF aged, cold

LEMMA DownSound ==
    ASSUME NEW m, Sound(m)
    PROVE  Sound(Down(m)) /\ Down(m).next = m.next /\ Live(Down(m)) = Live(m)
<1> DEFINE n == Down(m)
<1>1. m \in Memories
  BY DEF Sound
<1>2. NoRows \in [{} -> Row] /\ DOMAIN NoRows = {}
  BY DEF NoRows
<1>3. NoRows \in Tables
  BY <1>2, TableIntro
<1>4. /\ n \in Memories
      /\ n.next = m.next /\ n.ram = NoRows /\ n.files = m.files /\ n.dirty = {}
      /\ n.rows = m.rows /\ n.retired = m.retired /\ n.unseen = m.unseen
  BY <1>1, <1>3 DEF Memories, Down
<1> HIDE DEF n
<1>5. Past(n) = Past(m)
  BY <1>4 DEF Past
<1>6. ASSUME NEW i \in DOMAIN n.rows PROVE Judged(n, i, n.rows[i])
  BY <1>4, <1>5 DEF Sound, Judged
<1>7. Sound(n)
  BY <1>2, <1>4, <1>5, <1>6 DEF Sound
<1> QED
  BY <1>4, <1>7 DEF n, Live

\* Every row is among the first n if there are not more than n.
LEMMA FirstOfAll ==
    ASSUME NEW table, NEW newestFirst, NEW ids, IsFiniteSet(ids), NEW n \in Nat,
           Cardinality(ids) <= n
    PROVE  FirstOf(ids, table, newestFirst, n) = ids
<1>1. ASSUME NEW i \in ids
      PROVE  Cardinality({j \in ids : Ahead(table, newestFirst, j, i)}) <= n
  <2> DEFINE before == {j \in ids : Ahead(table, newestFirst, j, i)}
  <2>1. before \subseteq ids
    OBVIOUS
  <2> HIDE DEF before
  <2>2. IsFiniteSet(before) /\ Cardinality(before) <= Cardinality(ids)
    BY <2>1, FS_Subset
  <2>3. Cardinality(before) \in Nat /\ Cardinality(ids) \in Nat
    BY <2>2, FS_CardinalityType
  <2>4. Cardinality(before) <= n
    BY <2>2, <2>3
  <2> QED
    BY <2>4 DEF before
<1> QED
  BY <1>1 DEF FirstOf

\* load takes copies of rows, all of the first tier that it looks at; it looks at every
\* row if there are not too many.
LEMMA LoadFacts ==
    ASSUME NEW m, Sound(m)
    PROVE  /\ Sound(Load(m)) /\ Load(m).next = m.next /\ Live(Load(m)) \subseteq Live(m)
           /\ Tracked(Load(m))
           /\ Load(m).unseen = DOMAIN m.rows \ FirstOf(DOMAIN m.rows, m.rows, TRUE, LoadLimit)
<1> DEFINE seen == FirstOf(DOMAIN m.rows, m.rows, TRUE, LoadLimit)
           young == {i \in seen : m.rows[i].tier = "prefrontal"}
           r == [i \in young |-> m.rows[i]]
           unseen == DOMAIN m.rows \ seen
           loaded == [m EXCEPT !.ram = r]
           n == [loaded EXCEPT !.unseen = unseen]
<1>1. /\ m.rows \in [DOMAIN m.rows -> Row]
      /\ \A i \in DOMAIN m.rows : Judged(m, i, m.rows[i])
      /\ DOMAIN m.rows \subseteq Past(m) /\ Past(m) \subseteq Nat /\ m \in Memories
  BY Fields, TableElim DEF Sound, Judged, Past
<1>2. seen \subseteq DOMAIN m.rows
  BY DEF FirstOf
<1>3. Load(m) = SyncVault(n, TRUE)
  BY <1>1 DEF Load, Memories
<1> HIDE DEF seen
<1>4. /\ r \in [young -> Row] /\ young \in SUBSET Past(m) /\ \A i \in young : Judged(m, i, r[i])
      /\ DOMAIN r = young
  BY <1>1, <1>2
<1>5. \A i \in DOMAIN m.rows : m.rows[i].tier = "prefrontal" => i \in young \/ i \in unseen
  OBVIOUS
<1>6. unseen \in SUBSET Past(m)
  BY <1>1
<1> HIDE DEF young, r, unseen
<1>7. Sound(loaded) /\ loaded.ram = r /\ loaded.rows = m.rows /\ loaded.next = m.next
  BY <1>4, RamReplaced
<1> HIDE DEF loaded
<1>8. /\ n \in Memories /\ n.unseen = unseen
      /\ n.next = loaded.next /\ n.ram = loaded.ram /\ n.files = loaded.files
      /\ n.dirty = loaded.dirty /\ n.rows = loaded.rows /\ n.retired = loaded.retired
  BY <1>1, <1>6, <1>7 DEF Memories, Sound
<1> HIDE DEF n
<1>9. Past(n) = Past(m) /\ Past(loaded) = Past(m)
  BY <1>7, <1>8 DEF Past
<1>10. /\ \A i \in DOMAIN n.rows : Judged(n, i, n.rows[i])
       /\ \A i \in DOMAIN n.ram : Judged(n, i, n.ram[i])
  BY <1>7, <1>8, <1>9 DEF Sound, Judged
<1>11. Sound(n)
  BY <1>6, <1>7, <1>8, <1>9, <1>10 DEF Sound
<1>12. Tracked(n)
  BY <1>4, <1>5, <1>7, <1>8 DEF Tracked
<1>13. Settles(n, SyncVault(n, TRUE))
  BY <1>11, SyncVaultSettles
<1>14. SyncVault(n, TRUE).unseen = unseen
  BY <1>8 DEF SyncVault, Memories
<1>15. Live(n) = Live(m)
  BY <1>7, <1>8 DEF Live
<1> QED
  BY <1>3, <1>7, <1>8, <1>11, <1>12, <1>13, <1>14, <1>15 DEF Settles, Rewrites, seen, unseen

--------------------------------------------------------------------------------
(* The invariant.                                                           *)

Inv ==
    /\ Sound(mem) /\ mem.next <= MaxRows + 1
    /\ over \subseteq Past(mem)
    /\ up \in BOOLEAN /\ mishaps \in 0..MaxMishaps

LEMMA InitInv == Init => Inv /\ Tracked(mem)
<1> SUFFICES ASSUME Init PROVE Inv /\ Tracked(mem)
  OBVIOUS
<1>1. NoRows \in [{} -> Row] /\ DOMAIN NoRows = {}
  BY DEF NoRows
<1>2. NoRows \in Tables
  BY <1>1, TableIntro
<1>3. /\ mem \in Memories
      /\ mem.next = 1 /\ mem.ram = NoRows /\ mem.files = {} /\ mem.dirty = {}
      /\ mem.rows = NoRows /\ mem.retired = {} /\ mem.unseen = {}
  BY <1>2 DEF Memories, Init
<1>4. Past(mem) = {}
  BY <1>3 DEF Past
<1>5. Sound(mem) /\ Tracked(mem)
  BY <1>1, <1>3, <1>4 DEF Sound, Tracked
<1> QED
  BY <1>3, <1>5, BoundsAssumption DEF Inv, Init

\* A call of an open engine that has room for the rows it inserts; only a flush or an
\* import brings something back.
Called == \E k \in Nat : Room(k) /\ Grows(mem, mem', k)

Calls ==
    /\ Called /\ up /\ up' = up /\ UNCHANGED <<over, mishaps>>
    /\ PreCompactionFlush \/ ImportMemory \/ Buries(mem, mem')

LEMMA CallsStore ==
    ASSUME Inv, NEW outcomes, Becomes(outcomes), NEW k \in Nat, Room(k),
           \A m \in outcomes : Stores(mem, m, k)
    PROVE  Calls
BY DEF Becomes, Called, Calls, Stores

LEMMA CallsGrow ==
    ASSUME Inv, NEW outcomes, Becomes(outcomes), NEW k \in Nat, Room(k),
           \A m \in outcomes : Grows(mem, m, k), PreCompactionFlush \/ ImportMemory
    PROVE  Calls
BY DEF Becomes, Called, Calls

LEMMA RoomForNone == ASSUME Inv PROVE Room(0)
<1>1. mem.next \in Nat
  BY Fields DEF Inv, Sound
<1> QED
  BY <1>1 DEF Inv, Room

\* Every action that is a call, call by call.
LEMMA ActionsCall ==
    ASSUME Inv,
           \/ StoreMemoryAndDispatch \/ StoreDirect \/ ShareMemory \/ ImportMemory \/ Recall
           \/ VaultTimer \/ PreCompactionFlush \/ HealthTick \/ Maintain \/ MaintenanceCycle
    PROVE  Calls
<1>1. Sound(mem) /\ Room(0)
  BY RoomForNone DEF Inv
<1>2. Settles(mem, ExpireMemories(mem)) /\ Sound(ExpireMemories(mem))
  BY <1>1, ExpireSettles DEF ExpireMemories, Settles, Rewrites
<1>3. CASE StoreMemoryAndDispatch
  <2>1. PICK c \in Contents : Room(Len(Facts[c])) /\ Becomes({StoreMemory(mem, c)})
    BY <1>3 DEF StoreMemoryAndDispatch
  <2>2. Len(Facts[c]) \in Nat
    BY FactsAssumption
  <2>3. Stores(mem, StoreMemory(mem, c), Len(Facts[c]))
    BY <1>1, StoreMemoryGrows
  <2> QED
    BY <2>1, <2>2, <2>3, CallsStore
<1>4. CASE ImportMemory
  <2>1. PICK bundle \in Bundles : Room(Len(bundle)) /\ Becomes({ImportBundle(mem, bundle)})
    BY <1>4 DEF ImportMemory
  <2>2. Len(bundle) \in Nat
    BY BundlesAssumption
  <2>3. Grows(mem, ImportBundle(mem, bundle), Len(bundle))
    BY <1>1, ImportBundleGrows
  <2> QED
    BY <2>1, <2>2, <2>3, <1>4, CallsGrow
<1>5. CASE Recall
  <2> DEFINE m == ExpireMemories(mem)
             outcomes == {Recalled(m, hits) : hits \in
                             SUBSET {i \in DOMAIN m.rows : m.rows[i].state = "active"}}
  <2>1. \A hits : Settles(mem, Recalled(m, hits))
    BY <1>2, RecalledSettles, SettlesTwice
  <2>2. \A n \in outcomes : Stores(mem, n, 0)
    BY <1>1, <2>1, SettlesStores
  <2>3. Becomes(outcomes)
    BY <1>5 DEF Recall
  <2> HIDE DEF outcomes
  <2> QED
    BY <1>1, <2>2, <2>3, CallsStore
<1>6. CASE VaultTimer
  <2> DEFINE n == FlushDirtyVault(mem, FALSE)
  <2>1. Stores(mem, n, 0)
    BY <1>1, FlushDirtyVaultSettles, SettlesStores
  <2>2. Becomes({n})
    BY <1>6 DEF VaultTimer
  <2> HIDE DEF n
  <2> QED
    BY <1>1, <2>1, <2>2, CallsStore
<1>7. CASE PreCompactionFlush
  <2> DEFINE n == FlushDirtyVault(Flush(mem), TRUE)
  <2>1. Grows(mem, n, 0)
    BY <1>1, FlushGrows, FlushDirtyVaultGrows
  <2>2. Becomes({n})
    BY <1>7 DEF PreCompactionFlush
  <2> HIDE DEF n
  <2> QED
    BY <1>1, <2>1, <2>2, <1>7, CallsGrow
<1>8. CASE HealthTick
  <2> DEFINE ids == Faded(mem) \cap Unused(mem)
  <2>1. ids \in SUBSET Live(mem)
    BY DEF Faded, Live
  <2>2. Becomes({SetState(mem, ids, "quarantined")})
    BY <1>8 DEF HealthTick
  <2> HIDE DEF ids
  <2>3. Stores(mem, SetState(mem, ids, "quarantined"), 0)
    BY <1>1, <2>1, SetStateSettles, SettlesStores
  <2> QED
    BY <1>1, <2>2, <2>3, CallsStore
<1>9. CASE Maintain
  <2> DEFINE m == ExpireMemories(mem)
             doubted == {i \in DOMAIN m.rows : /\ m.rows[i].state = "active"
                                              /\ m.rows[i].content \in Distrusted}
             rest == Faded(m) \ doubted
             one == SetState(m, doubted, "quarantined")
             two == SetState(one, rest, "scrap")
  <2>1. Scrapped(m) = SyncVault(two, TRUE)
    BY DEF Scrapped
  <2>2. Becomes({Scrapped(m)})
    BY <1>9 DEF Maintain
  <2>3. /\ doubted \in SUBSET Live(m) /\ rest \in SUBSET Live(m) /\ rest \cap doubted = {}
    BY DEF Faded, Live
  <2> HIDE DEF doubted, rest
  <2>4. Settles(m, one)
    BY <1>2, <2>3, SetStateSettles
  <2>5. rest \in SUBSET Live(one)
    <3>1. DOMAIN one.rows = DOMAIN m.rows
      BY <2>4 DEF Settles, Rewrites, SameRows
    <3>2. \A i \in DOMAIN m.rows : i \notin doubted => one.rows[i].state = m.rows[i].state
      BY <1>2, SetStateIsPatch, Fields DEF MemoryStates, Sound, Memories
    <3> QED
      BY <2>3, <3>1, <3>2 DEF Live
  <2>6. Settles(one, two)
    BY <2>4, <2>5, SetStateSettles DEF Settles, Rewrites
  <2> HIDE DEF one, two
  <2>7. Settles(two, SyncVault(two, TRUE))
    BY <2>6, SyncVaultSettles DEF Settles, Rewrites
  <2>8. Settles(mem, SyncVault(two, TRUE))
    BY <1>2, <2>4, <2>6, <2>7, SettlesTwice
  <2>9. Stores(mem, Scrapped(m), 0)
    BY <1>1, <2>1, <2>8, SettlesStores
  <2> QED
    BY <1>1, <2>2, <2>9, CallsStore
<1>10. CASE MaintenanceCycle
  <2> DEFINE Cycled(cooled, old) == FlushDirtyVault(Maintained(cooled, old), TRUE)
             fading == {i \in DOMAIN mem.rows : mem.rows[i].content \in Fading}
             outcomes == {Cycled(cooled, old) : cooled \in SUBSET fading, old \in 0..MaxRows}
  <2>1. ASSUME NEW cooled, NEW old PROVE Stores(mem, Cycled(cooled, old), 0)
    <3>1. Stores(mem, Maintained(cooled, old), 0) /\ Live(Maintained(cooled, old)) \subseteq Live(mem)
      BY <1>1, MaintainedGrows DEF Maintained, Stores, Buries
    <3> QED
      BY <1>1, <3>1, FlushDirtyVaultGrows DEF Stores, Buries
  <2>2. Becomes(outcomes)
    BY <1>10 DEF MaintenanceCycle
  <2> HIDE DEF Cycled
  <2>3. \A n \in outcomes : Stores(mem, n, 0)
    BY <2>1
  <2> HIDE DEF outcomes
  <2> QED
    BY <1>1, <2>2, <2>3, CallsStore
<1>11. CASE StoreDirect
  <2>1. PICK c \in Direct : Room(1) /\ Becomes({Store(mem, c, InferState(mem, c), {})})
    BY <1>11 DEF StoreDirect
  <2>2. c \in Contents /\ InferState(mem, c) \in MemoryStates
        /\ (c \in Flagged => InferState(mem, c) # "active")
    BY DirectAssumption, InferStateFacts
  <2> DEFINE n == Store(mem, c, InferState(mem, c), {})
  <2>3. Sound(n) /\ n.next = mem.next + 1 /\ (Tracked(mem) => Tracked(n))
        /\ Live(n) \subseteq Live(mem) \cup {mem.next}
    BY <1>1, <2>2, StoreFacts
  <2>4. Becomes({n})
    BY <2>1
  <2> HIDE DEF n
  <2>5. mem.next \in Nat /\ mem.next \notin Past(mem)
    BY <1>1, Fields DEF Sound, Past
  <2>6. Stores(mem, n, 1)
    BY <2>3, <2>5 DEF Stores, Grows, Buries
  <2> QED
    BY <2>1, <2>4, <2>6, CallsStore
<1>12. CASE ShareMemory
  <2>1. PICK i \in DOMAIN mem.rows : Becomes({MarkVaultDirty(mem, i)})
    BY <1>12 DEF ShareMemory
  <2>2. i \in Past(mem)
    BY <1>1 DEF Sound, Judged
  <2>3. Stores(mem, MarkVaultDirty(mem, i), 0)
    BY <1>1, <2>2, MarkVaultDirtySettles, SettlesStores
  <2> QED
    BY <1>1, <2>1, <2>3, CallsStore
<1> QED
  BY <1>3, <1>4, <1>5, <1>6, <1>7, <1>8, <1>9, <1>10, <1>11, <1>12

\* What every step does to the memory: an open engine's working set tracks the first
\* tier as it did, a restart makes it do so, and only steps that flush or import bring
\* something back.
Revives == PreCompactionFlush \/ Close \/ FailureLogged \/ FailureEnds \/ ImportMemory

Steps ==
    /\ Sound(mem') /\ mem.next <= mem'.next /\ mem'.next <= MaxRows + 1
    /\ up /\ up' => (Tracked(mem) => Tracked(mem'))
    /\ ~up /\ up' => Tracked(mem')
    /\ Revives \/ Buries(mem, mem')

LEMMA CallsStep == ASSUME Inv, Calls PROVE Steps
<1>1. PICK k \in Nat : Room(k) /\ Grows(mem, mem', k)
  BY DEF Calls, Called
<1>2. mem.next \in Nat /\ mem'.next \in Nat /\ MaxRows \in Nat
  BY <1>1, Fields, BoundsAssumption DEF Inv, Sound, Grows
<1> QED
  BY <1>1, <1>2 DEF Calls, Grows, Steps, Revives, Room

LEMMA PastGrows ==
    ASSUME Inv, Steps
    PROVE  Past(mem) \subseteq Past(mem')
<1>1. mem.next \in Nat /\ mem'.next \in Nat
  BY Fields DEF Inv, Sound, Steps
<1> QED
  BY <1>1 DEF Past, Steps

LEMMA FailureSteps ==
    ASSUME Inv, FailureLogged
    PROVE  Steps
<1> DEFINE kept == Maintained({}, 0)
           flushed == Flush(mem)
<1>1. Grows(mem, kept, 0) /\ Grows(mem, flushed, 0)
  BY MaintainedGrows, FlushGrows DEF Maintained, Inv
<1>2. mem' \in SyncTorn(kept, TRUE) \/ mem' \in SyncTorn(flushed, TRUE)
  BY DEF FailureLogged
<1> HIDE DEF kept, flushed
<1>3. ASSUME NEW n, Grows(mem, n, 0), mem' \in SyncTorn(n, TRUE)
      PROVE  Grows(mem, mem', 0)
  <2>1. Sound(n)
    BY <1>3 DEF Grows
  <2>2. Settles(n, mem')
    BY <1>3, <2>1, SyncTornSettles
  <2>3. Grows(n, mem', 0)
    BY <2>1, <2>2, SettlesGrows
  <2> QED
    BY <1>3, <2>3, GrowsTwice DEF Inv
<1>4. Grows(mem, mem', 0)
  BY <1>1, <1>2, <1>3
<1>5. up' = up /\ mem.next \in Nat /\ mem'.next \in Nat /\ MaxRows \in Nat
  BY <1>4, Fields, BoundsAssumption DEF FailureLogged, Inv, Sound, Grows
<1> QED
  BY <1>4, <1>5 DEF Grows, Steps, Revives, Inv

LEMMA EndSteps ==
    ASSUME Inv, FailureEnds
    PROVE  Steps
<1> DEFINE flushed == Flush(mem)
<1>1. PICK torn : /\ mem' = Down(torn)
                  /\ torn \in SyncTorn(flushed, TRUE) \/ torn \in SyncTorn(mem, FALSE)
  BY DEF FailureEnds
<1>2. Grows(mem, flushed, 0) /\ Sound(mem) /\ Sound(flushed)
  BY FlushGrows DEF Inv, Grows
<1> HIDE DEF flushed
<1>3. Sound(torn) /\ torn.next = mem.next
  <2>1. CASE torn \in SyncTorn(flushed, TRUE)
    <3>1. Settles(flushed, torn)
      BY <1>2, <2>1, SyncTornSettles
    <3>2. flushed.next = mem.next
      BY <1>2, Fields DEF Grows, Sound
    <3> QED
      BY <3>1, <3>2 DEF Settles, Rewrites
  <2>2. CASE torn \in SyncTorn(mem, FALSE)
    BY <1>2, <2>2, SyncTornSettles DEF Settles, Rewrites
  <2> QED
    BY <1>1, <2>1, <2>2
<1>4. Sound(mem') /\ mem'.next = mem.next
  BY <1>1, <1>3, DownSound
<1>5. up' = FALSE /\ mem.next \in Nat /\ MaxRows \in Nat
  BY <1>2, Fields, BoundsAssumption DEF FailureEnds, Sound
<1> QED
  BY <1>4, <1>5 DEF Steps, Revives, Inv

LEMMA CloseSteps ==
    ASSUME Inv, Close
    PROVE  Steps
<1> DEFINE flushed == Flush(mem)
           late == ExpireMemories(flushed)
           purged == PurgeExpired(late)
           synced == FlushDirtyVault(purged, TRUE)
<1>1. mem' = Down(synced) /\ up' = FALSE
  BY DEF Close
<1>2. Grows(mem, flushed, 0)
  BY FlushGrows DEF Inv
<1> HIDE DEF flushed
<1>3. Grows(flushed, late, 0)
  BY <1>2, ExpireSettles, SettlesGrows DEF ExpireMemories, Grows
<1> HIDE DEF late
<1>4. Grows(late, purged, 0)
  BY <1>3, PurgeExpiredGrows DEF Grows
<1> HIDE DEF purged
<1>5. Grows(mem, purged, 0)
  BY <1>2, <1>3, <1>4, GrowsTwice DEF Inv, Grows
<1>6. Grows(mem, synced, 0)
  BY <1>5, FlushDirtyVaultGrows DEF Inv
<1> HIDE DEF synced
<1>7. Sound(mem') /\ mem'.next = synced.next
  BY <1>1, <1>6, DownSound DEF Grows
<1>8. mem.next \in Nat /\ synced.next \in Nat /\ MaxRows \in Nat
  BY <1>6, Fields, BoundsAssumption DEF Grows, Sound, Inv
<1> QED
  BY <1>1, <1>6, <1>7, <1>8 DEF Grows, Steps, Revives, Inv

LEMMA CrashSteps ==
    ASSUME Inv, Crash
    PROVE  Steps
<1>1. mem.next \in Nat /\ mem.next \notin Past(mem) /\ MaxRows \in Nat /\ Sound(mem) /\ up' = FALSE
  BY Fields, BoundsAssumption DEF Inv, Sound, Past, Crash
<1>2. CASE mem' = Down(mem)
  BY <1>1, <1>2, DownSound DEF Steps, Buries, Inv
<1>3. CASE Room(1) /\ \E c \in Contents : mem' = Down(Inserted(mem, Fresh(c, InferState(mem, c))))
  <2>1. PICK c \in Contents : mem' = Down(Inserted(mem, Fresh(c, InferState(mem, c))))
    BY <1>3
  <2> DEFINE n == Inserted(mem, Fresh(c, InferState(mem, c)))
  <2>2. InferState(mem, c) \in MemoryStates /\ (c \in Flagged => InferState(mem, c) # "active")
    BY InferStateFacts
  <2>3. Sound(n) /\ n.next = mem.next + 1 /\ Live(n) \subseteq Live(mem) \cup {mem.next}
    BY <1>1, <2>2, InsertedFacts
  <2> HIDE DEF n
  <2>4. Sound(Down(n)) /\ Down(n).next = n.next /\ Live(Down(n)) = Live(n)
    BY <2>3, DownSound
  <2>5. mem' = Down(n)
    BY <2>1 DEF n
  <2> QED
    BY <1>1, <1>3, <2>3, <2>4, <2>5 DEF Room, Steps, Buries, Inv
<1> QED
  BY <1>2, <1>3 DEF Crash

LEMMA RestartSteps ==
    ASSUME Inv, Restart
    PROVE  Steps
<1>1. mem.next \in Nat /\ mem.next \notin Past(mem) /\ MaxRows \in Nat /\ Sound(mem) /\ ~up /\ mem' = Load(mem)
  BY Fields, BoundsAssumption DEF Inv, Sound, Past, Restart
<1>2. /\ Sound(mem') /\ mem'.next = mem.next /\ Live(mem') \subseteq Live(mem)
      /\ Tracked(mem')
  BY <1>1, LoadFacts
<1> QED
  BY <1>1, <1>2 DEF Steps, Buries, Inv

LEMMA ElapseSteps ==
    ASSUME Inv, Elapse
    PROVE  Steps /\ over' \subseteq Past(mem)
<1>1. mem.next \in Nat /\ mem.next \notin Past(mem) /\ MaxRows \in Nat /\ Sound(mem) /\ mem' = mem /\ up' = up
  BY Fields, BoundsAssumption DEF Inv, Sound, Past, Elapse
<1>2. over' \subseteq Past(mem)
  BY <1>1 DEF Elapse, Inv, Sound, Judged
<1> QED
  BY <1>1, <1>2 DEF Steps, Buries, Inv

\* The invariant is kept, and every step is one of Steps.
LEMMA NextInv ==
    ASSUME Inv, [Next]_vars
    PROVE  Inv' /\ Steps
<1>1. CASE UNCHANGED vars
  <2>1. mem.next \in Nat /\ Sound(mem) /\ mem' = mem /\ up' = up
    BY <1>1, Fields DEF vars, Inv, Sound
  <2>2. Inv'
    BY <1>1 DEF vars, Inv, Past
  <2>3. Steps
    BY <2>1 DEF Steps, Buries, Inv
  <2> QED
    BY <2>2, <2>3
<1>2. CASE Calls
  BY <1>2, CallsStep, PastGrows DEF Inv, Steps, Calls
<1>3. CASE FailureLogged \/ FailureEnds
  <2>1. Steps /\ Past(mem) \subseteq Past(mem') /\ over' = over
    BY <1>3, FailureSteps, EndSteps, PastGrows DEF FailureLogged, FailureEnds
  <2>2. mishaps < MaxMishaps /\ mishaps' = mishaps + 1 /\ up' \in {up, FALSE}
    BY <1>3 DEF FailureLogged, FailureEnds
  <2>3. mishaps' \in 0..MaxMishaps
    BY <2>2, BoundsAssumption DEF Inv
  <2>4. up' \in BOOLEAN
    BY <2>2 DEF Inv
  <2> QED
    BY <2>1, <2>3, <2>4 DEF Inv, Steps
<1>4. CASE Close
  <2>1. Steps /\ Past(mem) \subseteq Past(mem')
    BY <1>4, CloseSteps, PastGrows
  <2>2. over' = over /\ up' = FALSE /\ mishaps' = mishaps
    BY <1>4 DEF Close
  <2> QED
    BY <2>1, <2>2 DEF Inv, Steps
<1>5. CASE Crash
  <2>1. Steps /\ Past(mem) \subseteq Past(mem') /\ over' = over /\ up' = FALSE
    BY <1>5, CrashSteps, PastGrows DEF Crash
  <2>2. mishaps' \in 0..MaxMishaps
    BY <1>5, BoundsAssumption DEF Crash, Inv
  <2> QED
    BY <2>1, <2>2 DEF Inv, Steps
<1>6. CASE Restart
  <2>1. Steps /\ Past(mem) \subseteq Past(mem')
    BY <1>6, RestartSteps, PastGrows
  <2>2. over' = over /\ up' = TRUE /\ mishaps' = mishaps
    BY <1>6 DEF Restart
  <2> QED
    BY <2>1, <2>2 DEF Inv, Steps
<1>7. CASE Elapse
  <2>1. Steps /\ over' \subseteq Past(mem') /\ Past(mem) \subseteq Past(mem')
    BY <1>7, ElapseSteps, PastGrows
  <2>2. up' = up /\ mishaps' = mishaps
    BY <1>7 DEF Elapse
  <2> QED
    BY <2>1, <2>2 DEF Inv, Steps
<1> QED
  BY <1>1, <1>2, <1>3, <1>4, <1>5, <1>6, <1>7, ActionsCall DEF Next

--------------------------------------------------------------------------------
(* Theorems.                                                                *)

\* Every row and every copy has an id that was handed out, is in the history if it says it
\* is expired, and is not active with a secret in it; an id without a row is in the
\* history; a file has its row.  Only the whole is inductive: a flush makes rows of
\* copies, so copies are judged as rows are; a purge takes what is expired, so the history
\* must have it; an insertion needs that no row has the next id.
THEOREM MemoryInvariant == Spec => []Inv
<1>1. Init => Inv
  BY InitInv
<1>2. Inv /\ [Next]_vars => Inv'
  BY NextInv
<1> QED
  BY <1>1, <1>2, PTL DEF Spec

\* Rows and copies are rows, of ids that were handed out, in every state (memory.ts:540,
\* 1203).
THEOREM MemoryTypes == Spec => []TypeOK
<1>1. Inv => TypeOK
  <2> SUFFICES ASSUME Inv PROVE TypeOK
    OBVIOUS
  <2>1. /\ mem.rows \in [DOMAIN mem.rows -> Row] /\ mem.ram \in [DOMAIN mem.ram -> Row]
        /\ mem.next \in Nat /\ {mem.full, mem.timer, mem.failed, up} \subseteq BOOLEAN
    BY Fields, TableElim DEF Inv, Sound
  <2>2. DOMAIN mem.rows \subseteq Past(mem) /\ DOMAIN mem.ram \subseteq Past(mem)
    BY DEF Inv, Sound, Judged
  <2>3. mem.next \in 1..MaxRows + 1
    BY <2>1, BoundsAssumption DEF Inv, Sound
  <2>4. mem.files \cup mem.dirty \cup mem.retired \cup mem.unseen \cup over \subseteq Past(mem)
    BY <2>2 DEF Inv, Sound
  <2> QED
    BY <2>1, <2>2, <2>3, <2>4 DEF TypeOK, Past, Inv
<1> QED
  BY <1>1, MemoryInvariant, PTL

\* Whatever is stored, reconciled, imported, flushed or loaded: a content with a secret is
\* never in an active row or an active copy (memory.ts:1738, 2108).
THEOREM FlaggedMemories == Spec => []FlaggedNeverActive
<1>1. Inv => FlaggedNeverActive
  BY DEF Inv, Sound, Judged, FlaggedNeverActive
<1> QED
  BY <1>1, MemoryInvariant, PTL

\* Through purges, flushes, crashes and restarts, a row that is gone was marked expired
\* before (memory.ts:3545).
THEOREM MemoriesLeaveExpired == Spec => []RowsLeaveExpired
<1>1. Inv => RowsLeaveExpired
  BY DEF Inv, Sound, Past, RowsLeaveExpired
<1> QED
  BY <1>1, MemoryInvariant, PTL

\* The vault has no file without a row: a purge takes the files of the rows it takes
\* (memory.ts:3545).
THEOREM FilesHaveRows == Spec => [](mem.files \subseteq DOMAIN mem.rows)
<1>1. Inv => mem.files \subseteq DOMAIN mem.rows
  BY DEF Inv, Sound
<1> QED
  BY <1>1, MemoryInvariant, PTL

\* A memory that is expired, or purged, comes back to life only where the working set's
\* old copy of it is flushed, be it that the vault then fails or the engine closes, or by
\* an import (memory.ts:1125, 3345).
THEOREM OnlyCopiesRevive ==
    Spec => [][\A i \in 1..(mem.next - 1) : i \notin Live(mem) =>
                  \/ i \notin Live(mem')
                  \/ PreCompactionFlush \/ Close \/ FailureLogged \/ FailureEnds
                  \/ ImportMemory]_vars
<1>1. Inv /\ [Next]_vars =>
         [\A i \in 1..(mem.next - 1) : i \notin Live(mem) =>
             \/ i \notin Live(mem')
             \/ PreCompactionFlush \/ Close \/ FailureLogged \/ FailureEnds
             \/ ImportMemory]_vars
  BY NextInv DEF Steps, Revives, Buries, Past
<1> QED
  BY <1>1, MemoryInvariant, PTL DEF Spec

\* An open engine's working set has every row of the first tier but those that the last
\* load left out, whatever is consolidated, flushed, purged and reloaded (memory.ts:863,
\* 894, 2057).
THEOREM PrefrontalIsTracked == Spec => []PrefrontalTracked
<1> DEFINE Open == up => Tracked(mem)
<1>1. Init => Open
  BY InitInv
<1>2. Inv /\ Open /\ [Next]_vars => Open'
  BY NextInv DEF Steps, Inv
<1>3. Open => PrefrontalTracked
  BY DEF Tracked, PrefrontalTracked
<1> HIDE DEF Open
<1> QED
  BY <1>1, <1>2, <1>3, MemoryInvariant, PTL DEF Spec

\* load leaves out no row of a database with as many rows as it looks at, or fewer, so
\* that only a larger one leaves memories of the first tier untracked (memory.ts:863).
THEOREM LoadSeesSmallDatabases ==
    Spec => [][Restart /\ Cardinality(DOMAIN mem.rows) <= LoadLimit => mem'.unseen = {}]_vars
<1>1. Inv /\ [Next]_vars =>
         [Restart /\ Cardinality(DOMAIN mem.rows) <= LoadLimit => mem'.unseen = {}]_vars
  <2> SUFFICES ASSUME Inv, Restart, Cardinality(DOMAIN mem.rows) <= LoadLimit
               PROVE  mem'.unseen = {}
    OBVIOUS
  <2>1. IsFiniteSet(DOMAIN mem.rows)
    <3>1. DOMAIN mem.rows \subseteq 1..(mem.next - 1) /\ mem.next \in Nat \ {0}
      BY Fields DEF Inv, Sound, Judged, Past
    <3> DEFINE last == mem.next - 1
    <3>2. last \in Nat
      BY <3>1
    <3> HIDE DEF last
    <3>3. IsFiniteSet(1..last)
      BY <3>2, FS_Interval
    <3> QED
      BY <3>1, <3>3, FS_Subset DEF last
  <2>2. FirstOf(DOMAIN mem.rows, mem.rows, TRUE, LoadLimit) = DOMAIN mem.rows
    BY <2>1, FirstOfAll, LimitsAssumption
  <2>3. mem' = Load(mem) /\ Sound(mem)
    BY DEF Restart, Inv
  <2> QED
    BY <2>2, <2>3, LoadFacts
<1> QED
  BY <1>1, MemoryInvariant, PTL DEF Spec

--------------------------------------------------------------------------------
(* What the vault is owed.                                                  *)

\* A memory whose vault shall be synchronised in full, by a timer that is set.
Owing(m) == {"full", "timer"} \subseteq DOMAIN m /\ m.full = TRUE /\ m.timer = TRUE

\* If no synchronisation has failed since the last full one, every live row has its file
\* or is asked for, and what is asked for has a timer.
Owes(m) ==
    ~m.failed => /\ \A i \in Live(m) : i \in m.files \/ i \in m.dirty \/ m.full
                 /\ m.dirty # {} \/ m.full => m.timer

LEMMA OwingIsOwed ==
    ASSUME NEW m, Owing(m)
    PROVE  Owes(m)
BY DEF Owing, Owes

LEMMA RequestIsOwing ==
    ASSUME NEW m, SyncVault(m, TRUE) \in Memories
    PROVE  Owing(SyncVault(m, TRUE))
<1>1. DOMAIN SyncVault(m, TRUE) = DOMAIN m
  BY DEF SyncVault
<1>2. {"full", "timer"} \subseteq DOMAIN SyncVault(m, TRUE)
  BY DEF Memories
<1> QED
  BY <1>1, <1>2 DEF Owing, SyncVault

\* Marks and verdicts on rows leave the vault's fields alone.
SameVault(m, n) ==
    /\ n.files = m.files /\ n.dirty = m.dirty /\ n.full = m.full /\ n.timer = m.timer
    /\ n.failed = m.failed

LEMMA SameVaultOwes ==
    ASSUME NEW m, NEW n, Owes(m), SameVault(m, n), Live(n) \subseteq Live(m)
    PROVE  Owes(n)
BY DEF Owes, SameVault

LEMMA SetStateSameVault ==
    ASSUME NEW m \in Memories, NEW ids, NEW state
    PROVE  SameVault(m, SetState(m, ids, state))
BY DEF SameVault, SetState, Memories

LEMMA ExpireSameVault ==
    ASSUME NEW m \in Memories, NEW ids
    PROVE  SameVault(m, Expire(m, ids))
<1> DEFINE known == ids \cap DOMAIN m.rows
           n == SetState(m, known, "expired")
<1>1. SameVault(m, n) /\ DOMAIN n = DOMAIN m
  BY SetStateSameVault DEF SetState
<1>2. {"files", "dirty", "full", "timer", "failed"} \subseteq DOMAIN m
  BY DEF Memories
<1> HIDE DEF n
<1>3. Expire(m, ids) = [n EXCEPT !.retired = @ \cup known]
  BY DEF Expire, n
<1> QED
  BY <1>1, <1>2, <1>3 DEF SameVault

LEMMA RecalledSameVault ==
    ASSUME NEW m \in Memories, NEW hits
    PROVE  SameVault(m, Recalled(m, hits))
BY DEF SameVault, Recalled, Memories

LEMMA FissionSameVault ==
    ASSUME NEW m \in Memories, NEW id
    PROVE  SameVault(m, Fission(m, id))
BY DEF SameVault, Fission, SetTier, Memories

\* A store asks for the file of its row, and for all files if it consolidates.
LEMMA StoreOwes ==
    ASSUME NEW m, Sound(m), NEW c \in Contents, NEW state \in MemoryStates,
           c \in Flagged => state # "active", NEW superseded, Owes(m)
    PROVE  Owes(Store(m, c, state, superseded))
<1> DEFINE id == m.next
           young == Young(m, c, state, superseded)
           settled == Settled(young)
           split == Fission(settled, id)
           n == MarkVaultDirty(split, id)
<1>1. Sound(young) /\ id \in Past(young) /\ Live(young) \subseteq Live(m) \cup {id}
  BY YoungFacts
<1>2. SameVault(m, young)
  <2> DEFINE ins == Inserted(m, Fresh(c, state))
             ex == Expire(ins, superseded)
  <2>1. Sound(ins)
    BY InsertedFacts
  <2>2. SameVault(m, ins)
    BY DEF SameVault, Inserted, Sound, Memories
  <2> HIDE DEF ins
  <2>3. SameVault(ins, ex) /\ ex \in Memories
    BY <2>1, ExpireSameVault, ExpireSettles DEF Sound, Settles, Rewrites
  <2> HIDE DEF ex
  <2>4. \A r : SameVault(ex, [ex EXCEPT !.ram = r])
    BY <2>3 DEF SameVault, Memories
  <2>5. \E r : young = [ex EXCEPT !.ram = r]
    BY DEF Young, ex, ins
  <2> HIDE DEF young
  <2> QED
    BY <2>2, <2>3, <2>4, <2>5 DEF SameVault
<1>3. Store(m, c, state, superseded) = n
  BY StoreUnfolds
<1> HIDE DEF young
<1>4. Settles(young, settled) /\ Sound(settled)
  BY <1>1, ConsolidateSettles DEF Settled, Settles, Rewrites, SameRows
<1>5. CASE settled = young
  <2>1. SameVault(young, split) /\ Settles(young, split)
    BY <1>1, <1>5, FissionSameVault, FissionSettles DEF Sound
  <2> HIDE DEF settled, split
  <2>2. SameVault(m, split) /\ Live(split) \subseteq Live(m) \cup {id} /\ split \in Memories
    BY <1>1, <1>2, <2>1 DEF SameVault, Settles, Rewrites, Sound
  <2>3. /\ n.files = m.files /\ n.dirty = m.dirty \cup {id} /\ n.full = (m.full \/ FALSE)
        /\ n.timer = TRUE /\ n.failed = m.failed /\ Live(n) = Live(split)
    BY <2>2 DEF SameVault, MarkVaultDirty, SyncVault, Memories, Live
  <2> HIDE DEF n
  <2>4. Owes(n)
    BY <2>2, <2>3 DEF Owes
  <2> QED
    BY <1>3, <2>4
<1>6. CASE settled = Consolidate(young)
  <2>1. \E l : settled = SyncVault(l, TRUE)
    BY <1>6 DEF Consolidate
  <2> HIDE DEF settled
  <2>2. Owing(settled)
    BY <1>4, <2>1, RequestIsOwing DEF Sound
  <2>3. Owing(split)
    BY <2>2 DEF Fission, SetTier, Owing
  <2> HIDE DEF split
  <2>4. Owing(n)
    BY <2>3 DEF MarkVaultDirty, SyncVault, Owing
  <2> HIDE DEF n
  <2> QED
    BY <1>3, <2>4, OwingIsOwed
<1> QED
  BY <1>5, <1>6 DEF Settled

LEMMA StoreMemoryOwes ==
    ASSUME NEW m, Sound(m), NEW c \in Contents
    PROVE  Owes(StoreMemory(m, c))
<1> DEFINE n == StoreWithControlPlane(m, c)
<1>1. Sound(n)
  BY StoreWithControlPlaneGrows DEF Stores, Grows
<1>2. \E l : n = SyncVault(l, TRUE)
  BY DEF StoreWithControlPlane
<1>3. StoreMemory(m, c) = IF n.next = m.next THEN Store(n, c, InferState(n, c), {}) ELSE n
  BY DEF StoreMemory
<1> HIDE DEF n
<1>4. Owes(n)
  BY <1>1, <1>2, RequestIsOwing, OwingIsOwed DEF Sound
<1>5. InferState(n, c) \in MemoryStates /\ (c \in Flagged => InferState(n, c) # "active")
  BY InferStateFacts
<1>6. Owes(Store(n, c, InferState(n, c), {}))
  BY <1>1, <1>4, <1>5, StoreOwes
<1> QED
  BY <1>3, <1>4, <1>6

LEMMA ImportBundleIsOwing ==
    ASSUME NEW m, Sound(m), NEW bundle \in Bundles
    PROVE  Owing(ImportBundle(m, bundle))
<1> DEFINE n == ImportBundle(m, bundle)
<1>1. n \in Memories
  BY ImportBundleGrows DEF Grows, Sound
<1>2. \E l : n = SyncVault(l, TRUE)
  BY DEF ImportBundle
<1> HIDE DEF n
<1> QED
  BY <1>1, <1>2, RequestIsOwing DEF n

\* A synchronisation pays what is owed: all of it, or the dirty items if that was all.
LEMMA FlushDirtyVaultOwes ==
    ASSUME NEW m, Sound(m), NEW force \in BOOLEAN, force \/ Owes(m)
    PROVE  Owes(FlushDirtyVault(m, force))
<1> DEFINE e == ExpireMemories(m)
<1>1. Settles(m, e) /\ SameVault(m, e) /\ e \in Memories
  BY ExpireSettles, ExpireSameVault DEF ExpireMemories, Settles, Rewrites, Sound
<1>2. FlushDirtyVault(m, force) =
         IF force \/ NeedsFull(m) THEN Synced(e, Live(e), {}, FALSE, FALSE)
         ELSE Synced(e, (e.files \ e.dirty) \cup (e.dirty \cap Live(e)), {}, e.full, e.failed)
  BY FlushDirtyVaultSynced
<1> HIDE DEF e
<1>3. \A files, failed :
         LET n == Synced(e, files, {}, FALSE, failed)
         IN  n.files = files /\ n.dirty = {} /\ n.full = FALSE /\ n.failed = failed /\ Live(n) = Live(e)
  BY <1>1 DEF Synced, Memories, Live
<1>4. ASSUME NEW files, NEW failed, failed \/ Live(e) \subseteq files
      PROVE  Owes(Synced(e, files, {}, FALSE, failed))
  <2> DEFINE n == Synced(e, files, {}, FALSE, failed)
  <2>1. n.files = files /\ n.dirty = {} /\ n.full = FALSE /\ n.failed = failed /\ Live(n) = Live(e)
    BY <1>3
  <2> HIDE DEF n
  <2>2. Owes(n)
    BY <1>4, <2>1 DEF Owes
  <2> QED
    BY <2>2 DEF n
<1>5. CASE force \/ NeedsFull(m)
  BY <1>2, <1>4, <1>5
<1>6. CASE ~(force \/ NeedsFull(m))
  <2> DEFINE files == (e.files \ e.dirty) \cup (e.dirty \cap Live(e))
  <2>1. e.full = FALSE
    BY <1>1, <1>6 DEF NeedsFull, SameVault, Memories
  <2>2. FlushDirtyVault(m, force) = Synced(e, files, {}, FALSE, e.failed)
    BY <1>2, <1>6, <2>1
  <2>3. e.failed \/ Live(e) \subseteq files
    BY <1>1, <1>6 DEF Owes, NeedsFull, Settles, SameVault
  <2> HIDE DEF files
  <2> QED
    BY <1>4, <2>2, <2>3
<1> QED
  BY <1>5, <1>6

\* Every step of an open engine leaves the vault owed what it lacks.
LEMMA OwesStep ==
    ASSUME Inv, up => Owes(mem), [Next]_vars
    PROVE  up' => Owes(mem')
<1>1. Sound(mem) /\ Sound(mem') /\ mem \in Memories /\ mem' \in Memories
  BY NextInv DEF Inv, Sound
<1>2. ASSUME NEW outcomes, Becomes(outcomes), \A m \in outcomes : Owes(m) PROVE Owes(mem')
  BY <1>2 DEF Becomes
<1>3. Settles(mem, ExpireMemories(mem)) /\ SameVault(mem, ExpireMemories(mem))
  BY <1>1, ExpireSettles, ExpireSameVault DEF ExpireMemories
<1>4. Sound(ExpireMemories(mem)) /\ ExpireMemories(mem) \in Memories
  BY <1>3 DEF Settles, Rewrites, Sound
<1>5. CASE StoreMemoryAndDispatch
  <2>1. PICK c \in Contents : mem' = StoreMemory(mem, c)
    BY <1>5 DEF StoreMemoryAndDispatch, Becomes
  <2> QED
    BY <1>1, <2>1, StoreMemoryOwes
<1>6. CASE ImportMemory
  <2>1. PICK bundle \in Bundles : mem' = ImportBundle(mem, bundle)
    BY <1>6 DEF ImportMemory, Becomes
  <2> QED
    BY <1>1, <2>1, ImportBundleIsOwing, OwingIsOwed
<1>7. CASE Recall
  <2> DEFINE m == ExpireMemories(mem)
  <2>1. PICK hits : mem' = Recalled(m, hits)
    BY <1>7 DEF Recall, Becomes
  <2>2. up
    BY <1>7 DEF Recall, Becomes
  <2>3. Settles(m, Recalled(m, hits)) /\ SameVault(m, Recalled(m, hits))
    BY <1>4, RecalledSettles, RecalledSameVault
  <2>4. Owes(m)
    BY <1>3, <2>2, SameVaultOwes DEF Settles
  <2> HIDE DEF m
  <2> QED
    BY <2>1, <2>3, <2>4, SameVaultOwes DEF Settles
<1>8. CASE VaultTimer
  <2>1. up /\ mem' = FlushDirtyVault(mem, FALSE)
    BY <1>8 DEF VaultTimer, Becomes
  <2> QED
    BY <1>1, <2>1, FlushDirtyVaultOwes
<1>9. CASE PreCompactionFlush
  <2>1. mem' = FlushDirtyVault(Flush(mem), TRUE)
    BY <1>9 DEF PreCompactionFlush, Becomes
  <2>2. Sound(Flush(mem))
    BY <1>1, FlushGrows DEF Grows
  <2> QED
    BY <2>1, <2>2, FlushDirtyVaultOwes
<1>10. CASE HealthTick
  <2> DEFINE ids == Faded(mem) \cap Unused(mem)
  <2>1. up /\ mem' = SetState(mem, ids, "quarantined")
    BY <1>10 DEF HealthTick, Becomes
  <2>2. ids \in SUBSET Live(mem)
    BY DEF Faded, Live
  <2> HIDE DEF ids
  <2>3. Settles(mem, mem') /\ SameVault(mem, mem')
    BY <1>1, <2>1, <2>2, SetStateSettles, SetStateSameVault
  <2> QED
    BY <2>1, <2>3, SameVaultOwes DEF Settles
<1>11. CASE Maintain
  <2>1. \E l : mem' = SyncVault(l, TRUE)
    BY <1>11 DEF Maintain, Scrapped, Becomes
  <2> QED
    BY <1>1, <2>1, RequestIsOwing, OwingIsOwed
<1>12. CASE MaintenanceCycle
  <2> DEFINE Cycled(cooled, old) == FlushDirtyVault(Maintained(cooled, old), TRUE)
             fading == {i \in DOMAIN mem.rows : mem.rows[i].content \in Fading}
             outcomes == {Cycled(cooled, old) : cooled \in SUBSET fading, old \in 0..MaxRows}
  <2>1. Becomes(outcomes)
    BY <1>12 DEF MaintenanceCycle
  <2> HIDE DEF Cycled
  <2>2. PICK cooled, old : mem' = Cycled(cooled, old)
    BY <2>1 DEF Becomes
  <2>3. mem' = FlushDirtyVault(Maintained(cooled, old), TRUE)
    BY <2>2 DEF Cycled
  <2>4. Sound(Maintained(cooled, old))
    BY <1>1, MaintainedGrows DEF Maintained, Grows
  <2> QED
    BY <2>3, <2>4, FlushDirtyVaultOwes
<1>13. CASE FailureLogged
  <2>1. PICK n \in {Maintained({}, 0), Flush(mem)} : mem' \in SyncTorn(n, TRUE)
    BY <1>13 DEF FailureLogged
  <2>2. Sound(n)
    BY <1>1, <2>1, MaintainedGrows, FlushGrows DEF Maintained, Grows
  <2>3. mem'.failed = TRUE
    BY <2>1, <2>2, SyncTornSettles
  <2> QED
    BY <2>3 DEF Owes
<1>14. CASE Close \/ Crash \/ FailureEnds
  BY <1>14 DEF Close, Crash, FailureEnds
<1>15. CASE Restart
  <2>1. \E l : mem' = SyncVault(l, TRUE)
    BY <1>15 DEF Restart, Load
  <2> QED
    BY <1>1, <2>1, RequestIsOwing, OwingIsOwed
<1>16. CASE Elapse \/ UNCHANGED vars
  BY <1>16 DEF Elapse, vars
<1>17. CASE StoreDirect
  <2>1. PICK c \in Direct : up /\ mem' = Store(mem, c, InferState(mem, c), {})
    BY <1>17 DEF StoreDirect, Becomes
  <2>2. c \in Contents /\ InferState(mem, c) \in MemoryStates
        /\ (c \in Flagged => InferState(mem, c) # "active")
    BY DirectAssumption, InferStateFacts
  <2> QED
    BY <1>1, <2>1, <2>2, StoreOwes
<1>18. CASE ShareMemory
  <2>1. PICK i \in DOMAIN mem.rows : up /\ mem' = MarkVaultDirty(mem, i)
    BY <1>18 DEF ShareMemory, Becomes
  <2>2. /\ mem'.files = mem.files /\ mem'.dirty = mem.dirty \cup {i} /\ mem'.timer = TRUE
        /\ mem'.full = (mem.full \/ FALSE) /\ mem'.failed = mem.failed /\ Live(mem') = Live(mem)
    BY <1>1, <2>1 DEF MarkVaultDirty, SyncVault, Memories, Live
  <2> QED
    BY <2>1, <2>2 DEF Owes
<1> QED
  BY <1>5, <1>6, <1>7, <1>8, <1>9, <1>10, <1>11, <1>12, <1>13, <1>14, <1>15, <1>16, <1>17,
     <1>18 DEF Next

\* Why every memory that stays alive gets its file: while the engine is open and no
\* synchronisation has failed since the last full one, a live row without its file has a
\* timer that is set (memory.ts:2233, 2258, 2294).
THEOREM ProjectionIsOwed ==
    Spec => [](up => \A i \in Live(mem) : i \in mem.files \/ mem.timer \/ mem.failed)
<1> DEFINE Owed == up => Owes(mem)
<1>1. Init => Owed
  BY DEF Init, Owes, Live, NoRows
<1>2. Inv /\ Owed /\ [Next]_vars => Owed'
  BY OwesStep
<1>3. Owed => (up => \A i \in Live(mem) : i \in mem.files \/ mem.timer \/ mem.failed)
  BY DEF Owes
<1> HIDE DEF Owed
<1> QED
  BY <1>1, <1>2, <1>3, MemoryInvariant, PTL DEF Spec
=============================================================================
