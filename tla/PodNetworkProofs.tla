---------------------------- MODULE PodNetworkProofs ----------------------------
(***************************************************************************)
(* Proofs about PodNetwork, for any processes, messages, failures and      *)
(* overlapping writes.                                                     *)
(***************************************************************************)
EXTENDS PodNetwork, TLAPS

USE DEF vars, writing, bounds

--------------------------------------------------------------------------------
(* What loading does, at a poll or a start.                                 *)

LEMMA LoadType ==
    ASSUME TypeOK, NEW p \in Processes, Load(p)
    PROVE  /\ local' \in [Processes -> SUBSET Messages]
           /\ heard' \in [Processes -> [Messages -> Nat]]
           /\ cut' \in [Processes -> SUBSET Messages]
           /\ failures' \in 0..MaxFailures
<1>1. NewMessages(p) \subseteq Messages
  BY DEF TypeOK, NewMessages
<1>2. local[p] \subseteq Messages /\ heard[p] \in [Messages -> Nat] /\ cut[p] \subseteq Messages
  BY DEF TypeOK
<1>3. Merged(p) \subseteq Messages
  BY <1>1, <1>2 DEF Merged
<1>4. PICK told \in SUBSET NewMessages(p) :
         /\ \/ told = NewMessages(p) /\ UNCHANGED failures
            \/ told # {} /\ Failure
         /\ local' = [local EXCEPT ![p] = Merged(p)]
         /\ heard' = [heard EXCEPT ![p] =
                [m \in Messages |-> @[m] + IF m \in told THEN 1 ELSE 0]]
         /\ cut' = [cut EXCEPT ![p] = @ \cup (NewMessages(p) \ told)]
  BY DEF Load
<1>5. [m \in Messages |-> heard[p][m] + IF m \in told THEN 1 ELSE 0] \in [Messages -> Nat]
  BY <1>2
<1>6. failures' \in 0..MaxFailures
  BY <1>4, PodBoundsAssumption DEF Failure, TypeOK
<1>7. cut[p] \cup (NewMessages(p) \ told) \subseteq Messages
  BY <1>1, <1>2
<1> QED
  BY <1>3, <1>4, <1>5, <1>6, <1>7 DEF TypeOK

\* A process hears part of what is new to it, and what it does not hear is cut.
LEMMA LoadFacts ==
    ASSUME TypeOK, NEW p \in Processes, Load(p)
    PROVE  /\ local' = [local EXCEPT ![p] = @ \cup NewMessages(p)]
           /\ local'[p] = local[p] \cup NewMessages(p)
           /\ \A m \in Messages :
                 \/ m \in NewMessages(p) /\ heard'[p][m] = heard[p][m] + 1
                 \/ m \in NewMessages(p) /\ heard'[p][m] = heard[p][m] /\ m \in cut'[p]
                 \/ m \notin NewMessages(p) /\ heard'[p][m] = heard[p][m]
           /\ cut[p] \subseteq cut'[p]
           /\ \A q \in Processes \ {p} :
                 local'[q] = local[q] /\ heard'[q] = heard[q] /\ cut'[q] = cut[q]
<1>1. PICK told \in SUBSET NewMessages(p) :
         /\ local' = [local EXCEPT ![p] = Merged(p)]
         /\ heard' = [heard EXCEPT ![p] =
                [m \in Messages |-> @[m] + IF m \in told THEN 1 ELSE 0]]
         /\ cut' = [cut EXCEPT ![p] = @ \cup (NewMessages(p) \ told)]
  BY DEF Load
<1>2. \A m \in Messages : heard'[p][m] = heard[p][m] + (IF m \in told THEN 1 ELSE 0)
  BY <1>1 DEF TypeOK
<1>3. \A m \in Messages : heard[p][m] + 0 = heard[p][m]
  BY DEF TypeOK
<1>4. cut'[p] = cut[p] \cup (NewMessages(p) \ told)
  BY <1>1 DEF TypeOK
<1>5. \A m \in Messages :
          \/ m \in NewMessages(p) /\ heard'[p][m] = heard[p][m] + 1
          \/ m \in NewMessages(p) /\ heard'[p][m] = heard[p][m] /\ m \in cut'[p]
          \/ m \notin NewMessages(p) /\ heard'[p][m] = heard[p][m]
  BY <1>2, <1>3, <1>4
<1>6. \A q \in Processes \ {p} : local'[q] = local[q] /\ heard'[q] = heard[q] /\ cut'[q] = cut[q]
  BY <1>1 DEF TypeOK
<1>7. /\ local' = [local EXCEPT ![p] = @ \cup NewMessages(p)]
      /\ local'[p] = local[p] \cup NewMessages(p)
  BY <1>1 DEF Merged, TypeOK
<1> QED
  BY <1>4, <1>5, <1>6, <1>7

\* The step that publishes: the number of the new message, and what is kept.
LEMMA PublishFacts ==
    ASSUME TypeOK, NEW p \in Processes, Publish(p)
    PROVE  /\ published + 1 \in Messages /\ published' = published + 1
           /\ local' \in [Processes -> SUBSET Messages]
           /\ author' \in [Messages -> Processes \cup {NoOne}]
           /\ horizon' \in 0..published'
           /\ horizon' = horizon
<1>1. published + 1 \in Messages /\ published' = published + 1 /\ horizon' \in 0..published'
  BY PodBoundsAssumption DEF TypeOK, Publish, Messages
<1>2. Young(local[p]) \cup {published + 1} \subseteq Messages
  BY <1>1 DEF TypeOK, Young
<1> QED
  BY <1>1, <1>2 DEF TypeOK, Publish

\* PodNetwork's variables keep their types.
THEOREM PodTypeCorrect == Spec => []TypeOK
<1>1. Init => TypeOK
  BY PodBoundsAssumption DEF Init, TypeOK, Silence
<1>2. TypeOK /\ [Next]_vars => TypeOK'
  <2> SUFFICES ASSUME TypeOK, [Next]_vars
               PROVE  TypeOK'
    OBVIOUS
  <2>1. ASSUME NEW p \in Processes, Start(p) PROVE TypeOK'
    BY <2>1, LoadType DEF Start, TypeOK
  <2>2. ASSUME NEW p \in Processes, Poll(p) PROVE TypeOK'
    BY <2>2, LoadType DEF Poll, TypeOK
  <2>3. ASSUME NEW p \in Processes, BeginPublish(p) PROVE TypeOK'
    <3>1. Publish(p) /\ published + 1 \in Messages
      BY <2>3, PublishFacts DEF BeginPublish
    <3>2. /\ publishing' \in [Processes -> Messages \cup {0}]
          /\ clash' \subseteq Processes /\ unlinked' \subseteq Processes
      BY <2>3, <3>1 DEF BeginPublish, TypeOK, Writers
    <3>3. published' \in 0..MaxMessages /\ up' \subseteq Processes /\ clears' \in 0..MaxClears
      BY <3>1, PublishFacts DEF Publish, TypeOK, Messages
    <3> QED
      BY <2>3, <3>1, <3>2, <3>3, PublishFacts DEF BeginPublish, TypeOK
  <2>4. ASSUME NEW p \in Processes, PublishUnsaved(p) PROVE TypeOK'
    <3>1. Publish(p) /\ published + 1 \in Messages
      BY <2>4, PublishFacts DEF PublishUnsaved
    <3>2. heard' \in [Processes -> [Messages -> Nat]]
      BY <2>4, <3>1 DEF PublishUnsaved, TypeOK
    <3>3. published' \in 0..MaxMessages /\ up' \subseteq Processes /\ clears' \in 0..MaxClears
      BY <3>1, PublishFacts DEF Publish, TypeOK, Messages
    <3>4. failures' \in 0..MaxFailures
      BY <2>4, PodBoundsAssumption DEF PublishUnsaved, Failure, TypeOK
    <3> QED
      BY <2>4, <3>1, <3>2, <3>3, <3>4, PublishFacts DEF PublishUnsaved, TypeOK
  <2>5. ASSUME NEW p \in Processes, EndPublish(p) PROVE TypeOK'
    <3>1. file' = Torn \/ file' \subseteq Messages
      BY <2>5 DEF EndPublish, TypeOK
    <3>2. failures' \in 0..MaxFailures
      BY <2>5, PodBoundsAssumption DEF EndPublish, Failure, TypeOK
    <3>3. publishing[p] \in Messages
      BY <2>5 DEF EndPublish, Writers, TypeOK
    <3>4. heard' \in [Processes -> [Messages -> Nat]]
      BY <2>5, <3>3 DEF EndPublish, TypeOK
    <3> QED
      BY <2>5, <3>1, <3>2, <3>4 DEF EndPublish, TypeOK
  <2>6. ASSUME NEW p \in Processes, Clear(p) PROVE TypeOK'
    BY <2>6, PodBoundsAssumption DEF Clear, Failure, Writers, TypeOK
  <2>7. ASSUME NEW p \in Processes, Exit(p) PROVE TypeOK'
    BY <2>7, PodBoundsAssumption DEF Exit, Failure, Silence, TypeOK
  <2>8. CASE Age
    BY <2>8, PodBoundsAssumption DEF Age, TypeOK
  <2>9. CASE UNCHANGED vars
    BY <2>9 DEF TypeOK
  <2> QED
    BY <2>1, <2>2, <2>3, <2>4, <2>5, <2>6, <2>7, <2>8, <2>9 DEF Next
<1> QED
  BY <1>1, <1>2, PTL DEF Spec
--------------------------------------------------------------------------------
(* At-most-once broadcast.                                                  *)

\* A message not published yet is nowhere.
FutureIsEmpty ==
    /\ \A p \in Processes, m \in Messages :
          m > published => heard[p][m] = 0 /\ m \notin local[p]
    /\ file # Torn => \A m \in file : m <= published
    /\ \A p \in Processes : publishing[p] <= published

\* What makes the merge by id enough: a young message a process has broadcast, or
\* is about to, is among those it knows, so that no file can bring it in as new.
HeardIsKnown ==
    clears = 0 =>
        \A p \in Processes, m \in Messages : m > horizon =>
            /\ heard[p][m] <= 1
            /\ heard[p][m] = 1 => m \in local[p]
            /\ publishing[p] = m => m \in local[p] /\ heard[p][m] = 0

DeliveryInv == TypeOK /\ FutureIsEmpty /\ HeardIsKnown

LEMMA LoadDelivery ==
    ASSUME DeliveryInv, NEW p \in Processes, Load(p),
           UNCHANGED <<file, publishing, published, horizon, clears>>
    PROVE  FutureIsEmpty' /\ HeardIsKnown'
<1>1. TypeOK
  BY DEF DeliveryInv
<1>2. \A m \in Messages :
          \/ m \in NewMessages(p) /\ heard'[p][m] \in {heard[p][m], heard[p][m] + 1}
          \/ m \notin NewMessages(p) /\ heard'[p][m] = heard[p][m]
  BY <1>1, LoadFacts
<1>3. \A q \in Processes : q # p => heard'[q] = heard[q] /\ local'[q] = local[q]
  BY <1>1, LoadFacts
<1>4. \A m \in NewMessages(p) : m \in Messages /\ m <= published /\ m \notin local[p]
  BY DEF NewMessages, DeliveryInv, TypeOK, FutureIsEmpty
<1>5. local'[p] = local[p] \cup NewMessages(p)
  BY <1>1, LoadFacts
<1>6. published \in Nat /\ horizon \in Nat /\ heard \in [Processes -> [Messages -> Nat]]
  BY DEF DeliveryInv, TypeOK
<1>7. FutureIsEmpty'
  <2>1. ASSUME NEW q \in Processes, NEW m \in Messages, m > published
        PROVE  heard'[q][m] = 0 /\ m \notin local'[q]
    <3>1. heard[q][m] = 0 /\ m \notin local[q]
      BY <2>1 DEF FutureIsEmpty, DeliveryInv
    <3>2. m \notin NewMessages(p)
      BY <2>1, <1>4, <1>6 DEF Messages
    <3> QED
      BY <3>1, <3>2, <1>2, <1>3, <1>5
  <2> QED
    BY <2>1 DEF FutureIsEmpty, DeliveryInv
<1>8. HeardIsKnown'
  <2> SUFFICES ASSUME clears = 0, NEW q \in Processes, NEW m \in Messages, m > horizon
               PROVE  /\ heard'[q][m] <= 1
                      /\ heard'[q][m] = 1 => m \in local'[q]
                      /\ publishing[q] = m => m \in local'[q] /\ heard'[q][m] = 0
    BY DEF HeardIsKnown
  <2>1. /\ heard[q][m] <= 1 /\ heard[q][m] \in Nat
        /\ heard[q][m] = 1 => m \in local[q]
        /\ publishing[q] = m => m \in local[q] /\ heard[q][m] = 0
    BY <1>6 DEF HeardIsKnown, DeliveryInv
  <2>2. CASE q # p
    BY <2>1, <2>2, <1>3
  <2>3. CASE q = p /\ m \in NewMessages(p)
    BY <2>1, <2>3, <1>2, <1>4, <1>5
  <2>4. CASE q = p /\ m \notin NewMessages(p)
    BY <2>1, <2>4, <1>2, <1>5
  <2> QED
    BY <2>2, <2>3, <2>4
<1> QED
  BY <1>7, <1>8

LEMMA DeliveryStep == DeliveryInv /\ TypeOK' /\ [Next]_vars => DeliveryInv'
<1> SUFFICES ASSUME DeliveryInv, TypeOK', [Next]_vars
             PROVE  FutureIsEmpty' /\ HeardIsKnown'
  BY DEF DeliveryInv
<1>1. ASSUME NEW p \in Processes, Start(p) PROVE FutureIsEmpty' /\ HeardIsKnown'
  BY <1>1, LoadDelivery DEF Start
<1>2. ASSUME NEW p \in Processes, Poll(p) PROVE FutureIsEmpty' /\ HeardIsKnown'
  BY <1>2, LoadDelivery DEF Poll
<1>3. ASSUME NEW p \in Processes, Publish(p) 
      PROVE  /\ \A q \in Processes, m \in Messages :
                   m > published' => heard[q][m] = 0 /\ m \notin local'[q]
             /\ \A q \in Processes, m \in Messages :
                   m > horizon /\ m \in local[q] => m \in local'[q]
             /\ published + 1 \in local'[p] /\ published + 1 \in Messages
             /\ heard[p][published + 1] = 0
             /\ published' = published + 1 /\ published \in Nat /\ horizon' = horizon
             /\ clears' = clears
  <2>1. /\ local' = [local EXCEPT ![p] = Young(local[p]) \cup {published + 1}]
        /\ published' = published + 1 /\ published \in Nat /\ horizon' = horizon
        /\ published + 1 \in Messages /\ clears' = clears
    BY <1>3, PublishFacts DEF Publish, DeliveryInv, TypeOK
  <2>2. local'[p] = Young(local[p]) \cup {published + 1}
    BY <2>1 DEF DeliveryInv, TypeOK
  <2>3. \A q \in Processes : q # p => local'[q] = local[q]
    BY <2>1 DEF DeliveryInv, TypeOK
  <2>4. heard[p][published + 1] = 0
    BY <2>1 DEF FutureIsEmpty, DeliveryInv
  <2>5. \A q \in Processes, m \in Messages :
            m > published' => heard[q][m] = 0 /\ m \notin local'[q]
    BY <2>1, <2>2, <2>3 DEF FutureIsEmpty, DeliveryInv, Young, Messages
  <2>6. \A q \in Processes, m \in Messages :
            m > horizon /\ m \in local[q] => m \in local'[q]
    BY <2>2, <2>3 DEF Young
  <2> QED
    BY <2>1, <2>2, <2>4, <2>5, <2>6
<1>4. ASSUME NEW p \in Processes, BeginPublish(p) PROVE FutureIsEmpty' /\ HeardIsKnown'
  <2>1. Publish(p) /\ file' = Torn /\ heard' = heard
    BY <1>4 DEF BeginPublish
  <2>2. /\ publishing'[p] = published + 1
        /\ \A q \in Processes : q # p => publishing'[q] = publishing[q]
    BY <1>4 DEF BeginPublish, DeliveryInv, TypeOK
  <2>3. FutureIsEmpty'
    <3>1. \A q \in Processes : publishing[q] <= published /\ publishing[q] \in Int
      BY DEF FutureIsEmpty, DeliveryInv, TypeOK, Messages
    <3>2. \A q \in Processes : publishing'[q] <= published'
      BY <3>1, <2>1, <2>2, <1>3
    <3> QED
      BY <3>2, <2>1, <1>3 DEF FutureIsEmpty
  <2>4. HeardIsKnown'
    BY <2>1, <2>2, <1>3 DEF HeardIsKnown, DeliveryInv
  <2> QED
    BY <2>3, <2>4
<1>5. ASSUME NEW p \in Processes, PublishUnsaved(p) PROVE FutureIsEmpty' /\ HeardIsKnown'
  <2>1. Publish(p) /\ file' = file /\ publishing' = publishing
    BY <1>5 DEF PublishUnsaved
  <2>2. /\ heard'[p][published + 1] = heard[p][published + 1] + 1
        /\ \A q \in Processes, m \in Messages :
              q # p \/ m # published + 1 => heard'[q][m] = heard[q][m]
    BY <1>5, <2>1, <1>3 DEF PublishUnsaved, DeliveryInv, TypeOK
  <2>3. FutureIsEmpty'
    <3>1. \A q \in Processes : publishing[q] <= published /\ publishing[q] \in Int
      BY DEF FutureIsEmpty, DeliveryInv, TypeOK, Messages
    <3>2. \A q \in Processes : publishing'[q] <= published'
      BY <3>1, <2>1, <1>3
    <3>3. file # Torn => \A m \in file : m <= published'
      BY <1>3, <2>1 DEF FutureIsEmpty, DeliveryInv, TypeOK, Messages
    <3>4. ASSUME NEW q \in Processes, NEW m \in Messages, m > published'
          PROVE  heard'[q][m] = 0 /\ m \notin local'[q]
      BY <3>4, <2>1, <2>2, <1>3 DEF Messages
    <3> QED
      BY <3>2, <3>3, <3>4, <2>1 DEF FutureIsEmpty
  <2>4. publishing[p] = 0 /\ publishing'[p] = 0
    BY <2>1 DEF Publish, AtLoop, Writers
  <2>5. HeardIsKnown'
    <3> SUFFICES ASSUME clears = 0, NEW q \in Processes, NEW m \in Messages, m > horizon
                 PROVE  /\ heard'[q][m] <= 1
                        /\ heard'[q][m] = 1 => m \in local'[q]
                        /\ publishing[q] = m => m \in local'[q] /\ heard'[q][m] = 0
      BY <2>1, <1>3 DEF HeardIsKnown
    <3>1. /\ heard[q][m] <= 1
          /\ heard[q][m] = 1 => m \in local[q]
          /\ publishing[q] = m => m \in local[q] /\ heard[q][m] = 0
      BY DEF HeardIsKnown, DeliveryInv
    <3>2. CASE q = p /\ m = published + 1
      BY <3>2, <2>1, <2>2, <2>4, <1>3
    <3>3. CASE ~(q = p /\ m = published + 1)
      BY <3>1, <3>3, <2>1, <2>2, <1>3
    <3> QED
      BY <3>2, <3>3
  <2> QED
    BY <2>3, <2>5
<1>6. ASSUME NEW p \in Processes, EndPublish(p) PROVE FutureIsEmpty' /\ HeardIsKnown'
  <2> DEFINE w == publishing[p]
  <2>1. /\ w \in Messages
        /\ UNCHANGED <<local, published, horizon, clears>>
        /\ publishing'[p] = 0
        /\ \A q \in Processes : q # p => publishing'[q] = publishing[q]
    BY <1>6 DEF EndPublish, Writers, DeliveryInv, TypeOK
  <2>2. /\ heard'[p][w] = heard[p][w] + 1
        /\ \A q \in Processes, m \in Messages :
              q # p \/ m # w => heard'[q][m] = heard[q][m]
    BY <1>6, <2>1 DEF EndPublish, DeliveryInv, TypeOK
  <2>3. file' = local[p] \/ file' = Torn \/ file' = file
    BY <1>6 DEF EndPublish
  <2>4. w <= published /\ published \in Nat /\ local[p] \subseteq Messages
    BY DEF FutureIsEmpty, DeliveryInv, TypeOK
  <2>5. FutureIsEmpty'
    <3>1. ASSUME NEW q \in Processes, NEW m \in Messages, m > published
          PROVE  heard'[q][m] = 0 /\ m \notin local'[q]
      BY <3>1, <2>1, <2>2, <2>4 DEF FutureIsEmpty, DeliveryInv, Messages
    <3>2. \A m \in local[p] : m <= published
      BY <2>4 DEF FutureIsEmpty, DeliveryInv, Messages
    <3>3. \A q \in Processes : publishing'[q] <= published
      BY <2>1, <2>4 DEF FutureIsEmpty, DeliveryInv
    <3> QED
      BY <3>1, <3>2, <3>3, <2>1, <2>3 DEF FutureIsEmpty, DeliveryInv
  <2>6. HeardIsKnown'
    <3> SUFFICES ASSUME clears = 0, NEW q \in Processes, NEW m \in Messages, m > horizon
                 PROVE  /\ heard'[q][m] <= 1
                        /\ heard'[q][m] = 1 => m \in local[q]
                        /\ publishing'[q] = m => m \in local[q] /\ heard'[q][m] = 0
      BY <2>1 DEF HeardIsKnown
    <3>1. /\ heard[q][m] <= 1
          /\ heard[q][m] = 1 => m \in local[q]
          /\ publishing[q] = m => m \in local[q] /\ heard[q][m] = 0
      BY DEF HeardIsKnown, DeliveryInv
    <3>2. CASE q = p /\ m = w
      BY <3>1, <3>2, <2>1, <2>2 DEF Messages
    <3>3. CASE q = p /\ m # w
      BY <3>1, <3>3, <2>1, <2>2 DEF Messages
    <3>4. CASE q # p
      BY <3>1, <3>4, <2>1, <2>2
    <3> QED
      BY <3>2, <3>3, <3>4
  <2> QED
    BY <2>5, <2>6
<1>7. ASSUME NEW p \in Processes, Clear(p) PROVE FutureIsEmpty' /\ HeardIsKnown'
  <2>1. /\ file' \in {{}, file} /\ UNCHANGED <<heard, publishing, published>>
        /\ clears' = clears + 1 /\ clears \in Nat
        /\ \A q \in Processes : local'[q] \in {{}, local[q]}
    BY <1>7 DEF Clear, DeliveryInv, TypeOK
  <2>2. FutureIsEmpty'
    BY <2>1 DEF FutureIsEmpty, DeliveryInv
  <2>3. HeardIsKnown'
    BY <2>1 DEF HeardIsKnown
  <2> QED
    BY <2>2, <2>3
<1>8. ASSUME NEW p \in Processes, Exit(p) PROVE FutureIsEmpty' /\ HeardIsKnown'
  BY <1>8 DEF Exit, Silence, FutureIsEmpty, HeardIsKnown, DeliveryInv, TypeOK, Messages
<1>9. CASE Age
  BY <1>9 DEF Age, FutureIsEmpty, HeardIsKnown, DeliveryInv, TypeOK, Messages
<1>10. CASE UNCHANGED vars
  BY <1>10 DEF FutureIsEmpty, HeardIsKnown, DeliveryInv
<1> QED
  BY <1>1, <1>2, <1>4, <1>5, <1>6, <1>7, <1>8, <1>9, <1>10 DEF Next

\* No process broadcasts a young message twice: overwritten, torn and overlapping
\* writes only ever take messages out of the file or put known ones back.
THEOREM PodDeliveredOnce == Spec => []DeliveredOnce
<1>1. Init => DeliveryInv
  <2>1. Init => TypeOK
    BY PodBoundsAssumption DEF Init, TypeOK, Silence
  <2> QED
    BY <2>1 DEF Init, DeliveryInv, FutureIsEmpty, HeardIsKnown, Silence, Messages
<1>2. DeliveryInv => DeliveredOnce
  BY DEF DeliveryInv, HeardIsKnown, DeliveredOnce
<1> QED
  BY <1>1, <1>2, PodTypeCorrect, DeliveryStep, PTL DEF Spec

--------------------------------------------------------------------------------
\* Lost updates of the file are never the author's loss: as long as it lives, it
\* has each of its young messages and writes it again with its next one.
THEOREM PodAuthorKeeps == Spec => []AuthorKeeps
<1>1. Init => AuthorKeeps
  BY DEF Init, AuthorKeeps
<1>2. TypeOK /\ AuthorKeeps /\ [Next]_vars => AuthorKeeps'
  <2> SUFFICES ASSUME TypeOK, AuthorKeeps, [Next]_vars PROVE AuthorKeeps'
    OBVIOUS
  <2>1. ASSUME NEW p \in Processes, Load(p), UNCHANGED <<author, horizon, clears>>
        PROVE  AuthorKeeps'
    BY <2>1, LoadFacts DEF AuthorKeeps, TypeOK
  <2>2. ASSUME NEW p \in Processes, Publish(p) PROVE AuthorKeeps'
    <3>1. /\ local' = [local EXCEPT ![p] = Young(local[p]) \cup {published + 1}]
          /\ author' = [author EXCEPT ![published + 1] = p]
          /\ horizon' = horizon /\ clears' = clears
      BY <2>2 DEF Publish
    <3>2. ASSUME NEW m \in Messages, m > horizon, m # published + 1, author[m] # NoOne,
                 m \in local[author[m]]
          PROVE  m \in local'[author'[m]]
      <4>1. author'[m] = author[m] /\ author[m] \in Processes
        BY <3>1, <3>2 DEF TypeOK
      <4> QED
        BY <3>1, <3>2, <4>1 DEF Young, TypeOK
    <3>3. ASSUME NEW m \in Messages, m = published + 1
          PROVE  m \in local'[author'[m]]
      BY <3>1, <3>3 DEF TypeOK
    <3>4. \A m \in Messages : m # published + 1 => author'[m] = author[m]
      BY <3>1 DEF TypeOK
    <3> QED
      BY <3>1, <3>2, <3>3, <3>4 DEF AuthorKeeps
  <2>3. ASSUME NEW p \in Processes, Start(p) PROVE AuthorKeeps'
    BY <2>1, <2>3 DEF Start
  <2>4. ASSUME NEW p \in Processes, Poll(p) PROVE AuthorKeeps'
    BY <2>1, <2>4 DEF Poll
  <2>5. ASSUME NEW p \in Processes, BeginPublish(p) PROVE AuthorKeeps'
    BY <2>2, <2>5 DEF BeginPublish
  <2>6. ASSUME NEW p \in Processes, PublishUnsaved(p) PROVE AuthorKeeps'
    BY <2>2, <2>6 DEF PublishUnsaved
  <2>7. ASSUME NEW p \in Processes, EndPublish(p) PROVE AuthorKeeps'
    BY <2>7 DEF EndPublish, AuthorKeeps
  <2>8. ASSUME NEW p \in Processes, Clear(p) PROVE AuthorKeeps'
    BY <2>8 DEF Clear, AuthorKeeps, TypeOK
  <2>9. ASSUME NEW p \in Processes, Exit(p) PROVE AuthorKeeps'
    BY <2>9 DEF Exit, AuthorKeeps, TypeOK
  <2>10. CASE Age
    BY <2>10 DEF Age, AuthorKeeps, TypeOK, Messages
  <2>11. CASE UNCHANGED vars
    BY <2>11 DEF AuthorKeeps
  <2> QED
    BY <2>3, <2>4, <2>5, <2>6, <2>7, <2>8, <2>9, <2>10, <2>11 DEF Next
<1> QED
  BY <1>1, <1>2, PodTypeCorrect, PTL DEF Spec

--------------------------------------------------------------------------------
(* No message is known in silence.                                          *)

\* What a process knows it has broadcast, but for the message it is writing and what a
\* throwing listener kept from the rest.
KnownIsHeard ==
    \A p \in Processes, m \in Messages :
        m \in local[p] => heard[p][m] >= 1 \/ publishing[p] = m \/ m \in cut[p]

LEMMA KnownStep ==
    ASSUME TypeOK, KnownIsHeard, [Next]_vars
    PROVE  KnownIsHeard'
<1>1. \A q \in Processes, m \in Messages : heard[q][m] \in Nat /\ local[q] \subseteq Messages
  BY DEF TypeOK
<1>2. ASSUME NEW p \in Processes, Load(p), publishing' = publishing PROVE KnownIsHeard'
  <2>1. ASSUME NEW m \in Messages, m \in local'[p]
        PROVE  heard'[p][m] >= 1 \/ publishing[p] = m \/ m \in cut'[p]
    BY <1>1, <1>2, <2>1, LoadFacts DEF KnownIsHeard
  <2>2. \A q \in Processes \ {p} : local'[q] = local[q] /\ heard'[q] = heard[q] /\ cut'[q] = cut[q]
    BY <1>2, LoadFacts
  <2> QED
    BY <1>2, <2>1, <2>2 DEF KnownIsHeard
<1>3. ASSUME NEW p \in Processes, Publish(p)
      PROVE  /\ \A q \in Processes \ {p} : local'[q] = local[q]
             /\ \A m \in Messages :
                   m \in local'[p] => m = published + 1 \/ heard[p][m] >= 1 \/ m \in cut[p]
             /\ published + 1 \in Messages
  <2>1. /\ local' = [local EXCEPT ![p] = Young(local[p]) \cup {published + 1}]
        /\ published + 1 \in Messages /\ publishing[p] = 0
    BY <1>3, PublishFacts DEF Publish, AtLoop, Writers
  <2>2. \A m \in local[p] : heard[p][m] >= 1 \/ m \in cut[p]
    BY <1>1, <2>1 DEF KnownIsHeard, Messages
  <2> QED
    BY <2>1, <2>2 DEF Young, TypeOK
<1>4. CASE \E p \in Processes : Start(p) \/ Poll(p)
  BY <1>2, <1>4 DEF Start, Poll
<1>5. ASSUME NEW p \in Processes, BeginPublish(p) PROVE KnownIsHeard'
  <2>1. /\ heard' = heard /\ cut' = cut /\ Publish(p)
        /\ publishing' = [publishing EXCEPT ![p] = published + 1]
    BY <1>5 DEF BeginPublish
  <2> QED
    BY <1>3, <2>1 DEF KnownIsHeard, TypeOK
<1>6. ASSUME NEW p \in Processes, PublishUnsaved(p) PROVE KnownIsHeard'
  <2>1. /\ heard' = [heard EXCEPT ![p][published + 1] = @ + 1]
        /\ publishing' = publishing /\ cut' = cut /\ Publish(p)
    BY <1>6 DEF PublishUnsaved
  <2>2. /\ heard'[p][published + 1] = heard[p][published + 1] + 1
        /\ \A q \in Processes, m \in Messages : q # p \/ m # published + 1 => heard'[q][m] = heard[q][m]
    BY <1>3, <2>1 DEF TypeOK
  <2> QED
    BY <1>1, <1>3, <2>1, <2>2 DEF KnownIsHeard
<1>7. ASSUME NEW p \in Processes, EndPublish(p) PROVE KnownIsHeard'
  <2>1. /\ publishing[p] \in Messages /\ local' = local /\ cut' = cut
        /\ publishing' = [publishing EXCEPT ![p] = 0]
        /\ heard' = [heard EXCEPT ![p][publishing[p]] = @ + 1]
    BY <1>7 DEF EndPublish, Writers, TypeOK
  <2>2. /\ heard'[p][publishing[p]] = heard[p][publishing[p]] + 1
        /\ \A q \in Processes, m \in Messages : q # p \/ m # publishing[p] => heard'[q][m] = heard[q][m]
    BY <2>1 DEF TypeOK
  <2>3. \A q \in Processes \ {p} : publishing'[q] = publishing[q]
    BY <2>1 DEF TypeOK
  <2> QED
    BY <1>1, <2>1, <2>2, <2>3 DEF KnownIsHeard
<1>8. ASSUME NEW p \in Processes, Clear(p) \/ Exit(p) PROVE KnownIsHeard'
  <2>1. /\ local'[p] = {}
        /\ \A q \in Processes \ {p} :
              /\ local'[q] = local[q] /\ heard'[q] = heard[q]
              /\ publishing'[q] = publishing[q] /\ cut'[q] = cut[q]
    BY <1>8 DEF Clear, Exit, TypeOK
  <2> QED
    BY <2>1 DEF KnownIsHeard
<1>9. CASE Age \/ UNCHANGED vars
  BY <1>9 DEF Age, KnownIsHeard
<1> QED
  BY <1>4, <1>5, <1>6, <1>7, <1>8, <1>9 DEF Next

\* A young message that a process knows was broadcast in it exactly once, unless it is
\* being written by that very process or came in behind a message whose listener threw:
\* nothing else is merged from the file in silence, and none is broadcast again
\* (pod-network.ts:75-83, 103-118).
THEOREM PodExactlyOnce ==
    Spec => [](clears = 0 => \A p \in Processes, m \in Messages :
                  m > horizon /\ m \in local[p] \ cut[p] /\ publishing[p] # m => heard[p][m] = 1)
<1> DEFINE ExactlyOnce ==
       clears = 0 => \A p \in Processes, m \in Messages :
          m > horizon /\ m \in local[p] \ cut[p] /\ publishing[p] # m => heard[p][m] = 1
<1>1. Init => KnownIsHeard
  BY DEF Init, KnownIsHeard
<1>2. TypeOK /\ KnownIsHeard /\ [Next]_vars => KnownIsHeard'
  BY KnownStep
<1>3. TypeOK /\ KnownIsHeard /\ DeliveredOnce => ExactlyOnce
  BY DEF TypeOK, KnownIsHeard, DeliveredOnce
<1> HIDE DEF ExactlyOnce
<1>4. Spec => []ExactlyOnce
  BY <1>1, <1>2, <1>3, PodTypeCorrect, PodDeliveredOnce, PTL DEF Spec
<1> QED
  BY <1>4 DEF ExactlyOnce
================================================================================
