------------------------------ MODULE PodNetwork ------------------------------
(***************************************************************************)
(* PODNetwork: processes share findings through one file, pod.json.  Each  *)
(* keeps the messages it knows; it polls the file and merges what is new,  *)
(* and publishing overwrites the file with everything it knows that is     *)
(* younger than an hour.  Nothing locks the file: a write truncates it     *)
(* first, and two writes may overlap.                                      *)
(*                                                                         *)
(* Messages are numbered in the order of their timestamps.                 *)
(***************************************************************************)
EXTENDS Integers, FiniteSets

CONSTANTS
    Processes,
    MaxMessages,    \* bound: messages published
    MaxFailures,    \* bound: failing writes, throwing listeners and process exits
    MaxClears,      \* bound: calls of clear()
    Torn,           \* a file that does not parse
    NoOne

Messages == 1..MaxMessages

ASSUME PodBoundsAssumption == {MaxMessages, MaxFailures, MaxClears} \subseteq Nat
ASSUME TornAssumption == \A ms \in SUBSET Messages : Torn # ms
ASSUME NoOneAssumption == NoOne \notin Processes

VARIABLES
    file,        \* the messages in pod.json, {} when there is no file
    local,       \* this.messages of each process
    heard,       \* how often each process has broadcast each message
    publishing,  \* the message each process is publishing, 0 for none
    clash,       \* processes whose write overlaps another one's
    unlinked,    \* processes that write to a file somebody removed meanwhile
    cut,         \* history: what each process merged after a listener had thrown
    author,      \* the process that published a message, while it lives
    published,   \* messages published so far
    horizon,     \* messages up to this one are older than an hour
    up,
    failures, clears

vars == <<file, local, heard, publishing, clash, unlinked, cut, author, published,
          horizon, up, failures, clears>>
writing == <<publishing, clash, unlinked>>
bounds == <<failures, clears>>

TypeOK ==
    /\ file = Torn \/ file \subseteq Messages
    /\ local \in [Processes -> SUBSET Messages]
    /\ heard \in [Processes -> [Messages -> Nat]]
    /\ publishing \in [Processes -> Messages \cup {0}]
    /\ clash \subseteq Processes /\ unlinked \subseteq Processes
    /\ cut \in [Processes -> SUBSET Messages]
    /\ author \in [Messages -> Processes \cup {NoOne}]
    /\ published \in 0..MaxMessages
    /\ horizon \in 0..published
    /\ up \subseteq Processes
    /\ failures \in 0..MaxFailures
    /\ clears \in 0..MaxClears

Silence == [m \in Messages |-> 0]

Init ==
    /\ file = {}
    /\ local = [p \in Processes |-> {}]
    /\ heard = [p \in Processes |-> Silence]
    /\ publishing = [p \in Processes |-> 0]
    /\ clash = {} /\ unlinked = {}
    /\ cut = [p \in Processes |-> {}]
    /\ author = [m \in Messages |-> NoOne]
    /\ published = 0 /\ horizon = 0
    /\ up = {}
    /\ failures = 0 /\ clears = 0

Writers == {p \in Processes : publishing[p] # 0}
AtLoop(p) == p \in up /\ p \notin Writers
Failure == failures < MaxFailures /\ failures' = failures + 1

--------------------------------------------------------------------------------
\* faulty: everything in the file is taken for new
AllInFile(p) == IF file = Torn THEN {} ELSE file
\* faulty: only what is younger than everything known is new
NewerMessages(p) == {m \in AllInFile(p) : \A n \in local[p] : n < m}
\* A file that is being written does not parse and is ignored.
NewMessages(p) == IF file = Torn THEN {} ELSE file \ local[p]

\* faulty: the file replaces what was known
Replaced(p) == IF file = Torn THEN local[p] ELSE file
Merged(p) == local[p] \cup NewMessages(p)

\* loadMessages: merge, then broadcast each new message.  A listener that throws ends the
\* loop, and the catch around it swallows the error: what comes later in the file is known
\* and never broadcast.
Load(p) ==
    \E told \in SUBSET NewMessages(p) :
        /\ \/ told = NewMessages(p) /\ UNCHANGED failures
           \/ told # {} /\ Failure
        /\ local' = [local EXCEPT ![p] = Merged(p)]
        /\ heard' = [heard EXCEPT ![p] =
               [m \in Messages |-> @[m] + IF m \in told THEN 1 ELSE 0]]
        /\ cut' = [cut EXCEPT ![p] = @ \cup (NewMessages(p) \ told)]

\* The constructor loads once and starts the poll.
Start(p) ==
    /\ p \notin up
    /\ up' = up \cup {p}
    /\ Load(p)
    /\ UNCHANGED <<file, writing, author, published, horizon, clears>>

\* The poll, and recall and getMessages, which load before they read.
Poll(p) ==
    /\ AtLoop(p)
    /\ NewMessages(p) # {}
    /\ Load(p)
    /\ UNCHANGED <<file, writing, author, published, horizon, up, clears>>

Young(ms) == {m \in ms : m > horizon}

\* publish up to the write: the message is added and old ones are dropped.
Publish(p) ==
    /\ AtLoop(p) /\ published < MaxMessages
    /\ published' = published + 1
    /\ author' = [author EXCEPT ![published + 1] = p]
    /\ local' = [local EXCEPT ![p] = Young(@) \cup {published + 1}]
    /\ UNCHANGED <<horizon, up, clears>>

\* Opening the file for writing truncates it.
BeginPublish(p) ==
    /\ Publish(p)
    /\ publishing' = [publishing EXCEPT ![p] = published + 1]
    /\ file' = Torn
    /\ clash' = LET others == Writers \ unlinked IN
                IF others = {} THEN clash ELSE clash \cup others \cup {p}
    /\ UNCHANGED <<heard, unlinked, cut, failures>>

\* The file cannot be opened: the error is logged and the message broadcast.
PublishUnsaved(p) ==
    /\ Publish(p) /\ Failure
    /\ heard' = [heard EXCEPT ![p][published + 1] = @ + 1]
    /\ UNCHANGED <<file, writing, cut>>

\* The write ends, or fails with the file cut short; the message is broadcast in
\* any case.  Of two overlapping writes either one's text or a mixture is left; what is
\* written to a removed file is nowhere.
EndPublish(p) ==
    /\ p \in Writers
    /\ \/ file' = (IF p \in unlinked THEN file ELSE local[p]) /\ UNCHANGED failures
       \/ p \in clash /\ file' = Torn /\ UNCHANGED failures
       \/ Failure /\ file' \in (IF p \in unlinked THEN {file} ELSE {file, Torn})
    /\ publishing' = [publishing EXCEPT ![p] = 0]
    /\ clash' = clash \ {p} /\ unlinked' = unlinked \ {p}
    /\ heard' = [heard EXCEPT ![p][publishing[p]] = @ + 1]
    /\ UNCHANGED <<local, cut, author, published, horizon, up, clears>>

\* clear removes the file under whoever writes it, or cannot remove it.
Clear(p) ==
    /\ AtLoop(p) /\ clears < MaxClears
    /\ clears' = clears + 1
    /\ local' = [local EXCEPT ![p] = {}]
    /\ \/ file' = {} /\ unlinked' = Writers /\ clash' = {} /\ UNCHANGED failures
       \/ Failure /\ UNCHANGED <<file, unlinked, clash>>
    /\ UNCHANGED <<heard, publishing, cut, author, published, horizon, up>>

\* A process dies, in the middle of a write perhaps: what it knew is gone.
Exit(p) ==
    /\ p \in up /\ Failure
    /\ up' = up \ {p}
    /\ local' = [local EXCEPT ![p] = {}]
    /\ heard' = [heard EXCEPT ![p] = Silence]
    /\ cut' = [cut EXCEPT ![p] = {}]
    /\ publishing' = [publishing EXCEPT ![p] = 0]
    /\ clash' = clash \ {p} /\ unlinked' = unlinked \ {p}
    /\ author' = [m \in Messages |-> IF author[m] = p THEN NoOne ELSE author[m]]
    /\ UNCHANGED <<file, published, horizon, clears>>

\* An hour after it was published, a message is old.
Age ==
    /\ horizon < published
    /\ horizon' = horizon + 1
    /\ UNCHANGED <<file, local, heard, writing, cut, author, published, up, bounds>>

Next ==
    \/ \E p \in Processes :
        \/ Start(p) \/ Poll(p) \/ BeginPublish(p) \/ EndPublish(p)
        \/ PublishUnsaved(p) \/ Clear(p) \/ Exit(p)
    \/ Age

Spec == Init /\ [][Next]_vars

\* Writes end and the poll timer keeps firing.
FairSpec == Spec /\ \A p \in Processes : WF_vars(EndPublish(p)) /\ WF_vars(Poll(p))

--------------------------------------------------------------------------------
\* Unless the network is cleared, a process broadcasts a message younger than an
\* hour at most once, however the file was overwritten, torn and read again
\* (pod-network.ts:75-83).
DeliveredOnce ==
    clears = 0 => \A p \in Processes, m \in Messages : m > horizon => heard[p][m] <= 1

\* A write of another process may drop a message from the file, but the process
\* that published it has it for as long as it lives and the message is young, and
\* every write of its own puts it back (pod-network.ts:93-96, 114).
AuthorKeeps ==
    clears = 0 =>
        \A m \in Messages : m > horizon /\ author[m] # NoOne => m \in local[author[m]]

\* A message that stays in the file reaches every process that is up.
FileReachesAll ==
    \A m \in Messages, p \in Processes :
        (file # Torn /\ m \in file /\ p \in up)
            ~> (m \in local[p] \/ file = Torn \/ m \notin file \/ p \notin up)
===============================================================================
