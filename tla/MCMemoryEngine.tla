---------------------------- MODULE MCMemoryEngine ----------------------------
(* Three contents: a fact, its negation, and a short-lived order to forget it  *)
(* that carries a secret and from which the fact is extracted too.  The        *)
(* negation comes as noise under the inbox lane.                               *)
EXTENDS MemoryEngine

CONSTANTS fact, opposite, order

ThreeContents == {fact, opposite, order}
FactsOf == [c \in ThreeContents |-> IF c = order THEN <<order, fact>> ELSE <<c>>]
OverlapOf ==
    [c, d \in ThreeContents |-> IF c = d THEN 100 ELSE IF order \in {c, d} THEN 50 ELSE 80]
Opposite == {opposite}
Order == {order}
Fact == {fact}
None == {}
Given(c, state, supersedes) ==
    [content |-> c, state |-> state, used |-> FALSE, stale |-> FALSE, supersedes |-> supersedes]
OneBundle == {<<Given(order, "active", 0), Given(opposite, "expired", 1)>>}
==============================================================================
