--------------------------- MODULE MCPhantomRuntime ---------------------------
(* Small runs for TLC: strategies are dealt to the coders in turn, so two     *)
(* coders of the default task differ and three of a one-strategy task agree.  *)
EXTENDS PhantomRuntime

CONSTANTS d1, d2, a1

TwoCalls == {1, 2}
OneAutomation == {a1}
FirstMatches == [c \in TwoCalls |-> IF c = 1 THEN {a1} ELSE {}]
TwoCoders == 1..2
Differ == [c \in TwoCoders |-> c]
SecondVaries == [c \in TwoCalls |-> IF c = 1 THEN {d1} ELSE {d1, d2}]
TwoPatches == {d1, d2}
================================================================================
