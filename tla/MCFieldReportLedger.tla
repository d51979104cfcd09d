-------------------------- MODULE MCFieldReportLedger --------------------------
(* Two processes on one repository; the first makes two reports.             *)
EXTENDS FieldReportLedger, TLC

CONSTANTS p1, p2, f1, f2, f3

TwoProcesses == {p1, p2}
ThreeReports == {f1, f2, f3}
TwoAndOne == (f1 :> p1) @@ (f2 :> p1) @@ (f3 :> p2)
================================================================================
