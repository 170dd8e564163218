----------------------------- MODULE MCStageLedger -----------------------------
(* One stage contended by three workers and two reapers.  The budget is two   *)
(* attempts and three epochs may be granted, so a grant beyond the budget     *)
(* happens.  Rows of different stages only meet in one reaper pass.           *)
EXTENDS StageLedger

CONSTANTS w1, w2, w3, r1, r2, evidence

MCWorker == {w1, w2, w3}
MCReaper == {r1, r2}
MCStage == {evidence}
================================================================================
