------------------------------ MODULE MCScanRunner ------------------------------
(* Two workers and one reaper on one scan.                                    *)
EXTENDS ScanRunner, TLC

CONSTANTS w1, w2, r1

MCWorker == {w1, w2}
MCOneWorker == {w1}
MCReaper == {r1}
MCStage == {"EVIDENCE", "STATEMENT", "PROOF", "NOTIFY"}

Symmetry == Permutations(MCWorker)
================================================================================
