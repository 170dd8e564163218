---------------------------- MODULE MCTransparencyLog ----------------------------
(* Two processes over one SQLite database, one scan, batches of two leaves.       *)
EXTENDS TransparencyLog

CONSTANT s1

MCScan == {s1}
MCHistories == {0, 3}
================================================================================
