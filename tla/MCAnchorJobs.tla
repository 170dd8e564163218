------------------------------ MODULE MCAnchorJobs ------------------------------
(* Two processes and two jobs on one signing account.                           *)
EXTENDS AnchorJobs, TLC

CONSTANTS p1, p2, j1, j2

MCProcess == {p1, p2}
MCJob == {j1, j2}

Symmetry == Permutations(MCProcess) \cup Permutations(MCJob)
================================================================================
