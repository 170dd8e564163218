------------------------------ MODULE MCReviewDesk ------------------------------
(* An instance of ReviewDesk for TLC. *)
EXTENDS ReviewDesk
CONSTANTS alice

Post(decides, state, disposition, assignee) ==
  [decides |-> decides, state |-> state, disposition |-> disposition, assignee |-> assignee]
MCAsk ==
  {Post(FALSE, "IN_REVIEW", Keep, Keep), Post(FALSE, "CLOSED", Keep, Keep),
   Post(FALSE, "RESOLVED", "NEEDS_LICENSE", Keep), Post(FALSE, Keep, Keep, alice),
   Post(TRUE, Keep, "APPROVED_FOR_PUBLICATION", Keep),
   Post(TRUE, "IN_REVIEW", "REJECTED_FOR_PUBLICATION", alice)}
================================================================================
