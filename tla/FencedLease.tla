------------------------------ MODULE FencedLease ------------------------------
(***************************************************************************)
(* What the durable stage ledger promises to its callers, without leases,  *)
(* clocks, budgets or snapshots: every grant of a stage carries a ticket   *)
(* one larger than the grant before it, and a stage is finished only by    *)
(* the holder of its latest ticket (the docstring of StageAttempt in       *)
(* models.py and of StageLedger in orchestration.py).                      *)
(***************************************************************************)
EXTENDS Naturals

CONSTANTS Worker, Stage

VARIABLES
  latest,   \* latest[s]: the newest ticket granted for stage s, 0 for none
  ticket,   \* ticket[w][s]: the ticket worker w believes it holds for s
  done      \* done[s]: the stage reads as finished

fenceVars == <<latest, ticket, done>>

FenceInit ==
  /\ latest = [s \in Stage |-> 0]
  /\ ticket = [w \in Worker |-> [s \in Stage |-> 0]]
  /\ done = [s \in Stage |-> FALSE]

\* A grant invalidates every older ticket of the stage and reopens it.
Grant(w, s) ==
  /\ latest' = [latest EXCEPT ![s] = @ + 1]
  /\ ticket' = [ticket EXCEPT ![w][s] = latest[s] + 1]
  /\ done' = [done EXCEPT ![s] = FALSE]

\* Only the latest ticket can finish the stage.
Finish(w, s) ==
  /\ ticket[w][s] = latest[s]
  /\ latest[s] # 0
  /\ done' = [done EXCEPT ![s] = TRUE]
  /\ UNCHANGED <<latest, ticket>>

\* The service may reopen stages at any time: it never finishes one.
Reopen ==
  /\ \E R \in SUBSET Stage : done' = [s \in Stage |-> done[s] /\ s \notin R]
  /\ UNCHANGED <<latest, ticket>>

\* A worker returns, or its process dies, and its ticket is forgotten.
Forget(w) ==
  /\ \E R \in SUBSET Stage :
       ticket' = [ticket EXCEPT ![w] = [s \in Stage |-> IF s \in R THEN 0 ELSE @[s]]]
  /\ UNCHANGED <<latest, done>>

FenceNext ==
  \/ \E w \in Worker, s \in Stage : Grant(w, s) \/ Finish(w, s)
  \/ Reopen
  \/ \E w \in Worker : Forget(w)

FenceSpec == FenceInit /\ [][FenceNext]_fenceVars
================================================================================
