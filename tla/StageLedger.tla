------------------------------ MODULE StageLedger ------------------------------
(***************************************************************************)
(* The durable stage ledger of one scan: StageLedger in                    *)
(* apps/api/app/services/orchestration.py over the stage_attempts table.   *)
(*                                                                         *)
(* One action is one database step another session can be scheduled        *)
(* against.  acquire and reap_expired SELECT first and UPDATE later, so    *)
(* each is two actions; complete, fail, heartbeat and skip are decided by  *)
(* their single UPDATE.  Workers call the operations in any order with any *)
(* epoch they were given: ScanRunner restricts them to the order run_scan  *)
(* uses.  A worker keeps its epoch until it returns or dies, also after    *)
(* complete, because the runner still calls fail with it then.             *)
(***************************************************************************)
EXTENDS Naturals

CONSTANTS
  Worker,       \* threads that execute run_scan
  Reaper,       \* threads that execute reap_expired
  Stage,        \* the stages of STAGE_PLAN
  NoWorker,     \* lease_owner IS NULL
  MaxAttempts,  \* stage_max_attempts, copied into every row
  MaxEpoch      \* bound of the model on lease_epoch

ASSUME LedgerAssumption ==
  /\ NoWorker \notin Worker
  /\ MaxAttempts \in Nat \ {0}
  /\ MaxEpoch \in Nat

VARIABLES
  row,     \* row[s]: the stage_attempts row of stage s
  token,   \* token[w][s]: the epoch acquire returned to w for s, 0 for none
  seen,    \* seen[w]: the row acquire has read and not yet updated, as a set
  doomed   \* doomed[r]: the rows reap_expired has read and not yet updated

ledgerVars == <<row, token, seen, doomed>>

Claimable == {"PENDING", "READY", "FAILED_RETRYABLE"}

StageState == Claimable \cup
  {"MISSING", "RUNNING", "SUCCEEDED", "FAILED_TERMINAL", "SKIPPED_BY_POLICY", "CANCELLED"}

RetryClass == {"TRANSIENT", "TERMINAL", "CANCELLED", "INVARIANT_VIOLATION"}

\* lease_expires_at is NULL, in the future, or not after now.
Lease == {"none", "live", "expired"}

Row == [state : StageState, attempt : Nat, epoch : Nat,
        owner : Worker \cup {NoWorker}, lease : Lease]

Snapshot == [stage : Stage, attempt : Nat, epoch : Nat]

MissingRow ==
  [state |-> "MISSING", attempt |-> 0, epoch |-> 0, owner |-> NoWorker, lease |-> "none"]

LedgerInit ==
  /\ row = [s \in Stage |-> MissingRow]
  /\ token = [w \in Worker |-> [s \in Stage |-> 0]]
  /\ seen = [w \in Worker |-> {}]
  /\ doomed = [r \in Reaper |-> {}]

--------------------------------------------------------------------------------
\* ensure_stages: the rows of the plan that do not exist yet are inserted as
\* PENDING in one commit.  A concurrent insert fails on the unique key.
EnsureStages ==
  /\ \E s \in Stage : row[s].state = "MISSING"
  /\ row' = [s \in Stage |->
               IF row[s].state = "MISSING" THEN [row[s] EXCEPT !.state = "PENDING"] ELSE row[s]]
  /\ UNCHANGED <<token, seen, doomed>>

\* A row acquire goes on with.  Its other exit, a FAILED_RETRYABLE row whose
\* budget is spent, is shown unreachable by RetryableHasBudget.
MayClaim(r) ==
  \/ r.state \in Claimable
  \/ r.state = "RUNNING" /\ r.lease = "expired"

\* acquire, up to its UPDATE: the row is read and found claimable.
AcquireRead(w, s) ==
  /\ seen[w] = {}
  /\ row[s].epoch < MaxEpoch
  /\ MayClaim(row[s])
  /\ seen' = [seen EXCEPT ![w] =
                {[stage |-> s, attempt |-> row[s].attempt, epoch |-> row[s].epoch]}]
  /\ UNCHANGED <<row, token, doomed>>

\* Variant: the UPDATE is not guarded by the epoch that was read.
AcquireSwapBlind(w) ==
  \E snap \in seen[w] :
    LET s == snap.stage IN
    /\ row' = [row EXCEPT ![s] =
                 [state |-> "RUNNING", attempt |-> snap.attempt + 1,
                  epoch |-> snap.epoch + 1, owner |-> w, lease |-> "live"]]
    /\ token' = [token EXCEPT ![w][s] = snap.epoch + 1]
    /\ seen' = [seen EXCEPT ![w] = {}]
    /\ UNCHANGED doomed

\* acquire, its UPDATE ... WHERE lease_epoch = expected: the compare-and-swap
\* succeeds and the new epoch is returned.
AcquireSwap(w) ==
  \E snap \in seen[w] :
    LET s == snap.stage IN
    /\ row[s].epoch = snap.epoch
    /\ row' = [row EXCEPT ![s] =
                 [state |-> "RUNNING", attempt |-> snap.attempt + 1,
                  epoch |-> snap.epoch + 1, owner |-> w, lease |-> "live"]]
    /\ token' = [token EXCEPT ![w][s] = snap.epoch + 1]
    /\ seen' = [seen EXCEPT ![w] = {}]
    /\ UNCHANGED doomed

\* acquire, its UPDATE when another worker has moved the epoch: no row matches.
AcquireLost(w) ==
  \E snap \in seen[w] :
    /\ row[snap.stage].epoch # snap.epoch
    /\ seen' = [seen EXCEPT ![w] = {}]
    /\ UNCHANGED <<row, token, doomed>>

\* Variant: any epoch that was ever granted will do.
HoldsAny(w, s) == token[w][s] # 0

\* WHERE lease_epoch = epoch, for the epoch the worker was given.
HoldsCurrent(w, s) == token[w][s] # 0 /\ token[w][s] = row[s].epoch

\* The row in a new state, its lease columns cleared.
Released(r, state) == [r EXCEPT !.state = state, !.owner = NoWorker, !.lease = "none"]

\* heartbeat and record_progress: the lease of the epoch is extended, whatever
\* state the row is in.
Renew(w, s) ==
  /\ HoldsCurrent(w, s)
  /\ row' = [row EXCEPT ![s] = [@ EXCEPT !.lease = "live"]]
  /\ UNCHANGED <<token, seen, doomed>>

\* complete: the UPDATE matches the epoch and nothing else.
Complete(w, s) ==
  /\ HoldsCurrent(w, s)
  /\ row' = [row EXCEPT ![s] = Released(@, "SUCCEEDED")]
  /\ UNCHANGED <<token, seen, doomed>>

\* The state fail leaves behind for an exception of class c.
FailedState(r, c) ==
  CASE c = "CANCELLED" -> "CANCELLED"
    [] c = "TRANSIENT" /\ r.attempt < MaxAttempts -> "FAILED_RETRYABLE"
    [] OTHER -> "FAILED_TERMINAL"

\* fail: reads row.attempt, then updates under the epoch.  The attempt cannot
\* change between the two without the epoch (AttemptIsEpoch), so one step.
Fail(w, s, c) ==
  /\ HoldsCurrent(w, s)
  /\ row' = [row EXCEPT ![s] = Released(@, FailedState(@, c))]
  /\ UNCHANGED <<token, seen, doomed>>

\* complete, fail or record_progress with an epoch that has moved on match no
\* row; the worker gives up, or returns, or its process dies.
Leave(w) ==
  /\ token' = [token EXCEPT ![w] = [s \in Stage |-> 0]]
  /\ seen' = [seen EXCEPT ![w] = {}]
  /\ UNCHANGED <<row, doomed>>

\* skip: not guarded by an epoch, and lease columns are left as they are.
Skip(s) ==
  /\ row[s].state # "MISSING"
  /\ row' = [row EXCEPT ![s] = [@ EXCEPT !.state = "SKIPPED_BY_POLICY"]]
  /\ UNCHANGED <<token, seen, doomed>>

\* lease_expires_at passes.
LeaseExpires(s) ==
  /\ row[s].lease = "live"
  /\ row' = [row EXCEPT ![s] = [@ EXCEPT !.lease = "expired"]]
  /\ UNCHANGED <<token, seen, doomed>>

\* Variant: rows whose budget is spent are not selected.
ExpiredWithBudget ==
  {s \in Stage : row[s].state = "RUNNING" /\ row[s].lease = "expired"
                 /\ row[s].attempt < MaxAttempts}

\* The rows the SELECT of reap_expired returns.
Expired == {s \in Stage : row[s].state = "RUNNING" /\ row[s].lease = "expired"}

ReapRead(r) ==
  /\ doomed[r] = {}
  /\ Expired # {}
  /\ doomed' = [doomed EXCEPT ![r] =
       {[stage |-> s, attempt |-> row[s].attempt, epoch |-> row[s].epoch] : s \in Expired}]
  /\ UNCHANGED <<row, token, seen>>

\* Variant: the attempt is refunded.
ReapedRefunded(r, snap) == [Released(r, "FAILED_RETRYABLE") EXCEPT !.attempt = @ - 1]

\* One UPDATE of reap_expired: the epoch is compared and not advanced.
Reaped(r, snap) ==
  Released(r, IF snap.attempt >= MaxAttempts THEN "FAILED_TERMINAL" ELSE "FAILED_RETRYABLE")

\* The UPDATEs of one pass become visible together, at its commit.
ReapCommit(r) ==
  /\ doomed[r] # {}
  /\ row' = [s \in Stage |->
       IF \E snap \in doomed[r] : snap.stage = s /\ snap.epoch = row[s].epoch
       THEN Reaped(row[s], CHOOSE snap \in doomed[r] :
                             snap.stage = s /\ snap.epoch = row[s].epoch)
       ELSE row[s]]
  /\ doomed' = [doomed EXCEPT ![r] = {}]
  /\ UNCHANGED <<token, seen>>

--------------------------------------------------------------------------------
WorkerNext(w) ==
  \/ \E s \in Stage : AcquireRead(w, s) \/ Renew(w, s) \/ Complete(w, s)
  \/ \E s \in Stage, c \in RetryClass : Fail(w, s, c)
  \/ AcquireSwap(w)
  \/ AcquireLost(w)
  \/ Leave(w)

ReaperNext(r) == ReapRead(r) \/ ReapCommit(r)

LedgerNext ==
  \/ EnsureStages
  \/ \E w \in Worker : WorkerNext(w)
  \/ \E r \in Reaper : ReaperNext(r)
  \/ \E s \in Stage : Skip(s) \/ LeaseExpires(s)

LedgerSpec == LedgerInit /\ [][LedgerNext]_ledgerVars

\* Clocks advance, and the reaper thread and the worker's maintenance loop run
\* reap_expired forever.  Nothing is assumed of the workers.
LedgerFairness ==
  /\ \A s \in Stage : WF_ledgerVars(LeaseExpires(s))
  /\ \A r \in Reaper : WF_ledgerVars(ReapRead(r)) /\ WF_ledgerVars(ReapCommit(r))

FairLedgerSpec == LedgerSpec /\ LedgerFairness

--------------------------------------------------------------------------------
LedgerTypeOK ==
  /\ row \in [Stage -> Row]
  /\ token \in [Worker -> [Stage -> Nat]]
  /\ seen \in [Worker -> SUBSET Snapshot]
  /\ doomed \in [Reaper -> SUBSET Snapshot]

\* "A stage is owned by one worker at a time" (test_orchestration.py): no two
\* workers hold the same epoch of a stage, so at most one passes the WHERE
\* clause of complete, fail and heartbeat.
SingleHolder ==
  \A w1, w2 \in Worker, s \in Stage :
    token[w1][s] = token[w2][s] /\ token[w1][s] # 0 => w1 = w2

\* Every grant is counted once against the budget, through lost swaps, reaps
\* and reclaims: the attempt column and the epoch column never drift apart.
\* fail, reap_expired and acquire each decide on an attempt read earlier.
AttemptIsEpoch == \A s \in Stage : row[s].attempt = row[s].epoch

\* A row left claimable for a retry still has budget, so the branch of acquire
\* that marks a row RETRY_BUDGET_EXHAUSTED without an epoch guard never runs.
RetryableHasBudget ==
  \A s \in Stage : row[s].state = "FAILED_RETRYABLE" => row[s].attempt < MaxAttempts

\* A RUNNING row always carries an owner and an expiry: acquire and the reaper
\* both ignore RUNNING rows with a NULL lease_expires_at, so such a row could
\* never be claimed again.
RunningIsReclaimable ==
  \A s \in Stage : row[s].state = "RUNNING" => row[s].lease # "none" /\ row[s].owner # NoWorker

\* The epoch column only grows, by one, and only when a worker takes the stage.
EpochStep ==
  \A s \in Stage :
    \/ row'[s].epoch = row[s].epoch
    \/ /\ row'[s].epoch = row[s].epoch + 1
       /\ \E w \in Worker : row'[s].owner = w /\ token'[w][s] = row'[s].epoch

EpochOnlyGrows == [][EpochStep]_ledgerVars

\* Nobody holds the epoch of a RUNNING stage any more.
Orphaned(s) ==
  row[s].state = "RUNNING" /\ \A w \in Worker : ~HoldsCurrent(w, s)

\* "Return expired leases to a claimable state so no scan is stranded"
\* (reap_expired): a stage whose worker is gone does not stay RUNNING.
OrphansAreReclaimed == \A s \in Stage : Orphaned(s) ~> ~Orphaned(s)

\* What the invariants above need to be inductive: a token never runs ahead of
\* its row, and a row read earlier had its attempt equal to its epoch.
TokensBounded ==
  \A w \in Worker, s \in Stage : token[w][s] <= row[s].epoch

SnapshotsAgree ==
  /\ \A w \in Worker : \A snap \in seen[w] : snap.attempt = snap.epoch
  /\ \A r \in Reaper : \A snap \in doomed[r] : snap.attempt = snap.epoch

LedgerInv ==
  /\ LedgerTypeOK
  /\ TokensBounded
  /\ SnapshotsAgree
  /\ AttemptIsEpoch
  /\ SingleHolder
  /\ RetryableHasBudget
  /\ RunningIsReclaimable

\* The ledger keeps the promise of FencedLease.
Fence == INSTANCE FencedLease WITH
  latest <- [s \in Stage |-> row[s].epoch],
  ticket <- token,
  done   <- [s \in Stage |-> row[s].state = "SUCCEEDED"]

KeepsFence == Fence!FenceSpec
================================================================================
