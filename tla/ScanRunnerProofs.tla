---------------------------- MODULE ScanRunnerProofs ----------------------------
(***************************************************************************)
(* What run_scan promises through crashes, overtakings and resumptions, for  *)
(* every number of workers, reapers and messages and every budget.  First the  *)
(* ledger alone: LedgerInv is inductive, and the ledger's invariants, its       *)
(* epochs and its refinement of FencedLease follow.  Then the runner, in three  *)
(* layers, each on top of the one before:                                    *)
(*   TypesInv    types, and the ledger's own invariant;                      *)
(*   EffectsInv  the effects of the stages come in their order;               *)
(*   CalmInv     as long as no lease expires under a live worker, one result; *)
(* and AloneInv, that a worker alone with the scan leaves its outcome alone. *)
(***************************************************************************)
EXTENDS ScanRunner, TLAPS

--------------------------------------------------------------------------------
(* The ledger. *)

USE DEF Claimable, Lease

\* The ledger starts with no row, no token and no pending update.
LEMMA InitInv == LedgerInit => LedgerInv
  BY LedgerAssumption
  DEF LedgerInit, LedgerInv, LedgerTypeOK, TokensBounded, SnapshotsAgree, AttemptIsEpoch,
      SingleHolder, RetryableHasBudget, RunningIsReclaimable, MissingRow, Row, StageState

\* Creating the missing rows gives out no token and leaves epochs alone.
LEMMA EnsureInv == LedgerInv /\ EnsureStages => LedgerInv'
  BY LedgerAssumption
  DEF EnsureStages, LedgerInv, LedgerTypeOK, TokensBounded, SnapshotsAgree, AttemptIsEpoch,
      SingleHolder, RetryableHasBudget, RunningIsReclaimable, Row, StageState

\* Reading a row for acquire records an attempt equal to its epoch.
LEMMA AcquireReadInv ==
  ASSUME NEW w \in Worker, NEW s \in Stage, LedgerInv, AcquireRead(w, s)
  PROVE  LedgerInv'
  BY DEF AcquireRead, LedgerInv, LedgerTypeOK, TokensBounded, SnapshotsAgree, AttemptIsEpoch,
      SingleHolder, RetryableHasBudget, RunningIsReclaimable, Row, Snapshot

\* A successful compare-and-swap hands out an epoch no token can equal yet.
LEMMA AcquireSwapInv ==
  ASSUME NEW w \in Worker, LedgerInv, AcquireSwap(w)
  PROVE  LedgerInv'
<1> PICK snap \in seen[w] :
      /\ row[snap.stage].epoch = snap.epoch
      /\ row' = [row EXCEPT ![snap.stage] =
                   [state |-> "RUNNING", attempt |-> snap.attempt + 1,
                    epoch |-> snap.epoch + 1, owner |-> w, lease |-> "live"]]
      /\ token' = [token EXCEPT ![w][snap.stage] = snap.epoch + 1]
      /\ seen' = [seen EXCEPT ![w] = {}]
      /\ UNCHANGED doomed
  BY DEF AcquireSwap
<1>1. snap \in Snapshot /\ snap.attempt = snap.epoch
  BY DEF LedgerInv, LedgerTypeOK, SnapshotsAgree
<1>2. LedgerTypeOK'
  BY <1>1 DEF LedgerInv, LedgerTypeOK, Row, Snapshot, StageState
<1>3. TokensBounded' /\ SingleHolder'
  <2>1. \A v \in Worker : token[v][snap.stage] # snap.epoch + 1
    BY <1>1 DEF LedgerInv, LedgerTypeOK, TokensBounded, Snapshot
  <2>. QED
    BY <1>1, <2>1 DEF LedgerInv, LedgerTypeOK, TokensBounded, SingleHolder, Row, Snapshot
<1>4. SnapshotsAgree' /\ AttemptIsEpoch'
  BY <1>1 DEF LedgerInv, LedgerTypeOK, SnapshotsAgree, AttemptIsEpoch, Row, Snapshot
<1>5. RetryableHasBudget' /\ RunningIsReclaimable'
  BY <1>1, LedgerAssumption
  DEF LedgerInv, LedgerTypeOK, RetryableHasBudget, RunningIsReclaimable, Row, Snapshot
<1>. QED  BY <1>2, <1>3, <1>4, <1>5 DEF LedgerInv

\* A lost compare-and-swap changes nothing but the worker's own snapshot.
LEMMA AcquireLostInv ==
  ASSUME NEW w \in Worker, LedgerInv, AcquireLost(w)
  PROVE  LedgerInv'
  BY DEF AcquireLost, LedgerInv, LedgerTypeOK, TokensBounded, SnapshotsAgree, AttemptIsEpoch,
      SingleHolder, RetryableHasBudget, RunningIsReclaimable

\* Replacing one row keeps the invariant when the epoch and the attempt stay and
\* the new row respects the budget and stays reclaimable.
LEMMA RowUpdateInv ==
  ASSUME NEW s \in Stage, NEW r \in Row, LedgerInv,
         r.epoch = row[s].epoch,
         r.attempt = row[s].attempt,
         r.state = "FAILED_RETRYABLE" => r.attempt < MaxAttempts,
         r.state = "RUNNING" => r.lease # "none" /\ r.owner # NoWorker,
         row' = [row EXCEPT ![s] = r],
         UNCHANGED <<token, seen, doomed>>
  PROVE  LedgerInv'
<1>1. LedgerTypeOK'
  BY DEF LedgerInv, LedgerTypeOK
<1>2. \A t \in Stage : row'[t] = IF t = s THEN r ELSE row[t]
  BY DEF LedgerInv, LedgerTypeOK
<1>3. TokensBounded' /\ SingleHolder' /\ SnapshotsAgree'
  BY <1>2 DEF LedgerInv, TokensBounded, SingleHolder, SnapshotsAgree
<1>4. AttemptIsEpoch' /\ RetryableHasBudget' /\ RunningIsReclaimable'
  BY <1>2 DEF LedgerInv, AttemptIsEpoch, RetryableHasBudget, RunningIsReclaimable
<1>. QED  BY <1>1, <1>3, <1>4 DEF LedgerInv

\* A row that is released keeps its epoch and its attempt.
LEMMA ReleasedRow ==
  ASSUME NEW r \in Row, NEW state \in StageState
  PROVE  /\ Released(r, state) \in Row
         /\ Released(r, state).state = state
         /\ Released(r, state).epoch = r.epoch
         /\ Released(r, state).attempt = r.attempt
  BY DEF Released, Row

\* An update under the epoch keeps the epoch, the attempt and every token.
LEMMA RenewInv ==
  ASSUME NEW w \in Worker, NEW s \in Stage, LedgerInv, Renew(w, s)
  PROVE  LedgerInv'
<1> DEFINE r == [row[s] EXCEPT !.lease = "live"]
<1>1. row[s] \in Row
  BY DEF LedgerInv, LedgerTypeOK
<1>2. /\ r \in Row
      /\ r.epoch = row[s].epoch /\ r.attempt = row[s].attempt
      /\ r.state = row[s].state /\ r.lease # "none" /\ r.owner = row[s].owner
  BY <1>1 DEF Row
<1>3. row' = [row EXCEPT ![s] = r] /\ UNCHANGED <<token, seen, doomed>>
  BY DEF Renew
<1>. QED
  BY <1>2, <1>3, RowUpdateInv DEF LedgerInv, RetryableHasBudget, RunningIsReclaimable

LEMMA CompleteInv ==
  ASSUME NEW w \in Worker, NEW s \in Stage, LedgerInv, Complete(w, s)
  PROVE  LedgerInv'
<1> DEFINE r == Released(row[s], "SUCCEEDED")
<1>1. row[s] \in Row /\ "SUCCEEDED" \in StageState
  BY DEF LedgerInv, LedgerTypeOK, StageState
<1>2. row' = [row EXCEPT ![s] = r] /\ UNCHANGED <<token, seen, doomed>>
  BY DEF Complete
<1> HIDE DEF r
<1>3. /\ r \in Row
      /\ r.state = "SUCCEEDED" /\ r.epoch = row[s].epoch /\ r.attempt = row[s].attempt
  BY <1>1, ReleasedRow DEF r
<1>. QED  BY <1>2, <1>3, RowUpdateInv

LEMMA FailInv ==
  ASSUME NEW w \in Worker, NEW s \in Stage, NEW c \in RetryClass, LedgerInv, Fail(w, s, c)
  PROVE  LedgerInv'
<1> DEFINE f == FailedState(row[s], c)
           r == Released(row[s], f)
<1>1. row[s] \in Row
  BY DEF LedgerInv, LedgerTypeOK
<1>2. /\ f \in StageState
      /\ f # "RUNNING"
      /\ f = "FAILED_RETRYABLE" => row[s].attempt < MaxAttempts
  BY DEF FailedState, StageState
<1>3. row' = [row EXCEPT ![s] = r] /\ UNCHANGED <<token, seen, doomed>>
  BY DEF Fail
<1> HIDE DEF f, r
<1>4. r \in Row /\ r.state = f /\ r.epoch = row[s].epoch /\ r.attempt = row[s].attempt
  BY <1>1, <1>2, ReleasedRow DEF r
<1>. QED  BY <1>2, <1>3, <1>4, RowUpdateInv

\* A worker that leaves only forgets.
LEMMA LeaveInv ==
  ASSUME NEW w \in Worker, LedgerInv, Leave(w)
  PROVE  LedgerInv'
<1>1. LedgerTypeOK' /\ TokensBounded' /\ SingleHolder'
  BY DEF Leave, LedgerInv, LedgerTypeOK, TokensBounded, SingleHolder, Row
<1>2. SnapshotsAgree' /\ AttemptIsEpoch' /\ RetryableHasBudget' /\ RunningIsReclaimable'
  BY DEF Leave, LedgerInv, LedgerTypeOK, SnapshotsAgree, AttemptIsEpoch, RetryableHasBudget,
      RunningIsReclaimable
<1>. QED  BY <1>1, <1>2 DEF LedgerInv

\* skip and the passing of time touch one row's state or lease.
LEMMA SkipInv ==
  ASSUME NEW s \in Stage, LedgerInv, Skip(s)
  PROVE  LedgerInv'
<1> DEFINE r == [row[s] EXCEPT !.state = "SKIPPED_BY_POLICY"]
<1>1. row[s] \in Row
  BY DEF LedgerInv, LedgerTypeOK
<1>2. /\ r \in Row
      /\ r.epoch = row[s].epoch /\ r.attempt = row[s].attempt
      /\ r.state = "SKIPPED_BY_POLICY"
  BY <1>1 DEF Row, StageState
<1>3. row' = [row EXCEPT ![s] = r] /\ UNCHANGED <<token, seen, doomed>>
  BY DEF Skip
<1>. QED  BY <1>2, <1>3, RowUpdateInv

LEMMA LeaseExpiresInv ==
  ASSUME NEW s \in Stage, LedgerInv, LeaseExpires(s)
  PROVE  LedgerInv'
<1> DEFINE r == [row[s] EXCEPT !.lease = "expired"]
<1>1. row[s] \in Row
  BY DEF LedgerInv, LedgerTypeOK
<1>2. /\ r \in Row
      /\ r.epoch = row[s].epoch /\ r.attempt = row[s].attempt
      /\ r.state = row[s].state /\ r.lease # "none" /\ r.owner = row[s].owner
  BY <1>1 DEF Row
<1>3. row' = [row EXCEPT ![s] = r] /\ UNCHANGED <<token, seen, doomed>>
  BY DEF LeaseExpires
<1>. QED
  BY <1>2, <1>3, RowUpdateInv DEF LedgerInv, RetryableHasBudget, RunningIsReclaimable

LEMMA ReapReadInv ==
  ASSUME NEW r \in Reaper, LedgerInv, ReapRead(r)
  PROVE  LedgerInv'
  BY DEF ReapRead, Expired, LedgerInv, LedgerTypeOK, TokensBounded, SnapshotsAgree,
      AttemptIsEpoch, SingleHolder, RetryableHasBudget, RunningIsReclaimable, Row, Snapshot

\* The reaper compares the epoch, so the attempt it read is the row's.
LEMMA ReapCommitInv ==
  ASSUME NEW r \in Reaper, LedgerInv, ReapCommit(r)
  PROVE  LedgerInv'
<1>1. ASSUME NEW s \in Stage
      PROVE  \/ row'[s] = row[s]
             \/ \E snap \in doomed[r] :
                  /\ snap.attempt = row[s].attempt
                  /\ row'[s] = Reaped(row[s], snap)
  BY <1>1 DEF ReapCommit, LedgerInv, LedgerTypeOK, SnapshotsAgree, AttemptIsEpoch
<1>2. ASSUME NEW s \in Stage
      PROVE  /\ row'[s] \in Row
             /\ row'[s].epoch = row[s].epoch
             /\ row'[s].attempt = row[s].attempt
             /\ row'[s].state = "FAILED_RETRYABLE" => row'[s].attempt < MaxAttempts
             /\ row'[s].state = "RUNNING" => row'[s].lease # "none" /\ row'[s].owner # NoWorker
  <2>1. CASE row'[s] = row[s]
    BY <2>1 DEF LedgerInv, LedgerTypeOK, RetryableHasBudget, RunningIsReclaimable
  <2>2. CASE row'[s] # row[s]
    <3>1. PICK snap \in doomed[r] :
            snap.attempt = row[s].attempt /\ row'[s] = Reaped(row[s], snap)
      BY <1>1, <2>2
    <3> DEFINE f == IF snap.attempt >= MaxAttempts THEN "FAILED_TERMINAL"
                                                    ELSE "FAILED_RETRYABLE"
    <3>2. snap.attempt \in Nat /\ row[s] \in Row
      BY DEF LedgerInv, LedgerTypeOK, Snapshot
    <3>3. /\ f \in StageState /\ f # "RUNNING"
          /\ f = "FAILED_RETRYABLE" => snap.attempt < MaxAttempts
      BY <3>2, LedgerAssumption DEF StageState
    <3>4. row'[s] = Released(row[s], f)
      BY <3>1 DEF Reaped
    <3> HIDE DEF f
    <3>. QED
      BY <3>1, <3>2, <3>3, <3>4, ReleasedRow
  <2>. QED  BY <2>1, <2>2
<1>3. row' \in [Stage -> Row]
  BY <1>2 DEF ReapCommit
<1>. QED
  BY <1>2, <1>3
  DEF ReapCommit, LedgerInv, LedgerTypeOK, TokensBounded, SnapshotsAgree, AttemptIsEpoch,
      SingleHolder, RetryableHasBudget, RunningIsReclaimable

LEMMA NextInv == LedgerInv /\ [LedgerNext]_ledgerVars => LedgerInv'
<1> SUFFICES ASSUME LedgerInv, [LedgerNext]_ledgerVars PROVE LedgerInv'
  OBVIOUS
<1>1. CASE EnsureStages
  BY <1>1, EnsureInv
<1>2. ASSUME NEW w \in Worker, WorkerNext(w) PROVE LedgerInv'
  BY <1>2, AcquireReadInv, AcquireSwapInv, AcquireLostInv, RenewInv, CompleteInv, FailInv,
     LeaveInv
  DEF WorkerNext
<1>3. ASSUME NEW r \in Reaper, ReaperNext(r) PROVE LedgerInv'
  BY <1>3, ReapReadInv, ReapCommitInv DEF ReaperNext
<1>4. ASSUME NEW s \in Stage, Skip(s) \/ LeaseExpires(s) PROVE LedgerInv'
  BY <1>4, SkipInv, LeaseExpiresInv
<1>5. CASE UNCHANGED ledgerVars
  BY <1>5 DEF ledgerVars, LedgerInv, LedgerTypeOK, TokensBounded, SnapshotsAgree,
      AttemptIsEpoch, SingleHolder, RetryableHasBudget, RunningIsReclaimable
<1>. QED  BY <1>1, <1>2, <1>3, <1>4, <1>5 DEF LedgerNext

\* acquire, heartbeat, complete, fail, skip and reap_expired keep the ledger's invariants.
THEOREM LedgerInvariant == LedgerSpec => []LedgerInv
  BY InitInv, NextInv, PTL DEF LedgerSpec

\* Every variable of the ledger keeps its type.
THEOREM LedgerTypeCorrect == LedgerSpec => []LedgerTypeOK
<1>1. LedgerInv => LedgerTypeOK
  BY DEF LedgerInv
<1>. QED  BY <1>1, LedgerInvariant, PTL

\* No two workers ever hold the same epoch of a stage.
THEOREM LedgerSingleHolder == LedgerSpec => []SingleHolder
<1>1. LedgerInv => SingleHolder
  BY DEF LedgerInv
<1>. QED  BY <1>1, LedgerInvariant, PTL

\* The retry budget counts every grant, once.
THEOREM LedgerCountsGrants == LedgerSpec => []AttemptIsEpoch
<1>1. LedgerInv => AttemptIsEpoch
  BY DEF LedgerInv
<1>. QED  BY <1>1, LedgerInvariant, PTL

\* A row offered for a retry has budget left: _mark_terminal is dead code.
THEOREM LedgerRetryHasBudget == LedgerSpec => []RetryableHasBudget
<1>1. LedgerInv => RetryableHasBudget
  BY DEF LedgerInv
<1>. QED  BY <1>1, LedgerInvariant, PTL

\* A RUNNING row can always be found by the reaper once its lease has passed.
THEOREM LedgerRunningReclaimable == LedgerSpec => []RunningIsReclaimable
<1>1. LedgerInv => RunningIsReclaimable
  BY DEF LedgerInv
<1>. QED  BY <1>1, LedgerInvariant, PTL

--------------------------------------------------------------------------------
\* What each kind of step does to the epochs.
LEMMA SwapEpoch ==
  ASSUME NEW w \in Worker, LedgerInv, AcquireSwap(w)
  PROVE  \E s \in Stage :
           /\ row' = [row EXCEPT ![s] = row'[s]]
           /\ row'[s].epoch = row[s].epoch + 1
           /\ row'[s].state = "RUNNING"
           /\ row'[s].owner = w
           /\ token' = [token EXCEPT ![w][s] = row[s].epoch + 1]
<1>1. PICK snap \in seen[w] :
        /\ row[snap.stage].epoch = snap.epoch
        /\ row' = [row EXCEPT ![snap.stage] =
                     [state |-> "RUNNING", attempt |-> snap.attempt + 1,
                      epoch |-> snap.epoch + 1, owner |-> w, lease |-> "live"]]
        /\ token' = [token EXCEPT ![w][snap.stage] = snap.epoch + 1]
  BY DEF AcquireSwap
<1>2. snap.stage \in Stage
  BY DEF LedgerInv, LedgerTypeOK, Snapshot
<1>. QED  BY <1>1, <1>2 DEF LedgerInv, LedgerTypeOK

LEMMA OtherEpochs ==
  ASSUME LedgerInv, LedgerNext, ~ \E w \in Worker : AcquireSwap(w)
  PROVE  \A s \in Stage :
           /\ row'[s].epoch = row[s].epoch
           /\ \/ row[s].state = "SUCCEEDED" \/ row'[s].state # "SUCCEEDED"
              \/ \E w \in Worker : Complete(w, s)
<1> SUFFICES ASSUME NEW s \in Stage
             PROVE  /\ row'[s].epoch = row[s].epoch
                    /\ \/ row[s].state = "SUCCEEDED" \/ row'[s].state # "SUCCEEDED"
                       \/ \E w \in Worker : Complete(w, s)
  OBVIOUS
<1>0. row \in [Stage -> Row]
  BY DEF LedgerInv, LedgerTypeOK
<1>1. CASE EnsureStages
  BY <1>0, <1>1 DEF EnsureStages, Row
<1>2. ASSUME NEW w \in Worker, NEW t \in Stage,
             AcquireRead(w, t) \/ Renew(w, t) \/ Complete(w, t) \/ AcquireLost(w) \/ Leave(w)
      PROVE  /\ row'[s].epoch = row[s].epoch
             /\ \/ row[s].state = "SUCCEEDED" \/ row'[s].state # "SUCCEEDED"
                \/ \E v \in Worker : Complete(v, s)
  <2>1. CASE AcquireRead(w, t) \/ AcquireLost(w) \/ Leave(w)
    BY <2>1 DEF AcquireRead, AcquireLost, Leave
  <2>2. CASE Renew(w, t)
    BY <1>0, <2>2 DEF Renew, Row
  <2>3. CASE Complete(w, t)
    <3>1. CASE s = t
      BY <1>0, <2>3, <3>1 DEF Complete, Released, Row
    <3>2. CASE s # t
      BY <1>0, <2>3, <3>2 DEF Complete
    <3>. QED  BY <3>1, <3>2
  <2>. QED  BY <1>2, <2>1, <2>2, <2>3
<1>3. ASSUME NEW w \in Worker, NEW t \in Stage, NEW c \in RetryClass, Fail(w, t, c)
      PROVE  /\ row'[s].epoch = row[s].epoch
             /\ row[s].state = "SUCCEEDED" \/ row'[s].state # "SUCCEEDED"
  <2>1. FailedState(row[t], c) \in {"CANCELLED", "FAILED_RETRYABLE", "FAILED_TERMINAL"}
    BY DEF FailedState
  <2>2. row' = [row EXCEPT ![t] = Released(row[t], FailedState(row[t], c))]
    BY <1>3 DEF Fail
  <2>. QED  BY <1>0, <2>1, <2>2 DEF Released, Row
<1>4. ASSUME NEW r \in Reaper, ReaperNext(r)
      PROVE  /\ row'[s].epoch = row[s].epoch
             /\ row[s].state = "SUCCEEDED" \/ row'[s].state # "SUCCEEDED"
  <2>1. CASE ReapRead(r)
    BY <2>1 DEF ReapRead
  <2>2. CASE ReapCommit(r)
    <3>1. row'[s] = row[s] \/ \E snap \in doomed[r] : row'[s] = Reaped(row[s], snap)
      BY <2>2 DEF ReapCommit
    <3>2. \A snap : Reaped(row[s], snap).state \in {"FAILED_TERMINAL", "FAILED_RETRYABLE"}
                    /\ Reaped(row[s], snap).epoch = row[s].epoch
      BY <1>0 DEF Reaped, Released, Row
    <3>. QED  BY <3>1, <3>2
  <2>. QED  BY <1>4, <2>1, <2>2 DEF ReaperNext
<1>5. ASSUME NEW t \in Stage, Skip(t) \/ LeaseExpires(t)
      PROVE  /\ row'[s].epoch = row[s].epoch
             /\ row[s].state = "SUCCEEDED" \/ row'[s].state # "SUCCEEDED"
  BY <1>0, <1>5 DEF Skip, LeaseExpires, Row
<1>. QED
  BY <1>1, <1>2, <1>3, <1>4, <1>5 DEF LedgerNext, WorkerNext

\* An epoch changes only by one, and only into the hands of a worker.
THEOREM LedgerEpochs == LedgerSpec => EpochOnlyGrows
<1>1. LedgerInv /\ [LedgerNext]_ledgerVars => [EpochStep]_ledgerVars
  <2> SUFFICES ASSUME LedgerInv, LedgerNext PROVE EpochStep
    OBVIOUS
  <2>1. CASE \E w \in Worker : AcquireSwap(w)
    <3>1. PICK w \in Worker, t \in Stage :
            /\ row' = [row EXCEPT ![t] = row'[t]]
            /\ row'[t].epoch = row[t].epoch + 1
            /\ row'[t].owner = w
            /\ token' = [token EXCEPT ![w][t] = row[t].epoch + 1]
      BY <2>1, SwapEpoch
    <3>2. row \in [Stage -> Row] /\ token \in [Worker -> [Stage -> Nat]]
      BY DEF LedgerInv, LedgerTypeOK
    <3>3. \A s \in Stage : s # t => row'[s] = row[s]
      BY <3>1, <3>2
    <3>4. token'[w][t] = row'[t].epoch
      BY <3>1, <3>2
    <3>. QED  BY <3>1, <3>3, <3>4 DEF EpochStep
  <2>2. CASE ~ \E w \in Worker : AcquireSwap(w)
    BY <2>2, OtherEpochs DEF EpochStep
  <2>. QED  BY <2>1, <2>2
<1>. QED  BY <1>1, LedgerInvariant, PTL DEF LedgerSpec, EpochOnlyGrows

--------------------------------------------------------------------------------
\* Every step of the ledger is a step of FencedLease or leaves it unchanged.
LEMMA StepKeepsFence ==
  LedgerInv /\ [LedgerNext]_ledgerVars => [Fence!FenceNext]_Fence!fenceVars
<1> DEFINE latest == [s \in Stage |-> row[s].epoch]
           done == [s \in Stage |-> row[s].state = "SUCCEEDED"]
<1> SUFFICES ASSUME LedgerInv, [LedgerNext]_ledgerVars
             PROVE  Fence!FenceNext \/ UNCHANGED <<latest, token, done>>
  BY DEF Fence!fenceVars
<1>0. row \in [Stage -> Row] /\ token \in [Worker -> [Stage -> Nat]]
  BY DEF LedgerInv, LedgerTypeOK
<1>1. CASE \E w \in Worker : AcquireSwap(w)
  <2>1. PICK w \in Worker, t \in Stage :
          /\ row' = [row EXCEPT ![t] = row'[t]]
          /\ row'[t].epoch = row[t].epoch + 1
          /\ row'[t].state = "RUNNING"
          /\ token' = [token EXCEPT ![w][t] = row[t].epoch + 1]
    BY <1>1, SwapEpoch
  <2>2. \A s \in Stage : s # t => row'[s] = row[s]
    BY <1>0, <2>1
  <2>3. latest' = [latest EXCEPT ![t] = @ + 1]
    BY <2>1, <2>2
  <2>4. done' = [done EXCEPT ![t] = FALSE]
    BY <2>1, <2>2
  <2>5. token' = [token EXCEPT ![w][t] = latest[t] + 1]
    BY <2>1
  <2>. QED  BY <2>3, <2>4, <2>5 DEF Fence!FenceNext, Fence!Grant
<1>2. CASE LedgerNext /\ \E w \in Worker, s \in Stage : Complete(w, s)
  <2>1. PICK w \in Worker, t \in Stage : Complete(w, t)
    BY <1>2
  <2>2. \A s \in Stage : row'[s] = IF s = t THEN Released(row[t], "SUCCEEDED") ELSE row[s]
    BY <1>0, <2>1 DEF Complete
  <2>3. Released(row[t], "SUCCEEDED").epoch = row[t].epoch
        /\ Released(row[t], "SUCCEEDED").state = "SUCCEEDED"
    BY <1>0 DEF Released, Row
  <2>4. latest' = latest /\ token' = token
    BY <2>1, <2>2, <2>3 DEF Complete
  <2>5. done' = [done EXCEPT ![t] = TRUE]
    BY <2>2, <2>3
  <2>6. token[w][t] = latest[t] /\ latest[t] # 0
    BY <2>1 DEF Complete, HoldsCurrent
  <2>. QED  BY <2>4, <2>5, <2>6 DEF Fence!FenceNext, Fence!Finish
<1>3. CASE \E w \in Worker : Leave(w)
  <2>1. PICK w \in Worker : Leave(w)
    BY <1>3
  <2>2. token' = [token EXCEPT ![w] = [s \in Stage |-> IF s \in Stage THEN 0 ELSE @[s]]]
    BY <1>0, <2>1 DEF Leave
  <2>3. latest' = latest /\ done' = done
    BY <2>1 DEF Leave
  <2>. QED  BY <2>2, <2>3 DEF Fence!FenceNext, Fence!Forget
<1>4. CASE /\ LedgerNext
           /\ ~ \E w \in Worker : AcquireSwap(w) \/ Leave(w)
           /\ ~ \E w \in Worker, s \in Stage : Complete(w, s)
  <2> DEFINE R == {s \in Stage : ~(row'[s].state = "SUCCEEDED")}
  <2>1. \A s \in Stage :
          /\ row'[s].epoch = row[s].epoch
          /\ row[s].state = "SUCCEEDED" \/ row'[s].state # "SUCCEEDED"
    BY <1>4, OtherEpochs
  <2>2. token' = token
    BY <1>4
    DEF LedgerNext, WorkerNext, ReaperNext, EnsureStages, AcquireRead, AcquireLost, Renew, Fail,
        ReapRead, ReapCommit, Skip, LeaseExpires
  <2>3. latest' = latest
    BY <2>1
  <2>4. done' = [s \in Stage |-> done[s] /\ s \notin R]
    BY <2>1
  <2>. QED  BY <2>2, <2>3, <2>4 DEF Fence!FenceNext, Fence!Reopen
<1>5. CASE UNCHANGED ledgerVars
  BY <1>5 DEF ledgerVars
<1>. QED  BY <1>1, <1>2, <1>3, <1>4, <1>5

\* Only the holder of the latest epoch of a stage can make it read as SUCCEEDED.
THEOREM LedgerKeepsFence == LedgerSpec => KeepsFence
<1>1. LedgerInit => Fence!FenceInit
  <2> SUFFICES ASSUME LedgerInit PROVE Fence!FenceInit
    OBVIOUS
  <2>1. \A s \in Stage : row[s].epoch = 0 /\ (row[s].state = "SUCCEEDED") = FALSE
    BY DEF LedgerInit, MissingRow
  <2>2. [s \in Stage |-> row[s].epoch] = [s \in Stage |-> 0]
    BY <2>1
  <2>3. [s \in Stage |-> row[s].state = "SUCCEEDED"] = [s \in Stage |-> FALSE]
    BY <2>1, Zenon
  <2>. QED  BY <2>2, <2>3 DEF LedgerInit, Fence!FenceInit
<1>. QED
  BY <1>1, StepKeepsFence, LedgerInvariant, PTL DEF LedgerSpec, KeepsFence, Fence!FenceSpec

HIDE DEF Claimable, Lease

--------------------------------------------------------------------------------
(* The runner. *)

TypesInv == RunnerTypeOK /\ LedgerInv

--------------------------------------------------------------------------------
(* Where a worker goes next. *)

\* What run_scan may do after a stage: return, or enter a later stage; NOTIFY only
\* past the gate of the strict mode.
Onward(f) ==
  {Finished(f), AtStage(f, "PROOF")} \cup
    (IF Strict /\ f.life # "COMPLETED" THEN {} ELSE {AtStage(f, "NOTIFY")})

LEMMA MovesOnward ==
  ASSUME NEW f
  PROVE  /\ EnterNotify(f) \in Onward(f)
         /\ ResumeNotify(f) \in Onward(f)
         /\ EnterProof(f) \in Onward(f)
         /\ AfterProof(f) \in Onward(f)
         /\ Unacquired(f) \in Onward(f)
         /\ Unacquired(f) = Finished(f) \/ f.stage = "PROOF"
  BY DEF Onward, EnterNotify, ResumeNotify, EnterProof, AfterProof, Unacquired

LEMMA StageNames == {"EVIDENCE", "STATEMENT", "PROOF", "NOTIFY"} = Stage
  BY RunnerAssumption

LEMMA IdleIsFrame == IdleFrame \in Frame /\ NoView \in View
<1>1. NoView \in View
  BY DEF NoView, View, StageState
<1>. QED
  BY <1>1, StageNames DEF IdleFrame, Frame, At, Lifecycle, Packet, NoPacket

\* A frame that has finished holds nothing but its message.
LEMMA FinishedFrame ==
  ASSUME NEW f \in Frame
  PROVE  /\ Finished(f) \in Frame
         /\ Finished(f).at = "ack" /\ Finished(f).stage = "EVIDENCE" /\ ~Finished(f).resumed
         /\ Finished(f).life = "ACCEPTED" /\ Finished(f).packet = NoPacket
         /\ Finished(f).anchored = FALSE /\ Finished(f).view = NoView
<1>1. f.msg \in Message \cup {0}
  BY DEF Frame
<1>. QED
  BY <1>1, IdleIsFrame DEF Finished, IdleFrame, Frame, At

LEMMA StageFrame ==
  ASSUME NEW f \in Frame, NEW s \in Stage
  PROVE  /\ AtStage(f, s) \in Frame
         /\ AtStage(f, s).at = "acquire" /\ AtStage(f, s).stage = s
         /\ AtStage(f, s).resumed = f.resumed /\ AtStage(f, s).life = f.life
         /\ AtStage(f, s).packet = f.packet /\ AtStage(f, s).anchored = f.anchored
         /\ AtStage(f, s).view = f.view
  BY DEF AtStage, Frame, At

LEMMA OnwardFrame ==
  ASSUME NEW f \in Frame
  PROVE  Onward(f) \subseteq Frame
<1>1. Finished(f) \in Frame /\ \A s \in Stage : AtStage(f, s) \in Frame
  BY FinishedFrame, StageFrame
<1>2. AtStage(f, "PROOF") \in Frame /\ AtStage(f, "NOTIFY") \in Frame
  BY <1>1, StageNames
<1>. QED  BY <1>1, <1>2 DEF Onward

\* A worker that only changes place.
LEMMA PlaceFrame ==
  ASSUME NEW f \in Frame, NEW p \in At
  PROVE  [f EXCEPT !.at = p] \in Frame
  BY DEF Frame
--------------------------------------------------------------------------------
(* First layer: types, and the ledger. *)

\* Every step of the runner is a step of the ledger or one of the two that go
\* around it.
LEMMA LedgerSteps ==
  ASSUME TypesInv, [Next]_vars
  PROVE  \/ [LedgerNext]_ledgerVars
         \/ \E w \in Worker : AcquireRemembered(w) \/ Inspect(w)
<1>1. ASSUME NEW w \in Worker, RunnerNext(w)
      PROVE  [LedgerNext]_ledgerVars \/ AcquireRemembered(w) \/ Inspect(w)
  <2>0. ASSUME NEW t \in Stage, NEW c \in RetryClass, FailIfCurrent(w, t, c)
        PROVE  [LedgerNext]_ledgerVars
    BY <2>0 DEF FailIfCurrent, LedgerNext, WorkerNext
  <2>1. CASE Start(w) \/ Claim(w) \/ Mark(w) \/ Resume(w) \/ Acknowledge(w)
    BY <2>1 DEF Start, Claim, Mark, Resume, Acknowledge, LedgerNext, WorkerNext
  <2>2. CASE Acquire(w) \/ Swap(w)
    <3>1. frame[w].stage \in Stage
      BY DEF TypesInv, RunnerTypeOK, Frame
    <3>. QED  BY <2>2, <3>1 DEF Acquire, Swap, LedgerNext, WorkerNext
  <2>3. CASE EvidenceNext(w)
    BY <2>0, <2>3, StageNames
    DEF EvidenceNext, Report, EvidenceCommit, MarkDone, EvidenceFails, FinalizeTransient,
        FinalizeTerminal, LedgerNext, WorkerNext
  <2>4. CASE StatementNext(w)
    BY <2>0, <2>4, StageNames
    DEF StatementNext, Lookup, Issue, SettleStatement, Audit, StatementFails, LedgerNext,
        WorkerNext, RetryClass
  <2>5. CASE ProofNext(w)
    BY <2>0, <2>5, StageNames
    DEF ProofNext, AnchorConfirmed, AnchorPending, WriteProof, ProofWaits, SettleProof,
        ProofPersistFails, LedgerNext, WorkerNext, RetryClass
  <2>6. CASE NotifyNext(w)
    BY <2>0, <2>6, StageNames
    DEF NotifyNext, Notify, SettleNotify, NotifyFails, LedgerNext, WorkerNext, RetryClass
  <2>. QED
    BY <1>1, <2>1, <2>2, <2>3, <2>4, <2>5, <2>6 DEF RunnerNext
<1>2. ASSUME NEW w \in Worker, Crash(w) \/ Restart(w) PROVE [LedgerNext]_ledgerVars
  BY <1>2 DEF Crash, Restart, LedgerNext, WorkerNext
<1>3. ASSUME NEW w \in Worker, NEW m \in Message, Deliver(w, m) PROVE UNCHANGED ledgerVars
  BY <1>3 DEF Deliver
<1>4. ASSUME NEW s \in Stage, Expire(s) PROVE LedgerNext
  BY <1>4 DEF Expire, LedgerNext
<1>5. ASSUME NEW r \in Reaper, Reap(r) PROVE LedgerNext
  BY <1>5 DEF Reap, LedgerNext
<1>6. ASSUME CancelScan \/ DeadlinePasses \/ ChainConfirms PROVE UNCHANGED ledgerVars
  BY <1>6 DEF CancelScan, DeadlinePasses, ChainConfirms
<1>7. CASE UNCHANGED vars
  BY <1>7 DEF vars
<1>. QED  BY <1>1, <1>2, <1>3, <1>4, <1>5, <1>6, <1>7 DEF Next

\* A remembered row is read with the attempt that its epoch stands for.
LEMMA AcquireRememberedInv ==
  ASSUME TypesInv, NEW w \in Worker, AcquireRemembered(w)
  PROVE  LedgerInv'
<1> DEFINE s == frame[w].stage
           e == frame[w].view[s].epoch
<1>1. s \in Stage /\ e \in Nat
  BY DEF TypesInv, RunnerTypeOK, Frame, View
<1>2. /\ seen' = [seen EXCEPT ![w] = {[stage |-> s, attempt |-> e, epoch |-> e]}]
      /\ UNCHANGED <<row, token, doomed>>
  BY DEF AcquireRemembered
<1> HIDE DEF s, e
<1>3. [stage |-> s, attempt |-> e, epoch |-> e] \in Snapshot
  BY <1>1 DEF Snapshot
<1>. QED
  BY <1>2, <1>3
  DEF TypesInv, LedgerInv, LedgerTypeOK, TokensBounded, SnapshotsAgree, AttemptIsEpoch,
      SingleHolder, RetryableHasBudget, RunningIsReclaimable

\* The reconciling UPDATE releases the row, whoever holds it.
LEMMA InspectInv ==
  ASSUME TypesInv, NEW w \in Worker, Inspect(w)
  PROVE  LedgerInv'
<1>1. UNCHANGED <<token, seen, doomed>>
  BY DEF Inspect
<1>2. LedgerInv
  BY DEF TypesInv
<1>3. CASE row' = row
  BY <1>1, <1>2, <1>3
  DEF LedgerInv, LedgerTypeOK, TokensBounded, SnapshotsAgree, AttemptIsEpoch,
      SingleHolder, RetryableHasBudget, RunningIsReclaimable
<1>4. CASE row' # row
  <2> DEFINE r == Released(row["STATEMENT"], "SUCCEEDED")
  <2>1. row' = [row EXCEPT !["STATEMENT"] = r]
    BY <1>4 DEF Inspect, Reconciled
  <2>2. row["STATEMENT"] \in Row /\ "SUCCEEDED" \in StageState /\ "STATEMENT" \in Stage
    BY StageNames, <1>2 DEF LedgerInv, LedgerTypeOK, StageState
  <2> HIDE DEF r
  <2>3. /\ r \in Row /\ r.state = "SUCCEEDED"
        /\ r.epoch = row["STATEMENT"].epoch /\ r.attempt = row["STATEMENT"].attempt
    BY <2>2, ReleasedRow DEF r
  <2>. QED  BY <1>1, <1>2, <2>1, <2>2, <2>3, RowUpdateInv
<1>. QED  BY <1>3, <1>4

LEMMA LedgerHolds == TypesInv /\ [Next]_vars => LedgerInv'
<1> SUFFICES ASSUME TypesInv, [Next]_vars PROVE LedgerInv'
  OBVIOUS
<1>1. CASE [LedgerNext]_ledgerVars
  BY <1>1, NextInv DEF TypesInv
<1>. QED  BY <1>1, LedgerSteps, AcquireRememberedInv, InspectInv
\* Every worker's step replaces its own frame, and only that.
LEMMA FramesTyped ==
  ASSUME TypesInv, NEW w \in Worker, RunnerNext(w) \/ Crash(w) \/ Restart(w)
  PROVE  \E g \in Frame : frame' = [frame EXCEPT ![w] = g]
<1> DEFINE f == frame[w]
           Ok == \E g \in Frame : frame' = [frame EXCEPT ![w] = g]
<1>0. f \in Frame
  BY DEF TypesInv, RunnerTypeOK
<1>f. /\ f.stage \in Stage /\ f.life \in Lifecycle /\ f.packet \in Packet /\ f.view \in View
      /\ f.resumed \in BOOLEAN
  BY <1>0 DEF Frame
<1>s. /\ scan.lifecycle \in Lifecycle /\ scan.packet \in Packet
      /\ row \in [Stage -> Row] /\ token[w]["EVIDENCE"] \in Nat
  BY StageNames DEF TypesInv, RunnerTypeOK, ScanRow, LedgerTypeOK
<1>v. CurrentView \in View
  BY <1>s DEF CurrentView, View, Row
<1>o. Finished(f) \in Frame /\ IdleFrame \in Frame /\ Onward(f) \subseteq Frame
  BY <1>0, FinishedFrame, IdleIsFrame, OnwardFrame
<1>p. \A p \in At : [f EXCEPT !.at = p] \in Frame
  BY <1>0, PlaceFrame
<1>1. ASSUME Start(w) PROVE Ok
  <2>1. /\ [f EXCEPT !.life = scan.lifecycle] \in Frame
        /\ [f EXCEPT !.life = scan.lifecycle, !.at = "claim"] \in Frame
        /\ [f EXCEPT !.life = scan.lifecycle, !.at = "resume", !.resumed = TRUE,
                     !.packet = scan.packet] \in Frame
    BY <1>0, <1>s DEF Frame, At
  <2>2. Finished([f EXCEPT !.life = scan.lifecycle]) \in Frame
    BY <2>1, FinishedFrame
  <2>. QED  BY <1>1, <2>1, <2>2 DEF Start, Become
<1>2. ASSUME Claim(w) \/ Mark(w) PROVE Ok
  <2>1. \A l \in Lifecycle, p \in At : [f EXCEPT !.at = p, !.life = l] \in Frame
    BY <1>0 DEF Frame
  <2>. QED  BY <1>2, <1>o, <1>s, <2>1 DEF Claim, Mark, Become, At, Lifecycle
<1>3. ASSUME Acquire(w) \/ AcquireRemembered(w) \/ Swap(w) PROVE Ok
  <2>1. Entry(f.stage) \in At
    BY <1>f, StageNames DEF Entry, At
  <2>. QED
    BY <1>3, <1>o, <1>p, <2>1, MovesOnward DEF Acquire, AcquireRemembered, Swap, Become, Goto, At
<1>4. ASSUME Report(w) \/ FinalizeTransient(w) \/ FinalizeTerminal(w) PROVE Ok
  BY <1>4, <1>o, <1>p DEF Report, FinalizeTransient, FinalizeTerminal, Become, Goto, At
<1>5. ASSUME EvidenceCommit(w) PROVE Ok
  <2>1. Own(w, "result") \in Packet
    BY <1>s DEF Own, Packet
  <2>2. [f EXCEPT !.at = "mark_done", !.packet = Own(w, "result")] \in Frame
    BY <1>0, <2>1 DEF Frame, At
  <2>. QED  BY <1>5, <1>o, <2>2 DEF EvidenceCommit, Become
<1>6. ASSUME MarkDone(w) PROVE Ok
  <2>1. [f EXCEPT !.life = "RESULT_READY"] \in Frame
    BY <1>0 DEF Frame, Lifecycle
  <2>2. AtStage([f EXCEPT !.life = "RESULT_READY"], "STATEMENT") \in Frame
    BY <2>1, StageFrame, StageNames
  <2>. QED  BY <1>6, <2>2 DEF MarkDone, Become
<1>7. ASSUME NEW c \in RetryClass, EvidenceFails(w, c) PROVE Ok
  <2>1. [f EXCEPT !.at = "finalize", !.class = c] \in Frame
    BY <1>0 DEF Frame, At
  <2>. QED  BY <1>7, <2>1 DEF EvidenceFails, Become
<1>8. ASSUME StatementNext(w) PROVE Ok
  BY <1>8, <1>o, <1>p, MovesOnward
  DEF StatementNext, Lookup, Issue, SettleStatement, Audit, StatementFails, Become, Goto, At
<1>9. ASSUME ProofNext(w) PROVE Ok
  <2>1. \A b \in BOOLEAN : [f EXCEPT !.at = "write", !.anchored = b] \in Frame
    BY <1>0 DEF Frame, At
  <2>2. \A l \in Lifecycle : [f EXCEPT !.at = "settle", !.life = l] \in Frame
    BY <1>0 DEF Frame, At
  <2>3. [f EXCEPT !.view["PROOF"].state = "SUCCEEDED"] \in Frame
    <3>1. [f.view EXCEPT !["PROOF"].state = "SUCCEEDED"] \in View
      BY <1>f, StageNames DEF View, StageState
    <3>. QED  BY <1>0, <3>1 DEF Frame
  <2>4. Refreshed(f) \in Frame
    BY <1>0, <1>s, <1>v, <1>f DEF Refreshed, Frame
  <2>5. \A g \in Frame : AfterProof(g) \in Frame
    BY OnwardFrame, MovesOnward
  <2>6. CASE AnchorConfirmed(w) \/ AnchorPending(w) \/ ProofWaits(w)
    BY <2>6, <2>1, <1>o DEF AnchorConfirmed, AnchorPending, ProofWaits, Anchored, Become
  <2>7. CASE WriteProof(w)
    BY <2>7, <2>2 DEF WriteProof, Become, Lifecycle
  <2>8. CASE SettleProof(w) \/ ProofPersistFails(w)
    BY <2>8, <2>3, <2>4, <2>5, <1>0 DEF SettleProof, ProofPersistFails, Become
  <2>. QED  BY <1>9, <2>6, <2>7, <2>8 DEF ProofNext
<1>10. ASSUME NotifyNext(w) PROVE Ok
  BY <1>10, <1>o, <1>p DEF NotifyNext, Notify, SettleNotify, NotifyFails, Become, Goto, At
<1>11. ASSUME Resume(w) \/ Inspect(w) PROVE Ok
  <2>1. [f EXCEPT !.at = "inspect", !.view = CurrentView] \in Frame
    BY <1>0, <1>v DEF Frame, At
  <2>2. AtStage(f, "STATEMENT") \in Frame
    BY <1>0, StageFrame, StageNames
  <2>. QED  BY <1>11, <1>o, <2>1, <2>2, MovesOnward DEF Resume, Inspect, Become
<1>12. ASSUME Acknowledge(w) \/ Crash(w) \/ Restart(w) PROVE Ok
  <2>1. [IdleFrame EXCEPT !.at = "dead"] \in Frame
    BY IdleIsFrame DEF Frame, At
  <2>. QED  BY <1>12, <1>o, <2>1 DEF Acknowledge, Crash, Restart, Become
<1>. QED
  BY <1>1, <1>2, <1>3, <1>4, <1>5, <1>6, <1>7, <1>8, <1>9, <1>10, <1>11, <1>12
  DEF RunnerNext, EvidenceNext
\* A scan row is written one column at a time, or whole.
LEMMA LifecycleRow ==
  ASSUME NEW sc \in ScanRow, NEW life \in Lifecycle, NEW new \in Lifecycle
  PROVE  /\ Lifecycled(sc, life, new) \in ScanRow
         /\ Lifecycled(sc, life, new).state = sc.state
         /\ Lifecycled(sc, life, new).packet = sc.packet
         /\ Lifecycled(sc, life, new).lifecycle \in {sc.lifecycle, new}
  BY DEF Lifecycled, ScanRow

LEMMA ScanWrites ==
  ASSUME NEW sc \in ScanRow
  PROVE  /\ \A st \in ScanState : [sc EXCEPT !.state = st] \in ScanRow
         /\ \A l \in Lifecycle : [sc EXCEPT !.lifecycle = l] \in ScanRow
         /\ \A p \in Packet : [sc EXCEPT !.packet = p] \in ScanRow
  BY DEF ScanRow

LEMMA WokenTyped ==
  ASSUME NEW ms \in [Message -> {"none", "ready", "pending", "acked"}]
  PROVE  Woken(ms) \in [Message -> {"none", "ready", "pending", "acked"}]
  BY DEF Woken

LEMMA TypesNext == TypesInv /\ [Next]_vars => TypesInv'
<1> SUFFICES ASSUME TypesInv, [Next]_vars PROVE TypesInv'
  OBVIOUS
<1> DEFINE MsgTable == [Message -> {"none", "ready", "pending", "acked"}]
           Others == /\ scan' \in ScanRow /\ statements' \in Seq(Packet)
                     /\ sent' \in BOOLEAN /\ chain' \in {"none", "submitted", "confirmed"}
                     /\ stop' \in BOOLEAN /\ msg' \in MsgTable
                     /\ crashes' \in 0 .. MaxCrashes /\ overtakes' \in 0 .. MaxOvertakes
                     /\ overlapped' \in BOOLEAN
<1>0. /\ scan \in ScanRow /\ statements \in Seq(Packet) /\ sent \in BOOLEAN
      /\ chain \in {"none", "submitted", "confirmed"} /\ stop \in BOOLEAN /\ msg \in MsgTable
      /\ crashes \in 0 .. MaxCrashes /\ overtakes \in 0 .. MaxOvertakes
      /\ overlapped \in BOOLEAN /\ frame \in [Worker -> Frame]
  BY DEF TypesInv, RunnerTypeOK
<1>w. \A w \in Worker : /\ frame[w].life \in Lifecycle /\ frame[w].packet \in Packet
                        /\ token[w]["EVIDENCE"] \in Nat
  BY <1>0, StageNames DEF Frame, TypesInv, RunnerTypeOK, LedgerTypeOK
<1>k. /\ Woken(msg) \in MsgTable
      /\ \A l \in Lifecycle : [scan EXCEPT !.lifecycle = l] \in ScanRow
      /\ \A st \in ScanState : [scan EXCEPT !.state = st] \in ScanRow
      /\ \A p \in Packet : [scan EXCEPT !.packet = p] \in ScanRow
  BY <1>0, WokenTyped, ScanWrites
<1>o. \A w \in Worker, k \in {"progress", "result", "failure"} : Own(w, k) \in Packet
  BY <1>w DEF Own, Packet
<1>c. ASSUME Confirm PROVE scan' \in ScanRow /\ msg' \in MsgTable /\ chain' = "confirmed"
                           /\ UNCHANGED <<statements, sent, stop>>
  BY <1>c, <1>0, <1>k DEF Confirm, Lifecycle
<1> HIDE DEF MsgTable
<1>1. ASSUME NEW w \in Worker, RunnerNext(w) PROVE Others
  <2>1. CASE Start(w) \/ Claim(w) \/ Acquire(w) \/ AcquireRemembered(w) \/ Swap(w)
             \/ Resume(w) \/ Inspect(w)
    BY <2>1, <1>0, <1>k
    DEF Start, Claim, Acquire, AcquireRemembered, Swap, Resume, Inspect, scanVars, envVars,
        ScanState
  <2>2. CASE Acknowledge(w)
    <3>1. [msg EXCEPT ![frame[w].msg] = "acked"] \in MsgTable
      BY <1>0 DEF MsgTable
    <3>. QED  BY <2>2, <3>1, <1>0 DEF Acknowledge, scanVars, envVars
  <2>3. CASE Mark(w) \/ MarkDone(w) \/ WriteProof(w)
    <3>1. \A sc \in ScanRow, l \in {"RUNNING", "RESULT_READY", "COMPLETED"} :
            Lifecycled(sc, frame[w].life, l) \in ScanRow
      BY <1>w, LifecycleRow DEF Lifecycle
    <3>2. scan' \in ScanRow
      BY <2>3, <3>1, <1>0, <1>k, <1>w DEF Mark, MarkDone, WriteProof, ScanState
    <3>. QED
      BY <2>3, <3>2, <1>0 DEF Mark, MarkDone, WriteProof, envVars
  <2>4. CASE Report(w) \/ EvidenceCommit(w) \/ FinalizeTransient(w)
             \/ \E c \in RetryClass : EvidenceFails(w, c)
    BY <2>4, <1>0, <1>k, <1>o
    DEF Report, EvidenceCommit, FinalizeTransient, EvidenceFails, scanVars, envVars, ScanState
  <2>5. CASE FinalizeTerminal(w)
    <3>1. scan' \in ScanRow
      BY <2>5, <1>o DEF FinalizeTerminal, ScanRow, ScanState, Lifecycle
    <3>. QED  BY <2>5, <3>1, <1>0 DEF FinalizeTerminal, envVars
  <2>6. CASE StatementNext(w)
    <3>1. Append(statements, frame[w].packet) \in Seq(Packet)
      BY <1>0, <1>w
    <3>. QED
      BY <2>6, <3>1, <1>0
      DEF StatementNext, Lookup, Issue, SettleStatement, Audit, StatementFails, scanVars,
          envVars
  <2>7. CASE AnchorConfirmed(w)
    BY <2>7, <1>c, <1>0 DEF AnchorConfirmed, scanVars, envVars
  <2>8. CASE AnchorPending(w) \/ ProofWaits(w) \/ SettleProof(w) \/ ProofPersistFails(w)
    BY <2>8, <1>0
    DEF AnchorPending, ProofWaits, SettleProof, ProofPersistFails, scanVars, envVars
  <2>9. CASE NotifyNext(w)
    BY <2>9, <1>0 DEF NotifyNext, Notify, SettleNotify, NotifyFails, scanVars, envVars
  <2>. QED
    BY <1>1, <2>1, <2>2, <2>3, <2>4, <2>5, <2>6, <2>7, <2>8, <2>9
    DEF RunnerNext, EvidenceNext, ProofNext
<1>2. ASSUME NEW w \in Worker, Crash(w) \/ Restart(w) PROVE Others
  BY <1>2, <1>0, <1>k, RunnerAssumption DEF Crash, Restart, scanVars, envVars
<1>3. ASSUME NEW w \in Worker, NEW m \in Message, Deliver(w, m)
      PROVE  Others /\ frame' \in [Worker -> Frame]
  <2>1. [IdleFrame EXCEPT !.at = "start", !.msg = m] \in Frame
    BY IdleIsFrame DEF Frame, At
  <2>2. [msg EXCEPT ![m] = "pending"] \in MsgTable
    BY <1>0 DEF MsgTable
  <2>. QED  BY <1>3, <2>1, <2>2, <1>0 DEF Deliver, scanVars
<1>4. ASSUME NEW s \in Stage, Expire(s) PROVE Others /\ frame' \in [Worker -> Frame]
  BY <1>4, <1>0, RunnerAssumption DEF Expire, scanVars
<1>5. ASSUME NEW r \in Reaper, Reap(r) PROVE Others /\ frame' \in [Worker -> Frame]
  BY <1>5, <1>0 DEF Reap, scanVars, envVars
<1>6. ASSUME CancelScan \/ DeadlinePasses \/ ChainConfirms
      PROVE  Others /\ frame' \in [Worker -> Frame]
  BY <1>6, <1>0, <1>c DEF CancelScan, DeadlinePasses, ChainConfirms, envVars
<1>7. CASE UNCHANGED vars
  BY <1>7, <1>0, LedgerHolds
  DEF vars, scanVars, envVars, TypesInv, RunnerTypeOK, MsgTable, LedgerInv
<1>8. CASE Next
  <2>1. Others /\ frame' \in [Worker -> Frame]
    BY <1>8, <1>0, <1>1, <1>2, <1>3, <1>4, <1>5, <1>6, FramesTyped DEF Next
  <2>. QED
    BY <2>1, LedgerHolds DEF TypesInv, RunnerTypeOK, MsgTable, LedgerInv
<1>. QED  BY <1>7, <1>8

LEMMA TypesInit == Init => TypesInv
<1> SUFFICES ASSUME Init PROVE TypesInv
  OBVIOUS
<1>1. LedgerInv
  BY InitInv DEF Init
<1>2. IdleFrame \in Frame
  BY IdleIsFrame
<1>3. NoPacket \in Packet
  BY DEF NoPacket, Packet
<1>4. /\ scan \in ScanRow
      /\ statements \in Seq(Packet)
      /\ msg \in [Message -> {"none", "ready", "pending", "acked"}]
  BY <1>3 DEF Init, ScanRow, ScanState, Lifecycle
<1>5. crashes \in 0 .. MaxCrashes /\ overtakes \in 0 .. MaxOvertakes
  BY RunnerAssumption DEF Init
<1>. QED
  BY <1>1, <1>2, <1>4, <1>5 DEF Init, TypesInv, RunnerTypeOK, LedgerInv

LEMMA TypesInvariant == Spec => []TypesInv
  BY TypesInit, TypesNext, PTL DEF Spec

\* Every variable of the runner keeps its type.
THEOREM RunnerTypeCorrect == Spec => []RunnerTypeOK
<1>1. TypesInv => RunnerTypeOK
  BY DEF TypesInv
<1>. QED  BY <1>1, TypesInvariant, PTL

\* acquire on a remembered row and the reconciling UPDATE, the two steps of the
\* runner that go around the ledger, keep all that the ledger promises.
THEOREM LedgerSurvivesRunner == Spec => []RunnerKeepsLedger
<1>1. TypesInv => RunnerKeepsLedger
  BY DEF TypesInv, RunnerKeepsLedger
<1>. QED  BY <1>1, TypesInvariant, PTL
--------------------------------------------------------------------------------
(* Second layer: a place belongs to a stage, and knows what has happened. *)

\* The stage of a place, and the places a resumed run never visits.
Home(f) ==
  /\ f.at \in {"idle", "dead", "ack", "start", "claim", "mark", "resume", "inspect", "report",
               "build", "stopped", "mark_done", "finalize"} => f.stage = "EVIDENCE"
  /\ f.at \in {"lookup", "issue", "audit"} => f.stage = "STATEMENT"
  /\ f.at \in {"anchor", "write"} => f.stage = "PROOF"
  /\ f.at = "notify" => f.stage = "NOTIFY"
  /\ f.at = "settle" => f.stage # "EVIDENCE"
  /\ f.resumed => f.at \notin {"idle", "dead", "ack", "start", "claim", "mark", "report", "build",
                               "stopped", "mark_done", "finalize"}
  /\ f.resumed /\ f.at \in {"acquire", "swap"} => f.stage # "EVIDENCE"
  /\ f.at \in {"resume", "inspect"} => f.resumed

HomeInv == \A w \in Worker : Home(frame[w])

LEMMA OwnFrameOnly ==
  ASSUME TypesInv, NEW w \in Worker, RunnerNext(w) \/ Crash(w) \/ Restart(w)
  PROVE  /\ frame' \in [Worker -> Frame]
         /\ \A v \in Worker : v # w => frame'[v] = frame[v]
  BY FramesTyped DEF TypesInv, RunnerTypeOK

\* Going onward leads home, for a first run as for a resumed one.
LEMMA OnwardHome ==
  ASSUME NEW f \in Frame, NEW g \in Onward(f)
  PROVE  Home(g)
<1>1. g = Finished(f) \/ g = AtStage(f, "PROOF") \/ g = AtStage(f, "NOTIFY")
  BY DEF Onward
<1>2. Home(Finished(f))
  BY FinishedFrame DEF Home
<1>3. Home(AtStage(f, "PROOF")) /\ Home(AtStage(f, "NOTIFY"))
  BY StageFrame, StageNames DEF Home
<1>. QED  BY <1>1, <1>2, <1>3

LEMMA IdleHome == Home(IdleFrame) /\ Home([IdleFrame EXCEPT !.at = "dead"])
                  /\ \A m \in Message : Home([IdleFrame EXCEPT !.at = "start", !.msg = m])
  BY IdleIsFrame DEF Home, IdleFrame

\* What the end of the proof stage goes on with: the worker's own frame, with
\* the stage remembered as done, or with what a rollback makes it read again.
LEMMA AfterProofOf ==
  ASSUME TypesInv, NEW w \in Worker, SettleProof(w) \/ ProofPersistFails(w)
  PROVE  \E g \in Frame :
           /\ frame' = [frame EXCEPT ![w] = AfterProof(g)]
           /\ g.stage = frame[w].stage /\ g.resumed = frame[w].resumed
           /\ g.anchored = frame[w].anchored /\ g.packet = frame[w].packet
           /\ g.life \in {frame[w].life, scan.lifecycle}
           /\ \A s \in Stage : g.view[s].epoch \in {frame[w].view[s].epoch, row[s].epoch}
           /\ g.view["STATEMENT"] \in {frame[w].view["STATEMENT"], CurrentView["STATEMENT"]}
<1> DEFINE f == frame[w]
<1>0. /\ f \in Frame /\ f.view \in View /\ f.resumed \in BOOLEAN /\ f.stage \in Stage
      /\ scan.lifecycle \in Lifecycle /\ row \in [Stage -> Row]
  BY DEF TypesInv, RunnerTypeOK, Frame, ScanRow, LedgerTypeOK
<1>1. CurrentView \in View /\ \A s \in Stage : CurrentView[s].epoch = row[s].epoch
  BY <1>0 DEF CurrentView, View, Row
<1>2. LET g == [f EXCEPT !.view["PROOF"].state = "SUCCEEDED"] IN
      /\ g \in Frame
      /\ g.stage = f.stage /\ g.resumed = f.resumed
      /\ g.anchored = f.anchored /\ g.packet = f.packet /\ g.life = f.life
      /\ \A s \in Stage : g.view[s].epoch = f.view[s].epoch
      /\ g.view["STATEMENT"] = f.view["STATEMENT"]
  <2>1. LET u == [f.view EXCEPT !["PROOF"].state = "SUCCEEDED"] IN
        /\ u \in View
        /\ \A s \in Stage : u[s].epoch = f.view[s].epoch
        /\ u["STATEMENT"] = f.view["STATEMENT"]
    BY <1>0, StageNames DEF View, StageState
  <2>. QED  BY <1>0, <2>1 DEF Frame
<1>3. LET g == Refreshed(f) IN
      /\ g \in Frame
      /\ g.stage = f.stage /\ g.resumed = f.resumed
      /\ g.anchored = f.anchored /\ g.packet = f.packet /\ g.life = scan.lifecycle
      /\ g.view = f.view \/ g.view = CurrentView
  BY <1>0, <1>1 DEF Refreshed, Frame
<1>4. \/ frame' = [frame EXCEPT ![w] = AfterProof([f EXCEPT !.view["PROOF"].state = "SUCCEEDED"])]
      \/ frame' = [frame EXCEPT ![w] = AfterProof(f)]
      \/ frame' = [frame EXCEPT ![w] = AfterProof(Refreshed(f))]
  BY DEF SettleProof, ProofPersistFails, Become
<1>5. CASE frame' = [frame EXCEPT ![w] = AfterProof([f EXCEPT !.view["PROOF"].state = "SUCCEEDED"])]
  BY <1>2, <1>5
<1>6. CASE frame' = [frame EXCEPT ![w] = AfterProof(f)]
  BY <1>0, <1>6
<1>7. CASE frame' = [frame EXCEPT ![w] = AfterProof(Refreshed(f))]
  <2>1. \A s \in Stage : Refreshed(f).view[s].epoch \in {f.view[s].epoch, row[s].epoch}
    BY <1>1, <1>3
  <2>. QED  BY <1>3, <1>7, <2>1
<1>. QED  BY <1>4, <1>5, <1>6, <1>7

LEMMA WorkerHome ==
  ASSUME TypesInv, HomeInv, NEW w \in Worker, RunnerNext(w) \/ Crash(w) \/ Restart(w)
  PROVE  Home(frame'[w])
<1> DEFINE f == frame[w]
           Goes(g) == frame' = [frame EXCEPT ![w] = g] => Home(frame'[w])
<1>0. f \in Frame /\ Home(f) /\ f.stage \in Stage /\ frame \in [Worker -> Frame]
  BY DEF TypesInv, RunnerTypeOK, HomeInv, Frame
<1>g. \A g : Home(g) => Goes(g)
  BY <1>0
<1>f. Goes(Finished(f)) /\ Goes(IdleFrame) /\ \A g \in Onward(f) : Goes(g)
  BY <1>0, <1>g, OnwardHome, FinishedFrame, IdleHome DEF Onward
<1> HIDE DEF Goes
<1>1. ASSUME Start(w) PROVE Home(frame'[w])
  <2>1. [f EXCEPT !.life = scan.lifecycle] \in Frame
    BY <1>0 DEF Frame, TypesInv, RunnerTypeOK, ScanRow
  <2>2. Home(Finished([f EXCEPT !.life = scan.lifecycle]))
    BY <2>1, FinishedFrame DEF Home
  <2>. QED  BY <1>1, <1>0, <2>2 DEF Start, Become, At_, Home, Frame
<1>2. ASSUME Claim(w) PROVE Home(frame'[w])
  <2>1. Home([f EXCEPT !.at = "mark", !.life = scan.lifecycle])
    BY <1>2, <1>0 DEF Claim, At_, Home, Frame
  <2>. QED  BY <1>2, <1>f, <1>g, <2>1 DEF Claim, Become, Goes
<1>3. ASSUME Mark(w) PROVE Home(frame'[w])
  BY <1>3, <1>0 DEF Mark, Become, At_, Home, Frame
<1>4. ASSUME Acquire(w) \/ AcquireRemembered(w) PROVE Home(frame'[w])
  <2>1. Goes([f EXCEPT !.at = "swap"])
    BY <1>4, <1>0, <1>g DEF Acquire, AcquireRemembered, At_, Home, Frame
  <2>. QED
    BY <1>4, <1>f, <2>1, MovesOnward DEF Acquire, AcquireRemembered, Become, Goto, Goes
<1>5. ASSUME Swap(w) PROVE Home(frame'[w])
  <2>1. Goes([f EXCEPT !.at = Entry(f.stage)])
    BY <1>5, <1>0, <1>g, StageNames DEF Swap, At_, Entry, Home, Frame
  <2>. QED  BY <1>5, <1>f, <2>1, MovesOnward DEF Swap, Become, Goto, Goes
<1>6. ASSUME Report(w) PROVE Home(frame'[w])
  <2>1. Goes([f EXCEPT !.at = "stopped"]) /\ Goes([f EXCEPT !.at = "build"])
    BY <1>6, <1>0, <1>g DEF Report, At_, Home, Frame
  <2>. QED  BY <1>6, <2>1 DEF Report, Goto, Goes
<1>7. ASSUME EvidenceCommit(w) PROVE Home(frame'[w])
  <2>1. Home([f EXCEPT !.at = "mark_done", !.packet = Own(w, "result")])
    BY <1>7, <1>0 DEF EvidenceCommit, At_, Home, Frame
  <2>. QED  BY <1>7, <1>f, <1>g, <2>1 DEF EvidenceCommit, Become, Goes
<1>8. ASSUME MarkDone(w) PROVE Home(frame'[w])
  <2>1. [f EXCEPT !.life = "RESULT_READY"] \in Frame /\ ~f.resumed
    BY <1>8, <1>0 DEF MarkDone, At_, Home, Frame, Lifecycle
  <2>2. Home(AtStage([f EXCEPT !.life = "RESULT_READY"], "STATEMENT"))
    BY <2>1, <1>0, StageFrame, StageNames DEF Home, Frame
  <2>. QED  BY <1>8, <1>g, <2>2 DEF MarkDone, Become, Goes
<1>9. ASSUME NEW c \in RetryClass, EvidenceFails(w, c) PROVE Home(frame'[w])
  <2>1. Home([f EXCEPT !.at = "finalize", !.class = c])
    BY <1>9, <1>0 DEF EvidenceFails, At_, Home, Frame
  <2>. QED  BY <1>9, <1>g, <2>1 DEF EvidenceFails, Become, Goes
<1>10. ASSUME FinalizeTransient(w) \/ FinalizeTerminal(w) PROVE Home(frame'[w])
  BY <1>10, <1>f DEF FinalizeTransient, FinalizeTerminal, Become, Goes
<1>11. ASSUME StatementNext(w) PROVE Home(frame'[w])
  <2>1. CASE Lookup(w) \/ Issue(w)
    <3>1. Goes([f EXCEPT !.at = "issue"]) /\ Goes([f EXCEPT !.at = "settle"])
      BY <2>1, <1>0, <1>g DEF Lookup, Issue, At_, Home, Frame
    <3>. QED  BY <2>1, <3>1 DEF Lookup, Issue, Goto, Goes
  <2>2. CASE SettleStatement(w)
    <3>1. Goes([f EXCEPT !.at = "audit"])
      BY <2>2, <1>0, <1>g DEF SettleStatement, OnStage, At_, Home, Frame
    <3>. QED  BY <2>2, <1>f, <3>1 DEF SettleStatement, Become, Goto, Goes
  <2>3. CASE Audit(w) \/ \E c \in {"TRANSIENT", "TERMINAL"} : StatementFails(w, c)
    BY <2>3, <1>f, MovesOnward DEF Audit, StatementFails, Become, Goes
  <2>. QED  BY <1>11, <2>1, <2>2, <2>3 DEF StatementNext
<1>12. ASSUME ProofNext(w) PROVE Home(frame'[w])
  <2>1. CASE AnchorConfirmed(w) \/ AnchorPending(w)
    <3>1. \A b \in BOOLEAN : Home([f EXCEPT !.at = "write", !.anchored = b])
      BY <2>1, <1>0 DEF AnchorConfirmed, AnchorPending, At_, Home, Frame
    <3>. QED  BY <2>1, <1>g, <3>1 DEF AnchorConfirmed, AnchorPending, Anchored, Become, Goes
  <2>2. CASE WriteProof(w)
    <3>1. \A l : Home([f EXCEPT !.at = "settle", !.life = l])
      BY <2>2, <1>0 DEF WriteProof, At_, Home, Frame
    <3>. QED  BY <2>2, <1>g, <3>1 DEF WriteProof, Become, Goes
  <2>3. CASE ProofWaits(w)
    BY <2>3, <1>f DEF ProofWaits, Become, Goes
  <2>4. CASE SettleProof(w) \/ ProofPersistFails(w)
    <3>1. \E g \in Frame : frame' = [frame EXCEPT ![w] = AfterProof(g)]
      BY <2>4, AfterProofOf
    <3>. QED  BY <3>1, <1>g, OnwardHome, MovesOnward DEF Goes
  <2>. QED  BY <1>12, <2>1, <2>2, <2>3, <2>4 DEF ProofNext
<1>13. ASSUME NotifyNext(w) PROVE Home(frame'[w])
  <2>1. CASE Notify(w)
    <3>1. Goes([f EXCEPT !.at = "settle"])
      BY <2>1, <1>0, <1>g DEF Notify, At_, Home, Frame
    <3>. QED  BY <2>1, <3>1 DEF Notify, Goto, Goes
  <2>2. CASE ~Notify(w)
    BY <2>2, <1>13, <1>f DEF NotifyNext, SettleNotify, NotifyFails, Become, Goes
  <2>. QED  BY <2>1, <2>2
<1>14. ASSUME Resume(w) PROVE Home(frame'[w])
  <2>1. Home([f EXCEPT !.at = "inspect", !.view = CurrentView])
    BY <1>14, <1>0 DEF Resume, At_, Home, Frame
  <2>. QED  BY <1>14, <1>f, <1>g, <2>1 DEF Resume, Become, Goes
<1>15. ASSUME Inspect(w) PROVE Home(frame'[w])
  <2>1. Home(AtStage(f, "STATEMENT"))
    BY <1>0, StageFrame, StageNames DEF Home
  <2>. QED  BY <1>15, <1>f, <1>g, <2>1, MovesOnward DEF Inspect, Become, Goes
<1>16. ASSUME Acknowledge(w) \/ Crash(w) \/ Restart(w) PROVE Home(frame'[w])
  BY <1>16, <1>f, <1>g, IdleHome DEF Acknowledge, Crash, Restart, Become, Goes
<1>. QED
  BY <1>1, <1>2, <1>3, <1>4, <1>5, <1>6, <1>7, <1>8, <1>9, <1>10, <1>11, <1>12, <1>13, <1>14,
     <1>15, <1>16
  DEF RunnerNext, EvidenceNext

LEMMA HomeInit == Init => HomeInv
  BY IdleHome DEF Init, HomeInv

LEMMA HomeNext == TypesInv /\ HomeInv /\ [Next]_vars => HomeInv'
<1> SUFFICES ASSUME TypesInv, HomeInv, [Next]_vars PROVE HomeInv'
  OBVIOUS
<1>1. ASSUME NEW w \in Worker, RunnerNext(w) \/ Crash(w) \/ Restart(w) PROVE HomeInv'
  BY <1>1, WorkerHome, OwnFrameOnly DEF HomeInv
<1>2. ASSUME NEW w \in Worker, NEW m \in Message, Deliver(w, m) PROVE HomeInv'
  BY <1>2, IdleHome DEF Deliver, HomeInv, TypesInv, RunnerTypeOK
<1>3. CASE UNCHANGED frame
  BY <1>3 DEF HomeInv
<1>. QED
  BY <1>1, <1>2, <1>3
  DEF Next, Expire, Reap, CancelScan, DeadlinePasses, ChainConfirms, vars
--------------------------------------------------------------------------------
(* What a step of a worker does to the ledger. *)

\* An UPDATE under the epoch that the worker holds, on the stage it is in.
Updates(w) ==
  LET f == frame[w] IN
  /\ HoldsCurrent(w, f.stage)
  /\ f.stage = "EVIDENCE" => f.at \in {"report", "build", "stopped"}
  /\ \/ f.stage = "EVIDENCE" /\ Renew(w, f.stage)
     \/ /\ Complete(w, f.stage)
        /\ f.at = "build" \/ f.at = "settle"
        /\ f.stage = "PROOF" /\ Strict => f.anchored
     \/ \E c \in RetryClass : Fail(w, f.stage, c)

Footprint(w) ==
  \/ UNCHANGED ledgerVars
  \/ EnsureStages
  \/ frame[w].at = "acquire" /\ ~frame[w].resumed /\ AcquireRead(w, frame[w].stage)
  \/ AcquireRemembered(w)
  \/ frame[w].at = "swap" /\ (AcquireSwap(w) \/ AcquireLost(w))
  \/ Leave(w)
  \/ Updates(w)
  \/ Inspect(w)

LEMMA WorkerFootprint ==
  ASSUME TypesInv, HomeInv, NEW w \in Worker, RunnerNext(w) \/ Crash(w) \/ Restart(w)
  PROVE  Footprint(w)
<1> DEFINE f == frame[w]
<1>0. Home(f)
  BY DEF HomeInv
<1>1. CASE Start(w) \/ Claim(w) \/ Mark(w) \/ Resume(w) \/ Inspect(w) \/ Acknowledge(w)
           \/ Crash(w) \/ Restart(w) \/ AcquireRemembered(w)
  BY <1>1 DEF Start, Claim, Mark, Resume, Acknowledge, Crash, Restart, Footprint
<1>2. CASE Acquire(w) \/ Swap(w)
  BY <1>2 DEF Acquire, Swap, At_, Footprint
<1>3. CASE EvidenceNext(w)
  <2>1. CASE Report(w) \/ EvidenceCommit(w) \/ \E c \in RetryClass : EvidenceFails(w, c)
    <3>1. f.stage = "EVIDENCE"
      BY <2>1, <1>0 DEF Report, EvidenceCommit, EvidenceFails, At_, Home
    <3>. QED
      BY <2>1, <3>1
      DEF Report, EvidenceCommit, EvidenceFails, FailIfCurrent, At_, Footprint, Updates
  <2>2. CASE MarkDone(w) \/ FinalizeTransient(w) \/ FinalizeTerminal(w)
    BY <2>2 DEF MarkDone, FinalizeTransient, FinalizeTerminal, Footprint
  <2>. QED  BY <1>3, <2>1, <2>2 DEF EvidenceNext
<1>4. CASE StatementNext(w)
  <2>1. CASE SettleStatement(w)
    BY <2>1 DEF SettleStatement, At_, OnStage, Footprint, Updates
  <2>2. CASE \E c \in {"TRANSIENT", "TERMINAL"} : StatementFails(w, c)
    <3>1. f.stage = "STATEMENT"
      BY <2>2, <1>0 DEF StatementFails, At_, OnStage, Home
    <3>. QED
      BY <2>2, <3>1 DEF StatementFails, FailIfCurrent, Footprint, Updates, RetryClass
  <2>3. CASE Lookup(w) \/ Issue(w) \/ Audit(w)
    BY <2>3 DEF Lookup, Issue, Audit, Footprint
  <2>. QED  BY <1>4, <2>1, <2>2, <2>3 DEF StatementNext
<1>5. CASE ProofNext(w)
  BY <1>5
  DEF ProofNext, AnchorConfirmed, AnchorPending, WriteProof, ProofWaits, SettleProof,
      ProofPersistFails, FailIfCurrent, At_, OnStage, Footprint, Updates, RetryClass
<1>6. CASE NotifyNext(w)
  <2>1. CASE Notify(w) \/ SettleNotify(w)
    BY <2>1 DEF Notify, SettleNotify, At_, OnStage, Footprint, Updates
  <2>2. CASE \E c \in {"TRANSIENT", "TERMINAL"} : NotifyFails(w, c)
    <3>1. f.stage = "NOTIFY"
      BY <2>2, <1>0 DEF NotifyFails, At_, OnStage, Home
    <3>. QED  BY <2>2, <3>1 DEF NotifyFails, FailIfCurrent, Footprint, Updates, RetryClass
  <2>. QED  BY <1>6, <2>1, <2>2 DEF NotifyNext
<1>. QED
  BY <1>1, <1>2, <1>3, <1>4, <1>5, <1>6 DEF RunnerNext

\* A stage becomes SUCCEEDED only by complete, or by reconciliation.
LEMMA DoneByWorker ==
  ASSUME LedgerInv, NEW s \in Stage, NEW t \in Stage, NEW w \in Worker, NEW c \in RetryClass,
         \/ UNCHANGED ledgerVars \/ EnsureStages \/ AcquireRead(w, t) \/ AcquireSwap(w)
         \/ AcquireLost(w) \/ Leave(w) \/ Renew(w, t) \/ Fail(w, t, c),
         row'[s].state = "SUCCEEDED"
  PROVE  row[s].state = "SUCCEEDED"
<1>0. row \in [Stage -> Row]
  BY DEF LedgerInv, LedgerTypeOK
<1>1. CASE EnsureStages
  BY <1>0, <1>1 DEF EnsureStages, Row
<1>2. CASE AcquireSwap(w)
  BY <1>0, <1>2 DEF AcquireSwap
<1>3. CASE Renew(w, t)
  BY <1>0, <1>3 DEF Renew, Row
<1>4. CASE Fail(w, t, c)
  <2>1. FailedState(row[t], c) \in {"CANCELLED", "FAILED_RETRYABLE", "FAILED_TERMINAL"}
    BY DEF FailedState
  <2>2. row' = [row EXCEPT ![t] = Released(row[t], FailedState(row[t], c))]
    BY <1>4 DEF Fail
  <2>. QED  BY <1>0, <2>1, <2>2 DEF Released, Row
<1>. QED
  BY <1>1, <1>2, <1>3, <1>4 DEF AcquireRead, AcquireLost, Leave, ledgerVars

LEMMA DoneByOthers ==
  ASSUME LedgerInv, NEW s \in Stage, row'[s].state = "SUCCEEDED"
  PROVE  /\ \A t \in Stage : LeaseExpires(t) => row[s].state = "SUCCEEDED"
         /\ \A r \in Reaper : ReapRead(r) \/ ReapCommit(r) => row[s].state = "SUCCEEDED"
<1>0. row \in [Stage -> Row]
  BY DEF LedgerInv, LedgerTypeOK
<1>1. ASSUME NEW t \in Stage, LeaseExpires(t) PROVE row[s].state = "SUCCEEDED"
  BY <1>0, <1>1 DEF LeaseExpires, Row
<1>2. ASSUME NEW r \in Reaper, ReapCommit(r) PROVE row[s].state = "SUCCEEDED"
  <2>1. row'[s] = row[s] \/ \E snap \in doomed[r] : row'[s] = Reaped(row[s], snap)
    BY <1>2 DEF ReapCommit
  <2>2. \A snap : Reaped(row[s], snap).state \in {"FAILED_TERMINAL", "FAILED_RETRYABLE"}
    BY <1>0 DEF Reaped, Released, Row
  <2>. QED  BY <2>1, <2>2
<1>. QED  BY <1>1, <1>2 DEF ReapRead

--------------------------------------------------------------------------------
(* Effects come in their order. *)

\* What a place says of what has happened: a statement has been issued, the
\* packet is anchored, the event is queued.
Knows(f, issued, confirmed, told) ==
  /\ f.stage \in {"PROOF", "NOTIFY"} \/ f.at \in {"settle", "audit"} => issued
  /\ Strict /\ (f.life = "COMPLETED" \/ f.anchored \/ f.stage = "NOTIFY") => confirmed
  /\ f.at = "settle" /\ f.stage = "NOTIFY" => told

Issued == statements # <<>>
Confirmed == chain = "confirmed"

KnowsInv == \A w \in Worker : Knows(frame[w], Issued, Confirmed, sent)

EffectsInv == ProofAfterStatement /\ StrictNotifyAfterChain /\ SucceededMeansDone /\ KnowsInv

\* What has happened stays so.
LEMMA AppendedIsThere ==
  ASSUME NEW S, NEW q \in Seq(S), NEW e \in S
  PROVE  Append(q, e) # <<>>
<1>1. Len(Append(q, e)) = Len(q) + 1 /\ Len(q) \in Nat
  OBVIOUS
<1>2. Len(<<>>) = 0
  OBVIOUS
<1>. QED  BY <1>1, <1>2

LEMMA EffectsLast ==
  ASSUME TypesInv, [Next]_vars
  PROVE  (Issued => Issued') /\ (Confirmed => Confirmed') /\ (sent => sent')
<1> DEFINE Last == (Issued => Issued') /\ (Confirmed => Confirmed') /\ (sent => sent')
<1>s. UNCHANGED <<statements, chain, sent>> => Last
  BY DEF Issued, Confirmed
<1>c. Confirm => Last
  BY DEF Confirm, Issued, Confirmed
<1> HIDE DEF Last
<1>1. ASSUME NEW w \in Worker, RunnerNext(w) PROVE Last
  <2>1. CASE Issue(w)
    <3>1. statements \in Seq(Packet) /\ frame[w].packet \in Packet
      BY DEF TypesInv, RunnerTypeOK, Frame
    <3>2. Append(statements, frame[w].packet) # <<>>
      BY <3>1, AppendedIsThere
    <3>. QED  BY <2>1, <3>2 DEF Issue, Last, Issued, Confirmed
  <2>2. CASE StatementNext(w) /\ ~Issue(w)
    BY <2>2, <1>s DEF StatementNext, Lookup, SettleStatement, Audit, StatementFails, scanVars
  <2>3. CASE AnchorConfirmed(w)
    BY <2>3, <1>c, <1>s DEF AnchorConfirmed, scanVars
  <2>4. CASE AnchorPending(w)
    BY <2>4 DEF AnchorPending, Last, Issued, Confirmed
  <2>5. CASE WriteProof(w) \/ ProofWaits(w) \/ SettleProof(w) \/ ProofPersistFails(w)
    BY <2>5, <1>s DEF WriteProof, ProofWaits, SettleProof, ProofPersistFails, scanVars
  <2>6. CASE EvidenceNext(w)
    BY <2>6, <1>s
    DEF EvidenceNext, Report, EvidenceCommit, MarkDone, EvidenceFails, FinalizeTransient,
        FinalizeTerminal, scanVars
  <2>7. CASE Notify(w)
    BY <2>7 DEF Notify, Last, Issued, Confirmed
  <2>8. CASE NotifyNext(w) /\ ~Notify(w)
    BY <2>8, <1>s DEF NotifyNext, SettleNotify, NotifyFails, scanVars
  <2>. QED
    BY <1>1, <1>s, <2>1, <2>2, <2>3, <2>4, <2>5, <2>6, <2>7, <2>8
    DEF RunnerNext, ProofNext, Start, Claim, Mark, Acquire, AcquireRemembered, Swap, Resume,
        Inspect, Acknowledge, scanVars
<1>2. ASSUME NEW w \in Worker, Crash(w) \/ Restart(w) PROVE Last
  BY <1>2, <1>s DEF Crash, Restart, scanVars
<1>3. ASSUME NEW w \in Worker, NEW m \in Message, Deliver(w, m) PROVE Last
  BY <1>3, <1>s DEF Deliver, scanVars
<1>4. ASSUME \/ \E s \in Stage : Expire(s)
             \/ \E r \in Reaper : Reap(r)
             \/ CancelScan \/ DeadlinePasses \/ UNCHANGED vars
      PROVE  Last
  BY <1>4, <1>s DEF Expire, Reap, CancelScan, DeadlinePasses, vars, scanVars
<1>5. ASSUME ChainConfirms PROVE Last
  BY <1>5, <1>c DEF ChainConfirms
<1>6. Last
  BY <1>1, <1>2, <1>3, <1>4, <1>5 DEF Next
<1>. QED  BY <1>6 DEF Last

\* Going onward asks for no more than a statement.
LEMMA OnwardKnows ==
  ASSUME NEW f \in Frame, NEW confirmed, NEW told, NEW g \in Onward(f),
         Knows(f, TRUE, confirmed, told)
  PROVE  Knows(g, TRUE, confirmed, told)
<1>1. Knows(Finished(f), TRUE, confirmed, told)
  BY FinishedFrame DEF Knows
<1>2. Knows(AtStage(f, "PROOF"), TRUE, confirmed, told)
  BY StageFrame, StageNames DEF Knows
<1>3. ~Strict \/ f.life = "COMPLETED" => Knows(AtStage(f, "NOTIFY"), TRUE, confirmed, told)
  BY StageFrame, StageNames DEF Knows
<1>. QED  BY <1>1, <1>2, <1>3 DEF Onward

LEMMA IdleKnows ==
  ASSUME NEW issued, NEW confirmed, NEW told
  PROVE  /\ Knows(IdleFrame, issued, confirmed, told)
         /\ Knows([IdleFrame EXCEPT !.at = "dead"], issued, confirmed, told)
         /\ \A m \in Message :
              Knows([IdleFrame EXCEPT !.at = "start", !.msg = m], issued, confirmed, told)
         /\ \A f \in Frame : Knows(Finished(f), issued, confirmed, told)
<1>1. \A f \in Frame : Knows(Finished(f), issued, confirmed, told)
  BY FinishedFrame DEF Knows
<1>. QED  BY <1>1, IdleIsFrame DEF Knows, IdleFrame

LEMMA KnowsLasts ==
  ASSUME NEW f, NEW i, NEW j, NEW c, NEW d, NEW a, NEW b,
         Knows(f, i, c, a), i => j, c => d, a => b
  PROVE  Knows(f, j, d, b)
  BY DEF Knows

LEMMA WorkerKnows ==
  ASSUME TypesInv, HomeInv, EffectsInv, NEW w \in Worker,
         RunnerNext(w) \/ Crash(w) \/ Restart(w)
  PROVE  Knows(frame'[w], Issued', Confirmed', sent')
<1> DEFINE f == frame[w]
           K(g) == Knows(g, Issued', Confirmed', sent')
           Goes(g) == frame' = [frame EXCEPT ![w] = g] => K(frame'[w])
<1>0. f \in Frame /\ Home(f) /\ f.stage \in Stage /\ frame \in [Worker -> Frame]
  BY DEF TypesInv, RunnerTypeOK, HomeInv, Frame
<1>g. \A g : K(g) => Goes(g)
  BY <1>0
<1>l. (Issued => Issued') /\ (Confirmed => Confirmed') /\ (sent => sent')
  <2>1. [Next]_vars
    BY DEF Next
  <2>. QED  BY <2>1, EffectsLast
<1>k. K(f)
  BY <1>l, KnowsLasts DEF EffectsInv, KnowsInv
<1>f. Goes(Finished(f)) /\ Goes(IdleFrame)
  BY <1>0, <1>g, IdleKnows
<1>o. Issued' => \A g \in Onward(f) : Goes(g)
  <2>1. ASSUME Issued', NEW g \in Onward(f) PROVE K(g)
    BY <2>1, <1>0, <1>k, OnwardKnows DEF Knows
  <2>. QED  BY <2>1, <1>g
<1>i. f.stage \in {"PROOF", "NOTIFY"} \/ f.at \in {"settle", "audit"} => Issued'
  BY <1>k DEF Knows
<1>c. scan.lifecycle = "COMPLETED" /\ Strict => Confirmed'
  BY <1>l DEF EffectsInv, StrictNotifyAfterChain, Confirmed
<1> DEFINE Calls(g) == /\ g.stage = f.stage /\ g.anchored = f.anchored
                       /\ g.at \in {"settle", "audit"} => Issued'
                       /\ ~(g.at = "settle" /\ f.stage = "NOTIFY")
                       /\ g.life = f.life \/ g.life = scan.lifecycle \/ g.life # "COMPLETED"
<1>s. \A g : Calls(g) => Goes(g)
  <2>1. ASSUME NEW g, Calls(g) PROVE K(g)
    BY <2>1, <1>k, <1>c DEF Knows
  <2>. QED  BY <2>1, <1>g
<1> HIDE DEF Goes
<1>1. ASSUME Start(w) PROVE K(frame'[w])
  <2>1. [f EXCEPT !.life = scan.lifecycle] \in Frame
    BY <1>0 DEF Frame, TypesInv, RunnerTypeOK, ScanRow
  <2>2. K(Finished([f EXCEPT !.life = scan.lifecycle]))
    BY <2>1, IdleKnows
  <2>3. Goes([f EXCEPT !.life = scan.lifecycle, !.at = "claim"])
    BY <1>0, <1>s DEF Frame
  <2>4. Goes([f EXCEPT !.life = scan.lifecycle, !.at = "resume", !.resumed = TRUE,
                       !.packet = scan.packet])
    BY <1>0, <1>s DEF Frame
  <2>. QED  BY <1>1, <1>g, <2>2, <2>3, <2>4, <1>0 DEF Start, Become, Goes, Frame
<1>2. ASSUME Claim(w) \/ Mark(w) PROVE K(frame'[w])
  <2>1. Goes([f EXCEPT !.at = "mark", !.life = scan.lifecycle])
        /\ Goes([f EXCEPT !.at = "acquire", !.life = "RUNNING"])
    BY <1>0, <1>s DEF Frame
  <2>. QED  BY <1>2, <1>f, <2>1 DEF Claim, Mark, Become, Goes
<1>3. ASSUME Acquire(w) \/ AcquireRemembered(w) PROVE K(frame'[w])
  <2>1. Goes([f EXCEPT !.at = "swap"])
    BY <1>0, <1>s DEF Frame
  <2>2. Goes(Unacquired(f))
    BY <1>f, <1>o, <1>i, MovesOnward
  <2>. QED  BY <1>3, <2>1, <2>2 DEF Acquire, AcquireRemembered, Become, Goto, Goes
<1>4. ASSUME Swap(w) PROVE K(frame'[w])
  <2>1. Goes([f EXCEPT !.at = Entry(f.stage)])
    BY <1>0, <1>s, StageNames DEF Frame, Entry
  <2>2. Goes(Unacquired(f))
    BY <1>f, <1>o, <1>i, MovesOnward
  <2>. QED  BY <1>4, <2>1, <2>2 DEF Swap, Become, Goto, Goes
<1>5. ASSUME EvidenceNext(w) PROVE K(frame'[w])
  <2>1. /\ Goes([f EXCEPT !.at = "stopped"]) /\ Goes([f EXCEPT !.at = "build"])
        /\ Goes([f EXCEPT !.at = "mark_done", !.packet = Own(w, "result")])
        /\ \A c : Goes([f EXCEPT !.at = "finalize", !.class = c])
    BY <1>0, <1>s DEF Frame
  <2>2. ASSUME MarkDone(w)
        PROVE  Goes(AtStage([f EXCEPT !.life = "RESULT_READY"], "STATEMENT"))
    <3>1. [f EXCEPT !.life = "RESULT_READY"] \in Frame
      BY <1>0 DEF Frame, Lifecycle
    <3>2. K(AtStage([f EXCEPT !.life = "RESULT_READY"], "STATEMENT"))
      BY <3>1, <1>0, <1>k, StageFrame, StageNames DEF Knows, Frame
    <3>. QED  BY <3>2, <1>g
  <2>. QED
    BY <1>5, <1>f, <2>1, <2>2
    DEF EvidenceNext, Report, EvidenceCommit, MarkDone, EvidenceFails, FinalizeTransient,
        FinalizeTerminal, Become, Goto, Goes
<1>6. ASSUME StatementNext(w) PROVE K(frame'[w])
  <2>1. CASE Lookup(w)
    <3>1. Goes([f EXCEPT !.at = "issue"])
      BY <1>0, <1>s DEF Frame
    <3>2. Issued => Goes([f EXCEPT !.at = "settle"])
      <4>1. f.stage = "STATEMENT"
        BY <2>1, <1>0 DEF Lookup, At_, Home
      <4>. QED  BY <4>1, <1>0, <1>s, <1>l DEF Frame
    <3>. QED  BY <2>1, <3>1, <3>2 DEF Lookup, Goto, Goes, Issued
  <2>2. CASE Issue(w)
    <3>1. Issued'
      BY <2>2, <1>0 DEF Issue, Issued, TypesInv, RunnerTypeOK, Frame
    <3>2. f.stage = "STATEMENT"
      BY <2>2, <1>0 DEF Issue, At_, Home
    <3>3. Goes([f EXCEPT !.at = "settle"])
      BY <3>1, <3>2, <1>0, <1>s DEF Frame
    <3>. QED  BY <2>2, <3>3 DEF Issue, Goto, Goes
  <2>3. CASE SettleStatement(w)
    <3>1. Issued'
      BY <2>3, <1>i DEF SettleStatement, At_
    <3>2. Goes([f EXCEPT !.at = "audit"])
      BY <3>1, <1>0, <1>s DEF Frame
    <3>. QED  BY <2>3, <3>2, <1>f DEF SettleStatement, Become, Goto, Goes
  <2>4. CASE Audit(w)
    <3>1. Issued'
      BY <2>4, <1>i DEF Audit, At_
    <3>. QED  BY <2>4, <3>1, <1>o, MovesOnward DEF Audit, Become, Goes
  <2>5. CASE \E c \in {"TRANSIENT", "TERMINAL"} : StatementFails(w, c)
    BY <2>5, <1>f DEF StatementFails, Become, Goes
  <2>. QED  BY <1>6, <2>1, <2>2, <2>3, <2>4, <2>5 DEF StatementNext
<1>7. ASSUME ProofNext(w) PROVE K(frame'[w])
  <2>1. CASE AnchorConfirmed(w)
    <3>1. Confirmed'
      BY <2>1, <1>l DEF AnchorConfirmed, Confirm, Confirmed, scanVars
    <3>2. K([f EXCEPT !.at = "write", !.anchored = TRUE])
      BY <3>1, <1>0, <1>k DEF Knows, Frame
    <3>. QED  BY <2>1, <3>2, <1>g DEF AnchorConfirmed, Anchored, Become, Goes
  <2>2. CASE AnchorPending(w)
    <3>1. K([f EXCEPT !.at = "write", !.anchored = FALSE])
      BY <1>0, <1>k DEF Knows, Frame
    <3>. QED  BY <2>2, <3>1, <1>g DEF AnchorPending, Anchored, Become, Goes
  <2>3. CASE WriteProof(w)
    <3>1. f.stage = "PROOF"
      BY <2>3, <1>0 DEF WriteProof, At_, Home
    <3>2. \A l : (l = "COMPLETED" => f.anchored \/ ~Strict)
                   => K([f EXCEPT !.at = "settle", !.life = l])
      BY <3>1, <1>0, <1>k DEF Knows, Frame
    <3>3. f.anchored \in BOOLEAN
      BY <1>0 DEF Frame
    <3>4. K([f EXCEPT !.at = "settle",
                      !.life = IF f.anchored \/ ~Strict THEN "COMPLETED" ELSE "RESULT_READY"])
      BY <3>2
    <3>. QED  BY <2>3, <3>4, <1>g DEF WriteProof, Become, Goes
  <2>4. CASE ProofWaits(w)
    BY <2>4, <1>f DEF ProofWaits, Become, Goes
  <2>5. CASE SettleProof(w) \/ ProofPersistFails(w)
    <3>1. Issued'
      BY <2>5, <1>0, <1>i DEF SettleProof, ProofPersistFails, At_, Home
    <3>2. PICK g \in Frame :
            /\ frame' = [frame EXCEPT ![w] = AfterProof(g)]
            /\ g.stage = f.stage /\ g.anchored = f.anchored
            /\ g.life \in {f.life, scan.lifecycle}
      BY <2>5, AfterProofOf
    <3>3. Knows([g EXCEPT !.at = "acquire"], TRUE, Confirmed', sent')
      BY <3>1, <3>2, <1>k, <1>c DEF Knows, Frame
    <3>4. Onward(g) = Onward([g EXCEPT !.at = "acquire"])
      BY DEF Onward, Finished, AtStage, Frame
    <3>5. [g EXCEPT !.at = "acquire"] \in Frame
      BY DEF Frame, At
    <3>6. K(AfterProof(g))
      BY <3>1, <3>3, <3>4, <3>5, OnwardKnows, MovesOnward DEF Knows
    <3>. QED  BY <3>2, <3>6, <1>g DEF Goes
  <2>. QED  BY <1>7, <2>1, <2>2, <2>3, <2>4, <2>5 DEF ProofNext
<1>8. ASSUME NotifyNext(w) PROVE K(frame'[w])
  <2>1. CASE Notify(w)
    <3>1. sent' = TRUE /\ Issued'
      BY <2>1, <1>0, <1>i DEF Notify, At_, Home
    <3>2. K([f EXCEPT !.at = "settle"])
      BY <3>1, <1>0, <1>k DEF Knows, Frame
    <3>. QED  BY <2>1, <3>2, <1>g DEF Notify, Goto, Goes
  <2>2. CASE ~Notify(w)
    BY <2>2, <1>8, <1>f DEF NotifyNext, SettleNotify, NotifyFails, Become, Goes
  <2>. QED  BY <2>1, <2>2
<1>9. ASSUME Resume(w) PROVE K(frame'[w])
  <2>1. Goes([f EXCEPT !.at = "inspect", !.view = CurrentView])
    BY <1>0, <1>s DEF Frame
  <2>. QED  BY <1>9, <1>f, <2>1 DEF Resume, Become, Goes
<1>10. ASSUME Inspect(w) PROVE K(frame'[w])
  <2>1. K(AtStage(f, "STATEMENT"))
    BY <1>0, <1>k, StageFrame, StageNames DEF Knows
  <2>2. Issued => Goes(EnterProof(f))
    BY <1>l, <1>o, MovesOnward
  <2>. QED  BY <1>10, <1>f, <1>g, <2>1, <2>2 DEF Inspect, Become, Goes, Issued
<1>11. ASSUME Acknowledge(w) \/ Crash(w) \/ Restart(w) PROVE K(frame'[w])
  BY <1>11, <1>f, <1>g, IdleKnows DEF Acknowledge, Crash, Restart, Become, Goes
<1>. QED
  BY <1>1, <1>2, <1>3, <1>4, <1>5, <1>6, <1>7, <1>8, <1>9, <1>10, <1>11 DEF RunnerNext
\* issue_statement is the only step that adds a statement.
LEMMA OnlyIssueIssues ==
  ASSUME [Next]_vars
  PROVE  statements' = statements \/ \E w \in Worker : Issue(w)
<1>1. ASSUME NEW w \in Worker, RunnerNext(w) PROVE statements' = statements \/ Issue(w)
  <2>1. CASE EvidenceNext(w)
    BY <2>1
    DEF EvidenceNext, Report, EvidenceCommit, MarkDone, EvidenceFails, FinalizeTransient,
        FinalizeTerminal, scanVars
  <2>2. CASE StatementNext(w)
    BY <2>2 DEF StatementNext, Lookup, SettleStatement, Audit, StatementFails, scanVars
  <2>3. CASE ProofNext(w)
    BY <2>3
    DEF ProofNext, AnchorConfirmed, AnchorPending, WriteProof, ProofWaits, SettleProof,
        ProofPersistFails, Confirm, scanVars
  <2>4. CASE NotifyNext(w)
    BY <2>4 DEF NotifyNext, Notify, SettleNotify, NotifyFails, scanVars
  <2>. QED
    BY <1>1, <2>1, <2>2, <2>3, <2>4
    DEF RunnerNext, Start, Claim, Mark, Acquire, AcquireRemembered, Swap, Resume, Inspect,
        Acknowledge, scanVars
<1>2. ASSUME NEW w \in Worker, Crash(w) \/ Restart(w) PROVE statements' = statements
  BY <1>2 DEF Crash, Restart, scanVars
<1>. QED
  BY <1>1, <1>2
  DEF Next, Deliver, Expire, Reap, CancelScan, DeadlinePasses, ChainConfirms, Confirm, vars,
      scanVars

\* An event is queued, and an anchor job submitted, only by a worker whose place
\* knows of what has to come first.
LEMMA EffectsOrdered ==
  ASSUME TypesInv, HomeInv, EffectsInv, [Next]_vars
  PROVE  /\ UNCHANGED <<chain, sent>> \/ Issued
         /\ Strict /\ sent' => sent \/ Confirmed
         /\ Strict /\ scan'.lifecycle = "COMPLETED" => scan.lifecycle = "COMPLETED" \/ Confirmed'
<1> DEFINE Ordered ==
      /\ UNCHANGED <<chain, sent>> \/ Issued
      /\ Strict /\ sent' => sent \/ Confirmed
      /\ Strict /\ scan'.lifecycle = "COMPLETED" => scan.lifecycle = "COMPLETED" \/ Confirmed'
<1>0. scan \in ScanRow
  BY DEF TypesInv, RunnerTypeOK
<1>s. UNCHANGED <<chain, sent>> /\ (scan'.lifecycle = "COMPLETED" => scan.lifecycle = "COMPLETED")
        => Ordered
  OBVIOUS
<1>u. UNCHANGED <<scan, chain, sent>> => Ordered
  OBVIOUS
<1>c. Confirm /\ Issued => Ordered
  BY DEF Confirm, Confirmed
<1> HIDE DEF Ordered
<1>1. ASSUME NEW w \in Worker, RunnerNext(w) PROVE Ordered
  <2> DEFINE f == frame[w]
  <2>0. /\ Home(f) /\ Knows(f, Issued, Confirmed, sent)
        /\ f.anchored \in BOOLEAN /\ f.life \in Lifecycle
    BY DEF HomeInv, EffectsInv, KnowsInv, TypesInv, RunnerTypeOK, Frame
  <2>1. CASE Claim(w) \/ FinalizeTransient(w) \/ Report(w) \/ EvidenceCommit(w)
             \/ FinalizeTerminal(w)
    BY <2>1, <1>0, <1>s
    DEF Claim, FinalizeTransient, Report, EvidenceCommit, FinalizeTerminal, ScanRow, scanVars
  <2>2. CASE Mark(w) \/ MarkDone(w)
    <3>1. [scan EXCEPT !.state = "COMPLETED"] \in ScanRow
          /\ [scan EXCEPT !.state = "COMPLETED"].lifecycle = scan.lifecycle
      BY <1>0 DEF ScanRow, ScanState
    <3>2. \A sc \in ScanRow, l \in {"RUNNING", "RESULT_READY"} :
            Lifecycled(sc, f.life, l).lifecycle \in {sc.lifecycle, l}
      BY <2>0, LifecycleRow DEF Lifecycle
    <3>3. scan'.lifecycle \in {scan.lifecycle, "RUNNING", "RESULT_READY"}
      BY <2>2, <3>1, <3>2, <1>0 DEF Mark, MarkDone
    <3>. QED  BY <2>2, <3>3, <1>s DEF Mark, MarkDone
  <2>3. CASE WriteProof(w)
    <3>1. [scan EXCEPT !.packet = f.packet] \in ScanRow
          /\ [scan EXCEPT !.packet = f.packet].lifecycle = scan.lifecycle
      BY <1>0 DEF ScanRow, TypesInv, RunnerTypeOK, Frame
    <3>2. CASE f.anchored \/ ~Strict
      BY <2>3, <3>2, <2>0 DEF WriteProof, Knows, Ordered, Confirmed
    <3>3. CASE ~(f.anchored \/ ~Strict)
      <4>1. scan'.lifecycle \in {scan.lifecycle, "RESULT_READY"}
        <5>1. \A sc \in ScanRow :
                Lifecycled(sc, f.life, "RESULT_READY").lifecycle \in {sc.lifecycle, "RESULT_READY"}
          BY <2>0, LifecycleRow DEF Lifecycle
        <5>. QED  BY <2>3, <3>1, <3>3, <5>1 DEF WriteProof
      <4>. QED  BY <2>3, <4>1, <1>s DEF WriteProof
    <3>. QED  BY <3>2, <3>3
  <2>4. CASE AnchorConfirmed(w) \/ AnchorPending(w)
    <3>1. Issued
      BY <2>4, <2>0 DEF AnchorConfirmed, AnchorPending, At_, Home, Knows
    <3>2. CASE AnchorConfirmed(w)
      BY <3>1, <3>2, <1>c, <1>u DEF AnchorConfirmed, scanVars
    <3>3. CASE AnchorPending(w)
      BY <3>1, <3>3 DEF AnchorPending, Ordered
    <3>. QED  BY <2>4, <3>2, <3>3
  <2>5. CASE Notify(w)
    BY <2>5, <2>0 DEF Notify, At_, Home, Knows, Ordered
  <2>6. CASE \/ StatementNext(w)
             \/ ProofWaits(w) \/ SettleProof(w) \/ ProofPersistFails(w)
             \/ SettleNotify(w) \/ \E c \in {"TRANSIENT", "TERMINAL"} : NotifyFails(w, c)
             \/ \E c \in RetryClass : EvidenceFails(w, c)
    BY <2>6, <1>u
    DEF StatementNext, Lookup, Issue, SettleStatement, Audit, StatementFails, ProofWaits,
        SettleProof, ProofPersistFails, SettleNotify, NotifyFails, EvidenceFails, scanVars
  <2>7. CASE Start(w) \/ Acquire(w) \/ AcquireRemembered(w) \/ Swap(w) \/ Resume(w)
             \/ Inspect(w) \/ Acknowledge(w)
    BY <2>7, <1>u
    DEF Start, Acquire, AcquireRemembered, Swap, Resume, Inspect, Acknowledge, scanVars
  <2>. QED
    BY <1>1, <2>1, <2>2, <2>3, <2>4, <2>5, <2>6, <2>7
    DEF RunnerNext, EvidenceNext, ProofNext, NotifyNext
<1>2. ASSUME NEW w \in Worker, Crash(w) \/ Restart(w) PROVE Ordered
  BY <1>2, <1>u DEF Crash, Restart, scanVars
<1>3. ASSUME NEW w \in Worker, NEW m \in Message, Deliver(w, m) PROVE Ordered
  BY <1>3, <1>u DEF Deliver, scanVars
<1>4. ASSUME \/ \E s \in Stage : Expire(s)
             \/ \E r \in Reaper : Reap(r)
             \/ CancelScan \/ DeadlinePasses \/ UNCHANGED vars
      PROVE  Ordered
  BY <1>4, <1>u DEF Expire, Reap, CancelScan, DeadlinePasses, vars, scanVars
<1>5. ASSUME ChainConfirms PROVE Ordered
  BY <1>5, <1>c DEF ChainConfirms, EffectsInv, ProofAfterStatement, Issued
<1>6. Ordered
  BY <1>1, <1>2, <1>3, <1>4, <1>5 DEF Next
<1>. QED  BY <1>6 DEF Ordered

\* A stage becomes SUCCEEDED by complete, at the end of its work, or by the
\* reconciling UPDATE.
LEMMA NewlyDone ==
  ASSUME TypesInv, HomeInv, [Next]_vars, NEW s \in Stage,
         row'[s].state = "SUCCEEDED", row[s].state # "SUCCEEDED"
  PROVE  \E w \in Worker :
           \/ Inspect(w) /\ s = "STATEMENT" /\ Issued
           \/ /\ RunnerNext(w) \/ Crash(w) \/ Restart(w)
              /\ Complete(w, s) /\ frame[w].stage = s
              /\ frame[w].at \in {"build", "settle"}
              /\ s = "PROOF" /\ Strict => frame[w].anchored
<1>0. LedgerInv /\ row \in [Stage -> Row]
  BY DEF TypesInv, LedgerInv, LedgerTypeOK
<1>1. ASSUME NEW w \in Worker, RunnerNext(w) \/ Crash(w) \/ Restart(w)
      PROVE  \/ Inspect(w) /\ s = "STATEMENT" /\ Issued
             \/ /\ Complete(w, s) /\ frame[w].stage = s
                /\ frame[w].at \in {"build", "settle"}
                /\ s = "PROOF" /\ Strict => frame[w].anchored
  <2> DEFINE f == frame[w]
  <2>0. f.stage \in Stage
    BY DEF TypesInv, RunnerTypeOK, Frame
  <2>1. Footprint(w)
    BY <1>1, WorkerFootprint
  <2>2. CASE Inspect(w)
    BY <2>2, <1>0 DEF Inspect, Reconciled, Issued
  <2>3. CASE Complete(w, f.stage) /\ f.at \in {"build", "settle"}
             /\ (f.stage = "PROOF" /\ Strict => f.anchored)
    <3>1. f.stage = s
      BY <2>3, <2>0, <1>0 DEF Complete
    <3>. QED  BY <2>3, <3>1
  <2>4. CASE AcquireRemembered(w)
    BY <2>4 DEF AcquireRemembered
  <2>5. ASSUME \/ UNCHANGED ledgerVars \/ EnsureStages \/ AcquireRead(w, f.stage)
               \/ AcquireSwap(w) \/ AcquireLost(w) \/ Leave(w) \/ Renew(w, f.stage)
               \/ \E c \in RetryClass : Fail(w, f.stage, c)
        PROVE  FALSE
    <3>1. \E c \in RetryClass : TRUE
      BY DEF RetryClass
    <3>2. PICK c \in RetryClass :
            \/ UNCHANGED ledgerVars \/ EnsureStages \/ AcquireRead(w, f.stage)
            \/ AcquireSwap(w) \/ AcquireLost(w) \/ Leave(w) \/ Renew(w, f.stage)
            \/ Fail(w, f.stage, c)
      BY <2>5, <3>1
    <3>. QED  BY <3>2, <2>0, <1>0, DoneByWorker
  <2>. QED
    BY <2>1, <2>2, <2>3, <2>4, <2>5 DEF Footprint, Updates
<1>2. ASSUME NEW r \in Reaper, Reap(r) PROVE FALSE
  BY <1>2, <1>0, DoneByOthers DEF Reap, ReaperNext
<1>3. ASSUME NEW t \in Stage, Expire(t) PROVE FALSE
  BY <1>3, <1>0, DoneByOthers DEF Expire
<1>4. CASE UNCHANGED row
  BY <1>4
<1>5. \E w \in Worker : RunnerNext(w) \/ Crash(w) \/ Restart(w)
  BY <1>2, <1>3, <1>4
  DEF Next, Deliver, CancelScan, DeadlinePasses, ChainConfirms, vars, ledgerVars
<1>. QED  BY <1>1, <1>5

\* A stage that a step makes SUCCEEDED has had its effect before.
LEMMA DoneHasHappened ==
  ASSUME TypesInv, HomeInv, EffectsInv, [Next]_vars, NEW s \in Stage,
         row'[s].state = "SUCCEEDED", row[s].state # "SUCCEEDED"
  PROVE  /\ s = "STATEMENT" => Issued
         /\ s = "PROOF" /\ Strict => Confirmed
         /\ s = "NOTIFY" => sent
<1>1. PICK w \in Worker :
        \/ s = "STATEMENT" /\ Issued
        \/ /\ frame[w].stage = s /\ frame[w].at \in {"build", "settle"}
           /\ s = "PROOF" /\ Strict => frame[w].anchored
  BY NewlyDone
<1>2. Home(frame[w]) /\ Knows(frame[w], Issued, Confirmed, sent)
  BY DEF HomeInv, EffectsInv, KnowsInv
<1>. QED  BY <1>1, <1>2 DEF Home, Knows

LEMMA EffectsInit == Init => EffectsInv
<1> SUFFICES ASSUME Init PROVE EffectsInv
  OBVIOUS
<1>1. KnowsInv
  BY IdleKnows DEF Init, KnowsInv
<1>2. /\ row["STATEMENT"].state = "MISSING" /\ row["PROOF"].state = "MISSING"
      /\ row["NOTIFY"].state = "MISSING"
  BY StageNames DEF Init, LedgerInit, MissingRow
<1>. QED
  BY <1>1, <1>2
  DEF Init, EffectsInv, ProofAfterStatement, StrictNotifyAfterChain, SucceededMeansDone

LEMMA EffectsNext == TypesInv /\ HomeInv /\ EffectsInv /\ [Next]_vars => EffectsInv'
<1> SUFFICES ASSUME TypesInv, HomeInv, EffectsInv, [Next]_vars PROVE EffectsInv'
  OBVIOUS
<1>1. (Issued => Issued') /\ (Confirmed => Confirmed') /\ (sent => sent')
  BY EffectsLast
<1>2. ProofAfterStatement'
  BY <1>1, EffectsOrdered DEF EffectsInv, ProofAfterStatement, Issued
<1>3. StrictNotifyAfterChain'
  BY <1>1, EffectsOrdered DEF EffectsInv, StrictNotifyAfterChain, Confirmed
<1>4. SucceededMeansDone'
  <2>1. row'["STATEMENT"].state = "SUCCEEDED" => Issued'
    BY <1>1, DoneHasHappened, StageNames DEF EffectsInv, SucceededMeansDone, Issued
  <2>2. row'["PROOF"].state = "SUCCEEDED" /\ Strict => Confirmed'
    BY <1>1, DoneHasHappened, StageNames DEF EffectsInv, SucceededMeansDone, Confirmed
  <2>3. row'["NOTIFY"].state = "SUCCEEDED" => sent'
    BY <1>1, DoneHasHappened, StageNames DEF EffectsInv, SucceededMeansDone
  <2>. QED  BY <2>1, <2>2, <2>3 DEF SucceededMeansDone, Issued, Confirmed
<1>5. KnowsInv'
  <2> SUFFICES ASSUME NEW v \in Worker PROVE Knows(frame'[v], Issued', Confirmed', sent')
    BY DEF KnowsInv
  <2>0. Knows(frame[v], Issued', Confirmed', sent')
    BY <1>1, KnowsLasts DEF EffectsInv, KnowsInv
  <2>1. ASSUME NEW w \in Worker, RunnerNext(w) \/ Crash(w) \/ Restart(w)
        PROVE  Knows(frame'[v], Issued', Confirmed', sent')
    BY <2>0, <2>1, WorkerKnows, OwnFrameOnly
  <2>2. ASSUME NEW w \in Worker, NEW m \in Message, Deliver(w, m)
        PROVE  Knows(frame'[v], Issued', Confirmed', sent')
    BY <2>0, <2>2, IdleKnows DEF Deliver, TypesInv, RunnerTypeOK
  <2>3. CASE UNCHANGED frame
    BY <2>0, <2>3
  <2>. QED
    BY <2>1, <2>2, <2>3 DEF Next, Expire, Reap, CancelScan, DeadlinePasses, ChainConfirms, vars
<1>. QED  BY <1>2, <1>3, <1>4, <1>5 DEF EffectsInv

LEMMA EffectsInvariant == Spec => [](TypesInv /\ HomeInv /\ EffectsInv)
  BY TypesInit, TypesNext, HomeInit, HomeNext, EffectsInit, EffectsNext, PTL DEF Spec

\* Proof and notification are causally downstream of the durable statement.
THEOREM StatementComesFirst == Spec => []ProofAfterStatement
<1>1. EffectsInv => ProofAfterStatement
  BY DEF EffectsInv
<1>. QED  BY <1>1, EffectsInvariant, PTL

\* In strict mode nothing is notified, or called complete, before the chain has
\* confirmed, although the gate reads a lifecycle the worker remembers.
THEOREM ChainComesBeforeNotice == Spec => []StrictNotifyAfterChain
<1>1. EffectsInv => StrictNotifyAfterChain
  BY DEF EffectsInv
<1>. QED  BY <1>1, EffectsInvariant, PTL

\* A stage that reads as SUCCEEDED has had its effect.
THEOREM DoneStagesAreDone == Spec => []SucceededMeansDone
<1>1. EffectsInv => SucceededMeansDone
  BY DEF EffectsInv
<1>. QED  BY <1>1, EffectsInvariant, PTL
--------------------------------------------------------------------------------
(* Third layer: as long as no lease expires under a live worker, one worker at a *)
(* time works on the result, and there is one.                                  *)

\* A resumed run that is about to acquire the statement stage at the epoch it
\* remembers.
Plans(f) ==
  f.resumed /\ \/ f.at = "inspect" /\ f.view["STATEMENT"].state \in Claimable
               \/ f.at = "acquire" /\ f.stage = "STATEMENT"

\* Nobody is about to take the stage, or to reap it, at its current epoch.
Fresh(s) ==
  /\ \A w \in Worker : \A snap \in seen[w] : snap.stage = s => snap.epoch # row[s].epoch
  /\ \A r \in Reaper : \A snap \in doomed[r] : snap.stage = s => snap.epoch # row[s].epoch
  /\ s = "STATEMENT" =>
       \A w \in Worker : Plans(frame[w]) => frame[w].view[s].epoch # row[s].epoch

\* What was read of a row is never newer than the row, and of the right stage.
ReadsInv ==
  /\ \A w \in Worker : \A snap \in seen[w] : snap.epoch <= row[snap.stage].epoch
  /\ \A r \in Reaper : \A snap \in doomed[r] : snap.epoch <= row[snap.stage].epoch
  /\ \A w \in Worker, s \in Stage : frame[w].view[s].epoch <= row[s].epoch
  /\ \A w \in Worker :
       frame[w].at = "swap" => \A snap \in seen[w] : snap.stage = frame[w].stage

Working(w, s) ==
  HoldsCurrent(w, s) /\ row[s].state = "RUNNING" /\ row[s].lease = "live" /\ Fresh(s)

Settled(s, states) == row[s].state \in states /\ Fresh(s)

HoldsResult(f) ==
  f.stage # "EVIDENCE" \/ f.at \in {"mark_done", "resume", "inspect"} => f.packet.kind = "result"

\* What a place says while nothing has been overtaken.
CalmAt(w) ==
  LET f == frame[w] IN
  /\ f.at \in {"report", "build", "stopped"} => Working(w, "EVIDENCE")
  /\ f.at = "mark_done" => Settled("EVIDENCE", {"SUCCEEDED"})
  /\ f.at = "finalize" /\ f.class # "TRANSIENT" =>
       Settled("EVIDENCE", {"FAILED_TERMINAL", "CANCELLED"})
  /\ f.at = "issue" => ~Issued
  /\ f.at \in {"lookup", "issue"} /\ ~Issued => Working(w, "STATEMENT")
  /\ HoldsResult(f)

CalmScan ==
  /\ scan.state = "COMPLETED" => row["EVIDENCE"].state = "SUCCEEDED"
  /\ row["EVIDENCE"].state = "SUCCEEDED" => Fresh("EVIDENCE") /\ scan.packet.kind = "result"

CalmStatements ==
  Len(statements) <= 1 /\ \A i \in DOMAIN statements : statements[i].kind = "result"

CalmInv == overtakes = 0 => CalmScan /\ CalmStatements /\ \A w \in Worker : CalmAt(w)

\* No stage goes back to an earlier epoch.
LEMMA EpochsGrow ==
  ASSUME TypesInv, [Next]_vars
  PROVE  \A s \in Stage : row[s].epoch <= row'[s].epoch
<1>0. LedgerInv /\ row \in [Stage -> Row] /\ \A s \in Stage : row[s].epoch \in Nat
  BY DEF TypesInv, LedgerInv, LedgerTypeOK, Row
<1>1. CASE \E w \in Worker : AcquireSwap(w)
  <2>1. PICK t \in Stage : row' = [row EXCEPT ![t] = row'[t]] /\ row'[t].epoch = row[t].epoch + 1
    BY <1>0, <1>1, SwapEpoch
  <2>. QED  BY <1>0, <2>1
<1>2. CASE [LedgerNext]_ledgerVars /\ ~ \E w \in Worker : AcquireSwap(w)
  <2>1. CASE LedgerNext
    BY <1>0, <1>2, <2>1, OtherEpochs
  <2>2. CASE UNCHANGED ledgerVars
    BY <1>0, <2>2 DEF ledgerVars
  <2>. QED  BY <1>2, <2>1, <2>2
<1>3. CASE \E w \in Worker : AcquireRemembered(w)
  BY <1>0, <1>3 DEF AcquireRemembered
<1>4. CASE \E w \in Worker : Inspect(w)
  <2>1. row["STATEMENT"] \in Row /\ "SUCCEEDED" \in StageState /\ "STATEMENT" \in Stage
    BY <1>0, StageNames DEF StageState
  <2>2. Released(row["STATEMENT"], "SUCCEEDED").epoch = row["STATEMENT"].epoch
    BY <2>1, ReleasedRow
  <2>3. row' = row \/ row' = [row EXCEPT !["STATEMENT"] = Released(row["STATEMENT"], "SUCCEEDED")]
    BY <1>4 DEF Inspect, Reconciled
  <2>. QED  BY <1>0, <2>2, <2>3
<1>. QED  BY <1>1, <1>2, <1>3, <1>4, LedgerSteps

\* What a worker remembers after its step is what it remembered, or what the
\* rows are; it plans to acquire the statement only if it did, or if it has just
\* read the row and found it claimable; and it swaps only what it acquires.
ViewOf(f, g) ==
  /\ \A s \in Stage : g.view[s].epoch \in {0, f.view[s].epoch, row[s].epoch}
  /\ Plans(g) => \/ Plans(f) /\ g.view["STATEMENT"].epoch = f.view["STATEMENT"].epoch
                 \/ /\ g.view["STATEMENT"].epoch = row["STATEMENT"].epoch
                    /\ row["STATEMENT"].state \in Claimable
  /\ g.at = "swap" => f.at = "acquire" /\ g.stage = f.stage

LEMMA IdleViews ==
  ASSUME NEW f
  PROVE  /\ ViewOf(f, IdleFrame)
         /\ ViewOf(f, [IdleFrame EXCEPT !.at = "dead"])
         /\ \A m \in Message : ViewOf(f, [IdleFrame EXCEPT !.at = "start", !.msg = m])
         /\ \A g \in Frame : ViewOf(f, Finished(g))
<1>0. \A s \in Stage : NoView[s].epoch = 0
  BY DEF NoView
<1>1. ASSUME NEW g, g.view = NoView, ~g.resumed, g.at # "swap"
      PROVE  ViewOf(f, g)
  BY <1>0, <1>1 DEF ViewOf, Plans
<1>2. \A g \in Frame : ViewOf(f, Finished(g))
  BY <1>1, FinishedFrame
<1>3. \A m \in Message : [IdleFrame EXCEPT !.at = "start", !.msg = m].view = NoView
                          /\ ~[IdleFrame EXCEPT !.at = "start", !.msg = m].resumed
                          /\ [IdleFrame EXCEPT !.at = "start", !.msg = m].at = "start"
  BY DEF IdleFrame
<1>4. /\ IdleFrame.view = NoView /\ ~IdleFrame.resumed /\ IdleFrame.at = "idle"
      /\ [IdleFrame EXCEPT !.at = "dead"].view = NoView
      /\ ~[IdleFrame EXCEPT !.at = "dead"].resumed
      /\ [IdleFrame EXCEPT !.at = "dead"].at = "dead"
  BY DEF IdleFrame
<1>. QED  BY <1>1, <1>2, <1>3, <1>4

LEMMA WorkerViews ==
  ASSUME TypesInv, HomeInv, NEW w \in Worker, RunnerNext(w) \/ Crash(w) \/ Restart(w)
  PROVE  ViewOf(frame[w], frame'[w])
<1> DEFINE f == frame[w]
           Goes(g) == frame' = [frame EXCEPT ![w] = g] => ViewOf(f, frame'[w])
<1>0. /\ f \in Frame /\ Home(f) /\ f.stage \in Stage /\ f.view \in View
      /\ frame \in [Worker -> Frame] /\ row \in [Stage -> Row]
  BY DEF TypesInv, RunnerTypeOK, HomeInv, LedgerTypeOK, Frame
<1>g. \A g : ViewOf(f, g) => Goes(g)
  BY <1>0
<1>f. Goes(Finished(f)) /\ Goes(IdleFrame)
  BY <1>0, <1>g, IdleViews
<1>k. \A g : g.view = f.view /\ g.at \notin {"inspect", "acquire", "swap"} => Goes(g)
  <2>1. ASSUME NEW g, g.view = f.view, g.at \notin {"inspect", "acquire", "swap"} PROVE ViewOf(f, g)
    BY <2>1 DEF ViewOf, Plans
  <2>. QED  BY <2>1, <1>g
<1>o. ASSUME NEW h \in Frame, \A s \in Stage : h.view[s].epoch \in {f.view[s].epoch, row[s].epoch},
             NEW g \in Onward(h)
      PROVE  Goes(g)
  <2>1. g = Finished(h) \/ g = AtStage(h, "PROOF") \/ g = AtStage(h, "NOTIFY")
    BY DEF Onward
  <2>2. ViewOf(f, Finished(h))
    BY IdleViews
  <2>3. ASSUME NEW s \in {"PROOF", "NOTIFY"} PROVE ViewOf(f, AtStage(h, s))
    <3>1. /\ AtStage(h, s).view = h.view /\ AtStage(h, s).at = "acquire"
          /\ AtStage(h, s).stage # "STATEMENT"
      BY <2>3, StageFrame, StageNames
    <3>. QED  BY <1>o, <3>1 DEF ViewOf, Plans
  <2>. QED  BY <2>1, <2>2, <2>3, <1>g
<1>p. \A g \in Onward(f) : Goes(g)
  BY <1>0, <1>o
<1> HIDE DEF Goes
<1>1. ASSUME Start(w) PROVE ViewOf(f, frame'[w])
  <2>1. [f EXCEPT !.life = scan.lifecycle] \in Frame
    BY <1>0 DEF Frame, TypesInv, RunnerTypeOK, ScanRow
  <2>2. ViewOf(f, Finished([f EXCEPT !.life = scan.lifecycle]))
    BY <2>1, IdleViews
  <2>3. Goes([f EXCEPT !.life = scan.lifecycle, !.at = "claim"])
        /\ Goes([f EXCEPT !.life = scan.lifecycle, !.at = "resume", !.resumed = TRUE,
                          !.packet = scan.packet])
    BY <1>0, <1>k DEF Frame
  <2>. QED  BY <1>1, <1>g, <2>2, <2>3, <1>0 DEF Start, Become, Goes, Frame
<1>2. ASSUME Claim(w) \/ Mark(w) PROVE ViewOf(f, frame'[w])
  <2>1. Goes([f EXCEPT !.at = "mark", !.life = scan.lifecycle])
    BY <1>0, <1>k DEF Frame
  <2>2. CASE Mark(w)
    <3>1. ~f.resumed
      BY <2>2, <1>0 DEF Mark, At_, Home
    <3>2. ViewOf(f, [f EXCEPT !.at = "acquire", !.life = "RUNNING"])
      BY <1>0, <3>1 DEF ViewOf, Plans, Frame
    <3>. QED  BY <2>2, <3>2, <1>g DEF Mark, Become, Goes
  <2>. QED  BY <1>2, <1>f, <2>1, <2>2 DEF Claim, Become, Goes
<1>3. ASSUME Acquire(w) \/ AcquireRemembered(w) \/ Swap(w) PROVE ViewOf(f, frame'[w])
  <2>1. Goes([f EXCEPT !.at = Entry(f.stage)])
    BY <1>0, <1>k, StageNames DEF Frame, Entry
  <2>2. Goes(Unacquired(f))
    BY <1>p, MovesOnward
  <2>3. f.at = "acquire" => ViewOf(f, [f EXCEPT !.at = "swap"])
    BY <1>0 DEF ViewOf, Plans, Frame
  <2>4. f.at = "acquire" => Goes([f EXCEPT !.at = "swap"])
    BY <2>3, <1>g
  <2>. QED  BY <1>3, <2>1, <2>2, <2>4 DEF At_, Acquire, AcquireRemembered, Swap, Become, Goto, Goes
<1>4. ASSUME EvidenceNext(w) PROVE ViewOf(f, frame'[w])
  <2>1. /\ Goes([f EXCEPT !.at = "stopped"]) /\ Goes([f EXCEPT !.at = "build"])
        /\ Goes([f EXCEPT !.at = "mark_done", !.packet = Own(w, "result")])
        /\ \A c : Goes([f EXCEPT !.at = "finalize", !.class = c])
    BY <1>0, <1>k DEF Frame
  <2>2. ASSUME MarkDone(w)
        PROVE  Goes(AtStage([f EXCEPT !.life = "RESULT_READY"], "STATEMENT"))
    <3>1. [f EXCEPT !.life = "RESULT_READY"] \in Frame /\ ~f.resumed
      BY <2>2, <1>0 DEF MarkDone, At_, Home, Frame, Lifecycle
    <3>2. ViewOf(f, AtStage([f EXCEPT !.life = "RESULT_READY"], "STATEMENT"))
      BY <3>1, <1>0, StageFrame, StageNames DEF ViewOf, Plans, Frame
    <3>. QED  BY <3>2, <1>g
  <2>. QED
    BY <1>4, <1>f, <2>1, <2>2
    DEF EvidenceNext, Report, EvidenceCommit, MarkDone, EvidenceFails, FinalizeTransient,
        FinalizeTerminal, Become, Goto, Goes
<1>5. ASSUME StatementNext(w) PROVE ViewOf(f, frame'[w])
  <2>1. Goes([f EXCEPT !.at = "issue"]) /\ Goes([f EXCEPT !.at = "settle"])
        /\ Goes([f EXCEPT !.at = "audit"])
    BY <1>0, <1>k DEF Frame
  <2>2. Goes(EnterProof(f))
    BY <1>p, MovesOnward
  <2>. QED
    BY <1>5, <1>f, <2>1, <2>2
    DEF StatementNext, Lookup, Issue, SettleStatement, Audit, StatementFails, Become, Goto, Goes
<1>6. ASSUME ProofNext(w) PROVE ViewOf(f, frame'[w])
  <2>1. CASE AnchorConfirmed(w) \/ AnchorPending(w) \/ ProofWaits(w)
    <3>1. \A b : Goes([f EXCEPT !.at = "write", !.anchored = b])
      BY <1>0, <1>k DEF Frame
    <3>. QED
      BY <2>1, <1>f, <3>1 DEF AnchorConfirmed, AnchorPending, ProofWaits, Anchored, Become, Goes
  <2>2. CASE WriteProof(w)
    <3>1. \A l : Goes([f EXCEPT !.at = "settle", !.life = l])
      BY <1>0, <1>k DEF Frame
    <3>. QED  BY <2>2, <3>1 DEF WriteProof, Become, Goes
  <2>3. CASE SettleProof(w) \/ ProofPersistFails(w)
    <3>1. PICK g \in Frame :
            /\ frame' = [frame EXCEPT ![w] = AfterProof(g)]
            /\ \A s \in Stage : g.view[s].epoch \in {f.view[s].epoch, row[s].epoch}
      BY <2>3, AfterProofOf
    <3>2. Goes(AfterProof(g))
      BY <3>1, <1>o, MovesOnward
    <3>. QED  BY <3>1, <3>2 DEF Goes
  <2>. QED  BY <1>6, <2>1, <2>2, <2>3 DEF ProofNext
<1>7. ASSUME NotifyNext(w) PROVE ViewOf(f, frame'[w])
  <2>1. Goes([f EXCEPT !.at = "settle"])
    BY <1>0, <1>k DEF Frame
  <2>. QED
    BY <1>7, <1>f, <2>1 DEF NotifyNext, Notify, SettleNotify, NotifyFails, Become, Goto, Goes
<1>8. ASSUME Resume(w) PROVE ViewOf(f, frame'[w])
  <2>1. /\ \A s \in Stage : CurrentView[s].epoch = row[s].epoch
        /\ CurrentView["STATEMENT"].state = row["STATEMENT"].state
    BY StageNames DEF CurrentView
  <2>2. [f EXCEPT !.at = "inspect", !.view = CurrentView].view = CurrentView
        /\ [f EXCEPT !.at = "inspect", !.view = CurrentView].at = "inspect"
    BY <1>0 DEF Frame
  <2>3. ViewOf(f, [f EXCEPT !.at = "inspect", !.view = CurrentView])
    BY <2>1, <2>2, StageNames DEF ViewOf, Plans
  <2>. QED  BY <1>8, <1>f, <1>g, <2>3 DEF Resume, Become, Goes
<1>9. ASSUME Inspect(w) PROVE ViewOf(f, frame'[w])
  <2>1. CASE Remembers(f, "STATEMENT", Claimable)
    <3>1. Plans(f)
      BY <1>9, <2>1, <1>0 DEF Inspect, At_, Home, Plans, Remembers
    <3>2. ViewOf(f, AtStage(f, "STATEMENT"))
      BY <3>1, <1>0, StageFrame, StageNames DEF ViewOf
    <3>. QED  BY <1>9, <3>2, <1>f, <1>g, <1>p, MovesOnward DEF Inspect, Become, Goes
  <2>2. CASE ~Remembers(f, "STATEMENT", Claimable)
    BY <1>9, <2>2, <1>f, <1>p, MovesOnward DEF Inspect, Become, Goes
  <2>. QED  BY <2>1, <2>2
<1>10. ASSUME Acknowledge(w) \/ Crash(w) \/ Restart(w) PROVE ViewOf(f, frame'[w])
  BY <1>10, <1>f, <1>g, IdleViews DEF Acknowledge, Crash, Restart, Become, Goes
<1>. QED
  BY <1>1, <1>2, <1>3, <1>4, <1>5, <1>6, <1>7, <1>8, <1>9, <1>10 DEF RunnerNext
\* A worker reads for itself: the row of its stage, as it is and if it may be
\* claimed, or as it remembers it.
LEMMA WorkerSeen ==
  ASSUME TypesInv, HomeInv, NEW w \in Worker, RunnerNext(w) \/ Crash(w) \/ Restart(w)
  PROVE  /\ doomed' = doomed
         /\ \A v \in Worker : v # w => seen'[v] = seen[v] /\ token'[v] = token[v]
         /\ \A snap \in seen'[w] :
              \/ snap \in seen[w]
              \/ /\ snap.stage = frame[w].stage
                 /\ \/ snap.epoch = row[snap.stage].epoch /\ MayClaim(row[snap.stage])
                    \/ /\ snap.epoch = frame[w].view[snap.stage].epoch
                       /\ frame[w].resumed /\ frame[w].at = "acquire"
<1> DEFINE f == frame[w]
<1>0. /\ f.stage \in Stage /\ frame \in [Worker -> Frame] /\ f \in Frame
      /\ seen \in [Worker -> SUBSET Snapshot] /\ token \in [Worker -> [Stage -> Nat]]
  BY DEF TypesInv, RunnerTypeOK, LedgerTypeOK, Frame
<1>1. Footprint(w)
  BY WorkerFootprint
<1>2. CASE AcquireRead(w, f.stage)
  BY <1>2, <1>0 DEF AcquireRead
<1>3. CASE AcquireRemembered(w)
  BY <1>3, <1>0 DEF AcquireRemembered, At_
<1>4. CASE AcquireSwap(w) \/ AcquireLost(w)
  BY <1>4, <1>0 DEF AcquireSwap, AcquireLost
<1>5. CASE Leave(w)
  BY <1>5, <1>0 DEF Leave
<1>6. CASE UNCHANGED <<token, seen, doomed>>
  BY <1>6
<1>. QED
  BY <1>1, <1>2, <1>3, <1>4, <1>5, <1>6
  DEF Footprint, Updates, EnsureStages, Renew, Complete, Fail, Inspect, ledgerVars

\* A worker that is about to swap has read the row of its stage, and no other.
LEMMA SwapsItsStage ==
  ASSUME TypesInv, HomeInv, NEW w \in Worker, RunnerNext(w) \/ Crash(w) \/ Restart(w),
         frame'[w].at = "swap"
  PROVE  \A snap \in seen'[w] : snap.stage = frame'[w].stage
<1> DEFINE f == frame[w]
<1>0. /\ f \in Frame /\ f.stage \in Stage /\ frame \in [Worker -> Frame]
      /\ seen \in [Worker -> SUBSET Snapshot]
  BY DEF TypesInv, RunnerTypeOK, LedgerTypeOK, Frame
<1>1. f.at = "acquire" /\ frame'[w].stage = f.stage
  BY WorkerViews DEF ViewOf
<1>2. CASE RunnerNext(w)
  <2>1. Acquire(w) \/ AcquireRemembered(w)
    BY <1>1, <1>2
    DEF RunnerNext, EvidenceNext, StatementNext, ProofNext, NotifyNext, Start, Claim, Mark,
        Swap, Report, EvidenceCommit, MarkDone, EvidenceFails, FinalizeTransient,
        FinalizeTerminal, Lookup, Issue, SettleStatement, Audit, StatementFails,
        AnchorConfirmed, AnchorPending, WriteProof, ProofWaits, SettleProof,
        ProofPersistFails, Notify, SettleNotify, NotifyFails, Resume, Inspect, Acknowledge, At_
  <2>2. Unacquired(f).at # "swap"
    <3>1. /\ Finished(f).at = "ack"
          /\ AtStage(f, "PROOF").at = "acquire" /\ AtStage(f, "NOTIFY").at = "acquire"
      BY <1>0, FinishedFrame, StageFrame, StageNames
    <3>2. \A g \in Onward(f) : g.at \in {"ack", "acquire"}
      BY <3>1 DEF Onward
    <3>. QED  BY <3>2, MovesOnward
  <2>3. CASE Acquire(w)
    BY <2>2, <2>3, <1>0, <1>1 DEF Acquire, AcquireRead, Become
  <2>4. CASE AcquireRemembered(w)
    BY <2>4, <1>0, <1>1 DEF AcquireRemembered
  <2>. QED  BY <2>1, <2>3, <2>4
<1>3. CASE Crash(w) \/ Restart(w)
  BY <1>0, <1>1, <1>3 DEF Crash, Restart, At_, IdleFrame
<1>. QED  BY <1>2, <1>3

LEMMA ReadsInit == Init => ReadsInv
<1> SUFFICES ASSUME Init PROVE ReadsInv
  OBVIOUS
<1>1. \A w \in Worker : frame[w].view = NoView /\ frame[w].at = "idle"
  BY DEF Init, IdleFrame
<1>. QED
  BY <1>1 DEF Init, LedgerInit, ReadsInv, MissingRow, NoView

LEMMA ReadsNext == TypesInv /\ HomeInv /\ ReadsInv /\ [Next]_vars => ReadsInv'
<1> SUFFICES ASSUME TypesInv, HomeInv, ReadsInv, [Next]_vars PROVE ReadsInv'
  OBVIOUS
<1>g. \A s \in Stage : row[s].epoch <= row'[s].epoch
  BY EpochsGrow
<1>t. /\ \A w \in Worker, s \in Stage : frame[w].view[s].epoch \in Nat
      /\ \A s \in Stage : row[s].epoch \in Nat
      /\ \A w \in Worker : \A snap \in seen[w] : snap.stage \in Stage /\ snap.epoch \in Nat
      /\ \A r \in Reaper : \A snap \in doomed[r] : snap.stage \in Stage /\ snap.epoch \in Nat
      /\ \A w \in Worker : frame[w].stage \in Stage
  BY DEF TypesInv, RunnerTypeOK, LedgerTypeOK, Frame, View, Row, Snapshot
<1>n. /\ \A s \in Stage : row'[s].epoch \in Nat
      /\ \A w \in Worker, s \in Stage : frame'[w].view[s].epoch \in Nat
  <2>1. row' \in [Stage -> Row] /\ frame' \in [Worker -> Frame]
    BY TypesNext DEF TypesInv, RunnerTypeOK, LedgerTypeOK
  <2>2. \A w \in Worker : frame'[w].view \in View
    BY <2>1 DEF Frame
  <2>. QED  BY <2>1, <2>2 DEF View, Row
<1>1. ASSUME NEW w \in Worker, RunnerNext(w) \/ Crash(w) \/ Restart(w) PROVE ReadsInv'
  <2>1. \A v \in Worker : \A snap \in seen'[v] : snap.epoch <= row'[snap.stage].epoch
    <3>1. \A snap \in seen'[w] : snap.stage \in Stage /\ snap.epoch \in Nat
                                 /\ snap.epoch <= row[snap.stage].epoch
      BY <1>1, <1>t, WorkerSeen DEF ReadsInv
    <3>2. \A v \in Worker : v # w => seen'[v] = seen[v]
      BY <1>1, WorkerSeen
    <3>3. \A v \in Worker : \A snap \in seen'[v] :
            snap.stage \in Stage /\ snap.epoch \in Nat /\ snap.epoch <= row[snap.stage].epoch
      BY <3>1, <3>2, <1>t DEF ReadsInv
    <3>. QED  BY <3>3, <1>g, <1>t, <1>n
  <2>2. \A r \in Reaper : \A snap \in doomed'[r] : snap.epoch <= row'[snap.stage].epoch
    BY <1>1, <1>g, <1>t, <1>n, WorkerSeen DEF ReadsInv
  <2>3. \A v \in Worker, s \in Stage : frame'[v].view[s].epoch <= row'[s].epoch
    <3>1. \A s \in Stage : frame'[w].view[s].epoch <= row[s].epoch
      BY <1>1, <1>t, WorkerViews DEF ReadsInv, ViewOf
    <3>2. \A v \in Worker, s \in Stage : frame'[v].view[s].epoch <= row[s].epoch
      BY <1>1, <3>1, OwnFrameOnly DEF ReadsInv
    <3>. QED  BY <3>2, <1>g, <1>t, <1>n
  <2>4. \A v \in Worker :
          frame'[v].at = "swap" => \A snap \in seen'[v] : snap.stage = frame'[v].stage
    BY <1>1, SwapsItsStage, WorkerSeen, OwnFrameOnly DEF ReadsInv
  <2>. QED  BY <2>1, <2>2, <2>3, <2>4 DEF ReadsInv
<1>2. ASSUME NEW w \in Worker, NEW m \in Message, Deliver(w, m) PROVE ReadsInv'
  <2>1. /\ frame' = [frame EXCEPT ![w] = [IdleFrame EXCEPT !.at = "start", !.msg = m]]
        /\ UNCHANGED <<row, seen, doomed>>
    BY <1>2 DEF Deliver, ledgerVars
  <2>2. /\ \A s \in Stage : NoView[s].epoch = 0
        /\ [IdleFrame EXCEPT !.at = "start", !.msg = m].view = NoView
        /\ [IdleFrame EXCEPT !.at = "start", !.msg = m].at = "start"
    BY DEF NoView, IdleFrame
  <2>. QED  BY <2>1, <2>2, <1>t DEF ReadsInv, TypesInv, RunnerTypeOK
<1>3. ASSUME NEW s \in Stage, Expire(s) PROVE ReadsInv'
  BY <1>3, <1>g, <1>t, <1>n DEF Expire, LeaseExpires, ReadsInv
<1>4. ASSUME NEW r \in Reaper, Reap(r) PROVE ReadsInv'
  <2>1. \A q \in Reaper : \A snap \in doomed'[q] :
          snap \in doomed[q] \/ (snap.stage \in Stage /\ snap.epoch = row[snap.stage].epoch)
    <3>0. doomed \in [Reaper -> SUBSET Snapshot]
      BY DEF TypesInv, RunnerTypeOK, LedgerTypeOK
    <3>1. CASE ReapRead(r)
      BY <3>0, <3>1 DEF ReapRead, Expired
    <3>2. CASE ReapCommit(r)
      BY <3>0, <3>2 DEF ReapCommit
    <3>. QED  BY <1>4, <3>1, <3>2 DEF Reap, ReaperNext
  <2>2. UNCHANGED <<seen, frame>>
    BY <1>4 DEF Reap, ReaperNext, ReapRead, ReapCommit
  <2>. QED  BY <2>1, <2>2, <1>g, <1>t, <1>n DEF ReadsInv
<1>5. CASE UNCHANGED <<row, seen, doomed, frame>>
  BY <1>5 DEF ReadsInv
<1>. QED
  BY <1>1, <1>2, <1>3, <1>4, <1>5
  DEF Next, CancelScan, DeadlinePasses, ChainConfirms, vars, ledgerVars
--------------------------------------------------------------------------------
(* A row that nobody may claim, and that nobody is about to take, stays so. *)

Guarded(s) ==
  /\ Fresh(s)
  /\ row[s].state \notin Claimable \cup {"MISSING"}
  /\ row[s].state = "RUNNING" => row[s].lease = "live"

LEMMA WorkerGuarded ==
  ASSUME TypesInv, HomeInv, NEW w \in Worker, RunnerNext(w) \/ Crash(w) \/ Restart(w),
         NEW s \in {"EVIDENCE", "STATEMENT"}, Guarded(s)
  PROVE  /\ row'[s].epoch = row[s].epoch
         /\ \/ row'[s] = row[s]
            \/ Updates(w) /\ frame[w].stage = s
            \/ Inspect(w) /\ s = "STATEMENT" /\ Issued
         /\ Fresh(s)'
<1> DEFINE f == frame[w]
<1>0. /\ f \in Frame /\ Home(f) /\ f.stage \in Stage /\ s \in Stage
      /\ row \in [Stage -> Row] /\ LedgerInv
  BY StageNames DEF TypesInv, RunnerTypeOK, LedgerTypeOK, HomeInv, Frame
<1>1. ~MayClaim(row[s])
  BY DEF Guarded, MayClaim
<1>2. Footprint(w)
  BY WorkerFootprint
<1>3. /\ row'[s].epoch = row[s].epoch
      /\ \/ row'[s] = row[s]
         \/ Updates(w) /\ f.stage = s
         \/ Inspect(w) /\ s = "STATEMENT" /\ Issued
  <2>1. CASE \/ UNCHANGED ledgerVars \/ AcquireRead(w, f.stage) \/ AcquireRemembered(w)
             \/ AcquireLost(w) \/ Leave(w)
    BY <2>1 DEF ledgerVars, AcquireRead, AcquireRemembered, AcquireLost, Leave
  <2>2. CASE EnsureStages
    BY <2>2, <1>0 DEF EnsureStages, Guarded
  <2>3. CASE AcquireSwap(w)
    <3>1. PICK snap \in seen[w] :
            /\ row[snap.stage].epoch = snap.epoch
            /\ row' = [row EXCEPT ![snap.stage] =
                         [state |-> "RUNNING", attempt |-> snap.attempt + 1,
                          epoch |-> snap.epoch + 1, owner |-> w, lease |-> "live"]]
      BY <2>3 DEF AcquireSwap
    <3>2. snap.stage # s
      BY <3>1 DEF Guarded, Fresh
    <3>. QED  BY <3>1, <3>2, <1>0
  <2>4. CASE Updates(w)
    <3>1. CASE f.stage = s
      <4>1. PICK r \in {[row[s] EXCEPT !.lease = "live"]} \cup
                       {Released(row[s], st) : st \in StageState} :
              row' = [row EXCEPT ![s] = r]
        <5>1. \A c : FailedState(row[s], c) \in StageState
          BY DEF FailedState, StageState, Claimable
        <5>. QED
          BY <2>4, <3>1, <5>1 DEF Updates, Renew, Complete, Fail, StageState
      <4>2. [row[s] EXCEPT !.lease = "live"].epoch = row[s].epoch
        BY <1>0 DEF Row
      <4>3. \A st \in StageState : Released(row[s], st).epoch = row[s].epoch
        BY <1>0, ReleasedRow
      <4>. QED  BY <2>4, <3>1, <4>1, <4>2, <4>3, <1>0
    <3>2. CASE f.stage # s
      BY <2>4, <3>2, <1>0 DEF Updates, Renew, Complete, Fail
    <3>. QED  BY <3>1, <3>2
  <2>5. CASE Inspect(w)
    <3>1. \/ row' = row
          \/ Issued /\ row' = [row EXCEPT !["STATEMENT"] =
                                 Released(row["STATEMENT"], "SUCCEEDED")]
      BY <2>5 DEF Inspect, Reconciled, Issued
    <3>2. Released(row["STATEMENT"], "SUCCEEDED").epoch = row["STATEMENT"].epoch
      BY <1>0, ReleasedRow, StageNames DEF StageState
    <3>. QED  BY <2>5, <3>1, <3>2, <1>0
  <2>. QED  BY <1>2, <2>1, <2>2, <2>3, <2>4, <2>5 DEF Footprint
<1>4. \A v \in Worker : \A snap \in seen'[v] : snap.stage = s => snap.epoch # row[s].epoch
  <2>1. \A snap \in seen'[w] : snap.stage = s => snap.epoch # row[s].epoch
    <3>1. ASSUME f.stage = s, f.resumed, f.at = "acquire" PROVE f.view[s].epoch # row[s].epoch
      BY <3>1, <1>0 DEF Guarded, Fresh, Plans, Home
    <3>. QED  BY <3>1, <1>1, WorkerSeen DEF Guarded, Fresh
  <2>. QED  BY <2>1, WorkerSeen DEF Guarded, Fresh
<1>5. \A r \in Reaper : \A snap \in doomed'[r] : snap.stage = s => snap.epoch # row[s].epoch
  BY WorkerSeen DEF Guarded, Fresh
<1>6. s = "STATEMENT" =>
        \A v \in Worker : Plans(frame'[v]) => frame'[v].view[s].epoch # row[s].epoch
  <2>1. s = "STATEMENT" => (Plans(frame'[w]) => frame'[w].view[s].epoch # row[s].epoch)
    BY WorkerViews DEF Guarded, Fresh, ViewOf
  <2>. QED  BY <2>1, OwnFrameOnly DEF Guarded, Fresh
<1>7. Fresh(s)'
  BY <1>3, <1>4, <1>5, <1>6 DEF Fresh, Plans
<1>. QED  BY <1>3, <1>7

LEMMA OthersGuarded ==
  ASSUME TypesInv, NEW s \in {"EVIDENCE", "STATEMENT"}, Guarded(s)
  PROVE  /\ \A r \in Reaper : Reap(r) => row'[s] = row[s] /\ Fresh(s)'
         /\ \A t \in Stage : Expire(t) =>
              /\ Fresh(s)' /\ row'[s].state = row[s].state /\ row'[s].epoch = row[s].epoch
              /\ t # s => row'[s] = row[s]
         /\ \A w \in Worker, m \in Message : Deliver(w, m) => row'[s] = row[s] /\ Fresh(s)'
         /\ UNCHANGED <<ledgerVars, frame>> => row'[s] = row[s] /\ Fresh(s)'
<1>0. /\ s \in Stage /\ row \in [Stage -> Row] /\ doomed \in [Reaper -> SUBSET Snapshot]
      /\ frame \in [Worker -> Frame]
  BY StageNames DEF TypesInv, RunnerTypeOK, LedgerTypeOK
<1>1. ASSUME NEW r \in Reaper, Reap(r) PROVE row'[s] = row[s] /\ Fresh(s)'
  <2>1. UNCHANGED <<seen, frame>>
    BY <1>1 DEF Reap, ReaperNext, ReapRead, ReapCommit
  <2>2. CASE ReapRead(r)
    <3>1. s \notin Expired
      BY DEF Expired, Guarded
    <3>2. row' = row
          /\ \A q \in Reaper : \A snap \in doomed'[q] : snap \in doomed[q] \/ snap.stage \in Expired
      BY <2>2, <1>0 DEF ReapRead
    <3>. QED  BY <2>1, <3>1, <3>2 DEF Guarded, Fresh
  <2>3. CASE ReapCommit(r)
    <3>1. row'[s] = row[s]
      BY <2>3, <1>0 DEF ReapCommit, Guarded, Fresh
    <3>2. \A q \in Reaper : \A snap \in doomed'[q] : snap \in doomed[q]
      BY <2>3, <1>0 DEF ReapCommit
    <3>. QED  BY <2>1, <3>1, <3>2 DEF Guarded, Fresh
  <2>. QED  BY <1>1, <2>2, <2>3 DEF Reap, ReaperNext
<1>2. ASSUME NEW t \in Stage, Expire(t)
      PROVE  /\ Fresh(s)' /\ row'[s].state = row[s].state /\ row'[s].epoch = row[s].epoch
             /\ t # s => row'[s] = row[s]
  <2>1. /\ row' = [row EXCEPT ![t] = [row[t] EXCEPT !.lease = "expired"]]
        /\ UNCHANGED <<seen, doomed, frame>>
    BY <1>2 DEF Expire, LeaseExpires
  <2>2. /\ row'[s].state = row[s].state /\ row'[s].epoch = row[s].epoch
        /\ t # s => row'[s] = row[s]
    BY <2>1, <1>0 DEF Row
  <2>. QED  BY <2>1, <2>2 DEF Guarded, Fresh
<1>3. ASSUME NEW w \in Worker, NEW m \in Message, Deliver(w, m)
      PROVE  row'[s] = row[s] /\ Fresh(s)'
  <2>1. /\ frame' = [frame EXCEPT ![w] = [IdleFrame EXCEPT !.at = "start", !.msg = m]]
        /\ UNCHANGED <<row, seen, doomed>>
    BY <1>3 DEF Deliver, ledgerVars
  <2>2. ~Plans([IdleFrame EXCEPT !.at = "start", !.msg = m])
    BY DEF Plans, IdleFrame
  <2>3. \A v \in Worker : Plans(frame'[v]) => frame'[v] = frame[v]
    BY <2>1, <2>2, <1>0
  <2>. QED  BY <2>1, <2>3 DEF Guarded, Fresh
<1>4. ASSUME UNCHANGED <<ledgerVars, frame>> PROVE row'[s] = row[s] /\ Fresh(s)'
  BY <1>4 DEF ledgerVars, Guarded, Fresh
<1>. QED  BY <1>1, <1>2, <1>3, <1>4
--------------------------------------------------------------------------------
(* Calm. *)

Calm == CalmScan /\ CalmStatements /\ \A w \in Worker : CalmAt(w)

AllInv == TypesInv /\ HomeInv /\ EffectsInv /\ ReadsInv

LEMMA WorkingIsGuarded ==
  ASSUME NEW w \in Worker, NEW s \in Stage, Working(w, s)
  PROVE  Guarded(s)
  BY DEF Working, Guarded, Claimable

LEMMA SettledIsGuarded ==
  ASSUME NEW s \in Stage, Settled(s, {"SUCCEEDED", "FAILED_TERMINAL", "CANCELLED"})
  PROVE  Guarded(s)
  BY DEF Settled, Guarded, Claimable

\* Work goes on undisturbed, whoever else takes a step.
LEMMA WorkLasts ==
  ASSUME AllInv, Calm, overtakes = 0, overtakes' = 0, Next,
         NEW v \in Worker, NEW s \in {"EVIDENCE", "STATEMENT"}, Working(v, s),
         s = "STATEMENT" => ~Issued,
         ~(RunnerNext(v) \/ Crash(v) \/ Restart(v))
  PROVE  Working(v, s)'
<1>0. /\ s \in Stage /\ Guarded(s) /\ LedgerInv /\ TypesInv /\ HomeInv
      /\ HoldsCurrent(v, s) /\ row[s].state = "RUNNING" /\ row[s].lease = "live"
  BY StageNames, WorkingIsGuarded DEF AllInv, TypesInv, Working
<1>1. ASSUME row'[s] = row[s], token'[v] = token[v], Fresh(s)' PROVE Working(v, s)'
  BY <1>0, <1>1 DEF Working, HoldsCurrent
<1>2. ASSUME NEW w \in Worker, RunnerNext(w) \/ Crash(w) \/ Restart(w) PROVE Working(v, s)'
  <2>1. w # v
    BY <1>2
  <2>2. token'[v] = token[v]
    BY <1>0, <1>2, <2>1, WorkerSeen
  <2>3. ~(Updates(w) /\ frame[w].stage = s)
    BY <1>0, <2>1 DEF Updates, HoldsCurrent, LedgerInv, SingleHolder
  <2>. QED  BY <1>0, <1>1, <1>2, <2>2, <2>3, WorkerGuarded
<1>3. ASSUME NEW t \in Stage, Expire(t) PROVE Working(v, s)'
  <2>1. t # s
    BY <1>0, <1>3 DEF Expire
  <2>. QED
    BY <1>0, <1>1, <1>3, <2>1, OthersGuarded DEF Expire, LeaseExpires
<1>4. ASSUME NEW r \in Reaper, Reap(r) PROVE Working(v, s)'
  BY <1>0, <1>1, <1>4, OthersGuarded DEF Reap, ReaperNext, ReapRead, ReapCommit
<1>5. ASSUME NEW w \in Worker, NEW m \in Message, Deliver(w, m) PROVE Working(v, s)'
  BY <1>0, <1>1, <1>5, OthersGuarded DEF Deliver, ledgerVars
<1>6. ASSUME CancelScan \/ DeadlinePasses \/ ChainConfirms PROVE Working(v, s)'
  BY <1>0, <1>1, <1>6, OthersGuarded DEF CancelScan, DeadlinePasses, ChainConfirms, ledgerVars
<1>. QED  BY <1>2, <1>3, <1>4, <1>5, <1>6 DEF Next

\* A settled evidence stage stays as it is.
LEMMA SettledLasts ==
  ASSUME AllInv, Calm, Next,
         Settled("EVIDENCE", {"SUCCEEDED", "FAILED_TERMINAL", "CANCELLED"})
  PROVE  row'["EVIDENCE"].state = row["EVIDENCE"].state /\ Fresh("EVIDENCE")'
<1> DEFINE e == "EVIDENCE"
<1>0. /\ e \in Stage /\ Guarded(e) /\ TypesInv /\ HomeInv
      /\ row[e].state # "RUNNING"
  BY StageNames, SettledIsGuarded DEF AllInv, Settled
<1>1. ASSUME NEW w \in Worker, RunnerNext(w) \/ Crash(w) \/ Restart(w)
      PROVE  row'[e].state = row[e].state /\ Fresh(e)'
  <2>1. ~(Updates(w) /\ frame[w].stage = e)
    BY <1>0 DEF Updates, Calm, CalmAt, Working
  <2>. QED  BY <1>0, <1>1, <2>1, WorkerGuarded
<1>2. ASSUME \/ \E t \in Stage : Expire(t)
             \/ \E r \in Reaper : Reap(r)
             \/ \E w \in Worker, m \in Message : Deliver(w, m)
      PROVE  row'[e].state = row[e].state /\ Fresh(e)'
  BY <1>0, <1>2, OthersGuarded
<1>3. ASSUME CancelScan \/ DeadlinePasses \/ ChainConfirms
      PROVE  row'[e].state = row[e].state /\ Fresh(e)'
  BY <1>0, <1>3, OthersGuarded DEF CancelScan, DeadlinePasses, ChainConfirms
<1>. QED  BY <1>1, <1>2, <1>3 DEF Next
\* A swap that succeeds makes its worker the one that works on the stage: what
\* anybody has read of the row is older than the new epoch.
LEMMA SwapWorks ==
  ASSUME AllInv, NEW w \in Worker, Swap(w), AcquireSwap(w),
         NEW s \in {"EVIDENCE", "STATEMENT"}, frame[w].stage = s
  PROVE  Working(w, s)'
<1>0. /\ row \in [Stage -> Row] /\ token \in [Worker -> [Stage -> Nat]]
      /\ seen \in [Worker -> SUBSET Snapshot] /\ frame \in [Worker -> Frame]
      /\ doomed \in [Reaper -> SUBSET Snapshot]
      /\ s \in Stage /\ TypesInv /\ HomeInv /\ ReadsInv
      /\ frame[w].at = "swap"
  BY StageNames DEF AllInv, TypesInv, RunnerTypeOK, LedgerTypeOK, Swap, At_
<1>1. PICK snap \in seen[w] :
        /\ row[snap.stage].epoch = snap.epoch
        /\ row' = [row EXCEPT ![snap.stage] =
                     [state |-> "RUNNING", attempt |-> snap.attempt + 1,
                      epoch |-> snap.epoch + 1, owner |-> w, lease |-> "live"]]
        /\ token' = [token EXCEPT ![w][snap.stage] = snap.epoch + 1]
        /\ seen' = [seen EXCEPT ![w] = {}]
        /\ UNCHANGED doomed
  BY DEF AcquireSwap
<1>2. snap.stage = s /\ snap.epoch \in Nat
  BY <1>0, <1>1 DEF ReadsInv, Snapshot
<1>3. /\ row'[s].epoch = row[s].epoch + 1 /\ row[s].epoch \in Nat
      /\ row'[s].state = "RUNNING" /\ row'[s].lease = "live"
      /\ token'[w][s] = row'[s].epoch
  BY <1>0, <1>1, <1>2 DEF Row
<1>4. \A v \in Worker : \A q \in seen'[v] : q.stage = s => q.epoch # row'[s].epoch
  <2>1. \A v \in Worker : \A q \in seen[v] :
          q.stage = s => q.epoch \in Nat /\ q.epoch <= row[s].epoch
    BY <1>0 DEF ReadsInv, Snapshot
  <2>2. \A v \in Worker : \A q \in seen'[v] : q \in seen[v]
    BY <1>0, <1>1
  <2>. QED  BY <1>3, <2>1, <2>2
<1>5. \A r \in Reaper : \A q \in doomed'[r] : q.stage = s => q.epoch # row'[s].epoch
  <2>1. \A r \in Reaper : \A q \in doomed[r] :
          q.stage = s => q.epoch \in Nat /\ q.epoch <= row[s].epoch
    BY <1>0 DEF ReadsInv, Snapshot
  <2>. QED  BY <1>1, <1>3, <2>1
<1>6. \A v \in Worker : frame'[v].view[s].epoch # row'[s].epoch
  <2>1. \A v \in Worker : frame'[v].view[s].epoch \in Nat /\ frame'[v].view[s].epoch <= row[s].epoch
    <3>1. \A v \in Worker : frame[v].view[s].epoch \in Nat /\ frame[v].view[s].epoch <= row[s].epoch
      <4>1. \A v \in Worker : frame[v].view \in View
        BY <1>0 DEF Frame
      <4>. QED  BY <1>0, <4>1 DEF ReadsInv, View
    <3>2. RunnerNext(w)
      BY DEF RunnerNext
    <3>3. frame'[w].view[s].epoch \in {0, frame[w].view[s].epoch, row[s].epoch}
      BY <1>0, <3>2, WorkerViews DEF ViewOf
    <3>. QED  BY <1>0, <1>3, <3>1, <3>2, <3>3, OwnFrameOnly
  <2>. QED  BY <1>3, <2>1
<1>7. Fresh(s)'
  BY <1>4, <1>5, <1>6 DEF Fresh
<1>. QED  BY <1>3, <1>7 DEF Working, HoldsCurrent
LEMMA OnwardResult ==
  ASSUME NEW f \in Frame, f.packet.kind = "result", NEW g \in Onward(f)
  PROVE  HoldsResult(g)
<1>1. HoldsResult(Finished(f))
  BY FinishedFrame DEF HoldsResult
<1>2. HoldsResult(AtStage(f, "PROOF")) /\ HoldsResult(AtStage(f, "NOTIFY"))
  BY StageFrame, StageNames DEF HoldsResult
<1>. QED  BY <1>1, <1>2 DEF Onward

LEMMA IdleCalm ==
  /\ HoldsResult(IdleFrame) /\ HoldsResult([IdleFrame EXCEPT !.at = "dead"])
  /\ \A m \in Message : HoldsResult([IdleFrame EXCEPT !.at = "start", !.msg = m])
  /\ \A f \in Frame : HoldsResult(Finished(f))
<1>1. \A f \in Frame : HoldsResult(Finished(f))
  BY FinishedFrame DEF HoldsResult
<1>. QED  BY <1>1, IdleIsFrame DEF HoldsResult, IdleFrame

\* Places that say nothing but that the result is at hand.
Plain(g) ==
  g.at \notin {"report", "build", "stopped", "mark_done", "finalize", "lookup", "issue"}

LEMMA OnwardPlain ==
  ASSUME NEW f \in Frame
  PROVE  /\ Plain(Finished(f)) /\ \A s \in Stage : Plain(AtStage(f, s))
         /\ \A g \in Onward(f) : Plain(g)
<1>1. Plain(Finished(f)) /\ \A s \in Stage : Plain(AtStage(f, s))
  BY FinishedFrame, StageFrame DEF Plain
<1>2. Plain(AtStage(f, "PROOF")) /\ Plain(AtStage(f, "NOTIFY"))
  BY <1>1, StageNames
<1>. QED  BY <1>1, <1>2 DEF Onward

LEMMA WorkerCalm ==
  ASSUME AllInv, Calm, NEW w \in Worker, RunnerNext(w) \/ Crash(w) \/ Restart(w)
  PROVE  CalmAt(w)'
<1> DEFINE f == frame[w]
           Ok(g) == Plain(g) /\ HoldsResult(g)
           Goes(g) == frame' = [frame EXCEPT ![w] = g] => CalmAt(w)'
<1>0. /\ f \in Frame /\ Home(f) /\ f.stage \in Stage /\ frame \in [Worker -> Frame]
      /\ row \in [Stage -> Row] /\ token \in [Worker -> [Stage -> Nat]]
      /\ scan \in ScanRow /\ TypesInv /\ HomeInv /\ LedgerInv
      /\ "EVIDENCE" \in Stage /\ "STATEMENT" \in Stage
  BY StageNames DEF AllInv, TypesInv, RunnerTypeOK, LedgerTypeOK, HomeInv, Frame
<1>c. CalmAt(w) /\ HoldsResult(f)
  BY DEF Calm, CalmAt
<1>g. \A g : Ok(g) => Goes(g)
  BY <1>0 DEF CalmAt, Plain
<1>f. Goes(Finished(f)) /\ Goes(IdleFrame) /\ Goes([IdleFrame EXCEPT !.at = "dead"])
  BY <1>0, <1>g, IdleCalm, OnwardPlain DEF Plain, IdleFrame
<1>r. f.stage # "EVIDENCE" \/ f.at \in {"mark_done", "resume", "inspect"} => f.packet.kind = "result"
  BY <1>c DEF HoldsResult
<1>o. f.packet.kind = "result" => \A g \in Onward(f) : Goes(g)
  BY <1>0, <1>g, OnwardResult, OnwardPlain
<1>s. \A g : g.stage = f.stage /\ g.packet = f.packet /\ Plain(g)
             /\ (g.at \in {"resume", "inspect"} => f.at \in {"resume", "inspect"}) => Goes(g)
  <2>1. ASSUME NEW g, g.stage = f.stage, g.packet = f.packet, Plain(g),
               g.at \in {"resume", "inspect"} => f.at \in {"resume", "inspect"}
        PROVE  Ok(g)
    BY <2>1, <1>r DEF HoldsResult, Plain
  <2>. QED  BY <2>1, <1>g
<1>t. ASSUME NEW p, frame' = [frame EXCEPT ![w] = [f EXCEPT !.at = p]]
      PROVE  /\ frame'[w].at = p /\ frame'[w].stage = f.stage
             /\ frame'[w].packet = f.packet /\ frame'[w].class = f.class
  BY <1>0, <1>t DEF Frame
<1> HIDE DEF Goes
<1>1. ASSUME Start(w) PROVE CalmAt(w)'
  <2>1. [f EXCEPT !.life = scan.lifecycle] \in Frame
    BY <1>0 DEF Frame, ScanRow
  <2>2. Goes(Finished([f EXCEPT !.life = scan.lifecycle]))
    BY <2>1, <1>g, IdleCalm, OnwardPlain
  <2>3. Goes([f EXCEPT !.life = scan.lifecycle, !.at = "claim"])
    BY <1>0, <1>s DEF Frame, Plain
  <2>4. scan.state = "COMPLETED" =>
          Goes([f EXCEPT !.life = scan.lifecycle, !.at = "resume", !.resumed = TRUE,
                         !.packet = scan.packet])
    <3>1. scan.state = "COMPLETED" => scan.packet.kind = "result"
      BY DEF Calm, CalmScan
    <3>. QED  BY <3>1, <1>0, <1>g DEF Frame, Plain, HoldsResult
  <2>. QED  BY <1>1, <2>2, <2>3, <2>4, <1>0 DEF Start, Become, Goes, Frame
<1>2. ASSUME Claim(w) \/ Mark(w) PROVE CalmAt(w)'
  <2>1. /\ Goes([f EXCEPT !.at = "mark", !.life = scan.lifecycle])
        /\ Goes([f EXCEPT !.at = "acquire", !.life = "RUNNING"])
    BY <1>0, <1>s DEF Frame, Plain
  <2>. QED  BY <1>2, <1>f, <2>1 DEF Claim, Mark, Become, Goes
<1>3. Goes(Unacquired(f))
  BY <1>0, <1>f, <1>o, <1>r, MovesOnward
<1>4. ASSUME Acquire(w) \/ AcquireRemembered(w) PROVE CalmAt(w)'
  <2>1. Goes([f EXCEPT !.at = "swap"])
    BY <1>0, <1>s DEF Frame, Plain
  <2>. QED  BY <1>4, <1>3, <2>1 DEF Acquire, AcquireRemembered, Become, Goto, Goes
<1>5. ASSUME Swap(w) PROVE CalmAt(w)'
  <2>1. CASE AcquireSwap(w) /\ Goto(w, Entry(f.stage)) /\ f.stage \in {"EVIDENCE", "STATEMENT"}
    <3>1. f.stage = "EVIDENCE" => Working(w, "EVIDENCE")'
      BY <1>5, <2>1, SwapWorks
    <3>2. f.stage = "STATEMENT" => Working(w, "STATEMENT")'
      BY <1>5, <2>1, SwapWorks
    <3>3. frame'[w].at = (IF f.stage = "EVIDENCE" THEN "report" ELSE "lookup")
          /\ frame'[w].stage = f.stage /\ frame'[w].packet = f.packet
      BY <2>1, <1>t DEF Goto, Entry
    <3>. QED  BY <2>1, <3>1, <3>2, <3>3, <1>r DEF CalmAt, HoldsResult
  <2>2. CASE Goto(w, Entry(f.stage)) /\ f.stage \in {"PROOF", "NOTIFY"}
    <3>1. Goes([f EXCEPT !.at = "anchor"]) /\ Goes([f EXCEPT !.at = "notify"])
      BY <1>0, <1>s DEF Frame, Plain
    <3>. QED  BY <2>2, <3>1 DEF Goto, Entry, Goes
  <2>. QED  BY <1>0, <1>5, <1>3, <2>1, <2>2, StageNames DEF Swap, Become, Goes
<1>6. ASSUME EvidenceNext(w) PROVE CalmAt(w)'
  <2>0. f.stage = "EVIDENCE"
    BY <1>6, <1>0
    DEF EvidenceNext, Report, EvidenceCommit, MarkDone, EvidenceFails, FinalizeTransient,
        FinalizeTerminal, At_, Home
  <2>1. CASE f.at \in {"report", "build", "stopped"}
    <3>0. Working(w, "EVIDENCE") /\ Guarded("EVIDENCE")
      BY <2>1, <1>c, <1>0, WorkingIsGuarded DEF CalmAt
    <3>1. Fresh("EVIDENCE")' /\ row'["EVIDENCE"].epoch = row["EVIDENCE"].epoch
      BY <1>0, <1>6, <3>0, WorkerGuarded DEF RunnerNext
    <3>h. HoldsCurrent(w, "EVIDENCE") /\ row["EVIDENCE"] \in Row
      BY <3>0, <1>0 DEF Working
    <3>2. CASE Report(w)
      <4>1. /\ row' = [row EXCEPT !["EVIDENCE"] = [row["EVIDENCE"] EXCEPT !.lease = "live"]]
            /\ token' = token
        BY <3>2, <3>h DEF Report, Renew
      <4>2. Working(w, "EVIDENCE")'
        BY <1>0, <3>0, <3>1, <3>h, <4>1 DEF Working, HoldsCurrent, Row
      <4>3. frame'[w].at \in {"stopped", "build"} /\ frame'[w].stage = f.stage
        BY <3>2, <1>t DEF Report, Goto
      <4>. QED  BY <2>0, <4>2, <4>3 DEF CalmAt, HoldsResult
    <3>3. CASE EvidenceCommit(w)
      <4>1. row' = [row EXCEPT !["EVIDENCE"] = Released(row["EVIDENCE"], "SUCCEEDED")]
        BY <3>3, <3>h DEF EvidenceCommit, Complete
      <4>2. row'["EVIDENCE"].state = "SUCCEEDED"
        BY <4>1, <3>h, <1>0, ReleasedRow DEF StageState
      <4>3. /\ frame'[w].at = "mark_done"
            /\ frame'[w].stage = f.stage /\ frame'[w].packet = Own(w, "result")
        BY <3>3, <3>h, <1>0 DEF EvidenceCommit, Become, Frame
      <4>. QED  BY <2>0, <3>1, <4>2, <4>3 DEF CalmAt, HoldsResult, Settled, Own
    <3>4. ASSUME NEW c \in RetryClass, EvidenceFails(w, c) PROVE CalmAt(w)'
      <4>1. row' = [row EXCEPT !["EVIDENCE"] = Released(@, FailedState(@, c))]
        BY <3>4, <3>h DEF EvidenceFails, FailIfCurrent, Fail
      <4>2. c # "TRANSIENT" => FailedState(row["EVIDENCE"], c) \in {"FAILED_TERMINAL", "CANCELLED"}
        BY DEF FailedState
      <4>3. c # "TRANSIENT" => row'["EVIDENCE"].state \in {"FAILED_TERMINAL", "CANCELLED"}
        BY <4>1, <4>2, <3>h, <1>0, ReleasedRow DEF StageState
      <4>4. /\ frame'[w].at = "finalize" /\ frame'[w].class = c
            /\ frame'[w].stage = f.stage
        BY <3>4, <1>0 DEF EvidenceFails, Become, Frame
      <4>. QED  BY <2>0, <3>1, <4>3, <4>4 DEF CalmAt, HoldsResult, Settled
    <3>. QED
      BY <1>6, <2>1, <3>2, <3>3, <3>4
      DEF EvidenceNext, MarkDone, FinalizeTransient, FinalizeTerminal, At_
  <2>2. CASE MarkDone(w)
    <3>1. [f EXCEPT !.life = "RESULT_READY"] \in Frame
      BY <1>0 DEF Frame, Lifecycle
    <3>2. f.packet.kind = "result"
      BY <2>2, <1>r DEF MarkDone, At_
    <3>3. Ok(AtStage([f EXCEPT !.life = "RESULT_READY"], "STATEMENT"))
      BY <3>1, <3>2, <1>0, StageFrame DEF Plain, HoldsResult, Frame
    <3>. QED  BY <2>2, <3>3, <1>g DEF MarkDone, Become, Goes
  <2>3. CASE FinalizeTransient(w) \/ FinalizeTerminal(w)
    BY <2>3, <1>f DEF FinalizeTransient, FinalizeTerminal, Become, Goes
  <2>. QED
    BY <1>6, <2>1, <2>2, <2>3 DEF EvidenceNext, Report, EvidenceCommit, EvidenceFails, At_
<1>7. ASSUME StatementNext(w) PROVE CalmAt(w)'
  <2>1. CASE Lookup(w)
    <3>0. f.stage = "STATEMENT"
      BY <2>1, <1>0 DEF Lookup, At_, Home
    <3>1. CASE Issued
      <4>1. Goes([f EXCEPT !.at = "settle"])
        BY <1>0, <1>s DEF Frame, Plain
      <4>. QED  BY <2>1, <3>1, <4>1 DEF Lookup, Goto, Goes, Issued
    <3>2. CASE ~Issued
      <4>1. Working(w, "STATEMENT") /\ Guarded("STATEMENT")
        BY <2>1, <3>2, <1>c, <1>0, WorkingIsGuarded DEF CalmAt, Lookup, At_
      <4>2. Fresh("STATEMENT")'
        BY <1>0, <1>7, <4>1, WorkerGuarded DEF RunnerNext
      <4>3. Working(w, "STATEMENT")' /\ ~Issued'
        BY <2>1, <3>2, <4>1, <4>2 DEF Lookup, Working, HoldsCurrent, ledgerVars, scanVars, Issued
      <4>4. /\ frame'[w].at = "issue" /\ frame'[w].stage = f.stage
            /\ frame'[w].packet = f.packet
        BY <2>1, <3>2, <1>t DEF Lookup, Goto, Issued
      <4>. QED  BY <3>0, <4>3, <4>4, <1>r DEF CalmAt, HoldsResult
    <3>. QED  BY <3>1, <3>2
  <2>2. CASE ~Lookup(w)
    <3>1. Goes([f EXCEPT !.at = "settle"]) /\ Goes([f EXCEPT !.at = "audit"])
      BY <1>0, <1>s DEF Frame, Plain
    <3>2. Audit(w) => Goes(EnterProof(f))
      BY <1>o, <1>r, <1>0, MovesOnward DEF Audit, At_, Home
    <3>. QED
      BY <1>7, <2>2, <1>f, <3>1, <3>2
      DEF StatementNext, Issue, SettleStatement, Audit, StatementFails, Become, Goto, Goes
  <2>. QED  BY <2>1, <2>2
<1>8. ASSUME ProofNext(w) PROVE CalmAt(w)'
  <2>1. CASE AnchorConfirmed(w) \/ AnchorPending(w) \/ ProofWaits(w)
    <3>1. \A b : Goes([f EXCEPT !.at = "write", !.anchored = b])
      BY <1>0, <1>s DEF Frame, Plain
    <3>. QED
      BY <2>1, <1>f, <3>1 DEF AnchorConfirmed, AnchorPending, ProofWaits, Anchored, Become, Goes
  <2>2. CASE WriteProof(w)
    <3>1. \A l : Goes([f EXCEPT !.at = "settle", !.life = l])
      BY <1>0, <1>s DEF Frame, Plain
    <3>. QED  BY <2>2, <3>1 DEF WriteProof, Become, Goes
  <2>3. CASE SettleProof(w) \/ ProofPersistFails(w)
    <3>1. f.packet.kind = "result"
      BY <2>3, <1>0, <1>r DEF SettleProof, ProofPersistFails, At_, OnStage, Home
    <3>2. PICK g \in Frame :
            frame' = [frame EXCEPT ![w] = AfterProof(g)] /\ g.packet = f.packet
      <4>1. TypesInv
        BY <1>0
      <4>. QED  BY <2>3, <4>1, AfterProofOf
    <3>3. Ok(AfterProof(g))
      BY <3>1, <3>2, OnwardResult, OnwardPlain, MovesOnward
    <3>. QED  BY <3>2, <3>3, <1>g DEF Goes
  <2>. QED  BY <1>8, <2>1, <2>2, <2>3 DEF ProofNext
<1>9. ASSUME NotifyNext(w) PROVE CalmAt(w)'
  <2>1. Goes([f EXCEPT !.at = "settle"])
    BY <1>0, <1>s DEF Frame, Plain
  <2>. QED
    BY <1>9, <1>f, <2>1 DEF NotifyNext, Notify, SettleNotify, NotifyFails, Become, Goto, Goes
<1>10. ASSUME Resume(w) PROVE CalmAt(w)'
  <2>1. Goes([f EXCEPT !.at = "inspect", !.view = CurrentView])
    BY <1>10, <1>0, <1>s DEF Resume, At_, Frame, Plain
  <2>. QED  BY <1>10, <1>f, <2>1 DEF Resume, Become, Goes
<1>11. ASSUME Inspect(w) PROVE CalmAt(w)'
  <2>1. f.packet.kind = "result"
    BY <1>11, <1>r DEF Inspect, At_
  <2>2. Ok(AtStage(f, "STATEMENT"))
    BY <2>1, <1>0, StageFrame DEF Plain, HoldsResult
  <2>. QED
    BY <1>11, <1>f, <1>g, <1>o, <2>1, <2>2, MovesOnward DEF Inspect, Become, Goes
<1>12. ASSUME Acknowledge(w) \/ Crash(w) \/ Restart(w) PROVE CalmAt(w)'
  BY <1>12, <1>f DEF Acknowledge, Crash, Restart, Become, Goes
<1>. QED
  BY <1>1, <1>2, <1>4, <1>5, <1>6, <1>7, <1>8, <1>9, <1>10, <1>11, <1>12 DEF RunnerNext
\* No step of a worker ends another worker's calm.
LEMMA OtherCalm ==
  ASSUME AllInv, Calm, overtakes = 0, overtakes' = 0, Next, NEW v \in Worker,
         frame'[v] = frame[v],
         ~(RunnerNext(v) \/ Crash(v) \/ Restart(v)),
         frame[v].at = "issue" => ~Issued'
  PROVE  CalmAt(v)'
<1> DEFINE f == frame[v]
<1>0. CalmAt(v) /\ (Issued => Issued') /\ "EVIDENCE" \in Stage /\ "STATEMENT" \in Stage
  BY EffectsLast, StageNames DEF Calm, AllInv
<1>1. f.at \in {"report", "build", "stopped"} => Working(v, "EVIDENCE")'
  BY <1>0, WorkLasts DEF CalmAt
<1>2. f.at \in {"lookup", "issue"} /\ ~Issued' => Working(v, "STATEMENT")'
  BY <1>0, WorkLasts DEF CalmAt
<1>3. f.at = "mark_done" => Settled("EVIDENCE", {"SUCCEEDED"})'
  BY <1>0, SettledLasts DEF CalmAt, Settled
<1>4. f.at = "finalize" /\ f.class # "TRANSIENT"
        => Settled("EVIDENCE", {"FAILED_TERMINAL", "CANCELLED"})'
  BY <1>0, SettledLasts DEF CalmAt, Settled
<1>. QED  BY <1>0, <1>1, <1>2, <1>3, <1>4 DEF CalmAt

\* Two workers never both find that there is no statement and go on to issue one.
LEMMA OnlyIssuer ==
  ASSUME AllInv, Calm, overtakes = 0, Next, NEW v \in Worker,
         ~(RunnerNext(v) \/ Crash(v) \/ Restart(v)), frame[v].at = "issue"
  PROVE  ~Issued'
<1>0. /\ "STATEMENT" \in Stage /\ LedgerInv /\ ~Issued
      /\ HoldsCurrent(v, "STATEMENT")
  BY StageNames DEF AllInv, TypesInv, Calm, CalmAt, Working
<1>1. \A w \in Worker : ~Issue(w)
  <2> SUFFICES ASSUME NEW w \in Worker, Issue(w) PROVE FALSE
    OBVIOUS
  <2>1. w # v
    BY DEF RunnerNext, StatementNext
  <2>2. HoldsCurrent(w, "STATEMENT")
    BY <1>0 DEF Issue, At_, Calm, CalmAt, Working
  <2>. QED  BY <1>0, <2>1, <2>2 DEF HoldsCurrent, LedgerInv, SingleHolder
<1>. QED  BY <1>0, <1>1, OnlyIssueIssues DEF Issued
LEMMA CalmStatementsNext ==
  ASSUME AllInv, Calm, Next
  PROVE  CalmStatements'
<1>1. CASE statements' = statements
  BY <1>1 DEF Calm, CalmStatements
<1>2. ASSUME NEW w \in Worker, Issue(w) PROVE CalmStatements'
  <2> DEFINE p == frame[w].packet
  <2>1. statements = <<>> /\ frame[w].stage = "STATEMENT" /\ p \in Packet
    BY <1>2 DEF AllInv, HomeInv, Home, TypesInv, RunnerTypeOK, Frame, Issue, At_, Calm, CalmAt, Issued
  <2>2. p.kind = "result"
    BY <2>1 DEF Calm, CalmAt, HoldsResult
  <2>3. statements' = Append(<<>>, p)
    BY <1>2, <2>1 DEF Issue
  <2> HIDE DEF p
  <2>4. <<>> \in Seq(Packet)
    OBVIOUS
  <2>5. Len(statements') = 1 /\ statements'[1] = p /\ DOMAIN statements' = {1}
    BY <2>1, <2>3, <2>4
  <2>. QED  BY <2>2, <2>5 DEF CalmStatements
<1>3. [Next]_vars
  OBVIOUS
<1>. QED  BY <1>1, <1>2, <1>3, OnlyIssueIssues

\* The scan is called COMPLETED only by a worker whose evidence stage is done, and
\* its packet is written only by the five commits that carry one.
LEMMA ScanMoves ==
  ASSUME TypesInv, Next
  PROVE  /\ scan'.state = "COMPLETED" /\ scan.state # "COMPLETED" => \E w \in Worker : MarkDone(w)
         /\ \/ scan'.state = scan.state
            \/ \E w \in Worker : Claim(w) \/ MarkDone(w) \/ FinalizeTransient(w) \/ FinalizeTerminal(w)
         /\ \/ scan'.packet = scan.packet
            \/ \E w \in Worker : \/ Report(w) \/ EvidenceCommit(w) \/ FinalizeTerminal(w)
                                 \/ WriteProof(w)
<1> DEFINE Mild == scan'.state = scan.state /\ scan'.packet = scan.packet
<1>0. scan \in ScanRow /\ \A w \in Worker : frame[w].life \in Lifecycle
  BY DEF TypesInv, RunnerTypeOK, Frame
<1>u. UNCHANGED scan => Mild
  OBVIOUS
<1>c. Confirm => Mild
  BY <1>0 DEF Confirm, ScanRow
<1> HIDE DEF Mild
<1>1. ASSUME NEW w \in Worker, RunnerNext(w)
      PROVE  /\ scan'.state = "COMPLETED" => scan.state = "COMPLETED" \/ MarkDone(w)
             /\ scan'.state = scan.state \/ Claim(w) \/ MarkDone(w) \/ FinalizeTransient(w)
                \/ FinalizeTerminal(w)
             /\ scan'.packet = scan.packet \/ Report(w) \/ EvidenceCommit(w)
                \/ FinalizeTerminal(w) \/ WriteProof(w)
  <2>1. CASE Claim(w) \/ FinalizeTransient(w)
    BY <2>1, <1>0 DEF Claim, FinalizeTransient, ScanRow
  <2>2. CASE Mark(w)
    <3>1. Lifecycled(scan, frame[w].life, "RUNNING").state = scan.state
          /\ Lifecycled(scan, frame[w].life, "RUNNING").packet = scan.packet
      BY <1>0, LifecycleRow DEF Lifecycle
    <3>. QED  BY <2>2, <3>1 DEF Mark
  <2>3. CASE MarkDone(w)
    <3>1. \A sc \in ScanRow : Lifecycled(sc, frame[w].life, "RESULT_READY").packet = sc.packet
      BY <1>0, LifecycleRow DEF Lifecycle
    <3>2. /\ [scan EXCEPT !.state = "COMPLETED"] \in ScanRow
          /\ [scan EXCEPT !.state = "COMPLETED"].packet = scan.packet
      BY <1>0 DEF ScanRow, ScanState
    <3>. QED  BY <2>3, <3>1, <3>2 DEF MarkDone
  <2>4. CASE Report(w) \/ EvidenceCommit(w) \/ FinalizeTerminal(w)
    BY <2>4, <1>0 DEF Report, EvidenceCommit, FinalizeTerminal, ScanRow
  <2>5. CASE WriteProof(w)
    <3>1. \A sc \in ScanRow, l \in {"COMPLETED", "RESULT_READY"} :
            Lifecycled(sc, frame[w].life, l).state = sc.state
      BY <1>0, LifecycleRow DEF Lifecycle
    <3>2. /\ [scan EXCEPT !.packet = frame[w].packet] \in ScanRow
          /\ [scan EXCEPT !.packet = frame[w].packet].state = scan.state
      BY <1>0 DEF ScanRow, TypesInv, RunnerTypeOK, Frame
    <3>. QED  BY <2>5, <3>1, <3>2 DEF WriteProof
  <2>6. CASE AnchorConfirmed(w)
    <3>1. Mild
      BY <2>6, <1>c, <1>u DEF AnchorConfirmed, scanVars
    <3>. QED  BY <3>1 DEF Mild
  <2>7. CASE \/ StatementNext(w) \/ NotifyNext(w)
             \/ AnchorPending(w) \/ ProofWaits(w) \/ SettleProof(w) \/ ProofPersistFails(w)
             \/ \E c \in RetryClass : EvidenceFails(w, c)
    <3>1. UNCHANGED scan
      BY <2>7
      DEF StatementNext, Lookup, Issue, SettleStatement, Audit, StatementFails, NotifyNext,
          Notify, SettleNotify, NotifyFails, AnchorPending, ProofWaits, SettleProof,
          ProofPersistFails, EvidenceFails, scanVars
    <3>. QED  BY <3>1
  <2>8. CASE \/ Start(w) \/ Acquire(w) \/ AcquireRemembered(w) \/ Swap(w) \/ Resume(w)
             \/ Inspect(w) \/ Acknowledge(w)
    BY <2>8
    DEF Start, Acquire, AcquireRemembered, Swap, Resume, Inspect, Acknowledge, scanVars
  <2>. QED
    BY <1>1, <2>1, <2>2, <2>3, <2>4, <2>5, <2>6, <2>7, <2>8
    DEF RunnerNext, EvidenceNext, ProofNext
<1>2. ASSUME NEW w \in Worker, Crash(w) \/ Restart(w) PROVE Mild
  BY <1>2, <1>u DEF Crash, Restart, scanVars
<1>3. ASSUME NEW w \in Worker, NEW m \in Message, Deliver(w, m) PROVE Mild
  BY <1>3, <1>u DEF Deliver, scanVars
<1>4. ASSUME \/ \E s \in Stage : Expire(s)
             \/ \E r \in Reaper : Reap(r)
             \/ CancelScan \/ DeadlinePasses
      PROVE  Mild
  BY <1>4, <1>u DEF Expire, Reap, CancelScan, DeadlinePasses, scanVars
<1>5. ASSUME ChainConfirms PROVE Mild
  BY <1>5, <1>c DEF ChainConfirms
<1>. QED  BY <1>1, <1>2, <1>3, <1>4, <1>5 DEF Next, Mild

LEMMA CalmScanNext ==
  ASSUME AllInv, Calm, Next
  PROVE  CalmScan'
<1> DEFINE e == "EVIDENCE"
<1>0. /\ e \in Stage /\ TypesInv /\ HomeInv /\ LedgerInv /\ row \in [Stage -> Row]
      /\ [Next]_vars
  BY StageNames DEF AllInv, TypesInv, RunnerTypeOK, LedgerTypeOK
<1>s. row[e].state = "SUCCEEDED" => Settled(e, {"SUCCEEDED", "FAILED_TERMINAL", "CANCELLED"})
  BY DEF Calm, CalmScan, Settled
<1>1. scan'.state = "COMPLETED" => row'[e].state = "SUCCEEDED"
  <2>1. scan.state = "COMPLETED" \/ (\E w \in Worker : MarkDone(w)) => row[e].state = "SUCCEEDED"
    BY DEF Calm, CalmScan, CalmAt, Settled, MarkDone, At_
  <2>. QED  BY <1>0, <1>s, <2>1, ScanMoves, SettledLasts
<1>2. CASE row[e].state = "SUCCEEDED"
  <2>1. Fresh(e)'
    BY <1>2, <1>s, SettledLasts
  <2>2. scan.packet.kind = "result"
    BY <1>2 DEF Calm, CalmScan
  <2>3. ASSUME NEW w \in Worker,
               Report(w) \/ EvidenceCommit(w) \/ FinalizeTerminal(w) \/ WriteProof(w)
        PROVE  scan'.packet.kind = "result"
    <3>1. CASE Report(w) \/ EvidenceCommit(w)
      BY <1>2, <3>1 DEF Report, EvidenceCommit, At_, Calm, CalmAt, Working
    <3>2. CASE FinalizeTerminal(w)
      BY <1>2, <3>2 DEF FinalizeTerminal, At_, Calm, CalmAt, Settled
    <3>3. CASE WriteProof(w)
      <4>1. frame[w].stage = "PROOF"
        BY <1>0, <3>3 DEF WriteProof, At_, HomeInv, Home
      <4>2. frame[w].packet.kind = "result" /\ frame[w].packet \in Packet
        BY <4>1, <1>0 DEF Calm, CalmAt, HoldsResult, TypesInv, RunnerTypeOK, Frame
      <4>3. scan'.packet = frame[w].packet
        <5>1. \A sc \in ScanRow, l \in {"COMPLETED", "RESULT_READY"} :
                Lifecycled(sc, frame[w].life, l).packet = sc.packet
          BY <1>0, LifecycleRow DEF Lifecycle, TypesInv, RunnerTypeOK, Frame
        <5>2. /\ [scan EXCEPT !.packet = frame[w].packet] \in ScanRow
              /\ [scan EXCEPT !.packet = frame[w].packet].packet = frame[w].packet
          BY <1>0, <4>2 DEF ScanRow, TypesInv, RunnerTypeOK
        <5>. QED  BY <3>3, <5>1, <5>2 DEF WriteProof
      <4>. QED  BY <4>2, <4>3
    <3>. QED  BY <2>3, <3>1, <3>2, <3>3
  <2>. QED  BY <1>0, <1>1, <2>1, <2>2, <2>3, ScanMoves DEF CalmScan
<1>3. CASE row[e].state # "SUCCEEDED" /\ row'[e].state = "SUCCEEDED"
  <2>1. PICK w \in Worker :
          /\ RunnerNext(w) \/ Crash(w) \/ Restart(w)
          /\ frame[w].stage = e /\ frame[w].at \in {"build", "settle"}
          /\ Complete(w, e)
    BY <1>0, <1>3, NewlyDone
  <2>2. frame[w].at = "build"
    BY <1>0, <2>1 DEF HomeInv, Home
  <2>3. Working(w, e) /\ Guarded(e)
    BY <1>0, <2>2, WorkingIsGuarded DEF Calm, CalmAt
  <2>4. Fresh(e)'
    BY <1>0, <2>1, <2>3, WorkerGuarded
  <2>5. EvidenceCommit(w)
    <3>1. RunnerNext(w) => Report(w) \/ EvidenceCommit(w) \/ \E c \in RetryClass : EvidenceFails(w, c)
      BY <2>2
      DEF RunnerNext, EvidenceNext, StatementNext, ProofNext, NotifyNext, Start, Claim, Mark,
          Acquire, AcquireRemembered, Swap, MarkDone, FinalizeTransient,
          FinalizeTerminal, Lookup, Issue, SettleStatement, Audit, StatementFails,
          AnchorConfirmed, AnchorPending, WriteProof, ProofWaits, SettleProof,
          ProofPersistFails, Notify, SettleNotify, NotifyFails, Resume, Inspect, Acknowledge, At_
    <3>2. ~Crash(w) /\ ~Restart(w)
      <4>1. row' # row
        BY <1>3
      <4>. QED  BY <4>1 DEF Crash, Restart, Leave, ledgerVars
    <3>3. ~Report(w)
      <4>1. Report(w) => row' = [row EXCEPT ![e] = [row[e] EXCEPT !.lease = "live"]]
        BY <2>3 DEF Report, Renew, Working
      <4>. QED  BY <4>1, <1>0, <1>3 DEF Row
    <3>4. ~ \E c \in RetryClass : EvidenceFails(w, c)
      <4>1. ASSUME NEW c \in RetryClass, EvidenceFails(w, c) PROVE Fail(w, e, c)
        BY <2>3, <4>1 DEF EvidenceFails, FailIfCurrent, Working
      <4>. QED  BY <4>1, <1>0, <1>3, DoneByWorker
    <3>. QED  BY <2>1, <3>1, <3>2, <3>3, <3>4
  <2>6. scan'.packet.kind = "result"
    BY <2>5, <1>0 DEF EvidenceCommit, Own, ScanRow, TypesInv, RunnerTypeOK
  <2>. QED  BY <1>1, <2>4, <2>6 DEF CalmScan
<1>4. CASE row'[e].state # "SUCCEEDED"
  BY <1>1, <1>4 DEF CalmScan
<1>. QED  BY <1>2, <1>3, <1>4

\* No step of run_scan is a crash, an overtaking or a second delivery.
LEMMA WorkerKeepsEnv ==
  ASSUME NEW w \in Worker, RunnerNext(w)
  PROVE  UNCHANGED envVars
<1>1. CASE EvidenceNext(w)
  BY <1>1
  DEF EvidenceNext, Report, EvidenceCommit, MarkDone, EvidenceFails, FinalizeTransient,
      FinalizeTerminal
<1>2. CASE StatementNext(w)
  BY <1>2 DEF StatementNext, Lookup, Issue, SettleStatement, Audit, StatementFails
<1>3. CASE ProofNext(w)
  BY <1>3
  DEF ProofNext, AnchorConfirmed, AnchorPending, WriteProof, ProofWaits, SettleProof,
      ProofPersistFails
<1>4. CASE NotifyNext(w)
  BY <1>4 DEF NotifyNext, Notify, SettleNotify, NotifyFails
<1>. QED
  BY <1>1, <1>2, <1>3, <1>4
  DEF RunnerNext, Start, Claim, Mark, Acquire, AcquireRemembered, Swap, Resume, Inspect,
      Acknowledge

LEMMA OvertakesGrow ==
  ASSUME [Next]_vars
  PROVE  overtakes' = overtakes \/ overtakes' = overtakes + 1
<1>1. ASSUME NEW w \in Worker, RunnerNext(w) PROVE overtakes' = overtakes
  BY <1>1, WorkerKeepsEnv DEF envVars
<1>. QED
  BY <1>1
  DEF Next, Crash, Restart, Deliver, Expire, Reap, CancelScan, DeadlinePasses, ChainConfirms,
      vars, envVars

LEMMA CalmInit == Init => CalmInv
<1> SUFFICES ASSUME Init PROVE Calm
  BY DEF CalmInv, Calm
<1>1. \A w \in Worker : frame[w] = IdleFrame
  BY DEF Init
<1>2. \A w \in Worker : CalmAt(w)
  <2>1. IdleFrame.at = "idle" /\ IdleFrame.stage = "EVIDENCE"
    BY DEF IdleFrame
  <2>. QED  BY <1>1, <2>1, IdleCalm DEF CalmAt
<1>3. CalmScan
  BY StageNames DEF Init, LedgerInit, MissingRow, CalmScan
<1>4. CalmStatements
  BY DEF Init, CalmStatements
<1>. QED  BY <1>2, <1>3, <1>4 DEF Calm

LEMMA CalmNext == AllInv /\ CalmInv /\ [Next]_vars => CalmInv'
<1> SUFFICES ASSUME AllInv, CalmInv, [Next]_vars, overtakes' = 0 PROVE Calm'
  BY DEF CalmInv, Calm
<1>1. overtakes = 0
  <2>1. overtakes \in Nat
    BY RunnerAssumption DEF AllInv, TypesInv, RunnerTypeOK
  <2>2. overtakes' = overtakes \/ overtakes' = overtakes + 1
    BY OvertakesGrow
  <2>. QED  BY <2>1, <2>2
<1>2. Calm
  BY <1>1 DEF CalmInv, Calm
<1>3. CASE Next
  <2>1. \A v \in Worker : CalmAt(v)'
    <3> SUFFICES ASSUME NEW v \in Worker PROVE CalmAt(v)'
      OBVIOUS
    <3>1. CASE RunnerNext(v) \/ Crash(v) \/ Restart(v)
      BY <1>2, <3>1, WorkerCalm
    <3>2. CASE ~(RunnerNext(v) \/ Crash(v) \/ Restart(v))
      <4>1. frame[v].at = "issue" => ~Issued'
        BY <1>1, <1>2, <1>3, <3>2, OnlyIssuer
      <4>2. CASE frame'[v] = frame[v]
        BY <1>1, <1>2, <1>3, <3>2, <4>1, <4>2, OtherCalm
      <4>3. CASE frame'[v] # frame[v]
        <5>1. PICK m \in Message : Deliver(v, m)
          <6>1. \A w \in Worker : w # v /\ (RunnerNext(w) \/ Crash(w) \/ Restart(w))
                                    => frame'[v] = frame[v]
            BY OwnFrameOnly DEF AllInv
          <6>2. \A w \in Worker, m \in Message : w # v /\ Deliver(w, m) => frame'[v] = frame[v]
            BY DEF Deliver, AllInv, TypesInv, RunnerTypeOK
          <6>. QED
            BY <1>3, <3>2, <4>3, <6>1, <6>2
            DEF Next, Expire, Reap, CancelScan, DeadlinePasses, ChainConfirms
        <5>2. frame'[v] = [IdleFrame EXCEPT !.at = "start", !.msg = m]
          BY <5>1 DEF Deliver, AllInv, TypesInv, RunnerTypeOK
        <5>. QED  BY <5>2, IdleCalm DEF CalmAt, IdleFrame
      <4>. QED  BY <4>2, <4>3
    <3>. QED  BY <3>1, <3>2
  <2>. QED  BY <1>2, <1>3, <2>1, CalmScanNext, CalmStatementsNext DEF Calm
<1>4. CASE UNCHANGED vars
  BY <1>2, <1>4
  DEF vars, ledgerVars, scanVars, Calm, CalmScan, CalmStatements, CalmAt, Working, Settled,
      Fresh, HoldsCurrent, Issued
<1>. QED  BY <1>3, <1>4

LEMMA CalmInvariant == Spec => [](AllInv /\ CalmInv)
<1>1. Init => AllInv /\ CalmInv
  BY TypesInit, HomeInit, EffectsInit, ReadsInit, CalmInit DEF AllInv
<1>2. AllInv /\ CalmInv /\ [Next]_vars => (AllInv /\ CalmInv)'
  BY TypesNext, HomeNext, EffectsNext, ReadsNext, CalmNext DEF AllInv
<1>. QED  BY <1>1, <1>2, PTL DEF Spec

\* As long as no lease expires under a live worker a scan has at most one RESULT
\* statement, it signs a finished result, and a COMPLETED scan has one.
THEOREM OneResultUndisturbed == Spec => []OneResultStatement
<1>1. CalmInv => OneResultStatement
  BY DEF CalmInv, CalmScan, CalmStatements, OneResultStatement
<1>. QED  BY <1>1, CalmInvariant, PTL
--------------------------------------------------------------------------------
(* A worker alone with the scan. *)

\* Between the claim and the end of the evidence stage.
Early(f) ==
  \/ f.at \in {"mark", "report", "build", "stopped", "finalize", "mark_done"}
  \/ f.at \in {"acquire", "swap"} /\ f.stage = "EVIDENCE"

Open == scan.state \in {"QUEUED", "PROCESSING"}

\* A worker that is alone with the scan is early in it only while the scan is open.
AloneInv ==
  ~overlapped =>
    /\ \A v, w \in Worker : Busy(v) /\ Busy(w) => v = w
    /\ \A w \in Worker : Early(frame[w]) => Open

\* Only the claim makes a worker early.
LEMMA WorkerEarly ==
  ASSUME TypesInv, HomeInv, NEW w \in Worker, RunnerNext(w) \/ Crash(w) \/ Restart(w), ~Claim(w)
  PROVE  Early(frame'[w]) => Early(frame[w]) /\ ~MarkDone(w) /\ ~FinalizeTransient(w) /\ ~FinalizeTerminal(w)
<1> DEFINE f == frame[w]
           Goes(g) == frame' = [frame EXCEPT ![w] = g] => ~Early(frame'[w])
<1>0. f \in Frame /\ Home(f) /\ f.stage \in Stage /\ frame \in [Worker -> Frame]
  BY DEF TypesInv, RunnerTypeOK, HomeInv, Frame
<1>g. \A g : ~Early(g) => Goes(g)
  BY <1>0
<1>f. Goes(Finished(f)) /\ Goes(IdleFrame) /\ \A g : \A h \in Onward(g) : Goes(h)
  <2>1. \A g : ~Early(Finished(g)) /\ ~Early(AtStage(g, "PROOF")) /\ ~Early(AtStage(g, "NOTIFY"))
    BY DEF Early, Finished, IdleFrame, AtStage
  <2>2. ~Early(IdleFrame)
    BY DEF Early, IdleFrame
  <2>. QED  BY <1>g, <2>1, <2>2 DEF Onward
<1> HIDE DEF Goes
<1>1. CASE Start(w)
  BY <1>1, <1>0 DEF Start, Become, Finished, IdleFrame, Early, Frame
<1>2. CASE Acquire(w) \/ AcquireRemembered(w)
  <2>1. CASE frame' = [frame EXCEPT ![w].at = "swap"]
    BY <1>0, <1>2, <2>1
    DEF Acquire, AcquireRemembered, At_, Early, Frame, MarkDone, FinalizeTransient, FinalizeTerminal
  <2>2. CASE frame' # [frame EXCEPT ![w].at = "swap"]
    BY <1>2, <1>f, <2>2, MovesOnward DEF Acquire, AcquireRemembered, Become, Goto, Goes
  <2>. QED  BY <2>1, <2>2
<1>3. CASE Swap(w)
  <2>1. CASE frame' = [frame EXCEPT ![w].at = Entry(f.stage)]
    BY <1>0, <1>3, <2>1, StageNames
    DEF Swap, At_, Entry, Early, Frame, MarkDone, FinalizeTransient, FinalizeTerminal
  <2>2. CASE frame' # [frame EXCEPT ![w].at = Entry(f.stage)]
    BY <1>3, <1>f, <2>2, MovesOnward DEF Swap, Become, Goto, Goes
  <2>. QED  BY <2>1, <2>2
<1>4. CASE Mark(w) \/ Report(w) \/ EvidenceCommit(w) \/ \E c \in RetryClass : EvidenceFails(w, c)
  BY <1>4
  DEF Mark, Report, EvidenceCommit, EvidenceFails, At_, Early, MarkDone, FinalizeTransient,
      FinalizeTerminal
<1>5. CASE MarkDone(w)
  <2>1. ~Early(AtStage([f EXCEPT !.life = "RESULT_READY"], "STATEMENT"))
    BY <1>0, <1>5 DEF MarkDone, At_, Early, AtStage, Frame
  <2>. QED  BY <1>5, <1>g, <2>1 DEF MarkDone, Become, Goes
<1>6. CASE FinalizeTransient(w) \/ FinalizeTerminal(w)
  BY <1>6, <1>f DEF FinalizeTransient, FinalizeTerminal, Become, Goes
<1>7. CASE StatementNext(w)
  <2>1. \A p \in {"issue", "settle", "audit"} : Goes([f EXCEPT !.at = p])
    BY <1>0, <1>g DEF Early, Frame
  <2>. QED
    BY <1>7, <1>f, <2>1, MovesOnward
    DEF StatementNext, Lookup, Issue, SettleStatement, Audit, StatementFails, Become, Goto, Goes
<1>8. CASE ProofNext(w)
  <2>1. \A b : Goes([f EXCEPT !.at = "write", !.anchored = b])
    BY <1>0, <1>g DEF Early, Frame
  <2>2. \A l : Goes([f EXCEPT !.at = "settle", !.life = l])
    BY <1>0, <1>g DEF Early, Frame
  <2>3. CASE SettleProof(w) \/ ProofPersistFails(w)
    BY <2>3, <1>f, MovesOnward DEF SettleProof, ProofPersistFails, Become, Goes
  <2>. QED
    BY <1>8, <1>f, <2>1, <2>2, <2>3
    DEF ProofNext, AnchorConfirmed, AnchorPending, WriteProof, ProofWaits, Anchored, Become, Goes
<1>9. CASE NotifyNext(w)
  <2>1. Goes([f EXCEPT !.at = "settle"])
    BY <1>0, <1>g DEF Early, Frame
  <2>. QED
    BY <1>9, <1>f, <2>1 DEF NotifyNext, Notify, SettleNotify, NotifyFails, Become, Goto, Goes
<1>10. CASE Resume(w)
  <2>1. ~Early([f EXCEPT !.at = "inspect", !.view = CurrentView])
    BY <1>0 DEF Early, Frame
  <2>. QED  BY <1>10, <1>f, <1>g, <2>1 DEF Resume, Become, Goes
<1>11. CASE Inspect(w)
  <2>1. ~Early(AtStage(f, "STATEMENT"))
    BY <1>0 DEF Early, AtStage, Frame
  <2>. QED  BY <1>11, <1>f, <1>g, <2>1, MovesOnward DEF Inspect, Become, Goes
<1>12. CASE Acknowledge(w) \/ Crash(w) \/ Restart(w)
  <2>1. ~Early([IdleFrame EXCEPT !.at = "dead"])
    BY DEF Early, IdleFrame
  <2>. QED  BY <1>12, <1>f, <1>g, <2>1 DEF Acknowledge, Crash, Restart, Become, Goes
<1>. QED
  BY <1>1, <1>2, <1>3, <1>4, <1>5, <1>6, <1>7, <1>8, <1>9, <1>10, <1>11, <1>12
  DEF RunnerNext, EvidenceNext

LEMMA AloneInit == Init => AloneInv
<1>1. IdleFrame.at = "idle"
  BY DEF IdleFrame
<1>. QED  BY <1>1 DEF Init, AloneInv, Busy, Early

LEMMA AloneNext ==
  ASSUME TypesInv, HomeInv, AloneInv, [Next]_vars
  PROVE  AloneInv' /\ (~overlapped' => TerminalStep)
<1>0. /\ frame \in [Worker -> Frame] /\ scan.state \in ScanState
      /\ \A f : Early(f) => f.at \notin {"idle", "dead"}
  BY DEF TypesInv, RunnerTypeOK, ScanRow, Early
<1>1. ASSUME NEW w \in Worker, NEW m \in Message, Deliver(w, m)
      PROVE  AloneInv' /\ TerminalStep
  <2>1. /\ UNCHANGED scan /\ overlapped' = (overlapped \/ \E v \in Worker : Busy(v))
        /\ frame' = [frame EXCEPT ![w] = [IdleFrame EXCEPT !.at = "start", !.msg = m]]
    BY <1>1 DEF Deliver, scanVars
  <2>2. \A v \in Worker : v # w => frame'[v] = frame[v]
    BY <1>0, <2>1
  <2>3. frame'[w].at = "start" /\ ~Early(frame'[w])
    BY <1>0, <2>1 DEF IdleFrame, Early
  <2>. QED  BY <1>0, <2>1, <2>2, <2>3 DEF AloneInv, Busy, Open, TerminalStep
<1>2. ASSUME NEW w \in Worker, RunnerNext(w) \/ Crash(w) \/ Restart(w), ~overlapped'
      PROVE  AloneInv' /\ TerminalStep
  <2>1. ~overlapped
    BY <1>2, WorkerKeepsEnv DEF envVars, Crash, Restart
  <2>2. /\ \A u, v \in Worker : Busy(u) /\ Busy(v) => u = v
        /\ \A v \in Worker : Early(frame[v]) => Open
    BY <2>1 DEF AloneInv
  <2>3. \A v \in Worker : v # w => frame'[v] = frame[v]
    BY <1>2, OwnFrameOnly
  <2>4. CASE Restart(w)
    <3>1. frame'[w].at = "idle" /\ UNCHANGED scan
      BY <1>0, <2>4 DEF Restart, scanVars, IdleFrame
    <3>. QED  BY <1>0, <2>2, <2>3, <3>1 DEF AloneInv, Busy, Early, Open, TerminalStep
  <2>5. CASE ~Restart(w)
    <3>1. Busy(w)
      BY <1>2, <2>5
      DEF RunnerNext, Crash, Start, Claim, Mark, Acquire, AcquireRemembered, Swap, EvidenceNext,
          Report, EvidenceCommit, MarkDone, EvidenceFails, FinalizeTransient, FinalizeTerminal,
          StatementNext, Lookup, Issue, SettleStatement, Audit, StatementFails, ProofNext,
          AnchorConfirmed, AnchorPending, WriteProof, ProofWaits, SettleProof, ProofPersistFails,
          NotifyNext, Notify, SettleNotify, NotifyFails, Resume, Inspect, Acknowledge, At_, Busy
    <3>2. \A v \in Worker : v # w => ~Busy(v) /\ ~Busy(v)' /\ ~Early(frame[v]) /\ ~Early(frame'[v])
      BY <1>0, <2>2, <2>3, <3>1 DEF Busy
    <3>3. TerminalStep /\ (Early(frame'[w]) => Open')
      <4>1. CASE Claim(w)
        <5>1. CASE Open
          <6>1. scan' = [scan EXCEPT !.state = "PROCESSING"] /\ scan \in ScanRow
            BY <4>1, <5>1 DEF Claim, Open, TypesInv, RunnerTypeOK
          <6>2. scan'.state = "PROCESSING"
            BY <6>1 DEF ScanRow
          <6>. QED  BY <5>1, <6>2 DEF Open, TerminalStep
        <5>2. CASE ~Open
          <6>1. UNCHANGED scan /\ frame' = [frame EXCEPT ![w] = Finished(frame[w])]
            BY <4>1, <5>2 DEF Claim, Open, Become
          <6>2. frame'[w].at = "ack"
            BY <1>0, <6>1 DEF Finished, IdleFrame
          <6>. QED  BY <6>1, <6>2 DEF TerminalStep, Early
        <5>. QED  BY <5>1, <5>2
      <4>2. CASE MarkDone(w) \/ FinalizeTransient(w) \/ FinalizeTerminal(w)
        <5>1. Open /\ ~Claim(w)
          BY <4>2, <2>2 DEF MarkDone, FinalizeTransient, FinalizeTerminal, Claim, At_, Early
        <5>. QED  BY <1>2, <4>2, <5>1, WorkerEarly DEF Open, TerminalStep
      <4>3. CASE ~(Claim(w) \/ MarkDone(w) \/ FinalizeTransient(w) \/ FinalizeTerminal(w))
        <5>1. \A v \in Worker : v # w => ~Claim(v) /\ ~MarkDone(v) /\ ~FinalizeTransient(v) /\ ~FinalizeTerminal(v)
          BY <3>2 DEF Busy, Claim, MarkDone, FinalizeTransient, FinalizeTerminal, At_
        <5>2. Next
          BY <1>2 DEF Next
        <5>3. scan'.state = scan.state
          BY <4>3, <5>1, <5>2, ScanMoves
        <5>. QED  BY <1>2, <2>2, <4>3, <5>3, WorkerEarly DEF Open, TerminalStep
      <4>. QED  BY <4>1, <4>2, <4>3
    <3>. QED  BY <3>2, <3>3 DEF AloneInv
  <2>. QED  BY <2>4, <2>5
<1>3. ASSUME \/ \E s \in Stage : Expire(s)
             \/ \E r \in Reaper : Reap(r)
             \/ CancelScan \/ DeadlinePasses \/ ChainConfirms \/ UNCHANGED vars
      PROVE  AloneInv' /\ TerminalStep
  <2>1. UNCHANGED <<frame, overlapped>>
    BY <1>3 DEF Expire, Reap, CancelScan, DeadlinePasses, ChainConfirms, vars, envVars
  <2>2. scan'.state = scan.state
    <3>1. CASE ChainConfirms
      BY <3>1 DEF ChainConfirms, Confirm, TypesInv, RunnerTypeOK, ScanRow
    <3>2. CASE ~ChainConfirms
      BY <1>3, <3>2 DEF Expire, Reap, CancelScan, DeadlinePasses, vars, scanVars
    <3>. QED  BY <3>1, <3>2
  <2>. QED  BY <2>1, <2>2 DEF AloneInv, Busy, Open, TerminalStep
<1>. QED
  <2>1. CASE overlapped'
    BY <2>1 DEF AloneInv
  <2>2. CASE ~overlapped'
    BY <1>1, <1>2, <1>3, <2>2 DEF Next
  <2>. QED  BY <2>1, <2>2

\* COMPLETED and FAILED are final as long as two live workers have not handled the
\* scan at once, through every crash, redelivery and resumption.
THEOREM TerminalStandsAlone == Spec => TerminalStands
<1>1. Init => TypesInv /\ HomeInv /\ AloneInv
  BY TypesInit, HomeInit, AloneInit
<1>2. TypesInv /\ HomeInv /\ AloneInv /\ [Next]_vars =>
        (TypesInv /\ HomeInv /\ AloneInv)' /\ [~overlapped' => TerminalStep]_vars
  BY TypesNext, HomeNext, AloneNext
<1>. QED  BY <1>1, <1>2, PTL DEF Spec, TerminalStands
================================================================================
