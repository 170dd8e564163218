----------------------------- MODULE CoAttestation -----------------------------
(***************************************************************************)
(* Counterparty co-attestations (apps/api/app/services/coattestation.py,     *)
(* api/routes/network.py): signed commitments to the packet of one scan,     *)
(* admitted by the member registry, queued for anchoring by the request or   *)
(* by the reconciler (services/blockchain.py), settled by the receipts of    *)
(* their jobs, and withdrawn.                                                *)
(*                                                                         *)
(* AnchorJobs has the inside of a job; here it is open, then CONFIRMED or    *)
(* FAILED.  The deployment has a registry and requires membership.           *)
(***************************************************************************)
EXTENDS MemberNetwork

CONSTANTS
  Process,      \* API requests and dispatcher passes
  Body,         \* signed bodies: [signer, uid], told apart by their nonce
  Uid,          \* the platform's attestation of the scan
  NoUid,
  MaxTroubles   \* bound on crashes, and transactions beside commitments, together

ASSUME CoAttestationAssumption ==
  /\ \A b \in Body : b.signer \in Member /\ b.uid \in {Uid, NoUid}
  /\ IsFiniteSet(Body) /\ Uid # NoUid /\ MaxTroubles \in Nat

VARIABLES
  platform,   \* attestation_uid in the scan's packet
  row,        \* row[b]: counterparty_attestations, one per body hash
  job,        \* job[b]: the anchor job of the body's hash
  proc,       \* proc[p]: a request, a reconciler pass or a job's result
  raced,      \* bodies withdrawn while another session was about to write them
  crashes

coVars == <<platform, row, job, proc, raced, crashes>>
vars == <<networkVars, coVars>>

RowState == {"NONE", "SIGNED", "ANCHOR_PENDING", "ANCHORED", "ANCHOR_FAILED", "WITHDRAWN"}
NoRow == [state |-> "NONE", queued |-> FALSE, withdrawn |-> FALSE, uid |-> NoUid]
NoJob == [state |-> "NONE", ref |-> NoUid]

\* `todo` are the bodies still to do, the first one now; `seen` is the row of that
\* one as the session has it.
Idle == [at |-> "idle", todo |-> <<>>, seen |-> NoRow]
At(p, at, b, seen) == proc' = [proc EXCEPT ![p] = [Idle EXCEPT !.at = at, !.todo = <<b>>, !.seen = seen]]
Leaves(p) == proc' = [proc EXCEPT ![p] = Idle]
Now(p) == Head(proc[p].todo)

Init ==
  /\ NetworkInit
  /\ platform = NoUid
  /\ row = [b \in Body |-> NoRow] /\ job = [b \in Body |-> NoJob]
  /\ proc = [p \in Process |-> Idle]
  /\ raced = {} /\ crashes = 0

\* The platform's own job for the packet is confirmed.
PlatformAttested ==
  /\ platform = NoUid /\ platform' = Uid
  /\ UNCHANGED <<networkVars, row, job, proc, raced, crashes>>

--------------------------------------------------------------------------------
(* Submission. *)

\* The instance explores long histories of the network without commitments, and
\* commitments while the membership of their signers changes.
Committing == \E b \in Body, p \in Process : row[b].state # "NONE" \/ proc[p].at # "idle"

\* Variant: a body need not name the platform's attestation.
SubmitUnbound(p, b) ==
  /\ proc[p].at = "idle" /\ (transactions = 0 \/ Committing)
  /\ status[b.signer] = "ACTIVE"
  /\ row[b].state = "NONE"
  /\ At(p, "insert", b, [NoRow EXCEPT !.uid = platform])
  /\ UNCHANGED <<networkVars, platform, row, job, raced, crashes>>

\* record up to the insert: _validate_body, the signature, membership as the
\* registry has it now (one that cannot be read permits nothing), and the lookup of
\* a body that was submitted before, which is only described again.
Submit(p, b) ==
  /\ proc[p].at = "idle" /\ (transactions = 0 \/ Committing)
  /\ platform # NoUid => b.uid = platform
  /\ status[b.signer] = "ACTIVE"
  /\ row[b].state = "NONE"
  /\ At(p, "insert", b, [NoRow EXCEPT !.uid = platform])
  /\ UNCHANGED <<networkVars, platform, row, job, raced, crashes>>

\* The insert, which the unique body hash refuses to a second request.
Insert(p) ==
  LET b == Now(p) IN
  /\ proc[p].at = "insert"
  /\ IF row[b].state = "NONE"
       THEN /\ row' = [row EXCEPT ![b] = [proc[p].seen EXCEPT !.state = "SIGNED"]]
            /\ At(p, "queue", b, row'[b])
       ELSE Leaves(p) /\ UNCHANGED row
  /\ UNCHANGED <<networkVars, platform, job, raced, crashes>>

(* Queueing. *)

\* enqueue: the job of this hash, made in a session of its own.
Enqueues(b, uid) == job' = IF job[b].state = "NONE" THEN [job EXCEPT ![b] = [state |-> "OPEN", ref |-> uid]] ELSE job

\* enqueue_anchor up to the job.  The integrity event comes first; when it fails its
\* rollback makes the session read the row again.
Queue(p) ==
  LET b == Now(p) IN
  /\ proc[p].at = "queue"
  /\ \E r \in {proc[p].seen, row[b]} :
       IF r.queued THEN Leaves(p) /\ UNCHANGED job
       ELSE /\ Enqueues(b, r.uid)
            /\ proc' = [proc EXCEPT ![p].at = "mark", ![p].seen = r]
  /\ UNCHANGED <<networkVars, platform, row, raced, crashes>>

\* A pass goes on with its next row, as it was loaded.
NextRow(p) ==
  LET rest == Tail(proc[p].todo) IN
  proc' = [proc EXCEPT ![p] = IF rest = <<>> THEN Idle
                              ELSE [Idle EXCEPT !.at = "reconcile", !.todo = rest]]

\* The row's job and state, by primary key and without looking at it again.
Mark(p) ==
  LET b == Now(p) IN
  /\ proc[p].at = "mark"
  /\ row' = [row EXCEPT ![b].queued = TRUE,
                        ![b].state = IF proc[p].seen.state = "ANCHOR_PENDING" THEN @ ELSE "ANCHOR_PENDING"]
  /\ NextRow(p)
  /\ UNCHANGED <<networkVars, platform, job, raced, crashes>>

\* Variant: looks for rows a request has left pending.
UnqueuedPending == {b \in Body : ~row[b].queued /\ row[b].state = "ANCHOR_PENDING"}

Unqueued == {b \in Body : ~row[b].queued /\ row[b].state = "SIGNED"}

\* reconcile_unanchored_counterparty_attestations selects its batch at once.
Reconcile(p) ==
  /\ proc[p].at = "idle" /\ Unqueued # {}
  /\ proc' = [proc EXCEPT ![p] = [Idle EXCEPT !.at = "reconcile", !.todo = SetToSeq(Unqueued)]]
  /\ UNCHANGED <<networkVars, platform, row, job, raced, crashes>>

ReconcileRow(p) ==
  LET b == Now(p) IN
  /\ proc[p].at = "reconcile"
  /\ Enqueues(b, row[b].uid)
  /\ proc' = [proc EXCEPT ![p].at = "mark", ![p].seen = [row[b] EXCEPT !.queued = FALSE, !.state = "SIGNED"]]
  /\ UNCHANGED <<networkVars, platform, row, raced, crashes>>

--------------------------------------------------------------------------------
(* Results and withdrawal. *)

InFlight(b) == \E p \in Process : b \in ToSet(proc[p].todo) /\ proc[p].at \in {"queue", "reconcile", "mark", "result"}

\* Variant: the result of a job is applied to a withdrawn row too.
AppliesAlways(r) == TRUE

\* _apply_counterparty_receipt leaves a withdrawn row alone.
Applies(r) == r.state \notin {"NONE", "WITHDRAWN"}

\* _record_result reads the job and its subject; one process at a time has the job.
ResultRead(p, b) ==
  /\ proc[p].at = "idle" /\ job[b].state = "OPEN"
  /\ \A q \in Process : ~(proc[q].at = "result" /\ Now(q) = b)
  /\ At(p, "result", b, row[b])
  /\ UNCHANGED <<networkVars, platform, row, job, raced, crashes>>

Settled(result) == CASE result = "CONFIRMED" -> "ANCHORED" [] result = "FAILED" -> "ANCHOR_FAILED" [] OTHER -> "ANCHOR_PENDING"

\* Job and row in one commit; a column is written if it differs from what was read.
ResultCommit(p, result) ==
  LET b == Now(p)
      seen == proc[p].seen
      new == Settled(result) IN
  /\ proc[p].at = "result"
  /\ job' = [job EXCEPT ![b].state = result]
  /\ row' = IF ~Applies(seen) THEN row
            ELSE [row EXCEPT ![b].state = IF seen.state = new THEN @ ELSE new,
                             ![b].uid = IF seen.uid = NoUid /\ result = "CONFIRMED" THEN job[b].ref ELSE @]
  /\ Leaves(p)
  /\ UNCHANGED <<networkVars, platform, raced, crashes>>

\* withdraw_coattestation loads the row.
WithdrawRead(p, b) ==
  /\ proc[p].at = "idle" /\ row[b].state \notin {"NONE", "WITHDRAWN"}
  /\ At(p, "withdraw", b, NoRow)
  /\ UNCHANGED <<networkVars, platform, row, job, raced, crashes>>

Withdraw(p) ==
  LET b == Now(p) IN
  /\ proc[p].at = "withdraw"
  /\ row' = [row EXCEPT ![b].state = "WITHDRAWN", ![b].withdrawn = TRUE]
  /\ raced' = IF InFlight(b) THEN raced \cup {b} ELSE raced
  /\ Leaves(p)
  /\ UNCHANGED <<networkVars, platform, job, crashes>>

\* A process dies, or its request fails.
Crash(p) ==
  /\ proc[p].at # "idle" /\ transactions + crashes < MaxTroubles
  /\ crashes' = crashes + 1
  /\ Leaves(p)
  /\ UNCHANGED <<networkVars, platform, row, job, raced>>

Work(p) ==
  \/ Insert(p) \/ Queue(p) \/ Mark(p) \/ ReconcileRow(p) \/ Withdraw(p)
  \/ \E result \in {"OPEN", "CONFIRMED", "FAILED"} : ResultCommit(p, result)

Beside ==
  /\ transactions + crashes < MaxTroubles
  /\ \E sender \in Operator, b \in Body :
       Enroll(sender, b.signer) \/ Suspend(sender, b.signer) \/ Reinstate(sender, b.signer) \/ Offboard(sender, b.signer)

Next ==
  \/ (IF Committing THEN Beside ELSE NetworkNext) /\ UNCHANGED coVars
  \/ PlatformAttested
  \/ \E p \in Process : Work(p) \/ Reconcile(p) \/ Crash(p)
  \/ \E p \in Process, b \in Body : Submit(p, b) \/ ResultRead(p, b) \/ WithdrawRead(p, b)

Spec == Init /\ [][Next]_vars

\* Requests that have begun go on, and the dispatcher keeps running its reconciler.
FairSpec == Spec /\ \A p \in Process : WF_vars(Work(p)) /\ SF_vars(Reconcile(p))

--------------------------------------------------------------------------------
Row == [state : RowState, queued : BOOLEAN, withdrawn : BOOLEAN, uid : {Uid, NoUid}]
Job == [state : {"NONE", "OPEN", "CONFIRMED", "FAILED"}, ref : {Uid, NoUid}]
Session ==
  [at : {"idle", "insert", "queue", "mark", "reconcile", "result", "withdraw"},
   todo : Seq(Body), seen : Row]

CoAttestationTypeOK ==
  /\ NetworkTypeOK
  /\ platform \in {Uid, NoUid}
  /\ row \in [Body -> Row] /\ job \in [Body -> Job] /\ proc \in [Process -> Session]
  /\ raced \subseteq Body /\ crashes \in Nat

\* A commitment claims no more than the chain has: ANCHORED and ANCHOR_FAILED say
\* how its job ended, and a row that names the platform's attestation has a body
\* that was signed over it and a job that refers to it ("a counterparty must bind
\* to it", _validate_body), whenever the platform's attestation arrived.
CommitmentIsWhatItSays ==
  \A b \in Body :
    /\ row[b].state = "ANCHORED" => job[b].state = "CONFIRMED"
    /\ row[b].state = "ANCHOR_FAILED" => job[b].state = "FAILED"
    /\ row[b].state = "ANCHOR_PENDING" => job[b].state # "NONE"
    /\ row[b].uid # NoUid => b.uid = row[b].uid
    /\ job[b].state # "NONE" => job[b].ref = row[b].uid

\* A withdrawal that no other session overlapped is never undone: not by a replay
\* of the submission, the reconciler or a late result of the job.
QuietWithdrawalStands ==
  \A b \in Body : row[b].withdrawn /\ b \notin raced => row[b].state = "WITHDRAWN"

\* "Mark a commitment withdrawn" (withdraw).
WithdrawnIsShown == \A b \in Body : row[b].withdrawn => row[b].state = "WITHDRAWN"

\* "Queue commitments whose signature was stored just before a crash"
\* (reconcile_unanchored_counterparty_attestations): no signature stays SIGNED.
SignedIsQueued == \A b \in Body : row[b].state = "SIGNED" ~> row[b].state # "SIGNED"
================================================================================
