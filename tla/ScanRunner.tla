------------------------------- MODULE ScanRunner -------------------------------
(***************************************************************************)
(* run_scan (apps/api/app/services/scan_runner.py) executed by several     *)
(* workers for one scan, over the stage ledger and an at-least-once        *)
(* transport.  A step is one database commit, or one read whose value is   *)
(* used after other sessions may have committed.                           *)
(*                                                                         *)
(* Sessions are created with expire_on_commit=False (db.py), so a worker   *)
(* keeps the scan and the stage rows it has loaded: frame[w].life is the   *)
(* lifecycle it remembers, frame[w].view the rows it remembers, and an     *)
(* ORM write updates only a column that differs from what is remembered.   *)
(*                                                                         *)
(* Left out: the media purge at the end of a run, usage and audit rows,    *)
(* and the proof object inside the packet (status, receipt).               *)
(***************************************************************************)
EXTENDS StageLedger, Sequences

CONSTANTS
  Messages,      \* bound of the model on stream entries that name the scan
  Strict,        \* settings.proof_require_chain
  Stoppable,     \* whether the model lets the scan be cancelled or time out
  MaxCrashes,    \* bound of the model on process deaths
  MaxOvertakes   \* bound of the model on leases that expire under a live worker

ASSUME RunnerAssumption ==
  /\ Stage = {"EVIDENCE", "STATEMENT", "PROOF", "NOTIFY"}
  /\ Messages \in Nat \ {0}
  /\ Strict \in BOOLEAN
  /\ Stoppable \in BOOLEAN
  /\ MaxCrashes \in Nat
  /\ MaxOvertakes \in Nat

VARIABLES
  scan,        \* the row of scans: state, lifecycle_state, evidence_packet
  statements,  \* the packets the RESULT statements commit to, in issue order
  sent,        \* a scan.completed event has been queued for the webhooks
  chain,       \* the anchor job of the packet: none, submitted or confirmed
  stop,        \* cancel_requested_at is set or deadline_at has passed
  msg,         \* msg[m]: none, ready, pending (delivered, not acked) or acked
  frame,       \* frame[w]: the activation record of run_scan in worker w
  crashes,     \* process deaths so far
  overtakes,   \* leases that expired while a live worker held them
  overlapped   \* history: two live workers have handled the scan at once

scanVars == <<scan, statements, sent, chain, stop>>
envVars == <<crashes, overtakes, overlapped>>
vars == <<ledgerVars, scanVars, msg, frame, envVars>>

Message == 1 .. Messages

Packet == [kind : {"none", "progress", "result", "failure"}, of : Nat]
NoPacket == [kind |-> "none", of |-> 0]

ScanState == {"QUEUED", "PROCESSING", "COMPLETED", "FAILED"}
Lifecycle == {"ACCEPTED", "RUNNING", "RESULT_READY", "COMPLETED", "FAILED", "CANCELLED"}
ScanRow == [state : ScanState, lifecycle : Lifecycle, packet : Packet]

At == {"idle", "dead", "start", "claim", "mark", "acquire", "swap", "report", "build", "stopped",
       "finalize", "mark_done", "resume", "inspect", "lookup", "issue", "audit", "anchor",
       "write", "notify", "settle", "ack"}

View == [Stage -> [state : StageState, epoch : Nat]]

Frame == [at : At, stage : Stage, msg : Message \cup {0}, resumed : BOOLEAN,
          life : Lifecycle, packet : Packet, class : RetryClass \cup {"none"},
          anchored : BOOLEAN, view : View]

NoView == [s \in Stage |-> [state |-> "MISSING", epoch |-> 0]]

IdleFrame == [at |-> "idle", stage |-> "EVIDENCE", msg |-> 0, resumed |-> FALSE,
              life |-> "ACCEPTED", packet |-> NoPacket, class |-> "none",
              anchored |-> FALSE, view |-> NoView]

\* An accepted scan: its row and its outbox message are committed together.
Init ==
  /\ LedgerInit
  /\ scan = [state |-> "QUEUED", lifecycle |-> "ACCEPTED", packet |-> NoPacket]
  /\ statements = <<>>
  /\ sent = FALSE
  /\ chain = "none"
  /\ stop = FALSE
  /\ msg = [m \in Message |-> IF m = 1 THEN "ready" ELSE "none"]
  /\ frame = [w \in Worker |-> IdleFrame]
  /\ crashes = 0
  /\ overtakes = 0
  /\ overlapped = FALSE

Busy(w) == frame[w].at \notin {"idle", "dead"}
At_(w, places) == frame[w].at \in places
OnStage(w, s) == frame[w].stage = s

Goto(w, place) == frame' = [frame EXCEPT ![w].at = place]
Become(w, f) == frame' = [frame EXCEPT ![w] = f]

\* run_scan returns; what it remembered is gone with its session.
Finished(f) == [IdleFrame EXCEPT !.at = "ack", !.msg = f.msg]

\* A message that wakes the runner, in the first unused slot.
Woken(ms) ==
  IF \E m \in Message : ms[m] = "none"
  THEN [ms EXCEPT ![CHOOSE m \in Message : /\ ms[m] = "none"
                                           /\ \A k \in Message : k < m => ms[k] # "none"]
                    = "ready"]
  ELSE ms

--------------------------------------------------------------------------------
(* Transport and processes. *)

\* XREADGROUP hands out a new entry, XAUTOCLAIM one that has been pending too
\* long, whether its consumer is dead or only slow.
Deliver(w, m) ==
  /\ At_(w, {"idle"})
  /\ msg[m] \in {"ready", "pending"}
  /\ msg' = [msg EXCEPT ![m] = "pending"]
  /\ frame' = [frame EXCEPT ![w] = [IdleFrame EXCEPT !.at = "start", !.msg = m]]
  /\ overlapped' = (overlapped \/ \E v \in Worker : Busy(v))
  /\ UNCHANGED <<ledgerVars, scanVars, crashes, overtakes>>

\* XACK, a step after the last commit of run_scan.
Acknowledge(w) ==
  /\ At_(w, {"ack"})
  /\ msg' = [msg EXCEPT ![frame[w].msg] = "acked"]
  /\ Become(w, IdleFrame)
  /\ Leave(w)
  /\ UNCHANGED <<scanVars, envVars>>

Crash(w) ==
  /\ Busy(w)
  /\ crashes < MaxCrashes
  /\ crashes' = crashes + 1
  /\ frame' = [frame EXCEPT ![w] = [IdleFrame EXCEPT !.at = "dead"]]
  /\ Leave(w)
  /\ UNCHANGED <<scanVars, msg, overtakes, overlapped>>

\* recover_orphaned_scans, at the start of every process.
Unfinished ==
  \/ scan.state \in {"QUEUED", "PROCESSING"}
  \/ scan.state = "COMPLETED" /\ scan.lifecycle = "RESULT_READY"

Restart(w) ==
  /\ At_(w, {"dead"})
  /\ frame' = [frame EXCEPT ![w] = IdleFrame]
  /\ msg' = IF Unfinished THEN Woken(msg) ELSE msg
  /\ UNCHANGED <<ledgerVars, scanVars, envVars>>

\* Time passes for a lease: freely when nobody lives who holds it, and at most
\* MaxOvertakes times when its holder is merely slow.
Expire(s) ==
  /\ LeaseExpires(s)
  /\ IF \E w \in Worker : HoldsCurrent(w, s)
     THEN overtakes < MaxOvertakes /\ overtakes' = overtakes + 1
     ELSE UNCHANGED overtakes
  /\ UNCHANGED <<scanVars, msg, frame, crashes, overlapped>>

Reap(r) == ReaperNext(r) /\ UNCHANGED <<scanVars, msg, frame, envVars>>

\* cancel_scan, refused once the scan is terminal.
CancelScan ==
  /\ Stoppable /\ ~stop
  /\ scan.state \notin {"COMPLETED", "FAILED"}
  /\ stop' = TRUE
  /\ UNCHANGED <<ledgerVars, scan, statements, sent, chain, msg, frame, envVars>>

\* deadline_at, set when the scan is accepted, passes.
DeadlinePasses ==
  /\ Stoppable /\ ~stop
  /\ stop' = TRUE
  /\ UNCHANGED <<ledgerVars, scan, statements, sent, chain, msg, frame, envVars>>

\* The dispatcher of the anchor service applies the confirmed receipt to the
\* scan and, in strict mode, wakes the runner.
Confirm ==
  /\ chain' = "confirmed"
  /\ scan' = IF Strict THEN [scan EXCEPT !.lifecycle = "COMPLETED"] ELSE scan
  /\ msg' = IF Strict THEN Woken(msg) ELSE msg
  /\ UNCHANGED <<statements, sent, stop>>

ChainConfirms ==
  /\ chain = "submitted"
  /\ Confirm
  /\ UNCHANGED <<ledgerVars, frame, envVars>>

--------------------------------------------------------------------------------
(* run_scan up to its first stage. *)

\* db.get(Scan), then ensure_stages.
Start(w) ==
  /\ At_(w, {"start"})
  /\ LET f == [frame[w] EXCEPT !.life = scan.lifecycle] IN
     Become(w, CASE scan.state = "FAILED" -> Finished(f)
                 [] scan.state = "COMPLETED" ->
                      [f EXCEPT !.at = "resume", !.resumed = TRUE, !.packet = scan.packet]
                 [] OTHER -> [f EXCEPT !.at = "claim"])
  /\ IF scan.state # "FAILED" /\ \E s \in Stage : row[s].state = "MISSING"
     THEN EnsureStages
     ELSE UNCHANGED ledgerVars
  /\ UNCHANGED <<scanVars, msg, envVars>>

\* The UPDATE that claims the scan, and the refresh that follows it.
Claim(w) ==
  /\ At_(w, {"claim"})
  /\ IF scan.state \in {"QUEUED", "PROCESSING"}
     THEN /\ scan' = [scan EXCEPT !.state = "PROCESSING"]
          /\ Become(w, [frame[w] EXCEPT !.at = "mark", !.life = scan.lifecycle])
     ELSE /\ Become(w, Finished(frame[w]))
          /\ UNCHANGED scan
  /\ UNCHANGED <<ledgerVars, statements, sent, chain, stop, msg, envVars>>

\* An ORM write of the lifecycle by a worker that remembers `life`.
Lifecycled(sc, life, new) == IF life = new THEN sc ELSE [sc EXCEPT !.lifecycle = new]

\* set_lifecycle(RUNNING), whatever the scan has become since the refresh.
Mark(w) ==
  /\ At_(w, {"mark"})
  /\ scan' = Lifecycled(scan, frame[w].life, "RUNNING")
  /\ Become(w, [frame[w] EXCEPT !.at = "acquire", !.life = "RUNNING"])
  /\ UNCHANGED <<ledgerVars, statements, sent, chain, stop, msg, envVars>>

--------------------------------------------------------------------------------
(* Which stage comes next, from what the worker remembers. *)

AtStage(f, s) == [f EXCEPT !.at = "acquire", !.stage = s]

\* Variant: the gate is gone.
EnterNotifyUngated(f) == AtStage(f, "NOTIFY")

\* In strict mode notification waits for the remembered lifecycle.
EnterNotify(f) == IF Strict /\ f.life # "COMPLETED" THEN Finished(f) ELSE AtStage(f, "NOTIFY")

Remembers(f, s, states) == f.view[s].state \in states

ResumeNotify(f) ==
  IF Remembers(f, "PROOF", {"SUCCEEDED"}) /\ Remembers(f, "NOTIFY", Claimable)
  THEN EnterNotify(f)
  ELSE Finished(f)

EnterProof(f) ==
  IF f.resumed /\ ~Remembers(f, "PROOF", Claimable)
  THEN ResumeNotify(f)
  ELSE AtStage(f, "PROOF")

AfterProof(f) == IF f.resumed THEN ResumeNotify(f) ELSE EnterNotify(f)

\* Variant: a statement stage that was not acquired does not stop the run.
UnacquiredCarriesOn(f) == IF f.stage = "STATEMENT" THEN AtStage(f, "PROOF") ELSE Finished(f)

\* acquire returned None: only the proof stage of a first run carries on.
Unacquired(f) == IF f.stage = "PROOF" /\ ~f.resumed THEN EnterNotify(f) ELSE Finished(f)

\* The first step of a stage that was acquired.
Entry(s) == CASE s = "EVIDENCE"  -> "report"
              [] s = "STATEMENT" -> "lookup"
              [] s = "PROOF"     -> "anchor"
              [] s = "NOTIFY"    -> "notify"

\* A rollback makes the session forget: it reads the rows again.
CurrentView == [s \in Stage |-> [state |-> row[s].state, epoch |-> row[s].epoch]]
Refreshed(f) == [f EXCEPT !.life = scan.lifecycle, !.view = IF f.resumed THEN CurrentView ELSE @]

--------------------------------------------------------------------------------
(* acquire, inside run_scan. *)

\* A first run holds no rows, so the SELECT of acquire sees the current one.
Acquire(w) ==
  /\ At_(w, {"acquire"})
  /\ ~frame[w].resumed
  /\ IF MayClaim(row[frame[w].stage])
     THEN AcquireRead(w, frame[w].stage) /\ Goto(w, "swap")
     ELSE Become(w, Unacquired(frame[w])) /\ UNCHANGED ledgerVars
  /\ UNCHANGED <<scanVars, msg, envVars>>

\* A resumed run still holds the rows of stage_rows(): the SELECT returns those
\* objects unchanged, and the swap expects the epoch they remember.
AcquireRemembered(w) ==
  /\ At_(w, {"acquire"})
  /\ frame[w].resumed
  /\ LET s == frame[w].stage
         e == frame[w].view[s].epoch
     IN seen' = [seen EXCEPT ![w] = {[stage |-> s, attempt |-> e, epoch |-> e]}]
  /\ Goto(w, "swap")
  /\ UNCHANGED <<row, token, doomed, scanVars, msg, envVars>>

Swap(w) ==
  /\ At_(w, {"swap"})
  /\ \/ AcquireSwap(w) /\ Goto(w, Entry(frame[w].stage))
     \/ AcquireLost(w) /\ Become(w, Unacquired(frame[w]))
  /\ UNCHANGED <<scanVars, msg, envVars>>

FailIfCurrent(w, s, c) == IF HoldsCurrent(w, s) THEN Fail(w, s, c) ELSE UNCHANGED ledgerVars

--------------------------------------------------------------------------------
(* _run_evidence_stage. *)

Own(w, kind) == [kind |-> kind, of |-> token[w]["EVIDENCE"]]

\* report: record_progress is guarded by the epoch, the packet is not.  The two
\* commits are one step: a lease lost between them is as good as lost before.
Report(w) ==
  /\ At_(w, {"report", "build"})
  /\ IF HoldsCurrent(w, "EVIDENCE") THEN Renew(w, "EVIDENCE") ELSE UNCHANGED ledgerVars
  /\ scan' = [scan EXCEPT !.packet = Own(w, "progress")]
  /\ Goto(w, IF stop THEN "stopped" ELSE "build")
  /\ UNCHANGED <<statements, sent, chain, stop, msg, envVars>>

\* complete commits the session, and with it the result build_evidence_packet
\* left in it, before it finds out that the epoch has moved on.
EvidenceCommit(w) ==
  /\ At_(w, {"build"})
  /\ scan' = [scan EXCEPT !.packet = Own(w, "result")]
  /\ IF HoldsCurrent(w, "EVIDENCE")
     THEN /\ Complete(w, "EVIDENCE")
          /\ Become(w, [frame[w] EXCEPT !.at = "mark_done", !.packet = Own(w, "result")])
     ELSE /\ Become(w, Finished(frame[w]))
          /\ UNCHANGED ledgerVars
  /\ UNCHANGED <<statements, sent, chain, stop, msg, envVars>>

\* The second commit of a finished evidence stage.
MarkDone(w) ==
  /\ At_(w, {"mark_done"})
  /\ scan' = Lifecycled([scan EXCEPT !.state = "COMPLETED"], frame[w].life, "RESULT_READY")
  /\ Become(w, AtStage([frame[w] EXCEPT !.life = "RESULT_READY"], "STATEMENT"))
  /\ UNCHANGED <<ledgerVars, statements, sent, chain, stop, msg, envVars>>

\* An exception: rollback and ledger.fail, a no-op under a stale epoch.
EvidenceFails(w, c) ==
  /\ \/ At_(w, {"build"}) /\ c \in {"TRANSIENT", "TERMINAL"}
     \/ At_(w, {"stopped"}) /\ c = "CANCELLED"
  /\ FailIfCurrent(w, "EVIDENCE", c)
  /\ Become(w, [frame[w] EXCEPT !.at = "finalize", !.class = c])
  /\ UNCHANGED <<scanVars, msg, envVars>>

\* Variant: a transient failure is swallowed and its message acknowledged.
FinalizeTransientAcks(w) ==
  /\ At_(w, {"finalize"})
  /\ frame[w].class = "TRANSIENT"
  /\ scan' = [scan EXCEPT !.state = "QUEUED"]
  /\ Become(w, Finished(frame[w]))
  /\ UNCHANGED <<ledgerVars, statements, sent, chain, stop, msg, envVars>>

\* _finalize_failure decides on the class of the exception alone.  A transient
\* failure is raised again, so its message stays pending.
FinalizeTransient(w) ==
  /\ At_(w, {"finalize"})
  /\ frame[w].class = "TRANSIENT"
  /\ scan' = [scan EXCEPT !.state = "QUEUED"]
  /\ Become(w, IdleFrame)
  /\ Leave(w)
  /\ UNCHANGED <<statements, sent, chain, stop, msg, envVars>>

FinalizeTerminal(w) ==
  /\ At_(w, {"finalize"})
  /\ frame[w].class # "TRANSIENT"
  /\ scan' = [state |-> "FAILED", packet |-> Own(w, "failure"),
              lifecycle |-> IF frame[w].class = "CANCELLED" THEN "CANCELLED" ELSE "FAILED"]
  /\ Become(w, Finished(frame[w]))
  /\ UNCHANGED <<ledgerVars, statements, sent, chain, stop, msg, envVars>>

--------------------------------------------------------------------------------
(* _run_statement_stage. *)

\* Variant: no look for an existing statement.
LookupSkipped(w) ==
  /\ At_(w, {"lookup"})
  /\ Goto(w, "issue")
  /\ UNCHANGED <<ledgerVars, scanVars, msg, envVars>>

\* Variant: whatever is there counts as an existing statement.
LookupAlwaysFinds(w) ==
  /\ At_(w, {"lookup"})
  /\ Goto(w, "settle")
  /\ UNCHANGED <<ledgerVars, scanVars, msg, envVars>>

Lookup(w) ==
  /\ At_(w, {"lookup"})
  /\ Goto(w, IF statements = <<>> THEN "issue" ELSE "settle")
  /\ UNCHANGED <<ledgerVars, scanVars, msg, envVars>>

\* issue_statement commits the signed row before the ledger hears of it.
Issue(w) ==
  /\ At_(w, {"issue"})
  /\ statements' = Append(statements, frame[w].packet)
  /\ Goto(w, "settle")
  /\ UNCHANGED <<ledgerVars, scan, sent, chain, stop, msg, envVars>>

\* complete; a stale epoch raises, and the handler returns None.
SettleStatement(w) ==
  /\ At_(w, {"settle"})
  /\ OnStage(w, "STATEMENT")
  /\ IF HoldsCurrent(w, "STATEMENT")
     THEN Complete(w, "STATEMENT") /\ Goto(w, "audit")
     ELSE Become(w, Finished(frame[w])) /\ UNCHANGED ledgerVars
  /\ UNCHANGED <<scanVars, msg, envVars>>

Audit(w) ==
  /\ At_(w, {"audit"})
  /\ Become(w, EnterProof(frame[w]))
  /\ UNCHANGED <<ledgerVars, scanVars, msg, envVars>>

\* Variant: the stage fails the way the evidence stage does.
StatementFailsTheScan(w, c) ==
  /\ At_(w, {"lookup", "issue", "audit"})
  /\ FailIfCurrent(w, "STATEMENT", c)
  /\ Become(w, [frame[w] EXCEPT !.at = "finalize", !.class = c])
  /\ UNCHANGED <<scanVars, msg, envVars>>

\* Any call of the stage raises, the audit record after complete included: the
\* stage is failed and run_scan returns as if all were well.
StatementFails(w, c) ==
  /\ \/ At_(w, {"lookup", "issue", "audit"})
     \/ At_(w, {"settle"}) /\ OnStage(w, "STATEMENT")
  /\ FailIfCurrent(w, "STATEMENT", c)
  /\ Become(w, Finished(frame[w]))
  /\ UNCHANGED <<scanVars, msg, envVars>>

--------------------------------------------------------------------------------
(* _run_proof_stage. *)

Anchored(w, yes) == Become(w, [frame[w] EXCEPT !.at = "write", !.anchored = yes])

\* anchor_packet finds the job confirmed, or confirms it within the call.
AnchorConfirmed(w) ==
  /\ At_(w, {"anchor"})
  /\ IF chain = "confirmed" THEN UNCHANGED <<scanVars, msg>> ELSE Confirm
  /\ Anchored(w, TRUE)
  /\ UNCHANGED <<ledgerVars, envVars>>

\* anchor_packet returns PENDING, or raises before or after it enqueued the job.
AnchorPending(w) ==
  /\ At_(w, {"anchor"})
  /\ chain' \in IF chain = "none" THEN {"none", "submitted"} ELSE {chain}
  /\ Anchored(w, FALSE)
  /\ UNCHANGED <<ledgerVars, scan, statements, sent, stop, msg, envVars>>

\* The packet with its proof object, and the lifecycle, in one commit.
WriteProof(w) ==
  /\ At_(w, {"write"})
  /\ LET l == IF frame[w].anchored \/ ~Strict THEN "COMPLETED" ELSE "RESULT_READY" IN
     /\ scan' = Lifecycled([scan EXCEPT !.packet = frame[w].packet], frame[w].life, l)
     /\ Become(w, [frame[w] EXCEPT !.at = "settle", !.life = l])
  /\ UNCHANGED <<ledgerVars, statements, sent, chain, stop, msg, envVars>>

\* Strict mode leaves an unconfirmed stage to a later delivery.
ProofWaits(w) ==
  /\ At_(w, {"settle"})
  /\ OnStage(w, "PROOF")
  /\ Strict /\ ~frame[w].anchored
  /\ FailIfCurrent(w, "PROOF", "TRANSIENT")
  /\ Become(w, Finished(frame[w]))
  /\ UNCHANGED <<scanVars, msg, envVars>>

SettleProof(w) ==
  /\ At_(w, {"settle"})
  /\ OnStage(w, "PROOF")
  /\ frame[w].anchored \/ ~Strict
  /\ IF HoldsCurrent(w, "PROOF")
     THEN /\ Complete(w, "PROOF")
          /\ Become(w, AfterProof(IF frame[w].resumed
                                  THEN [frame[w] EXCEPT !.view["PROOF"].state = "SUCCEEDED"]
                                  ELSE frame[w]))
     ELSE /\ Become(w, AfterProof(Refreshed(frame[w])))
          /\ UNCHANGED ledgerVars
  /\ UNCHANGED <<scanVars, msg, envVars>>

\* A commit of the stage raises: rollback, and the stage is left RUNNING.
ProofPersistFails(w) ==
  /\ \/ At_(w, {"write"})
     \/ At_(w, {"settle"}) /\ OnStage(w, "PROOF")
  /\ Become(w, AfterProof(Refreshed(frame[w])))
  /\ UNCHANGED <<ledgerVars, scanVars, msg, envVars>>

--------------------------------------------------------------------------------
(* _run_notify_stage. *)

\* queue_scan_completed commits the deliveries before the ledger hears of them.
Notify(w) ==
  /\ At_(w, {"notify"})
  /\ sent' = TRUE
  /\ Goto(w, "settle")
  /\ UNCHANGED <<ledgerVars, scan, statements, chain, stop, msg, envVars>>

SettleNotify(w) ==
  /\ At_(w, {"settle"})
  /\ OnStage(w, "NOTIFY")
  /\ IF HoldsCurrent(w, "NOTIFY") THEN Complete(w, "NOTIFY") ELSE UNCHANGED ledgerVars
  /\ Become(w, Finished(frame[w]))
  /\ UNCHANGED <<scanVars, msg, envVars>>

NotifyFails(w, c) ==
  /\ \/ At_(w, {"notify"})
     \/ At_(w, {"settle"}) /\ OnStage(w, "NOTIFY")
  /\ FailIfCurrent(w, "NOTIFY", c)
  /\ Become(w, Finished(frame[w]))
  /\ UNCHANGED <<scanVars, msg, envVars>>

--------------------------------------------------------------------------------
(* _resume_post_evidence_stages. *)

Resume(w) ==
  /\ At_(w, {"resume"})
  /\ Become(w, IF \E s \in {"STATEMENT", "PROOF", "NOTIFY"} : row[s].state \in Claimable
               THEN [frame[w] EXCEPT !.at = "inspect", !.view = CurrentView]
               ELSE Finished(frame[w]))
  /\ UNCHANGED <<ledgerVars, scanVars, msg, envVars>>

\* Variant: the stage is handed back as RUNNING, its lease cleared.
ReconciledAsRunning(f) ==
  IF f.view["STATEMENT"].state = "SUCCEEDED" THEN row
  ELSE [row EXCEPT !["STATEMENT"] = Released(@, "RUNNING")]

\* The UPDATE that reconciles a stage whose statement was issued: guarded by
\* the state and epoch of the remembered row, not by a lease.
Reconciled(f) ==
  LET v == f.view["STATEMENT"] IN
  IF v.state # "SUCCEEDED"
     /\ row["STATEMENT"].state = v.state /\ row["STATEMENT"].epoch = v.epoch
  THEN [row EXCEPT !["STATEMENT"] = Released(@, "SUCCEEDED")]
  ELSE row

Inspect(w) ==
  /\ At_(w, {"inspect"})
  /\ IF statements # <<>>
     THEN /\ row' = Reconciled(frame[w])
          /\ Become(w, EnterProof(frame[w]))
     ELSE /\ Become(w, IF Remembers(frame[w], "STATEMENT", Claimable)
                       THEN AtStage(frame[w], "STATEMENT")
                       ELSE Finished(frame[w]))
          /\ UNCHANGED row
  /\ UNCHANGED <<token, seen, doomed, scanVars, msg, envVars>>

--------------------------------------------------------------------------------
EvidenceNext(w) ==
  \/ Report(w) \/ EvidenceCommit(w) \/ MarkDone(w)
  \/ \E c \in RetryClass : EvidenceFails(w, c)
  \/ FinalizeTransient(w) \/ FinalizeTerminal(w)

StatementNext(w) ==
  \/ Lookup(w) \/ Issue(w) \/ SettleStatement(w) \/ Audit(w)
  \/ \E c \in {"TRANSIENT", "TERMINAL"} : StatementFails(w, c)

ProofNext(w) ==
  \/ AnchorConfirmed(w) \/ AnchorPending(w)
  \/ WriteProof(w) \/ ProofWaits(w) \/ SettleProof(w) \/ ProofPersistFails(w)

NotifyNext(w) ==
  \/ Notify(w) \/ SettleNotify(w)
  \/ \E c \in {"TRANSIENT", "TERMINAL"} : NotifyFails(w, c)

RunnerNext(w) ==
  \/ Start(w) \/ Claim(w) \/ Mark(w)
  \/ Acquire(w) \/ AcquireRemembered(w) \/ Swap(w)
  \/ EvidenceNext(w) \/ StatementNext(w) \/ ProofNext(w) \/ NotifyNext(w)
  \/ Resume(w) \/ Inspect(w)
  \/ Acknowledge(w)

Next ==
  \/ \E w \in Worker : RunnerNext(w) \/ Crash(w) \/ Restart(w)
  \/ \E w \in Worker, m \in Message : Deliver(w, m)
  \/ \E s \in Stage : Expire(s)
  \/ \E r \in Reaper : Reap(r)
  \/ CancelScan \/ DeadlinePasses \/ ChainConfirms

Spec == Init /\ [][Next]_vars

\* Threads are scheduled, brokers deliver, the lease of nobody runs out and the
\* reaper runs.  No fairness is assumed of people, of the chain, of a lease whose
\* holder lives, or of a process that died.
ExpireOrphan(s) == Expire(s) /\ \A w \in Worker : ~HoldsCurrent(w, s)

RunnerFairness ==
  /\ \A w \in Worker :
       /\ WF_vars(RunnerNext(w))
       /\ WF_vars(\E m \in Message : Deliver(w, m))
  /\ \A s \in Stage : WF_vars(ExpireOrphan(s))
  /\ \A r \in Reaper : WF_vars(Reap(r))

FairSpec == Spec /\ RunnerFairness

--------------------------------------------------------------------------------
RunnerTypeOK ==
  /\ LedgerTypeOK
  /\ scan \in ScanRow
  /\ statements \in Seq(Packet)
  /\ sent \in BOOLEAN
  /\ chain \in {"none", "submitted", "confirmed"}
  /\ stop \in BOOLEAN
  /\ msg \in [Message -> {"none", "ready", "pending", "acked"}]
  /\ frame \in [Worker -> Frame]
  /\ crashes \in 0 .. MaxCrashes
  /\ overtakes \in 0 .. MaxOvertakes
  /\ overlapped \in BOOLEAN

\* "Proof and notification are causally downstream of the durable signed
\* statement" (_run_stages), through every crash, overtaking and resumption.
ProofAfterStatement == chain # "none" \/ sent => statements # <<>>

\* "completed notifications are truthful only after the public-chain receipt
\* satisfies the configured confirmation policy" (_run_notify_stage), although
\* the gate reads a lifecycle the worker remembers.
StrictNotifyAfterChain ==
  Strict /\ (sent \/ scan.lifecycle = "COMPLETED") => chain = "confirmed"

\* The invariants of the ledger survive the two places where the runner steps
\* around it: acquire on a remembered row, and the reconciling UPDATE.
RunnerKeepsLedger == LedgerInv

\* A stage recorded as SUCCEEDED has had its effect: no crash, late worker or
\* reconciliation makes the ledger claim a statement, a confirmation or an
\* event that does not exist.
SucceededMeansDone ==
  /\ row["STATEMENT"].state = "SUCCEEDED" => statements # <<>>
  /\ row["PROOF"].state = "SUCCEEDED" /\ Strict => chain = "confirmed"
  /\ row["NOTIFY"].state = "SUCCEEDED" => sent

\* "Reconcile that crash window ... instead of issuing a second statement": as
\* long as no lease expires under a live worker, a scan has at most one RESULT
\* statement, and it signs a finished result, whatever crashes and restarts.  And
\* "Scan.state=COMPLETED means the immutable evidence result exists".
OneResultStatement ==
  overtakes = 0 =>
    /\ Len(statements) <= 1
    /\ \A i \in DOMAIN statements : statements[i].kind = "result"
    /\ scan.state = "COMPLETED" => scan.packet.kind = "result"

\* A terminal state is left alone as long as one worker at a time handles the
\* scan: cancellation, failure paths and recoveries never reopen it.
TerminalStep == scan.state \in {"COMPLETED", "FAILED"} => scan'.state = scan.state
TerminalStands == [][~overlapped' => TerminalStep]_vars

\* An undisturbed scan comes to an end, or has spent its retry budget.
ScanEnds ==
  \/ scan.state \in {"COMPLETED", "FAILED"}
  \/ row["EVIDENCE"].state = "FAILED_TERMINAL"

Disturbed == crashes > 0 \/ overtakes > 0 \/ overlapped
UndisturbedScanFinishes == <>(ScanEnds \/ Disturbed)

--------------------------------------------------------------------------------
(* What the source promises and its steps do not keep. *)

\* "a stale worker that wakes after expiry is rejected instead of overwriting a
\* newer attempt" (orchestration.py): the packet on the scan never goes back to
\* an older epoch.
EvidenceNeverRegresses == [][scan'.packet.of >= scan.packet.of]_vars

\* "a lost, duplicated or replayed message cannot change a committed outcome"
\* (orchestration.py).
CommittedOutcomeStands == [][TerminalStep]_vars

\* "an API, queue or worker crash can delay the result but cannot lose it"
\* (scans.py): an unfinished scan nobody works on can still be acquired.
UnfinishedIsClaimable ==
  scan.state \in {"QUEUED", "PROCESSING"} /\ (\A w \in Worker : ~Busy(w)) =>
    row["EVIDENCE"].state \in Claimable \cup {"MISSING", "RUNNING"}

\* "Wake the scan runner so its retryable PROOF stage and pending NOTIFY/review
\* work complete after asynchronous chain confirmation" (blockchain.py): when
\* the messages are used up, no confirmed scan waits with both still to do.
Quiet == /\ \A w \in Worker : ~Busy(w)
         /\ \A m \in Message : msg[m] \notin {"ready", "pending"}

ConfirmationIsHeard ==
  Quiet /\ chain = "confirmed" =>
    ~(row["PROOF"].state = "FAILED_RETRYABLE" /\ row["NOTIFY"].state = "PENDING")
================================================================================
