----------------------------- MODULE TransparencyLog -----------------------------
(***************************************************************************)
(* Evidence statements and integrity events, the transparency log that       *)
(* commits to them, its signed checkpoints and their anchor jobs             *)
(* (apps/api/app/services/statements.py, transparency.py, and the            *)
(* reconcilers of blockchain.py), in several processes over one database.    *)
(*                                                                         *)
(* A record is committed first, then appended to the log, then the           *)
(* checkpoint that covers it is queued for the chain: three transactions,    *)
(* with a dispatcher that picks up what a failure left between them.         *)
(*                                                                         *)
(* Rows are numbered in the order of their commits.  A signature and a       *)
(* digest are the number of the row.                                         *)
(***************************************************************************)
EXTENDS Naturals, Sequences, FiniteSets, FiniteSetsExt, Merkle

CONSTANTS
  Process,       \* request handlers and dispatcher threads
  Scan,
  NoScan,        \* scan of an integrity event
  Changes,       \* the status changes reviewers ask for
  Interval,      \* transparency_checkpoint_interval
  AdvisoryLock,  \* PostgreSQL: append and flush hold a lock to their commit
  Histories,     \* sizes of the log when the model starts
  MaxRecords,    \* bound of the model on records committed after the start
  MaxFaults      \* bound of the model on requests that fail or die half way

ASSUME LogAssumption ==
  /\ NoScan \notin Scan
  /\ Changes \subseteq {"SUPERSESSION", "DISPUTE", "REVOCATION"}
  /\ Interval \in Nat \ {0}
  /\ AdvisoryLock \in BOOLEAN
  /\ Histories \subseteq Nat
  /\ MaxRecords \in Nat
  /\ MaxFaults \in Nat

VARIABLES
  record,  \* evidence_statements and integrity_events, in the order of commit
  leaf,    \* transparency_leaves
  ckpt,    \* transparency_checkpoints
  job,     \* the checkpoint rows of blockchain_anchor_jobs
  proc,    \* proc[p]: the request or the dispatcher pass in p
  faults,
  history  \* the size of the log at the start

vars == <<record, leaf, ckpt, job, proc, faults, history>>

\* CORRECTION is SUPERSESSION under another name; EVENT is an integrity event.
StatusChange == {"SUPERSESSION", "DISPUTE", "REVOCATION"}
StatementStatus == {"ACTIVE", "SUPERSEDED", "DISPUTED", "REVOKED"}

Record == [type : StatusChange \cup {"RESULT", "EVENT"}, scan : Scan \cup {NoScan},
           previous : Nat, status : StatementStatus]

At == {"idle", "status", "append", "insert", "flush", "enqueue"}

\* `record` is the row at work, or for "status" the predecessor it read; `next`
\* the index append computed; `seen` the log as flush read it; `size` the
\* checkpoint of the receipt.
Activation == [at : At, recovers : BOOLEAN, record : Nat, next : Nat,
               seen : Seq(Nat), size : Nat]

Idle == [at |-> "idle", recovers |-> FALSE, record |-> 0, next |-> 0,
         seen |-> <<>>, size |-> 0]

Rows == DOMAIN record
Logged(r) == \E l \in leaf : l.record = r


\* ORDER BY leaf_index.
Before(k, l) == k.index < l.index \/ (k.index = l.index /\ k.record < l.record)
InOrder(rows) ==
  [i \in 1 .. Cardinality(rows) |->
     (CHOOSE l \in rows : Cardinality({k \in rows : Before(k, l)}) = i - 1).record]

\* _leaf_hashes of the first n leaves.
Hashes(log, n) == [i \in 1 .. n |-> LeafHash(log[i])]
RootAt(log, n) == ComputeRoot(Hashes(log, n))

Event == [type |-> "EVENT", scan |-> NoScan, previous |-> 0, status |-> "ACTIVE"]
Result(s) == [type |-> "RESULT", scan |-> s, previous |-> 0, status |-> "ACTIVE"]

\* An earlier history of the result of a scan and h - 1 events, logged and under
\* one anchored checkpoint.
Init ==
  \E h \in Histories, s \in Scan :
    LET log == [i \in 1 .. h |-> i]
        head == [size |-> h, root |-> RootAt(log, h)] IN
    /\ record = [i \in 1 .. h |-> IF i = 1 THEN Result(s) ELSE Event]
    /\ leaf = {[index |-> i - 1, record |-> i] : i \in 1 .. h}
    /\ ckpt = IF h = 0 THEN {} ELSE {[head |-> head, external |-> {head}]}
    /\ job = IF h = 0 THEN {} ELSE {[head |-> head, state |-> "CONFIRMED"]}
    /\ proc = [p \in Process |-> Idle]
    /\ faults = 0
    /\ history = h

--------------------------------------------------------------------------------
(* Committing records. *)

\* The bound counts the reviewers that have read a statement.
MayCommit ==
  Len(record) + Cardinality({p \in Process : proc[p].at = "status"}) < history + MaxRecords

\* The row is committed by itself; appending it comes next.
Commits(p, row) ==
  /\ record' = Append(record, row)
  /\ proc' = [proc EXCEPT ![p] = [Idle EXCEPT !.at = "append", !.record = Len(record) + 1]]

\* issue_statement for a finished scan, once per scan.
IssueResult(p, s) ==
  /\ proc[p].at = "idle" /\ MayCommit
  /\ \A r \in Rows : record[r].scan # s
  /\ Commits(p, Result(s))
  /\ UNCHANGED <<leaf, ckpt, job, faults, history>>

\* prepare_integrity_event inside a business transaction, and its commit.
RecordEvent(p) ==
  /\ proc[p].at = "idle" /\ MayCommit
  /\ Commits(p, Event)
  /\ UNCHANGED <<leaf, ckpt, job, faults, history>>

HasSuccessor(r) == \E k \in Rows : record[k].previous = r

\* append_statement_status: its target, named or the active statement, must be
\* ACTIVE and without a successor.
ReadStatus(p, r) ==
  /\ proc[p].at = "idle" /\ MayCommit
  /\ record[r].type # "EVENT"
  /\ record[r].status = "ACTIVE" /\ ~HasSuccessor(r)
  /\ proc' = [proc EXCEPT ![p] = [Idle EXCEPT !.at = "status", !.record = r]]
  /\ UNCHANGED <<record, leaf, ckpt, job, faults, history>>

StatusBy(type) ==
  CASE type = "SUPERSESSION" -> "SUPERSEDED"
    [] type = "DISPUTE"      -> "DISPUTED"
    [] type = "REVOCATION"   -> "REVOKED"

Successor(r, type) == [type |-> type, scan |-> record[r].scan, previous |-> r, status |-> "ACTIVE"]

\* Variant: the predecessor has no unique index.
AppendStatusUnchecked(p, type) ==
  LET r == proc[p].record IN
  /\ proc[p].at = "status"
  /\ record' = Append([record EXCEPT ![r].status = StatusBy(type)], Successor(r, type))
  /\ proc' = [proc EXCEPT ![p] = [Idle EXCEPT !.at = "append", !.record = Len(record) + 1]]
  /\ UNCHANGED <<leaf, ckpt, job, faults, history>>

\* issue_status_statement inserts the successor and updates the predecessor in
\* one transaction; the unique index on the predecessor refuses a second one.
AppendStatus(p, type) ==
  LET r == proc[p].record IN
  /\ proc[p].at = "status"
  /\ IF HasSuccessor(r)
     THEN proc' = [proc EXCEPT ![p] = Idle] /\ UNCHANGED record
     ELSE /\ record' = Append([record EXCEPT ![r].status = StatusBy(type)], Successor(r, type))
          /\ proc' = [proc EXCEPT ![p] = [Idle EXCEPT !.at = "append", !.record = Len(record) + 1]]
  /\ UNCHANGED <<leaf, ckpt, job, faults, history>>

--------------------------------------------------------------------------------
(* The log. *)

\* pg_advisory_xact_lock, held from the first read to the commit.
LogIsMine(p) ==
  AdvisoryLock => \A q \in Process \ {p} : proc[q].at \notin {"insert", "flush"}

Log == InOrder(leaf)
Sizes == {c.head.size : c \in ckpt}

\* enqueue_checkpoint follows if the receipt names a checkpoint.
Continue(p, sizes) ==
  proc' = [proc EXCEPT ![p] = IF sizes = {} THEN Idle
                              ELSE [Idle EXCEPT !.at = "enqueue", !.size = Max(sizes)]]

\* append: a record that has its leaf already gets the receipt of that leaf,
\* under the largest checkpoint that covers it (_checkpoint_covering).  An event
\* found logged before append is called gets nothing more.
AppendRead(p) ==
  LET r == proc[p].record IN
  /\ proc[p].at = "append" /\ LogIsMine(p)
  /\ IF Logged(r)
     THEN \/ Continue(p, {n \in Sizes : \E l \in leaf : l.record = r /\ l.index < n})
          \/ record[r].type = "EVENT" /\ ~proc[p].recovers /\ Continue(p, {})
     ELSE proc' = [proc EXCEPT ![p].at = "insert", ![p].next = Cardinality(leaf)]
  /\ UNCHANGED <<record, leaf, ckpt, job, faults, history>>

Unanchored(log, n) == [head |-> [size |-> n, root |-> RootAt(log, n)], external |-> {}]

\* Variant: the table of leaves has no unique index.
AppendInsertUnchecked(p) ==
  LET row == [index |-> proc[p].next, record |-> proc[p].record]
      log == InOrder(leaf \cup {row})
      n == Len(log)
      due == n % Interval = 0 IN
  /\ proc[p].at = "insert"
  /\ leaf' = leaf \cup {row}
  /\ ckpt' = IF due /\ n \notin Sizes THEN ckpt \cup {Unanchored(log, n)} ELSE ckpt
  /\ Continue(p, IF due THEN {n} ELSE {})
  /\ UNCHANGED <<record, job, faults, history>>

\* Variant: the head is signed before the new leaf is flushed.
AppendInsertUnflushed(p) ==
  LET row == [index |-> proc[p].next, record |-> proc[p].record]
      log == InOrder(leaf \cup {row})
      n == Len(log)
      due == n % Interval = 0 IN
  /\ proc[p].at = "insert"
  /\ IF \E l \in leaf : l.index = row.index \/ l.record = row.record
     THEN proc' = [proc EXCEPT ![p].at = "append"] /\ UNCHANGED <<leaf, ckpt>>
     ELSE /\ leaf' = leaf \cup {row}
          /\ ckpt' = IF due THEN ckpt \cup {[Unanchored(log, n) EXCEPT !.head.root = RootAt(log, n - 1)]}
                     ELSE ckpt
          /\ Continue(p, IF due THEN {n} ELSE {})
  /\ UNCHANGED <<record, job, faults, history>>

\* The leaf, and the checkpoint it completes (_write_checkpoint), in one commit.
\* A unique index that refuses the leaf sends append back to its first read.
AppendInsert(p) ==
  LET row == [index |-> proc[p].next, record |-> proc[p].record]
      log == InOrder(leaf \cup {row})
      n == Len(log)
      due == n % Interval = 0 IN
  /\ proc[p].at = "insert"
  /\ IF \E l \in leaf : l.index = row.index \/ l.record = row.record
     THEN proc' = [proc EXCEPT ![p].at = "append"] /\ UNCHANGED <<leaf, ckpt>>
     ELSE /\ leaf' = leaf \cup {row}
          /\ ckpt' = IF due /\ n \notin Sizes THEN ckpt \cup {Unanchored(log, n)} ELSE ckpt
          /\ Continue(p, IF due THEN {n} ELSE {})
  /\ UNCHANGED <<record, job, faults, history>>

--------------------------------------------------------------------------------
(* Checkpoints and their jobs. *)

Behind == \A n \in Sizes : n < Cardinality(leaf)

\* Variant: only full batches are closed.
FlushReadFull(p) ==
  /\ proc[p].at = "idle" /\ LogIsMine(p)
  /\ leaf # {} /\ Behind /\ Cardinality(leaf) % Interval = 0
  /\ proc' = [proc EXCEPT ![p] = [Idle EXCEPT !.at = "flush", !.seen = Log]]
  /\ UNCHANGED <<record, leaf, ckpt, job, faults, history>>

\* flush_due_checkpoint, once the oldest leaf without a checkpoint is old enough.
FlushRead(p) ==
  /\ proc[p].at = "idle" /\ LogIsMine(p)
  /\ leaf # {} /\ Behind
  /\ proc' = [proc EXCEPT ![p] = [Idle EXCEPT !.at = "flush", !.seen = Log]]
  /\ UNCHANGED <<record, leaf, ckpt, job, faults, history>>

\* The head that was read is signed, unless another process signed that size.
FlushWrite(p) ==
  /\ proc[p].at = "flush"
  /\ LET n == Len(proc[p].seen) IN
     /\ ckpt' = IF n \in Sizes THEN ckpt ELSE ckpt \cup {Unanchored(proc[p].seen, n)}
     /\ Continue(p, {n})
  /\ UNCHANGED <<record, leaf, job, faults, history>>

Heads == {c.head : c \in ckpt}
Queued(head) == \E j \in job : j.head.root = head.root

\* enqueue_checkpoint: one job per root.
Enqueue(p) ==
  /\ proc[p].at = "enqueue"
  /\ job' = job \cup {[head |-> h, state |-> "OPEN"] :
                        h \in {h \in Heads : h.size = proc[p].size /\ ~Queued(h)}}
  /\ Continue(p, {})
  /\ UNCHANGED <<record, leaf, ckpt, faults, history>>

\* reconcile_unqueued_checkpoints: smallest tree first.
ReconcileUnqueued(p) ==
  LET missing == {h.size : h \in {h \in Heads : ~Queued(h)}} IN
  /\ proc[p].at = "idle" /\ missing # {}
  /\ Continue(p, {Min(missing)})
  /\ UNCHANGED <<record, leaf, ckpt, job, faults, history>>

\* _recover_model_rows: the oldest event, or the oldest statement, without a leaf.
Recover(p) ==
  /\ proc[p].at = "idle"
  /\ \E events \in BOOLEAN :
       LET lost == {r \in Rows : ~Logged(r) /\ (record[r].type = "EVENT") = events} IN
       /\ lost # {}
       /\ proc' = [proc EXCEPT ![p] = [Idle EXCEPT !.at = "append", !.record = Min(lost),
                                                   !.recovers = TRUE]]
  /\ UNCHANGED <<record, leaf, ckpt, job, faults, history>>

\* _record_result with attach_external_commitment in the same transaction.
JobConfirms(j) ==
  /\ j.state = "OPEN"
  /\ job' = (job \ {j}) \cup {[j EXCEPT !.state = "CONFIRMED"]}
  /\ ckpt' = {IF c.head = j.head THEN [c EXCEPT !.external = @ \cup {j.head}] ELSE c : c \in ckpt}
  /\ UNCHANGED <<record, leaf, proc, faults, history>>

\* A process dies, or its database or signer fails; issue_statement swallows it.
Fault(p) ==
  /\ proc[p].at # "idle" /\ faults < MaxFaults
  /\ faults' = faults + 1
  /\ proc' = [proc EXCEPT ![p] = Idle]
  /\ UNCHANGED <<record, leaf, ckpt, job, history>>

Dispatch(p) == Recover(p) \/ FlushRead(p) \/ ReconcileUnqueued(p)
Work(p) == (\E type \in Changes : AppendStatus(p, type)) \/ AppendRead(p) \/ AppendInsert(p) \/ FlushWrite(p) \/ Enqueue(p)

Next ==
  \/ \E p \in Process :
       \/ \E s \in Scan : IssueResult(p, s)
       \/ RecordEvent(p)
       \/ \E r \in Rows : ReadStatus(p, r)
       \/ Dispatch(p) \/ Work(p) \/ Fault(p)
  \/ \E j \in job : JobConfirms(j)

Spec == Init /\ [][Next]_vars

\* The dispatcher thread runs a pass at every interval, each pass makes every
\* reconciler do what it finds, and a thread that can step does.
FairSpec ==
  /\ Spec
  /\ \A p \in Process :
       /\ WF_vars(Work(p))
       /\ SF_vars(Recover(p)) /\ SF_vars(FlushRead(p)) /\ SF_vars(ReconcileUnqueued(p))

--------------------------------------------------------------------------------
LogTypeOK ==
  /\ record \in Seq(Record)
  /\ leaf \subseteq [index : Nat, record : Rows] /\ IsFiniteSet(leaf)
  /\ \A c \in ckpt : c.head.size \in Nat \ {0} /\ c.external \subseteq Heads
  /\ \A j \in job : j.head \in Heads /\ j.state \in {"OPEN", "CONFIRMED"}
  /\ proc \in [Process -> Activation] /\ \A p \in Process : proc[p].record \in 0 .. Len(record)
  /\ faults \in 0 .. MaxFaults

\* "a restart, a second worker or a container rebuild cannot fork the log"
\* (transparency.py): the leaves are one sequence without gap or overlap, and no
\* record has two, whoever appended it: its request, a retry, a dispatcher.
LogIsOneSequence ==
  /\ {l.index : l \in leaf} = 0 .. Cardinality(leaf) - 1
  /\ \A k, l \in leaf : k.record = l.record => k = l

\* Every head that was ever signed is the head of a prefix of the log as it
\* stands, through competing appends and flushes: no equivocation
\* (check_consistency).  "Attach one immutable public receipt to its exact signed
\* checkpoint": a checkpoint shows the receipt of its own root, from a confirmed job.
HeadsAreOfThisLog ==
  /\ \A h \in Heads : h.size <= Len(Log) /\ h.root = RootAt(Log, h.size)
  /\ \A c \in ckpt :
       /\ c.external \subseteq {c.head}
       /\ c.external # {} => [head |-> c.head, state |-> "CONFIRMED"] \in job

\* The log keeps the promise of AppendOnlyLog: what readers saw is never moved or
\* taken back, a signed head stays the head of a prefix (no equivocation,
\* check_consistency), and "attach one immutable public receipt to its exact signed
\* checkpoint" (attach_external_commitment): its own, once its job confirmed.
Anchored == {j.head : j \in {j \in job : j.state = "CONFIRMED"}}
Receipts == UNION {{[head |-> c.head, of |-> e] : e \in c.external} : c \in ckpt}
Public == INSTANCE AppendOnlyLog WITH
  log <- Log, heads <- Heads, anchored <- Anchored, receipts <- Receipts
KeepsPromise == Public!PublicSpec

\* The heads are those of RFC 6962; the audit path of every leaf leads to every head
\* that covers it, and a path never shows another record (_root_and_proof,
\* inclusion_proof, verify_inclusion).
InclusionVerifies ==
  \A h \in Heads :
    /\ IsTreeHead(Hashes(Log, h.size), h.root)
    /\ \A i \in 1 .. h.size :
         LET path == AuditPath(Hashes(Log, h.size), i - 1) IN
         \A r \in Rows : VerifyInclusion(r, h.root, path) <=> r = Log[i]

\* The statements of a scan are one chain, and the mutable status columns are
\* what the signed chain says: one ACTIVE tip, each predecessor as its successor
\* left it (_linear_statement_lineage, active_statement).
LineageIsLinear ==
  \A r \in Rows :
    record[r].type # "EVENT" =>
      /\ \A k \in Rows : record[r].previous # 0 /\ record[k].previous = record[r].previous => k = r
      /\ IF HasSuccessor(r)
         THEN \E k \in Rows : record[k].previous = r /\ record[r].status = StatusBy(record[k].type)
         ELSE record[r].status = "ACTIVE"

\* "those leaves otherwise remain locally signed but never eligible for a public
\* checkpoint anchor" (flush_due_checkpoint): whatever requests that die half way
\* leave behind, in the end every committed record is under a checkpoint that
\* has its job.
Covered(r) == \E l \in leaf, j \in job : l.record = r /\ l.index < j.head.size
Backlog == \E r \in Rows : ~Covered(r)
BacklogClears == Backlog ~> ~Backlog
================================================================================
