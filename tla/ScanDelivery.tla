------------------------------ MODULE ScanDelivery ------------------------------
(***************************************************************************)
(* From a request to a worker: the intake of a scan, form or direct upload   *)
(* (apps/api/app/api/routes/scans.py), the transactional outbox              *)
(* (services/orchestration.py), the two Redis transports (services/jobs.py), *)
(* the worker loops over them (worker.py), start-up recovery                 *)
(* (services/scan_runner.py) and the purge of candidate media                *)
(* (services/retention.py).                                                  *)
(*                                                                         *)
(* Of run_scan this has the claim of the evidence stage, its budget and the   *)
(* two commits that end it; a live holder keeps its lease.  ScanRunner has the *)
(* inside.  All requests carry one Idempotency-Key.                           *)
(***************************************************************************)
EXTENDS Naturals, Sequences, FiniteSets, SequencesExt

CONSTANTS
  Handler,        \* requests; a scan is named after the request that made it
  Worker,
  Thread,         \* the outbox thread of the API process
  Nobody,
  Setups,         \* what a behaviour may start as: see Setup
  RowLocks,       \* PostgreSQL: dispatch_once skips rows another pass has read
  Orphan,         \* the owner of a lease whose holder died
  MaxPublishes,   \* outbox_max_attempts
  MaxAttempts,    \* redis_job_max_attempts
  MaxDeliveries,  \* MAX_STREAM_DELIVERIES
  MaxRuns         \* stage_max_attempts

ASSUME DeliveryAssumption ==
  /\ Thread \notin Handler /\ Nobody \notin Worker /\ Orphan \notin Worker \cup {Nobody}
  /\ {MaxPublishes, MaxAttempts, MaxDeliveries, MaxRuns} \subseteq Nat \ {0}
  /\ RowLocks \in BOOLEAN
  /\ \A c \in Setups : c.transport \in {"list", "streams"} /\ c.direct \in BOOLEAN
                         /\ c.requests \subseteq Handler /\ c.maxTrouble \in Nat
                         /\ c.accepted \subseteq Handler \ c.requests
                         /\ \A s, t \in c.accepted : s = t

VARIABLES
  setup,      \* redis_transport, whether the requests are for /from-upload, the requests
              \* in it, the scan accepted before it, and the bound on what goes wrong
  staged,     \* the uploaded object is there
  handler,    \* handler[h]: a request
  scan,       \* scan[h]: the row h created
  bytes,      \* the scans whose candidate is in the object store
  located,    \* the scans whose candidate_storage_key is set
  outbox,     \* outbox_events, in the order of creation
  pass,       \* pass[d]: a pass of dispatch_once
  msg,        \* every message ever sent to the transport
  worker,     \* worker[w]: the loop of a worker
  lease,      \* lease[s]: who holds the evidence stage of s
  stage,      \* stage[s]: the state of that stage, and how often it was claimed
  turned,     \* history: scans of which a delivery was turned away by a holder that has
              \* none in the transport itself
  up,         \* the API process runs
  spent       \* what the bounds count

vars == <<setup, staged, handler, scan, bytes, located, outbox, pass, msg,
          worker, lease, stage, turned, up, spent>>
intake == <<setup, staged, handler>>
store == <<scan, bytes, located>>
broker == <<msg, worker, lease, stage, turned>>

Dispatcher == Handler \cup {Thread}
Ended == {"COMPLETED", "FAILED"}
Committed == {s \in Handler : scan[s] # "NONE"}
Unfinished == {s \in Handler : scan[s] = "QUEUED"}

NoPass == [on |-> FALSE, tried |-> <<>>, sent |-> {}]
\* Rows and entries are taken in the order in which they were created.
InOrder(S) ==
  {q \in [1 .. Cardinality(S) -> S] :
     (\A x \in S : \E i \in DOMAIN q : q[i] = x) /\ \A i, j \in DOMAIN q : i < j => q[i] < q[j]}

Row(s) == [scan |-> s, state |-> "PENDING", attempts |-> 0]
Message(s, attempt) == [scan |-> s, place |-> "waiting", attempt |-> attempt]
AtLoop == [at |-> "loop", hand |-> <<>>]

\* A request reads its upload grant, or goes straight to create_scan.
Entry == IF setup.direct THEN "grant" ELSE "lookup"

Init ==
  /\ setup \in Setups
  /\ staged = setup.direct
  /\ \E digest \in {f \in [Handler -> 1 .. 2] :
                   \A h \in Handler : f[h] = 1 \/ (h \in setup.requests /\ h # CHOOSE g \in Handler : TRUE)} :
       handler = [h \in Handler |->
                    [at |-> IF h \in setup.requests THEN Entry ELSE "done", digest |-> digest[h],
                     answer |-> IF h \in setup.accepted THEN 202 ELSE 0, scan |-> h]]
  /\ scan = [h \in Handler |-> IF h \in setup.accepted THEN "QUEUED" ELSE "NONE"]
  /\ bytes = setup.accepted /\ located = setup.accepted
  /\ outbox = [i \in 1 .. Cardinality(setup.accepted) |-> Row(CHOOSE s \in setup.accepted : TRUE)]
  /\ pass = [d \in Dispatcher |-> NoPass]
  /\ msg = <<>>
  /\ worker = [w \in Worker |-> AtLoop]
  /\ lease = [s \in Handler |-> Nobody] /\ turned = {}
  /\ stage = [s \in Handler |-> [state |-> "OPEN", runs |-> 0]]
  /\ up = TRUE
  /\ spent = [faults |-> 0, doubts |-> 0, crashes |-> 0, overtakes |-> 0]

\* An exception, a commit whose answer is lost, a process that dies, or a delivery
\* that times out under a live worker.
Spend(kind) ==
  /\ spent.faults + spent.doubts + spent.crashes + spent.overtakes < setup.maxTrouble
  /\ spent' = [spent EXCEPT ![kind] = @ + 1]

--------------------------------------------------------------------------------
(* Intake. *)

Goes(h, at) == handler' = [handler EXCEPT ![h].at = at]
Answers(h, code, s) ==
  handler' = [handler EXCEPT ![h] = [at |-> "done", digest |-> @.digest, answer |-> code, scan |-> s]]

\* _replay_or_conflict with the scan that has the key.
Replays(h) ==
  LET s == CHOOSE s \in Committed : TRUE IN
  Answers(h, IF handler[s].digest = handler[h].digest THEN 202 ELSE 409, s)

\* create_scan_from_upload removes the upload after an answer below 500.
Settles == staged' = FALSE

\* A retry finds the scan of its nonce, and the upload goes if it matches.
ReadGrant(h) ==
  /\ handler[h].at = "grant"
  /\ IF Committed = {} THEN Goes(h, "lookup") /\ UNCHANGED staged
     ELSE /\ Replays(h)
          /\ staged' = (staged /\ handler'[h].answer = 409)
  /\ UNCHANGED <<setup, store, outbox, pass, broker, up, spent>>

\* load_verified_upload, the daily quota (which counts the tenant's other scans
\* too), the checks of image and fields, the lookup by key, and storage.put for a
\* request that finds no scan.
Lookup(h) ==
  /\ handler[h].at = "lookup"
  /\ \/ setup.direct /\ ~staged /\ Answers(h, 404, h) /\ UNCHANGED <<staged, bytes>>
     \/ staged = setup.direct /\ Answers(h, 429, h) /\ Settles /\ UNCHANGED bytes
     \/ staged = setup.direct /\ Committed = {} /\ Goes(h, "insert") /\ bytes' = bytes \cup {h} /\ UNCHANGED staged
     \/ staged = setup.direct /\ Committed # {} /\ Replays(h) /\ Settles /\ UNCHANGED bytes
  /\ UNCHANGED <<setup, scan, located, outbox, pass, broker, up, spent>>

\* Variant: the key has no unique constraint.
InsertUnchecked(h) ==
  /\ handler[h].at = "insert"
  /\ Goes(h, "commit")
  /\ UNCHANGED <<setup, staged, store, outbox, pass, broker, up, spent>>

\* enqueue_outbox flushes the scan, so that this is where it meets the unique key: it
\* waits for the transaction that holds it, and if that commits the request breaks off
\* with its objects and the upload left.
Insert(h) ==
  /\ handler[h].at = "insert" /\ \A g \in Handler : handler[g].at # "commit"
  /\ IF Committed = {} THEN Goes(h, "commit") ELSE Answers(h, 500, h)
  /\ UNCHANGED <<setup, staged, store, outbox, pass, broker, up, spent>>

\* Scan, binding and outbox row, in one transaction.
Inserts(h) ==
  /\ scan' = [scan EXCEPT ![h] = "QUEUED"]
  /\ located' = located \cup {h}
  /\ outbox' = Append(outbox, Row(h))

Commit(h) ==
  /\ handler[h].at = "commit"
  /\ Inserts(h) /\ Goes(h, "publish")
  /\ UNCHANGED <<setup, staged, bytes, pass, broker, up, spent>>

\* A commit that raises, with or without effect: the request removes its objects,
\* those of the scan it may have created too.
CommitFails(h) ==
  /\ handler[h].at = "commit"
  /\ \/ Spend("faults") /\ UNCHANGED <<scan, located, outbox>>
     \/ Spend("doubts") /\ Inserts(h)
  /\ bytes' = bytes \ {h}
  /\ Goes(h, "recheck")
  /\ UNCHANGED <<setup, staged, pass, broker, up>>

\* It then looks for a scan with its key: its own, or one that came in meanwhile.
Recheck(h) ==
  /\ handler[h].at = "recheck"
  /\ IF Committed = {} THEN Answers(h, 500, h) /\ UNCHANGED staged
     ELSE Replays(h) /\ Settles
  /\ UNCHANGED <<setup, store, outbox, pass, broker, up, spent>>

\* The pass of dispatch_once inside the request is over.
Respond(h) ==
  /\ handler[h].at = "published" /\ ~pass[h].on
  /\ Answers(h, 202, h) /\ Settles
  /\ UNCHANGED <<setup, store, outbox, pass, broker, up, spent>>

\* Any other exception answers 500 and removes nothing.
HandlerFails(h) ==
  /\ handler[h].at # "done" /\ ~pass[h].on
  /\ Spend("faults")
  /\ Answers(h, 500, h)
  /\ UNCHANGED <<setup, staged, store, outbox, pass, broker, up>>

\* The client sends the request again, with a new candidate for a scan id.
Retry(h) ==
  /\ up /\ handler[h].at = "done" /\ handler[h].answer = 500
  /\ Goes(h, Entry)
  /\ UNCHANGED <<setup, staged, store, outbox, pass, broker, up, spent>>

--------------------------------------------------------------------------------
(* The outbox. *)

Pending(rows) == {i \in DOMAIN rows : rows[i].state = "PENDING"}
Locked == IF RowLocks THEN UNION {DOMAIN pass[d].tried : d \in Dispatcher} ELSE {}
Due == Pending(outbox) \ Locked

\* dispatch_once up to its commit: the rows it read, and of these the ones the
\* transport took.  Row locks exist on PostgreSQL only.  Stream workers run passes
\* too.
Publish(d) ==
  /\ ~pass[d].on /\ Due # {}
  /\ up \/ (setup.transport = "streams" /\ \E w \in Worker : worker[w].at # "down")
  /\ IF d = Thread THEN UNCHANGED handler
     ELSE handler[d].at = "publish" /\ Goes(d, "published")
  /\ \E lost \in SUBSET Due :
       /\ IF lost = {} THEN UNCHANGED spent ELSE Spend("faults")
       /\ pass' = [pass EXCEPT ![d] = [on |-> TRUE, tried |-> [i \in Due |-> outbox[i].attempts],
                                       sent |-> Due \ lost]]
       /\ \E q \in InOrder(Due \ lost) :
            msg' = msg \o [i \in DOMAIN q |-> Message(outbox[q[i]].scan, 0)]
  /\ UNCHANGED <<setup, staged, store, outbox, worker, lease, stage, turned, up>>

\* Another pass took the rows before the request came to them.
NothingToPublish(h) ==
  /\ handler[h].at = "publish" /\ Due = {}
  /\ Goes(h, "published")
  /\ UNCHANGED <<setup, staged, store, outbox, pass, broker, up, spent>>

\* What the commit of the pass writes to row i, from what it read of it.
Dispatched(p, i) ==
  IF i \notin DOMAIN p.tried THEN outbox[i]
  ELSE IF i \in p.sent THEN [outbox[i] EXCEPT !.state = "PUBLISHED"]
  ELSE [outbox[i] EXCEPT !.attempts = p.tried[i] + 1,
                         !.state = IF p.tried[i] + 1 >= MaxPublishes THEN "FAILED" ELSE @]

PublishCommit(d) ==
  /\ pass[d].on
  /\ outbox' = [i \in DOMAIN outbox |-> Dispatched(pass[d], i)]
  /\ pass' = [pass EXCEPT ![d] = NoPass]
  /\ UNCHANGED <<intake, store, broker, up, spent>>

\* The commit fails after the messages are out; the exception is swallowed.
PublishRollback(d) ==
  /\ pass[d].on
  /\ Spend("faults")
  /\ pass' = [pass EXCEPT ![d] = NoPass]
  /\ UNCHANGED <<intake, store, outbox, broker, up>>

(* Workers.  A message is "pending" in the stream; in the list it is "taken", in
   the processing list, and "leased" once it has its lease too. *)

Holding(i) == {w \in Worker : worker[w].at # "down" /\ i \in ToSet(worker[w].hand)}
Work(w) == msg[Head(worker[w].hand)].scan

\* With `hand` the messages still to handle.
Moves(w, at, hand) ==
  worker' = [worker EXCEPT ![w] = [at |-> IF hand = <<>> THEN "loop" ELSE at, hand |-> hand]]
StaysAt(w, at) == Moves(w, at, worker[w].hand)
Drops(w) == Moves(w, "handle", Tail(worker[w].hand))

At(place) == {i \in DOMAIN msg : msg[i].place = place}
First(S) == {i \in S : \A j \in S : i <= j}

\* Deliveries that time out, `early` of them under a live worker.
TimedOut(place, all) ==
  \E early \in SUBSET {i \in At(place) : Holding(i) # {}} :
    /\ all = {i \in At(place) : Holding(i) = {}} \cup early
    /\ IF early = {} THEN UNCHANGED spent
       ELSE Cardinality(early) = 1 /\ Spend("overtakes")

\* Variant: a worker reads new messages only.
TakeNew(w) ==
  /\ setup.transport = "streams" /\ worker[w].at = "loop"
  /\ \E i \in First(At("waiting")) :
       /\ msg' = [msg EXCEPT ![i].place = "pending", ![i].attempt = @ + 1]
       /\ Moves(w, "handle", <<i>>)
  /\ UNCHANGED <<intake, store, outbox, pass, lease, stage, turned, up, spent>>

\* claim_stale and read: what has been idle for the lease time, and one message.
Take(w) ==
  /\ setup.transport = "streams" /\ worker[w].at = "loop"
  /\ \E stale \in SUBSET DOMAIN msg :
       /\ TimedOut("pending", stale)
       /\ LET got == stale \cup First(At("waiting")) IN
          /\ got # {}
          /\ msg' = [i \in DOMAIN msg |->
                       IF i \in got THEN [msg[i] EXCEPT !.place = "pending", !.attempt = @ + 1]
                       ELSE msg[i]]
          /\ \E q \in InOrder(got) : Moves(w, "handle", q)
  /\ UNCHANGED <<intake, store, outbox, pass, lease, stage, turned, up>>

\* claim, first half: BRPOPLPUSH.
Claim(w) ==
  /\ setup.transport = "list" /\ worker[w].at = "loop"
  /\ \E i \in First(At("waiting")) :
       /\ msg' = [msg EXCEPT ![i].place = "taken"]
       /\ Moves(w, "claimed", <<i>>)
  /\ UNCHANGED <<intake, store, outbox, pass, lease, stage, turned, up, spent>>

\* claim, second half: ZADD.
ClaimLease(w) ==
  /\ worker[w].at = "claimed"
  /\ msg' = [msg EXCEPT ![Head(worker[w].hand)].place = "leased"]
  /\ StaysAt(w, "handle")
  /\ UNCHANGED <<intake, store, outbox, pass, lease, stage, turned, up, spent>>

\* Out of the transport.
Gone(i) == [msg EXCEPT ![i].place = "gone", ![i].attempt = 0]

\* _TRANSITION_SCRIPT to the queue or the dead letters, with one more attempt.
Replaced(i) ==
  LET m == msg[i] IN
  Append(Gone(i),
         [Message(m.scan, m.attempt + 1) EXCEPT
            !.place = IF m.attempt + 1 >= MaxAttempts THEN "dead" ELSE "waiting"])

\* recover_stale; the entries are moved one by one.
RecoverStale(w) ==
  /\ setup.transport = "list" /\ worker[w].at = "loop"
  /\ \E all \in SUBSET DOMAIN msg :
       /\ TimedOut("leased", all) /\ all # {}
       /\ \E i \in all : msg' = Replaced(i)
  /\ UNCHANGED <<intake, store, outbox, pass, worker, lease, stage, turned, up>>

\* delivery_count of an entry nobody holds pending any more is 1.
Exhausted(i) == setup.transport = "streams" /\ msg[i].place = "pending" /\ msg[i].attempt > MaxDeliveries

DeadLetter(w) ==
  /\ worker[w].at = "handle"
  /\ LET i == Head(worker[w].hand) IN Exhausted(i) /\ msg' = [msg EXCEPT ![i].place = "dead"]
  /\ Drops(w)
  /\ UNCHANGED <<intake, store, outbox, pass, lease, stage, turned, up, spent>>

Here(i) == msg[i].place = IF setup.transport = "list" THEN "leased" ELSE "pending"

\* acknowledge: the list looks for the payload it handed out, the stream for the
\* entry, whoever holds it now.
Acknowledges(w) ==
  LET i == Head(worker[w].hand) IN
  /\ msg' = IF Here(i) THEN Gone(i) ELSE msg
  /\ Drops(w)

\* run_scan with a message, up to the evidence stage.
Starts(w) == worker[w].at = "handle" /\ ~Exhausted(Head(worker[w].hand))
Claimable(s) == lease[s] = Nobody /\ stage[s].state = "OPEN"

\* acquire, of a stage that is free or whose lease has expired; it does not ask for the
\* budget of the latter.
Enter(w) ==
  LET s == Work(w) IN
  /\ Starts(w) /\ scan[s] = "QUEUED" /\ Claimable(s)
  /\ lease' = [lease EXCEPT ![s] = w]
  /\ stage' = [stage EXCEPT ![s].runs = @ + 1]
  /\ StaysAt(w, "run")
  /\ UNCHANGED <<intake, store, outbox, pass, msg, turned, up, spent>>

\* The stage of s is held by a worker with a delivery of its own, which is not i.
HeldWithAnother(s, i) ==
  \E v \in Worker :
    worker[v].at = "run" /\ Work(v) = s /\ Head(worker[v].hand) # i /\ Here(Head(worker[v].hand))

\* run_scan returns at once for a scan that has ended, or whose stage is held or closed,
\* and the message is acknowledged.
Dismiss(w) ==
  LET s == Work(w) IN
  /\ Starts(w) /\ (scan[s] \in Ended \/ ~Claimable(s))
  /\ Acknowledges(w)
  /\ turned' = IF scan[s] \in Ended \/ lease[s] = Nobody \/ HeldWithAnother(s, Head(worker[w].hand))
               THEN turned ELSE turned \cup {s}
  /\ UNCHANGED <<intake, store, outbox, pass, lease, stage, up, spent>>

Leaves(s, state) ==
  /\ lease' = [lease EXCEPT ![s] = Nobody]
  /\ stage' = [stage EXCEPT ![s].state = state]

\* complete, or fail with what no retry helps: the stage is closed, by a commit of its own.
RunDecides(w) ==
  /\ worker[w].at = "run"
  /\ Leaves(Work(w), "DECIDED")
  /\ StaysAt(w, "close")
  /\ UNCHANGED <<intake, store, outbox, pass, msg, turned, up, spent>>

\* The scan ends; one without its candidate can only fail.
RunEnds(w) ==
  LET s == Work(w) IN
  /\ worker[w].at = "close"
  /\ \E end \in (IF s \in bytes THEN Ended ELSE {"FAILED"}) : scan' = [scan EXCEPT ![s] = end]
  /\ StaysAt(w, "ack")
  /\ UNCHANGED <<intake, bytes, located, outbox, pass, msg, lease, stage, turned, up, spent>>

\* A transient failure puts the scan back to QUEUED and raises, also when it takes the
\* last of the stage's budget; if fail cannot commit, the lease runs out.
RunRaises(w) ==
  LET s == Work(w) IN
  /\ worker[w].at = "run"
  /\ Spend("faults")
  /\ \/ Leaves(s, IF stage[s].runs < MaxRuns THEN "OPEN" ELSE "EXHAUSTED")
     \/ lease' = [lease EXCEPT ![s] = Orphan] /\ UNCHANGED stage
  /\ StaysAt(w, "raise")
  /\ UNCHANGED <<intake, store, outbox, pass, msg, turned, up>>

\* An exception before the stage is claimed, or in the commit that should end the scan.
BreaksOff(w) ==
  /\ worker[w].at = "close" \/ Starts(w)
  /\ Spend("faults")
  /\ StaysAt(w, "raise")
  /\ UNCHANGED <<intake, store, outbox, pass, msg, lease, stage, turned, up>>

Acknowledge(w) ==
  /\ worker[w].at = "ack"
  /\ Acknowledges(w)
  /\ UNCHANGED <<intake, store, outbox, pass, lease, stage, turned, up, spent>>

\* Variant: a failed job is acknowledged.
FailAcks(w) ==
  /\ worker[w].at = "raise"
  /\ Acknowledges(w)
  /\ UNCHANGED <<intake, store, outbox, pass, lease, stage, turned, up, spent>>

\* fail puts the job back or aside; the stream leaves its entry pending.
Fail(w) ==
  LET i == Head(worker[w].hand) IN
  /\ worker[w].at = "raise"
  /\ msg' = IF setup.transport = "list" /\ Here(i) THEN Replaced(i) ELSE msg
  /\ Drops(w)
  /\ UNCHANGED <<intake, store, outbox, pass, lease, stage, turned, up, spent>>

--------------------------------------------------------------------------------
(* Processes and media. *)

\* recover_orphaned_scans at the start of a process.
Recovers == outbox' = outbox \o [i \in 1 .. Cardinality(Unfinished) |-> Row(SetToSeq(Unfinished)[i])]

WorkerDies(w) ==
  /\ worker[w].at # "down"
  /\ Spend("crashes")
  /\ worker' = [worker EXCEPT ![w] = [at |-> "down", hand |-> <<>>]]
  /\ lease' = [s \in Handler |-> IF lease[s] = w THEN Orphan ELSE lease[s]]
  /\ UNCHANGED <<intake, store, outbox, pass, msg, stage, turned, up>>

WorkerStarts(w) ==
  /\ worker[w].at = "down"
  /\ Recovers
  /\ worker' = [worker EXCEPT ![w] = AtLoop]
  /\ UNCHANGED <<intake, store, pass, msg, lease, stage, turned, up, spent>>

\* The requests in it get no answer, which the client takes for a 500.
ApiDies ==
  /\ up /\ Spend("crashes")
  /\ up' = FALSE
  /\ handler' = [h \in Handler |-> IF handler[h].at = "done" THEN handler[h]
                                   ELSE [handler[h] EXCEPT !.at = "done", !.answer = 500]]
  /\ pass' = [d \in Dispatcher |-> NoPass]
  /\ UNCHANGED <<setup, staged, store, outbox, broker>>

ApiStarts ==
  /\ ~up /\ up' = TRUE
  /\ Recovers
  /\ UNCHANGED <<intake, store, pass, broker, spent>>

\* The heartbeats of a dead holder stop.
LeaseExpires(s) ==
  /\ lease[s] = Orphan
  /\ lease' = [lease EXCEPT ![s] = Nobody]
  /\ UNCHANGED <<intake, store, outbox, pass, msg, worker, stage, turned, up, spent>>

\* reap_expired, where it makes a difference: an expired lease that was the last.
Reap(s) ==
  /\ Claimable(s) /\ stage[s].runs >= MaxRuns
  /\ stage' = [stage EXCEPT ![s].state = "EXHAUSTED"]
  /\ UNCHANGED <<intake, store, outbox, pass, msg, worker, lease, turned, up, spent>>

\* The objects, then the locator, unless the process dies between the two.
Purges(s) ==
  /\ bytes' = bytes \ {s}
  /\ \/ located' = located \ {s} /\ UNCHANGED spent
     \/ UNCHANGED located /\ Spend("crashes")
  /\ UNCHANGED <<intake, scan, outbox, pass, broker, up>>

\* Variant: the sweep does not look at the state of the scan.
PurgeAny(s) == s \in located /\ Purges(s)

\* purge_candidate_media, by the sweep or after the run.
Purge(s) == s \in located /\ scan[s] \in Ended /\ Purges(s)

Request(h) ==
  \/ ReadGrant(h) \/ Lookup(h) \/ Insert(h) \/ Commit(h) \/ CommitFails(h) \/ Recheck(h)
  \/ NothingToPublish(h) \/ Respond(h) \/ HandlerFails(h) \/ Retry(h)

WorkerStep(w) ==
  \/ Take(w) \/ Claim(w) \/ ClaimLease(w) \/ RecoverStale(w) \/ DeadLetter(w) \/ Enter(w) \/ Dismiss(w)
  \/ RunDecides(w) \/ RunEnds(w) \/ RunRaises(w) \/ BreaksOff(w) \/ Acknowledge(w) \/ Fail(w)

Next ==
  \/ \E h \in Handler : Request(h) \/ LeaseExpires(h) \/ Reap(h) \/ Purge(h)
  \/ \E d \in Dispatcher : Publish(d) \/ PublishCommit(d) \/ PublishRollback(d)
  \/ \E w \in Worker : WorkerStep(w) \/ WorkerDies(w) \/ WorkerStarts(w)
  \/ ApiDies \/ ApiStarts

Spec == Init /\ [][Next]_vars

\* The outbox thread and the worker loops run while their process does, and
\* leases expire.
FairSpec ==
  /\ Spec
  /\ WF_vars(Publish(Thread)) /\ \A d \in Dispatcher : WF_vars(PublishCommit(d))
  /\ \A w \in Worker : WF_vars(WorkerStep(w))
  /\ \A s \in Handler : WF_vars(LeaseExpires(s))

--------------------------------------------------------------------------------
DeliveryTypeOK ==
  /\ setup \in Setups /\ staged \in BOOLEAN /\ up \in BOOLEAN
  /\ \A h \in Handler :
       /\ handler[h].at \in {"grant", "lookup", "insert", "commit", "recheck", "publish", "published", "done"}
       /\ handler[h].answer \in {0, 202, 404, 409, 429, 500}
       /\ scan[h] \in {"NONE", "QUEUED"} \cup Ended
       /\ lease[h] \in Worker \cup {Nobody, Orphan}
       /\ stage[h].state \in {"OPEN", "DECIDED", "EXHAUSTED"} /\ stage[h].runs \in Nat
  /\ bytes \subseteq Handler /\ located \subseteq Committed /\ turned \subseteq Committed
  /\ \A i \in DOMAIN outbox :
       /\ outbox[i].attempts \in 0 .. MaxPublishes
       /\ outbox[i].state \in {"PUBLISHED", "FAILED"} \cup {st \in {"PENDING"} : outbox[i].attempts < MaxPublishes}
  /\ \A i \in DOMAIN msg : msg[i].place \in {"waiting", "taken", "leased", "pending", "dead", "gone"}
  /\ \A w \in Worker : worker[w].at \in {"loop", "claimed", "handle", "run", "close", "ack", "raise", "down"}

\* "This Idempotency-Key is already bound to a different scan request"
\* (_replay_or_conflict): over competing requests, retries, commits in doubt and
\* restarts, whoever is answered 202 is given the one scan of the key, made for
\* the same bytes and fields, and the others 409.
KeyBindsOneRequest ==
  /\ Cardinality(Committed) <= 1
  /\ \A h \in Handler :
       handler[h].at = "done" /\ handler[h].answer \in {202, 409} =>
         LET s == handler[h].scan IN
         s \in Committed /\ (handler[h].answer = 202 <=> handler[h].digest = handler[s].digest)

\* What a client has been told of a scan: the answers that name one are 202 and 409.
Told(h) ==
  LET code == IF handler[h].at = "done" THEN handler[h].answer ELSE 0 IN
  [code |-> code, of |-> IF code \in {202, 409} THEN handler[h].scan ELSE h]

\* The intake, the outbox, the transports and the workers keep together what create_scan
\* promises to the clients of one Idempotency-Key: see AcceptedScan.
Acceptance == INSTANCE AcceptedScan WITH
  Client <- Handler, digest <- [h \in Handler |-> handler[h].digest],
  reply <- [h \in Handler |-> Told(h)]
KeepsAcceptance == Acceptance!AcceptSpec

\* Candidate media are there as long as the scan may need them, and those of a scan
\* that exists can be found: "Failed deletions retain a retry locator"
\* (purge_candidate_media).  A commit in doubt removes the bytes of its own scan.  A
\* direct upload is removed only when the request is accepted or refused for good;
\* after a failure the client can send the same grant again.
MediaLivesAsLongAsWork ==
  /\ \A s \in Committed : s \in bytes => s \in located
  /\ spent.doubts = 0 => Unfinished \subseteq bytes
  /\ setup.direct /\ ~staged =>
       Committed # {} \/ \E h \in Handler : handler[h].at = "done" /\ handler[h].answer = 429

\* What can still move a scan, or shows that it needs help.
Inspectable(s) ==
  \/ \E i \in DOMAIN outbox : outbox[i].scan = s /\ outbox[i].state = "FAILED"
  \/ \E i \in At("dead") : msg[i].scan = s
Down == ~up \/ \E w \in Worker : worker[w].at = "down"
AtWork(s) == \E w \in Worker : worker[w].at \in {"claimed", "run", "close", "raise"} /\ Work(w) = s
Carried(s) ==
  \/ Inspectable(s) \/ Down \/ AtWork(s)
  \/ \E i \in Pending(outbox) : outbox[i].scan = s
  \/ \E i \in At("waiting") \cup At("pending") \cup At("leased") : msg[i].scan = s

\* "an API, queue or worker crash can delay the result but cannot lose it"
\* (create_scan): an unfinished scan has a row, a message or a worker to carry it, shows
\* in a FAILED row or a dead letter, or waits for a process to start.  The code
\* strands a scan in three ways and no other: its delivery was turned away by a holder
\* that died or had lost its own; its stage spent its budget; or its stage was decided
\* by a worker that died or broke off before the commit that ends the scan.
CarriedOrStranded ==
  \A s \in Unfinished :
    \/ Carried(s)
    \/ s \in turned
    \/ stage[s].state = "EXHAUSTED" /\ stage[s].runs >= MaxRuns
    \/ stage[s].state = "DECIDED" /\ spent.crashes + spent.faults > 0

\* The promise itself, without the three.  It fails.
WorkIsCarried == \A s \in Unfinished : Carried(s)

\* While the processes run, an accepted scan ends, or is given up in a FAILED row or a
\* dead letter, or is stranded in one of the three ways.
Stranded(s) ==
  \/ s \in turned \/ stage[s].state = "EXHAUSTED"
  \/ stage[s].state = "DECIDED" /\ \A w \in Worker : worker[w].at = "close" => Work(w) # s
InProgress == ~Down /\ \E s \in Unfinished : ~Inspectable(s) /\ ~Stranded(s)
AcceptedScanEnds == InProgress ~> ~InProgress

\* "if duplicate is not None: return _replay_or_conflict" (_create_scan_bytes), the one
\* place where a request that lost the key could hear of the winner.  It fails: the key
\* is lost in the flush before, and a request of two that nothing disturbs gets a 500.
LoserHearsOfWinner ==
  spent.faults + spent.crashes = 0 => \A h \in Handler : handler[h].answer # 500

\* Objects belong to a scan or to a request that is still at it.  It fails: who loses
\* the key leaves its own.
BytesHaveAnOwner == \A h \in bytes : h \in Committed \/ handler[h].at # "done"
================================================================================
