------------------------------- MODULE AnchorJobs -------------------------------
(***************************************************************************)
(* The durable anchor jobs of BlockchainAnchorService                      *)
(* (apps/api/app/services/blockchain.py) and the transactions the EAS      *)
(* provider (providers/proof.py) prepares and broadcasts for them, with    *)
(* several processes sharing one signing account.                          *)
(*                                                                         *)
(* A job is claimed together with the lease of the signer; the prepared    *)
(* transaction is written to the job by a callback; only then is it sent.  *)
(* A process runs one job at a time (_dispatch_lock).  The two leases of a *)
(* claim are set and renewed in one transaction with one expiry.           *)
(*                                                                         *)
(* Left out: back-off (available_at), several deployments, fees, and what  *)
(* a confirmed receipt changes outside its job.                            *)
(***************************************************************************)
EXTENDS Naturals, Sequences

CONSTANTS
  Job,           \* commitments: unique by deployment, type and hash
  Process,       \* API and worker processes, each with its own provider
  NoJob,         \* what an idle process works on
  NoTx,          \* transaction_hash IS NULL
  MaxAttempts,   \* blockchain_anchor_max_attempts
  Retries,       \* eas_max_attempts > 1: anchor tries again after a transient error
  MaxClaims,     \* bound of the model on claims
  MaxCrashes,    \* bound of the model on process deaths
  MaxOvertakes   \* bound of the model on leases that expire under a live process

ASSUME AnchorAssumption ==
  /\ NoJob \notin Job
  /\ NoTx \notin [job : Job, nonce : Nat, token : Nat, blind : BOOLEAN]
  /\ MaxAttempts \in Nat \ {0}
  /\ Retries \in BOOLEAN
  /\ MaxClaims \in Nat
  /\ MaxCrashes \in Nat
  /\ MaxOvertakes \in Nat

VARIABLES
  job,       \* job[j]: the row of blockchain_anchor_jobs
  signer,    \* the row of blockchain_signer_leases of the account
  proc,      \* proc[p]: where process_job of p is, and what it remembers
  cache,     \* cache[p][j]: _prepared_transactions, in the memory of p
  chain,     \* the transactions the network accepted, at index nonce + 1
  mined,     \* how many of them are in blocks
  claims,    \* claim tokens issued
  crashes,   \* process deaths so far
  overtakes  \* leases that expired while a live process held them

bounds == <<crashes, overtakes>>
vars == <<job, signer, proc, cache, chain, mined, claims, bounds>>

Active == {"PENDING", "PREPARED", "SUBMITTED", "RETRYABLE"}
JobState == Active \cup {"MISSING", "CONFIRMED", "FAILED"}

Lease == {"none", "live", "expired"}

\* A signed transaction: what it commits to, its nonce, and who prepared it.
\* `blind`: it was prepared on a retry inside anchor, which skips the callback.
Tx == [job : Job, nonce : Nat, token : Nat, blind : BOOLEAN]

JobRow == [state : JobState, attempts : Nat, owner : Nat, lease : Lease, tx : Tx \cup {NoTx}]

At == {"idle", "load", "prepare", "callback", "persist", "send", "finalize", "record", "commit", "release"}

\* `attempt` is the pass through the loop of anchor, or reconcile; `seen` the row
\* as the open session read it; tx with a status the transaction of the receipt.
Activation == [at : At, job : Job \cup {NoJob}, token : Nat, attempt : {"first", "again", "reconcile"},
               tx : Tx \cup {NoTx}, seen : JobRow, status : {"ANCHORED", "PENDING", "FAILED"}]

NewRow == [state |-> "MISSING", attempts |-> 0, owner |-> 0, lease |-> "none", tx |-> NoTx]

Idle == [at |-> "idle", job |-> NoJob, token |-> 0, attempt |-> "first",
         tx |-> NoTx, seen |-> NewRow, status |-> "FAILED"]

Init ==
  /\ job = [j \in Job |-> NewRow]
  /\ signer = [owner |-> 0, lease |-> "none"]
  /\ proc = [p \in Process |-> Idle]
  /\ cache = [p \in Process |-> [j \in Job |-> NoTx]]
  /\ chain = <<>>
  /\ mined = 0
  /\ claims = 0
  /\ crashes = 0
  /\ overtakes = 0

--------------------------------------------------------------------------------
(* Jobs and claims. *)

\* enqueue: a second call finds the row, or loses on the unique key and finds it.
Enqueue(j) ==
  /\ job[j].state = "MISSING"
  /\ job' = [job EXCEPT ![j].state = "PENDING"]
  /\ UNCHANGED <<signer, proc, cache, chain, mined, claims, bounds>>

Free(r) == r.lease # "live"
Exhausted(r) == r.state \in Active /\ r.tx = NoTx /\ r.attempts >= MaxAttempts

\* _claim_job, its first UPDATE: closes a job whose budget is spent and for
\* which no transaction was ever prepared.
Terminalize(p, j) ==
  /\ proc[p].at = "idle"
  /\ Exhausted(job[j]) /\ Free(job[j])
  /\ job' = [job EXCEPT ![j].state = "FAILED", ![j].owner = 0, ![j].lease = "none"]
  /\ UNCHANGED <<signer, proc, cache, chain, mined, claims, bounds>>

\* Both rows carry the same new token, and the attempt is charged.
Take(p, j) ==
  /\ claims' = claims + 1
  /\ signer' = [owner |-> claims', lease |-> "live"]
  /\ job' = [job EXCEPT ![j].attempts = IF @ < MaxAttempts THEN @ + 1 ELSE @,
                        ![j].owner = claims', ![j].lease = "live"]
  /\ proc' = [proc EXCEPT ![p] = [Idle EXCEPT !.at = "load", !.job = j, !.token = claims']]
  /\ UNCHANGED <<cache, chain, mined, bounds>>

\* Variant: only the dispatcher's query looks at the state.
ClaimFinished(p, j) ==
  /\ proc[p].at = "idle"
  /\ claims < MaxClaims
  /\ Free(signer)
  /\ job[j].state # "MISSING" /\ Free(job[j]) /\ ~Exhausted(job[j])
  /\ Take(p, j)

\* _claim_job: signer and job in one transaction, or neither.
Claim(p, j) ==
  /\ proc[p].at = "idle"
  /\ claims < MaxClaims
  /\ Free(signer)
  /\ job[j].state \in Active /\ Free(job[j]) /\ ~Exhausted(job[j])
  /\ Take(p, j)

Owns(p) == job[proc[p].job].owner = proc[p].token
OwnsSigner(p) == signer.owner = proc[p].token

\* process_job reads the claimed row: a recorded transaction is reconciled,
\* which starts by sending the recorded bytes again.
Load(p) ==
  /\ proc[p].at = "load"
  /\ LET r == job[proc[p].job] IN
     proc' = [proc EXCEPT ![p] =
       IF ~Owns(p) THEN [@ EXCEPT !.at = "release"]
       ELSE IF r.tx # NoTx THEN [@ EXCEPT !.at = "send", !.attempt = "reconcile", !.tx = r.tx]
       ELSE [@ EXCEPT !.at = "prepare"]]
  /\ UNCHANGED <<job, signer, cache, chain, mined, claims, bounds>>

\* _renew_claim, from the heartbeat thread: both leases or neither.
Renew(p) ==
  /\ proc[p].at \notin {"idle", "load", "release"}
  /\ Owns(p) /\ OwnsSigner(p)
  /\ job[proc[p].job].state \in Active
  /\ job' = [job EXCEPT ![proc[p].job].lease = "live"]
  /\ signer' = [signer EXCEPT !.lease = "live"]
  /\ UNCHANGED <<proc, cache, chain, mined, claims, bounds>>

--------------------------------------------------------------------------------
(* EASProofAnchor.anchor and reconcile. *)

Step(p, place) == proc' = [proc EXCEPT ![p].at = place]

\* A receipt without the hash of a transaction.
Fails(p) == proc' = [proc EXCEPT ![p].at = "record", ![p].status = "FAILED",
                                 ![p].tx = NoTx, ![p].seen = NewRow]

\* A transient error inside anchor: another pass of its loop.
TriesAgain(p) ==
  /\ Retries /\ proc[p].attempt # "reconcile"
  /\ proc' = [proc EXCEPT ![p].at = "prepare", ![p].attempt = "again",
                          ![p].tx = NoTx, ![p].seen = NewRow]

\* Variant: the callback is made after broadcasting.
PrepareSends(p) ==
  LET a == proc[p] IN
  /\ a.at = "prepare"
  /\ proc' = [proc EXCEPT ![p].at = "send",
                          ![p].tx = IF cache[p][a.job] # NoTx THEN cache[p][a.job]
                                    ELSE [job |-> a.job, nonce |-> Len(chain),
                                          token |-> a.token, blind |-> FALSE]]
  /\ cache' = [cache EXCEPT ![p][a.job] = proc'[p].tx]
  /\ UNCHANGED <<job, signer, chain, mined, claims, bounds>>

\* _prepare_and_broadcast up to the signature: the transaction this process
\* prepared before, or the next nonce of the account.  Only the first pass calls
\* back.
Prepare(p) ==
  LET a == proc[p]
      first == a.attempt = "first" IN
  /\ a.at = "prepare"
  /\ proc' = [proc EXCEPT ![p].at = IF first THEN "callback" ELSE "send",
                          ![p].tx = IF cache[p][a.job] # NoTx THEN cache[p][a.job]
                                    ELSE [job |-> a.job, nonce |-> Len(chain),
                                          token |-> a.token, blind |-> ~first]]
  /\ cache' = IF first THEN cache ELSE [cache EXCEPT ![p][a.job] = proc'[p].tx]
  /\ UNCHANGED <<job, signer, chain, mined, claims, bounds>>

\* The network or the database fails before anything was cached.
PrepareFails(p) ==
  /\ proc[p].at \in {"prepare", "callback", "persist"}
  /\ Fails(p) \/ TriesAgain(p)
  /\ UNCHANGED <<job, signer, cache, chain, mined, claims, bounds>>

\* Variant: an identity that is already recorded is not looked at.
CallbackOverwrites(p) ==
  LET a == proc[p] IN
  /\ a.at = "callback"
  /\ IF Owns(p)
     THEN proc' = [proc EXCEPT ![p].at = "persist", ![p].seen = [job[a.job] EXCEPT !.tx = NoTx]]
     ELSE Fails(p)
  /\ UNCHANGED <<job, signer, cache, chain, mined, claims, bounds>>

\* persist reads the row: the token must be current, and a recorded transaction
\* is never replaced by another one.
Callback(p) ==
  LET a == proc[p] IN
  /\ a.at = "callback"
  /\ IF Owns(p) /\ job[a.job].tx \in {NoTx, a.tx}
     THEN proc' = [proc EXCEPT ![p].at = "persist", ![p].seen = job[a.job]]
     ELSE Fails(p)
  /\ UNCHANGED <<job, signer, cache, chain, mined, claims, bounds>>

\* A session writes the columns that differ from what it read, by primary key.
Written(new, read, now) == IF new = read THEN now ELSE new

\* ... and commits.
Persist(p) ==
  LET a == proc[p] IN
  /\ a.at = "persist"
  /\ job' = [job EXCEPT ![a.job].state = Written("PREPARED", a.seen.state, @),
                        ![a.job].tx = Written(a.tx, a.seen.tx, @)]
  /\ cache' = [cache EXCEPT ![p][a.job] = a.tx]
  /\ proc' = [proc EXCEPT ![p].at = "send", ![p].seen = NewRow]
  /\ UNCHANGED <<signer, chain, mined, claims, bounds>>

\* send_raw_transaction reaches the network.  A nonce that is taken ("already
\* known", "nonce too low") counts as an unknown outcome.
Send(p) ==
  LET tx == proc[p].tx IN
  /\ proc[p].at = "send"
  /\ chain' = IF tx.nonce = Len(chain) THEN Append(chain, tx) ELSE chain
  /\ Step(p, "finalize")
  /\ UNCHANGED <<job, signer, cache, mined, claims, bounds>>

\* It times out on the way, or is refused.
SendFails(p) ==
  /\ proc[p].at = "send"
  /\ Step(p, "finalize") \/ Fails(p)
  /\ UNCHANGED <<job, signer, cache, chain, mined, claims, bounds>>

OnChain(tx) == \E i \in DOMAIN chain : chain[i] = tx
Mined(tx) == \E i \in 1 .. mined : chain[i] = tx

\* Variant: acceptance by the network is taken for inclusion.
FinalizeOnAcceptance(p) ==
  /\ proc[p].at = "finalize"
  /\ \/ Fails(p)
     \/ /\ OnChain(proc[p].tx)
        /\ proc' = [proc EXCEPT ![p].at = "record", ![p].status = "ANCHORED"]
  /\ UNCHANGED <<job, signer, cache, chain, mined, claims, bounds>>

\* _finalize_transaction waits for the receipt of exactly this transaction: none
\* in time, or mined: deeply enough, not yet, or reverted.
Finalize(p) ==
  /\ proc[p].at = "finalize"
  /\ \/ Fails(p) \/ TriesAgain(p)
     \/ /\ Mined(proc[p].tx)
        /\ \E status \in {"ANCHORED", "PENDING", "FAILED"} :
             proc' = [proc EXCEPT ![p].at = "record", ![p].status = status]
  /\ UNCHANGED <<job, signer, cache, chain, mined, claims, bounds>>

--------------------------------------------------------------------------------
(* Recording. *)

\* _record_result and _record_failure: nothing without the token.  A heartbeat
\* that lost one of the leases makes process_job skip them.
Record(p) ==
  /\ proc[p].at = "record"
  /\ \/ /\ Owns(p)
        /\ proc' = [proc EXCEPT ![p].at = "commit", ![p].seen = job[proc[p].job]]
     \/ ~(Owns(p) /\ OwnsSigner(p)) /\ Step(p, "release")
  /\ UNCHANGED <<job, signer, cache, chain, mined, claims, bounds>>

\* What the status makes of the row that was read.
Outcome(a, tx) ==
  CASE a.status = "ANCHORED" -> "CONFIRMED"
    [] a.status = "PENDING"  -> "SUBMITTED"
    [] a.status = "FAILED"   -> IF tx # NoTx \/ a.seen.attempts < MaxAttempts THEN "RETRYABLE" ELSE "FAILED"

\* Waiting for finality is not charged to the budget.
RecordCommit(p) ==
  LET a == proc[p]
      tx == IF a.tx = NoTx THEN a.seen.tx ELSE a.tx
      charged == a.seen.attempts
      attempts == IF a.status = "PENDING" /\ charged > 0 THEN charged - 1 ELSE charged IN
  /\ a.at = "commit"
  /\ job' = [job EXCEPT ![a.job].owner = 0, ![a.job].lease = "none",
                        ![a.job].tx = Written(tx, a.seen.tx, @),
                        ![a.job].attempts = Written(attempts, charged, @),
                        ![a.job].state = Written(Outcome(a, tx), a.seen.state, @)]
  /\ proc' = [proc EXCEPT ![p].at = "release", ![p].seen = NewRow]
  /\ UNCHANGED <<signer, cache, chain, mined, claims, bounds>>

\* _release_signer_lease, guarded by the token.
Release(p) ==
  /\ proc[p].at = "release"
  /\ signer' = IF OwnsSigner(p) THEN [owner |-> 0, lease |-> "none"] ELSE signer
  /\ proc' = [proc EXCEPT ![p] = Idle]
  /\ UNCHANGED <<job, cache, chain, mined, claims, bounds>>

--------------------------------------------------------------------------------
(* Time, failures, the network. *)

\* lease_expires_at of one claim passes: freely when its process is gone.
Expire(t) ==
  /\ t # 0
  /\ signer = [owner |-> t, lease |-> "live"] \/ \E j \in Job : job[j].owner = t /\ job[j].lease = "live"
  /\ IF \E p \in Process : proc[p].at # "idle" /\ proc[p].token = t
     THEN overtakes < MaxOvertakes /\ overtakes' = overtakes + 1
     ELSE UNCHANGED overtakes
  /\ signer' = IF signer.owner = t THEN [signer EXCEPT !.lease = "expired"] ELSE signer
  /\ job' = [j \in Job |-> IF job[j].owner = t THEN [job[j] EXCEPT !.lease = "expired"] ELSE job[j]]
  /\ UNCHANGED <<proc, cache, chain, mined, claims, crashes>>

Crash(p) ==
  /\ proc[p].at # "idle"
  /\ crashes < MaxCrashes
  /\ crashes' = crashes + 1
  /\ proc' = [proc EXCEPT ![p] = Idle]
  /\ cache' = [cache EXCEPT ![p] = [j \in Job |-> NoTx]]
  /\ UNCHANGED <<job, signer, chain, mined, claims, overtakes>>

Mine ==
  /\ mined < Len(chain)
  /\ mined' = mined + 1
  /\ UNCHANGED <<job, signer, proc, cache, chain, claims, bounds>>

Next ==
  \/ \E j \in Job : Enqueue(j)
  \/ \E p \in Process, j \in Job : Terminalize(p, j) \/ Claim(p, j)
  \/ \E p \in Process :
       \/ Load(p) \/ Renew(p) \/ Prepare(p) \/ PrepareFails(p) \/ Callback(p) \/ Persist(p)
       \/ Send(p) \/ SendFails(p) \/ Finalize(p) \/ Record(p) \/ RecordCommit(p) \/ Release(p)
       \/ Crash(p)
  \/ \E t \in 1 .. MaxClaims : Expire(t)
  \/ Mine

Spec == Init /\ [][Next]_vars

--------------------------------------------------------------------------------
AnchorTypeOK ==
  /\ job \in [Job -> JobRow]
  /\ signer \in [owner : Nat, lease : Lease]
  /\ proc \in [Process -> Activation]
  /\ cache \in [Process -> [Job -> Tx \cup {NoTx}]]
  /\ chain \in Seq(Tx)
  /\ mined \in 0 .. Len(chain)
  /\ claims \in 0 .. MaxClaims
  /\ crashes \in 0 .. MaxCrashes
  /\ overtakes \in 0 .. MaxOvertakes

\* "preventing a crash or RPC timeout from silently creating duplicate
\* attestations on retry" (BlockchainAnchorJob): the network never accepts two
\* transactions for one job.
NoDuplicateAttestation ==
  \A i, k \in DOMAIN chain : chain[i].job = chain[k].job => i = k

\* The same, through crashes, retries and overtaken leases, as long as no
\* transaction was prepared by a pass of anchor that skips the callback.
Blind == \E i \in DOMAIN chain : chain[i].blind
OneTransactionPerJob == ~Blind => NoDuplicateAttestation

\* "A prepared transaction hash is committed before broadcast"
\* (BlockchainAnchorJob): what the network accepted with the callback is what
\* the row records, if no lease expired under a live process.
BroadcastIsRecorded ==
  overtakes = 0 => \A i \in DOMAIN chain : ~chain[i].blind => job[chain[i].job].tx = chain[i]

\* A job is confirmed by a mined transaction of its own, whichever process
\* prepared, sent and reconciled it; and "A persisted transaction hash is
\* deliberately excluded" (_claim_job): a job that is given up, by an exhausted budget
\* or a death, has no recorded transaction that may still be mined.  Both if no lease
\* expired under a live process.
OutcomeIsTheChains ==
  overtakes = 0 =>
    \A j \in Job :
      /\ job[j].state = "CONFIRMED" => job[j].tx # NoTx /\ job[j].tx.job = j /\ Mined(job[j].tx)
      /\ job[j].state = "FAILED" => job[j].tx = NoTx

\* "Atomically own one job and its EVM signer across processes" (_claim_job): two
\* processes are never at work on the account at once, unless a lease expires
\* under a live process.
Working(p) == proc[p].at # "idle"
OneSigner == overtakes = 0 => \A p, q \in Process : Working(p) /\ Working(q) => p = q

\* A recorded transaction is never replaced, and CONFIRMED and FAILED are final.
RecordStep ==
  overtakes' = 0 =>
    \A j \in Job :
      /\ job[j].tx # NoTx => job'[j].tx = job[j].tx
      /\ job[j].state \in {"CONFIRMED", "FAILED"} => job'[j].state = job[j].state

RecordStands == [][RecordStep]_vars

\* "it must remain reconcilable without allocating a new nonce" (_claim_job): the
\* recorded transaction of an unfinished job was accepted, or still can be.
RecordedCanBeMined ==
  \A j \in Job :
    job[j].state \in Active /\ job[j].tx # NoTx =>
      OnChain(job[j].tx) \/ job[j].tx.nonce >= Len(chain)
================================================================================
