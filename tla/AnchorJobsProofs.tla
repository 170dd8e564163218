---------------------------- MODULE AnchorJobsProofs ----------------------------
(***************************************************************************)
(* What the anchor jobs promise about the chain, for every number of jobs  *)
(* and processes and every budget of attempts.                             *)
(*                                                                         *)
(* SpentInv holds whatever happens to the leases: no two transactions that *)
(* were prepared under the callback are accepted for one job, because what *)
(* was prepared before the first of them was accepted has a nonce that is  *)
(* gone.  ClaimInv says the rest, of the runs in which no lease expires    *)
(* under a live process.                                                   *)
(***************************************************************************)
EXTENDS AnchorJobs, TLAPS

\* What a process works on, and that it has a transaction where it needs one.
WorkOK(p) ==
  /\ IF proc[p].at = "idle" THEN proc[p].tx = NoTx ELSE proc[p].job \in Job
  /\ proc[p].at \in {"callback", "persist", "send", "finalize"} => proc[p].tx # NoTx

TypesInv == AnchorTypeOK /\ \A p \in Process : WorkOK(p)

--------------------------------------------------------------------------------
(* The nonces. *)

Plain(x) == x # NoTx /\ ~x.blind

\* The network accepted a transaction for j that was prepared under the callback.
Accepted(j) == \E i \in DOMAIN chain : chain[i].job = j /\ ~chain[i].blind

\* A transaction of j: its nonce is not ahead of the account.
IsOf(x, j) == x # NoTx => x.job = j /\ x.nonce <= Len(chain)

\* Once one was accepted for its job, its nonce is gone.
Spent(x, j) == Plain(x) /\ Accepted(j) => x.nonce < Len(chain)

\* It was written to the row before this.
Recorded(x, j) == Plain(x) => job[j].tx # NoTx

RowsSpent ==
  \A j \in Job :
    /\ IsOf(job[j].tx, j) /\ Spent(job[j].tx, j)
    /\ Accepted(j) => job[j].tx # NoTx

CachesSpent ==
  \A p \in Process, j \in Job :
    IsOf(cache[p][j], j) /\ Spent(cache[p][j], j) /\ Recorded(cache[p][j], j)

\* What the callback has not looked at yet may be new to the row, and may come late.
WorkSpent(p) ==
  LET a == proc[p] IN
  /\ IsOf(a.tx, a.job)
  /\ a.at # "callback" => Spent(a.tx, a.job)
  /\ a.at \notin {"callback", "persist"} => Recorded(a.tx, a.job)
  /\ a.at = "persist" /\ a.seen.tx # NoTx => job[a.job].tx # NoTx

ChainInOrder ==
  /\ \A i \in DOMAIN chain : chain[i].nonce = i - 1
  /\ \A i, k \in DOMAIN chain :
       chain[i].job = chain[k].job /\ ~chain[i].blind /\ ~chain[k].blind => i = k

SpentInv ==
  /\ RowsSpent /\ CachesSpent /\ ChainInOrder
  /\ \A p \in Process : WorkSpent(p)

--------------------------------------------------------------------------------
(* The claim. *)

\* The signer and the row are leased to a process at work.
Leased(a) ==
  /\ signer.owner = a.token /\ signer.lease = "live"
  /\ a.at # "release" => /\ job[a.job].owner = a.token /\ job[a.job].lease = "live"
                         /\ job[a.job].state \in Active

\* What it has in hand is what the row records or, on a pass that skips the
\* callback, what the row does not record yet; it is also what it keeps.
InHand(a, kept) ==
  LET r == job[a.job] IN
  /\ a.at = "load" => a.attempt = "first"
  /\ a.at = "prepare" => a.attempt # "reconcile" /\ r.tx \in {NoTx, kept[a.job]}
  /\ a.at = "prepare" /\ a.attempt = "first" => r.tx = NoTx
  /\ a.at \in {"callback", "persist"} => a.attempt = "first" /\ r.tx = NoTx
  /\ a.at \in {"send", "finalize"} =>
       /\ r.tx = a.tx \/ (r.tx = NoTx /\ a.tx.blind)
       /\ a.attempt # "reconcile" => kept[a.job] = a.tx

\* What it read, and what its receipt says.
Read(a) ==
  LET r == job[a.job] IN
  /\ a.at = "persist" => a.seen.tx = NoTx
  /\ a.at = "commit" => a.seen.tx = r.tx /\ a.seen.state = r.state
  /\ a.at \in {"record", "commit"} =>
       /\ a.status # "FAILED" => a.tx # NoTx
       /\ a.tx # NoTx => r.tx \in {NoTx, a.tx} /\ Mined(a.tx)

AtWork(p) == Working(p) => Leased(proc[p]) /\ InHand(proc[p], cache[p]) /\ Read(proc[p])

ClaimOK ==
  /\ \A p, q \in Process : Working(p) /\ Working(q) => p = q
  /\ \A p \in Process : AtWork(p)

\* The conclusions, one at a time.
ChainIsRecorded == \A i \in DOMAIN chain : Plain(chain[i]) => job[chain[i].job].tx = chain[i]
EndIsTheChains(j) ==
  /\ job[j].state = "CONFIRMED" => job[j].tx # NoTx /\ Mined(job[j].tx)
  /\ job[j].state = "FAILED" => job[j].tx = NoTx

ClaimInv ==
  overtakes = 0 => ClaimOK /\ ChainIsRecorded /\ \A j \in Job : EndIsTheChains(j)

--------------------------------------------------------------------------------
(* Types. *)

LEMMA RecordTypes ==
  /\ Idle \in Activation /\ Idle.at = "idle" /\ Idle.tx = NoTx
  /\ NewRow \in JobRow /\ NewRow.state = "MISSING" /\ NewRow.tx = NoTx
BY AnchorAssumption DEF Idle, NewRow, Activation, At, JobRow, JobState, Active, Lease

LEMMA RowFields ==
  ASSUME NEW r \in JobRow
  PROVE  /\ r.state \in JobState /\ r.attempts \in Nat /\ r.owner \in Nat /\ r.lease \in Lease
         /\ r.tx \in Tx \cup {NoTx}
BY DEF JobRow

\* A row with other leases, another state or another charge is a row.
LEMMA RowEdits ==
  ASSUME NEW r \in JobRow, NEW l \in Lease, NEW s \in JobState, NEW o \in Nat, NEW n \in Nat,
         NEW x \in Tx \cup {NoTx}
  PROVE  /\ [r EXCEPT !.lease = l] \in JobRow
         /\ [r EXCEPT !.state = s] \in JobRow
         /\ [r EXCEPT !.state = s, !.owner = o, !.lease = l] \in JobRow
         /\ [r EXCEPT !.attempts = n, !.owner = o, !.lease = l] \in JobRow
         /\ [r EXCEPT !.state = s, !.tx = x] \in JobRow
         /\ [r EXCEPT !.owner = o, !.lease = l, !.tx = x, !.attempts = n, !.state = s] \in JobRow
BY DEF JobRow

LEMMA WorkFields ==
  ASSUME NEW a \in Activation
  PROVE  /\ a.at \in At /\ a.job \in Job \cup {NoJob} /\ a.token \in Nat
         /\ a.attempt \in {"first", "again", "reconcile"} /\ a.tx \in Tx \cup {NoTx}
         /\ a.seen \in JobRow /\ a.status \in {"ANCHORED", "PENDING", "FAILED"}
BY DEF Activation

LEMMA NullIsNoTx == NoTx \notin Tx
BY AnchorAssumption DEF Tx

LEMMA InitTypes == Init => TypesInv
BY RecordTypes, AnchorAssumption
DEF Init, TypesInv, AnchorTypeOK, WorkOK, Lease

\* The steps on a row and on the leases.
LEMMA RowTypes ==
  ASSUME TypesInv,
         \/ \E j \in Job : Enqueue(j) \/ \E p \in Process : Terminalize(p, j)
         \/ \E p \in Process : Renew(p)
         \/ \E t \in 1 .. MaxClaims : Expire(t)
  PROVE  TypesInv'
<1> USE DEF TypesInv, AnchorTypeOK
<1>0. /\ \A i \in Job : job[i] \in JobRow /\ job[i].attempts \in Nat
      /\ {"PENDING", "FAILED"} \subseteq JobState /\ {"none", "live", "expired"} \subseteq Lease
  BY RowFields DEF JobState, Active, Lease
<1> DEFINE Goes(i, r) == job' = [job EXCEPT ![i] = r] => job' \in [Job -> JobRow]
<1>0a. \A i, r : r \in JobRow => Goes(i, r)
  OBVIOUS
<1> HIDE DEF Goes
<1>1. job' \in [Job -> JobRow]
  <2>1. ASSUME NEW j \in Job, Enqueue(j) PROVE job' \in [Job -> JobRow]
    <3>1. Goes(j, [job[j] EXCEPT !.state = "PENDING"])
      BY <1>0, <1>0a, RowEdits
    <3>. QED  BY <2>1, <3>1 DEF Enqueue, Goes
  <2>2. ASSUME NEW j \in Job, NEW p \in Process, Terminalize(p, j) PROVE job' \in [Job -> JobRow]
    <3>1. Goes(j, [job[j] EXCEPT !.state = "FAILED", !.owner = 0, !.lease = "none"])
      BY <1>0, <1>0a, RowEdits
    <3>. QED  BY <2>2, <3>1 DEF Terminalize, Goes
  <2>3. ASSUME NEW p \in Process, Renew(p) PROVE job' \in [Job -> JobRow]
    <3>1. proc[p].job \in Job
      BY <2>3 DEF Renew, WorkOK
    <3>2. Goes(proc[p].job, [job[proc[p].job] EXCEPT !.lease = "live"])
      BY <1>0, <1>0a, <3>1, RowEdits
    <3>. QED  BY <2>3, <3>2 DEF Renew, Goes
  <2>4. CASE \E t \in 1 .. MaxClaims : Expire(t)
    <3>1. \A i \in Job : [job[i] EXCEPT !.lease = "expired"] \in JobRow
      BY <1>0, RowEdits
    <3>. QED  BY <1>0, <2>4, <3>1 DEF Expire
  <2>. QED  BY <2>1, <2>2, <2>3, <2>4
<1>2. signer' \in [owner : Nat, lease : Lease]
  BY DEF Enqueue, Terminalize, Renew, Expire, Lease
<1>3. UNCHANGED <<proc, cache, chain, mined, claims, crashes>>
  BY DEF Enqueue, Terminalize, Renew, Expire, bounds
<1>4. overtakes' \in 0 .. MaxOvertakes
  <2>1. overtakes' = overtakes \/ (overtakes < MaxOvertakes /\ overtakes' = overtakes + 1)
    <3>1. CASE \E t \in 1 .. MaxClaims : Expire(t)
      BY <3>1 DEF Expire
    <3>2. CASE ~\E t \in 1 .. MaxClaims : Expire(t)
      BY <3>2 DEF Enqueue, Terminalize, Renew, bounds
    <3>. QED  BY <3>1, <3>2
  <2>. QED  BY <2>1, AnchorAssumption
<1>. QED  BY <1>1, <1>2, <1>3, <1>4 DEF WorkOK

LEMMA ClaimTypes ==
  ASSUME TypesInv, NEW j \in Job, NEW p \in Process, Claim(p, j)
  PROVE  TypesInv'
<1> USE DEF TypesInv, AnchorTypeOK, Claim, Take
<1>1. claims' \in 0 .. MaxClaims /\ claims' \in Nat
  BY AnchorAssumption
<1>2. job' \in [Job -> JobRow]
  <2> DEFINE n == IF job[j].attempts < MaxAttempts THEN job[j].attempts + 1 ELSE job[j].attempts
             new == [job[j] EXCEPT !.attempts = n, !.owner = claims', !.lease = "live"]
  <2>1. job[j] \in JobRow /\ n \in Nat /\ "live" \in Lease /\ "PENDING" \in JobState
    BY RowFields, AnchorAssumption DEF Lease, JobState, Active
  <2>2. new \in JobRow
    BY <1>1, <2>1, RowEdits
  <2>3. job' = [job EXCEPT ![j] = new]
    OBVIOUS
  <2>. QED  BY <2>2, <2>3
<1>3. signer' \in [owner : Nat, lease : Lease]
  BY <1>1 DEF Lease
<1>4. [Idle EXCEPT !.at = "load", !.job = j, !.token = claims'] \in Activation
  BY <1>1, RecordTypes DEF Activation, At
<1>5. \A q \in Process : WorkOK(q)'
  BY DEF WorkOK, Idle
<1>. QED  BY <1>1, <1>2, <1>3, <1>4, <1>5 DEF bounds

\* A process at work moves on with a transaction where it needs one.
LEMMA WorkTypes ==
  ASSUME TypesInv, NEW p \in Process,
         \/ Load(p) \/ Prepare(p) \/ PrepareFails(p) \/ Callback(p) \/ Persist(p)
         \/ Send(p) \/ SendFails(p) \/ Finalize(p) \/ Record(p) \/ RecordCommit(p) \/ Release(p)
         \/ Crash(p)
  PROVE  proc' \in [Process -> Activation] /\ \A q \in Process : WorkOK(q)'
<1> USE DEF TypesInv, AnchorTypeOK
<1>1. \A q \in Process : proc[q] \in Activation /\ WorkOK(q)
  OBVIOUS
<1> DEFINE a == proc[p]
           Good(g) == g \in Activation /\ (IF g.at = "idle" THEN g.tx = NoTx ELSE g.job \in Job)
                      /\ (g.at \in {"callback", "persist", "send", "finalize"} => g.tx # NoTx)
           Goes(g) == proc' = [proc EXCEPT ![p] = g] =>
                        proc' \in [Process -> Activation] /\ \A q \in Process : WorkOK(q)'
<1>2. \A g : Good(g) => Goes(g)
  BY <1>1 DEF WorkOK
<1>3. a \in Activation /\ (a.at # "idle" => a.job \in Job) /\ Good(a)
  BY <1>1 DEF WorkOK
<1>4. Good(Idle)
  BY RecordTypes
<1>5. \A place \in At \ {"idle"} : a.at # "idle" /\ (place \in {"callback", "persist", "send", "finalize"} => a.tx # NoTx)
                      => Good([a EXCEPT !.at = place])
  BY <1>3 DEF Activation
<1>6. a.at # "idle" => /\ Good([a EXCEPT !.at = "record", !.status = "FAILED", !.tx = NoTx, !.seen = NewRow])
                       /\ Good([a EXCEPT !.at = "prepare", !.attempt = "again", !.tx = NoTx, !.seen = NewRow])
  BY <1>3, RecordTypes DEF Activation, At
<1> HIDE DEF Goes
<1>7. a.at # "idle" /\ Fails(p) => proc' \in [Process -> Activation] /\ \A q \in Process : WorkOK(q)'
  BY <1>2, <1>6 DEF Fails, Goes
<1>8. a.at # "idle" /\ TriesAgain(p) => proc' \in [Process -> Activation] /\ \A q \in Process : WorkOK(q)'
  BY <1>2, <1>6 DEF TriesAgain, Goes
<1>9. CASE Load(p)
  <2>1. a.at = "load" /\ job[a.job].tx \in Tx \cup {NoTx}
    BY <1>3, <1>9, RowFields DEF Load
  <2>2. job[a.job].tx # NoTx =>
          Good([a EXCEPT !.at = "send", !.attempt = "reconcile", !.tx = job[a.job].tx])
    BY <1>3, <2>1 DEF Activation, At
  <2>3. Good([a EXCEPT !.at = "release"]) /\ Good([a EXCEPT !.at = "prepare"])
    BY <1>5, <2>1 DEF At
  <2>4. \/ proc' = [proc EXCEPT ![p] = [a EXCEPT !.at = "release"]]
        \/ proc' = [proc EXCEPT ![p] = [a EXCEPT !.at = "prepare"]]
        \/ /\ job[a.job].tx # NoTx
           /\ proc' = [proc EXCEPT ![p] = [a EXCEPT !.at = "send", !.attempt = "reconcile", !.tx = job[a.job].tx]]
    BY <1>9 DEF Load
  <2>. QED  BY <1>2, <2>2, <2>3, <2>4 DEF Goes
<1>10. CASE Prepare(p)
  <2> DEFINE first == a.attempt = "first"
             x == IF cache[p][a.job] # NoTx THEN cache[p][a.job]
                  ELSE [job |-> a.job, nonce |-> Len(chain), token |-> a.token, blind |-> ~first]
  <2>1. a.at = "prepare" /\ a.job \in Job /\ a.token \in Nat /\ Len(chain) \in Nat
    BY <1>3, <1>10, WorkFields DEF Prepare
  <2>2. [job |-> a.job, nonce |-> Len(chain), token |-> a.token, blind |-> ~first] \in Tx
    BY <2>1 DEF Tx
  <2>3. x \in Tx /\ x # NoTx
    BY <2>1, <2>2, NullIsNoTx
  <2>4. Good([a EXCEPT !.at = "callback", !.tx = x]) /\ Good([a EXCEPT !.at = "send", !.tx = x])
    BY <1>3, <2>1, <2>3 DEF Activation, At
  <2>5. \/ proc' = [proc EXCEPT ![p] = [a EXCEPT !.at = "callback", !.tx = x]]
        \/ proc' = [proc EXCEPT ![p] = [a EXCEPT !.at = "send", !.tx = x]]
    BY <1>10 DEF Prepare
  <2>. QED  BY <1>2, <2>4, <2>5 DEF Goes
<1>11. CASE PrepareFails(p)
  BY <1>7, <1>8, <1>11 DEF PrepareFails
<1>12. CASE Callback(p)
  <2>1. a.at = "callback" /\ a.job \in Job /\ job[a.job] \in JobRow
    BY <1>3, <1>12 DEF Callback
  <2>2. Good([a EXCEPT !.at = "persist", !.seen = job[a.job]])
    BY <1>3, <2>1 DEF Activation, At
  <2>. QED  BY <1>2, <1>7, <1>12, <2>1, <2>2 DEF Callback, Goes
<1>13. CASE Persist(p)
  <2>1. Good([a EXCEPT !.at = "send", !.seen = NewRow])
    BY <1>3, <1>13, RecordTypes DEF Persist, Activation, At
  <2>. QED  BY <1>2, <1>13, <2>1 DEF Persist, Goes
<1>14. CASE Send(p) \/ SendFails(p)
  <2>1. a.at = "send"
    BY <1>14 DEF Send, SendFails
  <2>2. Good([a EXCEPT !.at = "finalize"])
    BY <1>3, <1>5, <2>1 DEF At
  <2>. QED  BY <1>2, <1>7, <1>14, <2>1, <2>2 DEF Send, SendFails, Step, Goes
<1>15. CASE Finalize(p)
  <2>1. a.at = "finalize"
    BY <1>15 DEF Finalize
  <2>2. \A status \in {"ANCHORED", "PENDING", "FAILED"} : Good([a EXCEPT !.at = "record", !.status = status])
    BY <1>3, <2>1 DEF Activation, At
  <2>. QED  BY <1>2, <1>7, <1>8, <1>15, <2>1, <2>2 DEF Finalize, Goes
<1>16. CASE Record(p)
  <2>1. a.at = "record" /\ a.job \in Job /\ job[a.job] \in JobRow
    BY <1>3, <1>16 DEF Record
  <2>2. Good([a EXCEPT !.at = "commit", !.seen = job[a.job]])
    BY <1>3, <2>1 DEF Activation, At
  <2>3. Good([a EXCEPT !.at = "release"])
    BY <1>5, <2>1 DEF At
  <2>. QED  BY <1>2, <1>16, <2>2, <2>3 DEF Record, Step, Goes
<1>17. CASE RecordCommit(p)
  <2>1. Good([a EXCEPT !.at = "release", !.seen = NewRow])
    BY <1>3, <1>17, RecordTypes DEF RecordCommit, Activation, At
  <2>. QED  BY <1>2, <1>17, <2>1 DEF RecordCommit, Goes
<1>18. CASE Release(p) \/ Crash(p)
  BY <1>2, <1>4, <1>18 DEF Release, Crash, Goes
<1>. QED  BY <1>9, <1>10, <1>11, <1>12, <1>13, <1>14, <1>15, <1>16, <1>17, <1>18

\* What a process at work does to the row, the signer, its cache and the chain.
LEMMA WorkKeepsTypes ==
  ASSUME TypesInv, NEW p \in Process,
         \/ Load(p) \/ Prepare(p) \/ PrepareFails(p) \/ Callback(p) \/ Persist(p)
         \/ Send(p) \/ SendFails(p) \/ Finalize(p) \/ Record(p) \/ RecordCommit(p) \/ Release(p)
         \/ Crash(p)
  PROVE  TypesInv'
<1> USE DEF TypesInv, AnchorTypeOK
<1> DEFINE a == proc[p]
<1>1. a \in Activation /\ WorkOK(p)
  OBVIOUS
<1>2. job' \in [Job -> JobRow]
  <2>1. CASE Persist(p)
    <3> DEFINE new == [job[a.job] EXCEPT !.state = Written("PREPARED", a.seen.state, job[a.job].state),
                                         !.tx = Written(a.tx, a.seen.tx, job[a.job].tx)]
    <3>1. a.job \in Job /\ job[a.job] \in JobRow
      BY <1>1, <2>1 DEF Persist, WorkOK
    <3>2. /\ Written("PREPARED", a.seen.state, job[a.job].state) \in JobState
          /\ Written(a.tx, a.seen.tx, job[a.job].tx) \in Tx \cup {NoTx}
      BY <1>1, <3>1, RowFields, WorkFields DEF Written, JobState, Active
    <3>3. new \in JobRow
      BY <3>1, <3>2 DEF JobRow
    <3>. QED  BY <2>1, <3>3 DEF Persist
  <2>2. CASE RecordCommit(p)
    <3> DEFINE tx == IF a.tx = NoTx THEN a.seen.tx ELSE a.tx
               charged == a.seen.attempts
               attempts == IF a.status = "PENDING" /\ charged > 0 THEN charged - 1 ELSE charged
               r == job[a.job]
               newTx == Written(tx, a.seen.tx, r.tx)
               newAttempts == Written(attempts, charged, r.attempts)
               newState == Written(Outcome(a, tx), a.seen.state, r.state)
               new == [r EXCEPT !.owner = 0, !.lease = "none", !.tx = newTx,
                                !.attempts = newAttempts, !.state = newState]
    <3>1. a.job \in Job /\ r \in JobRow /\ "none" \in Lease
      BY <1>1, <2>2 DEF RecordCommit, WorkOK, Lease
    <3>2. newTx \in Tx \cup {NoTx} /\ newAttempts \in Nat
      BY <1>1, <3>1, RowFields, WorkFields DEF Written
    <3>3. newState \in JobState
      BY <1>1, <3>1, RowFields, WorkFields DEF Written, Outcome, JobState, Active
    <3>4. job' = [job EXCEPT ![a.job] = new]
      BY <2>2 DEF RecordCommit
    <3> HIDE DEF newTx, newAttempts, newState
    <3>5. new \in JobRow
      BY <3>1, <3>2, <3>3 DEF JobRow
    <3>. QED  BY <3>4, <3>5
  <2>3. CASE ~Persist(p) /\ ~RecordCommit(p)
    BY <2>3 DEF Load, Prepare, PrepareFails, Callback, Send, SendFails, Finalize, Record, Release, Crash
  <2>. QED  BY <2>1, <2>2, <2>3
<1>3. signer' \in [owner : Nat, lease : Lease]
  BY DEF Load, Prepare, PrepareFails, Callback, Persist, Send, SendFails, Finalize, Record, RecordCommit,
         Release, Crash, Lease
<1>4. proc' \in [Process -> Activation] /\ \A q \in Process : WorkOK(q)'
  BY WorkTypes
<1>5. cache' \in [Process -> [Job -> Tx \cup {NoTx}]]
  <2>1. proc'[p].tx \in Tx \cup {NoTx} /\ a.tx \in Tx \cup {NoTx}
    BY <1>1, <1>4, WorkFields
  <2>2. CASE Prepare(p)
    <3>1. cache' = cache \/ cache' = [cache EXCEPT ![p] = [cache[p] EXCEPT ![a.job] = proc'[p].tx]]
      BY <2>2 DEF Prepare
    <3>. QED  BY <2>1, <3>1
  <2>3. CASE Persist(p)
    <3>1. cache' = [cache EXCEPT ![p] = [cache[p] EXCEPT ![a.job] = a.tx]]
      BY <2>3 DEF Persist
    <3>. QED  BY <2>1, <3>1
  <2>4. CASE Crash(p)
    BY <2>4 DEF Crash
  <2>5. CASE ~Prepare(p) /\ ~Persist(p) /\ ~Crash(p)
    BY <2>5 DEF Load, PrepareFails, Callback, Send, SendFails, Finalize, Record, RecordCommit, Release
  <2>. QED  BY <2>2, <2>3, <2>4, <2>5
<1>6. chain' \in Seq(Tx) /\ mined' \in 0 .. Len(chain')
  <2>1. CASE Send(p)
    <3>1. a.tx \in Tx
      BY <1>1, <2>1, WorkFields DEF Send, WorkOK
    <3>. QED  BY <2>1, <3>1 DEF Send
  <2>2. CASE ~Send(p)
    BY <2>2 DEF Load, Prepare, PrepareFails, Callback, Persist, SendFails, Finalize, Record, RecordCommit,
                Release, Crash
  <2>. QED  BY <2>1, <2>2
<1>7. UNCHANGED <<claims, overtakes>> /\ crashes' \in 0 .. MaxCrashes
  BY AnchorAssumption
  DEF Load, Prepare, PrepareFails, Callback, Persist, Send, SendFails, Finalize, Record, RecordCommit,
      Release, Crash, bounds
<1>. QED  BY <1>2, <1>3, <1>4, <1>5, <1>6, <1>7

LEMMA NextTypes == TypesInv /\ [Next]_vars => TypesInv'
<1> SUFFICES ASSUME TypesInv, [Next]_vars PROVE TypesInv'
  OBVIOUS
<1>1. CASE Mine
  BY <1>1 DEF Mine, TypesInv, AnchorTypeOK, WorkOK, bounds
<1>2. CASE UNCHANGED vars
  BY <1>2 DEF vars, bounds, TypesInv, AnchorTypeOK, WorkOK
<1>. QED  BY <1>1, <1>2, RowTypes, ClaimTypes, WorkKeepsTypes DEF Next

--------------------------------------------------------------------------------
(* No transaction twice. *)

LEMMA InitSpent == Init => SpentInv
BY RecordTypes
DEF Init, SpentInv, RowsSpent, CachesSpent, ChainInOrder, WorkSpent, IsOf, Spent, Recorded, Plain,
    Accepted

\* The rows keep their transactions, and no process and no block moves.
LEMMA SpentRows ==
  ASSUME TypesInv, SpentInv, UNCHANGED <<proc, cache, chain>>, \A j \in Job : job'[j].tx = job[j].tx
  PROVE  SpentInv'
<1>1. RowsSpent'
  BY DEF SpentInv, RowsSpent, IsOf, Spent, Plain, Accepted
<1>2. CachesSpent'
  BY DEF SpentInv, CachesSpent, IsOf, Spent, Recorded, Plain, Accepted
<1>3. ChainInOrder'
  BY DEF SpentInv, ChainInOrder
<1>4. ASSUME NEW p \in Process PROVE WorkSpent(p)'
  <2>1. proc[p].at # "idle" \/ proc[p].tx # NoTx => proc[p].job \in Job
    BY DEF TypesInv, WorkOK
  <2>. QED  BY <2>1 DEF SpentInv, WorkSpent, IsOf, Spent, Recorded, Plain, Accepted
<1>. QED  BY <1>1, <1>2, <1>3, <1>4 DEF SpentInv

CacheSpent(p) == \A j \in Job : IsOf(cache[p][j], j) /\ Spent(cache[p][j], j) /\ Recorded(cache[p][j], j)

\* One process moves; the rows keep their transactions or get one, and nothing is sent.
LEMMA SpentMove ==
  ASSUME TypesInv, SpentInv, NEW p \in Process, chain' = chain,
         \A j \in Job : \/ job'[j].tx = job[j].tx
                        \/ job'[j].tx # NoTx /\ (IsOf(job[j].tx, j) /\ Spent(job[j].tx, j))',
         \A q \in Process \ {p} : proc'[q] = proc[q] /\ cache'[q] = cache[q],
         WorkSpent(p)', CacheSpent(p)'
  PROVE  SpentInv'
<1>1. RowsSpent'
  BY DEF SpentInv, RowsSpent, IsOf, Spent, Plain, Accepted
<1>2. CachesSpent'
  BY DEF SpentInv, CachesSpent, CacheSpent, IsOf, Spent, Recorded, Plain, Accepted
<1>3. ChainInOrder'
  BY DEF SpentInv, ChainInOrder
<1>4. ASSUME NEW q \in Process \ {p} PROVE WorkSpent(q)'
  <2>1. proc[q].at # "idle" \/ proc[q].tx # NoTx => proc[q].job \in Job
    BY DEF TypesInv, WorkOK
  <2>. QED  BY <2>1 DEF SpentInv, WorkSpent, IsOf, Spent, Recorded, Plain, Accepted
<1>. QED  BY <1>1, <1>2, <1>3, <1>4 DEF SpentInv

\* The steps between: what the process has in hand was in the row or in its
\* hands, or is nothing.
LEMMA SpentWork ==
  ASSUME TypesInv, SpentInv, NEW p \in Process,
         \/ \E j \in Job : Claim(p, j)
         \/ Load(p) \/ PrepareFails(p) \/ Callback(p) \/ SendFails(p) \/ Finalize(p) \/ Record(p)
         \/ Release(p) \/ Crash(p)
  PROVE  SpentInv'
<1> USE DEF TypesInv, AnchorTypeOK
<1>1. chain' = chain /\ \A q \in Process \ {p} : proc'[q] = proc[q] /\ cache'[q] = cache[q]
  BY DEF Claim, Take, Load, PrepareFails, Callback, SendFails, Finalize, Record, Release, Crash, Fails,
         TriesAgain, Step
<1>2. \A j \in Job : job'[j].tx = job[j].tx
  <2>1. ASSUME NEW j \in Job, Claim(p, j) PROVE \A i \in Job : job'[i].tx = job[i].tx
    BY <2>1 DEF Claim, Take, JobRow
  <2>. QED
    BY <2>1 DEF Load, PrepareFails, Callback, SendFails, Finalize, Record, Release, Crash
<1>3. proc[p] \in Activation /\ WorkSpent(p) /\ WorkOK(p)
  BY DEF SpentInv
<1>4. ASSUME proc'[p].tx = NoTx, proc'[p].at # "persist" PROVE WorkSpent(p)'
  BY <1>4 DEF WorkSpent, IsOf, Spent, Recorded, Plain
<1>5. ASSUME proc[p].at \notin {"callback", "persist"}, proc'[p].at # "persist",
             proc'[p].tx = proc[p].tx, proc'[p].job = proc[p].job
      PROVE  WorkSpent(p)'
  BY <1>1, <1>2, <1>3, <1>5 DEF WorkSpent, WorkOK, IsOf, Spent, Recorded, Plain, Accepted
<1>6. ASSUME Load(p), proc'[p].at # "persist", proc'[p].tx = job[proc[p].job].tx, proc'[p].job = proc[p].job
      PROVE  WorkSpent(p)'
  BY <1>1, <1>2, <1>3, <1>6
  DEF Load, SpentInv, RowsSpent, WorkSpent, WorkOK, IsOf, Spent, Recorded, Plain, Accepted
<1>7. ASSUME Callback(p), proc'[p].tx = proc[p].tx, proc'[p].job = proc[p].job,
             proc'[p].at = "persist", proc'[p].seen = job[proc[p].job],
             job[proc[p].job].tx \in {NoTx, proc[p].tx}
      PROVE  WorkSpent(p)'
  BY <1>1, <1>2, <1>3, <1>7
  DEF Callback, SpentInv, RowsSpent, WorkSpent, WorkOK, IsOf, Spent, Recorded, Plain, Accepted
<1>8. WorkSpent(p)'
  <2>1. CASE \E j \in Job : Claim(p, j)
    <3>1. PICK j \in Job : proc' = [proc EXCEPT ![p] = [Idle EXCEPT !.at = "load", !.job = j, !.token = claims']]
      BY <2>1 DEF Claim, Take
    <3>2. proc'[p] = [Idle EXCEPT !.at = "load", !.job = j, !.token = claims']
      BY <3>1
    <3>3. proc'[p].tx = NoTx /\ proc'[p].at = "load"
      BY <3>2 DEF Idle
    <3>. QED  BY <1>4, <3>3
  <2>2. CASE Load(p)
    <3>1. \/ proc'[p].tx = proc[p].tx /\ proc'[p].job = proc[p].job /\ proc[p].at = "load"
          \/ proc'[p].tx = job[proc[p].job].tx /\ proc'[p].job = proc[p].job
      BY <1>3, <2>2 DEF Load, Activation
    <3>2. proc'[p].at # "persist"
      BY <1>3, <2>2 DEF Load, Activation
    <3>. QED  BY <1>5, <1>6, <2>2, <3>1, <3>2
  <2>3. CASE PrepareFails(p) \/ (SendFails(p) /\ Fails(p)) \/ (Finalize(p) /\ (Fails(p) \/ TriesAgain(p)))
    <3>1. proc'[p].tx = NoTx /\ proc'[p].at # "persist"
      BY <1>3, <2>3 DEF PrepareFails, Fails, TriesAgain, Activation
    <3>. QED  BY <1>4, <3>1
  <2>4. CASE Callback(p)
    <3>1. \/ proc'[p].tx = NoTx /\ proc'[p].at # "persist"
          \/ /\ proc'[p].tx = proc[p].tx /\ proc'[p].job = proc[p].job
             /\ proc'[p].at = "persist" /\ proc'[p].seen = job[proc[p].job]
             /\ job[proc[p].job].tx \in {NoTx, proc[p].tx}
      BY <1>3, <2>4 DEF Callback, Fails, Activation
    <3>. QED  BY <1>4, <1>7, <2>4, <3>1
  <2>5. CASE (SendFails(p) /\ ~Fails(p)) \/ (Finalize(p) /\ ~Fails(p) /\ ~TriesAgain(p)) \/ Record(p)
    <3>1. /\ proc[p].at \in {"send", "finalize", "record"} /\ proc'[p].at # "persist"
          /\ proc'[p].tx = proc[p].tx /\ proc'[p].job = proc[p].job
      BY <1>3, <2>5 DEF SendFails, Finalize, Record, Step, Activation
    <3>. QED  BY <1>5, <3>1
  <2>6. CASE Release(p) \/ Crash(p)
    BY <1>4, <2>6, RecordTypes DEF Release, Crash
  <2>. QED  BY <2>1, <2>2, <2>3, <2>4, <2>5, <2>6
<1>9. CacheSpent(p)'
  <2>1. cache'[p] = cache[p] \/ \A j \in Job : cache'[p][j] = NoTx
    BY DEF Claim, Take, Load, PrepareFails, Callback, SendFails, Finalize, Record, Release, Crash
  <2>2. CASE cache'[p] = cache[p]
    BY <1>1, <1>2, <2>2 DEF SpentInv, CachesSpent, CacheSpent, IsOf, Spent, Recorded, Plain, Accepted
  <2>3. CASE \A j \in Job : cache'[p][j] = NoTx
    BY <2>3 DEF CacheSpent, IsOf, Spent, Recorded, Plain
  <2>. QED  BY <2>1, <2>2, <2>3
<1>. QED  BY <1>1, <1>2, <1>8, <1>9, SpentMove

LEMMA SpentPrepare ==
  ASSUME TypesInv, SpentInv, NEW p \in Process, Prepare(p)
  PROVE  SpentInv'
<1> USE DEF TypesInv, AnchorTypeOK
<1> DEFINE a == proc[p]
           kept == cache[p][a.job]
           fresh == [job |-> a.job, nonce |-> Len(chain), token |-> a.token,
                     blind |-> ~(a.attempt = "first")]
           x == IF kept # NoTx THEN kept ELSE fresh
<1>1. a \in Activation /\ a.job \in Job /\ Len(chain) \in Nat
  BY DEF Prepare, WorkOK
<1>2. /\ UNCHANGED <<job, chain>>
      /\ proc'[p].tx = x /\ proc'[p].job = a.job
      /\ proc'[p].at = IF a.attempt = "first" THEN "callback" ELSE "send"
      /\ \A q \in Process \ {p} : proc'[q] = proc[q] /\ cache'[q] = cache[q]
  BY <1>1 DEF Prepare, Activation
<1>3. \/ cache'[p] = cache[p]
      \/ a.attempt # "first" /\ cache'[p] = [cache[p] EXCEPT ![a.job] = x]
  BY <1>1, <1>2 DEF Prepare
<1>4. IsOf(kept, a.job) /\ Spent(kept, a.job) /\ Recorded(kept, a.job)
  BY <1>1 DEF SpentInv, CachesSpent
<1>5. fresh.job = a.job /\ fresh.nonce = Len(chain) /\ (a.attempt # "first" => fresh.blind)
  OBVIOUS
<1>6. IsOf(x, a.job) /\ (a.attempt # "first" => Spent(x, a.job) /\ Recorded(x, a.job))
  <2> HIDE DEF fresh, kept, a
  <2>1. CASE kept # NoTx
    BY <1>4, <2>1
  <2>2. CASE kept = NoTx
    BY <1>1, <1>5, <2>2 DEF IsOf, Spent, Recorded, Plain
  <2>. QED  BY <2>1, <2>2
<1> HIDE DEF x, a
<1>7. WorkSpent(p)'
  BY <1>2, <1>6 DEF WorkSpent, IsOf, Spent, Recorded, Plain, Accepted
<1>8. CacheSpent(p)'
  <2>1. CASE cache'[p] = cache[p]
    BY <1>2, <2>1 DEF SpentInv, CachesSpent, CacheSpent, IsOf, Spent, Recorded, Plain, Accepted
  <2>2. CASE a.attempt # "first" /\ cache'[p] = [cache[p] EXCEPT ![a.job] = x]
    <3>1. \A j \in Job : cache'[p][j] = IF j = a.job THEN x ELSE cache[p][j]
      BY <2>2
    <3>. QED
      BY <1>2, <1>6, <2>2, <3>1
      DEF SpentInv, CachesSpent, CacheSpent, IsOf, Spent, Recorded, Plain, Accepted
  <2>. QED  BY <1>3, <2>1, <2>2
<1>. QED  BY <1>2, <1>7, <1>8, SpentMove

\* The callback's commit, and the outcome's.
LEMMA SpentCommit ==
  ASSUME TypesInv, SpentInv, NEW p \in Process, Persist(p) \/ RecordCommit(p)
  PROVE  SpentInv'
<1> USE DEF TypesInv, AnchorTypeOK
<1> DEFINE a == proc[p]
<1>1. a \in Activation /\ a.job \in Job /\ WorkSpent(p) /\ job[a.job] \in JobRow
  BY DEF Persist, RecordCommit, WorkOK, SpentInv
<1>2. chain' = chain /\ \A q \in Process \ {p} : proc'[q] = proc[q] /\ cache'[q] = cache[q]
  BY DEF Persist, RecordCommit
<1>3. /\ proc'[p].tx = a.tx /\ proc'[p].job = a.job /\ proc'[p].at \notin {"callback", "persist"}
  BY <1>1 DEF Persist, RecordCommit, Activation
<1>4. \A j \in Job \ {a.job} : job'[j].tx = job[j].tx
  BY DEF Persist, RecordCommit
<1>5. job'[a.job].tx = job[a.job].tx \/ (a.tx # NoTx /\ job'[a.job].tx = a.tx)
  BY <1>1 DEF Persist, RecordCommit, Written, JobRow, WorkOK
<1>6. Persist(p) => job'[a.job].tx # NoTx
  BY <1>1 DEF Persist, Written, JobRow, WorkOK, WorkSpent
<1>7. IsOf(a.tx, a.job) /\ Spent(a.tx, a.job)
  BY <1>1 DEF Persist, RecordCommit, WorkSpent
<1>8. \A j \in Job : \/ job'[j].tx = job[j].tx
                     \/ job'[j].tx # NoTx /\ (IsOf(job[j].tx, j) /\ Spent(job[j].tx, j))'
  BY <1>2, <1>4, <1>5, <1>7 DEF IsOf, Spent, Plain, Accepted
<1>9. WorkSpent(p)'
  <2>1. a.at = "commit" => Recorded(a.tx, a.job)
    BY <1>1 DEF WorkSpent
  <2>. QED
    BY <1>2, <1>3, <1>5, <1>6, <1>7, <2>1
    DEF Persist, RecordCommit, WorkSpent, IsOf, Spent, Recorded, Plain, Accepted
<1>10. CacheSpent(p)'
  <2>1. \A j \in Job : \/ cache'[p][j] = cache[p][j]
                       \/ Persist(p) /\ j = a.job /\ cache'[p][j] = a.tx
    BY DEF Persist, RecordCommit
  <2>. QED
    BY <1>2, <1>6, <1>7, <1>8, <2>1
    DEF SpentInv, CachesSpent, CacheSpent, IsOf, Spent, Recorded, Plain, Accepted
<1>. QED  BY <1>2, <1>8, <1>9, <1>10, SpentMove

\* The network accepts a transaction: every other one of its job is now too late.
LEMMA SpentSend ==
  ASSUME TypesInv, SpentInv, NEW p \in Process, Send(p)
  PROVE  SpentInv'
<1> USE DEF TypesInv, AnchorTypeOK
<1> DEFINE a == proc[p]
<1>1. a \in Activation /\ a.job \in Job /\ WorkSpent(p) /\ a.at = "send" /\ a.tx # NoTx
  BY DEF Send, WorkOK, SpentInv
<1>2. /\ UNCHANGED <<job, cache>> /\ \A q \in Process \ {p} : proc'[q] = proc[q]
      /\ proc'[p].tx = a.tx /\ proc'[p].job = a.job /\ proc'[p].at = "finalize"
  BY <1>1 DEF Send, Step, Activation
<1>3. CASE chain' = chain
  <2>1. WorkSpent(p)'
    BY <1>1, <1>2, <1>3 DEF WorkSpent, IsOf, Spent, Recorded, Plain, Accepted
  <2>2. CacheSpent(p)'
    BY <1>2, <1>3 DEF SpentInv, CachesSpent, CacheSpent, IsOf, Spent, Recorded, Plain, Accepted
  <2>. QED  BY <1>2, <1>3, <2>1, <2>2, SpentMove
<1>4. CASE chain' # chain
  <2>1. /\ chain' = Append(chain, a.tx) /\ a.tx.nonce = Len(chain) /\ a.tx \in Tx /\ a.tx.job = a.job
        /\ a.tx.blind \in BOOLEAN
    BY <1>1, <1>4 DEF Send, Activation, WorkSpent, IsOf, Tx
  <2>2. /\ Len(chain) \in Nat /\ Len(chain') = Len(chain) + 1 /\ DOMAIN chain = 1 .. Len(chain)
        /\ DOMAIN chain' = 1 .. Len(chain) + 1
        /\ \A i \in 1 .. Len(chain) : chain'[i] = chain[i]
        /\ chain'[Len(chain) + 1] = a.tx
    BY <2>1
  <2> DEFINE n == Len(chain)
  <2> HIDE DEF a, n
  <2>3. \A x \in Tx \cup {NoTx}, j \in Job : IsOf(x, j) => IsOf(x, j)' /\ Spent(x, j)'
    BY <2>2 DEF IsOf, Spent, Plain, Tx
  <2>4. \A j \in Job : Accepted(j)' => Accepted(j) \/ (j = a.job /\ Plain(a.tx))
    BY <1>1, <2>1, <2>2 DEF Accepted, Plain
  <2>5. RowsSpent'
    <3>1. \A j \in Job : (IsOf(job[j].tx, j) /\ Spent(job[j].tx, j))'
      BY <1>2, <2>3, RowFields DEF SpentInv, RowsSpent, IsOf, Spent, Plain, Accepted
    <3>2. Plain(a.tx) => job[a.job].tx # NoTx
      BY <1>1 DEF WorkSpent, Recorded, a
    <3>3. \A j \in Job : Accepted(j)' => job[j].tx # NoTx
      BY <2>4, <3>2 DEF SpentInv, RowsSpent
    <3>. QED  BY <1>2, <3>1, <3>3 DEF RowsSpent
  <2>6. CachesSpent'
    <3>1. \A q \in Process, j \in Job : cache[q][j] \in Tx \cup {NoTx} /\ IsOf(cache[q][j], j)
                                        /\ Recorded(cache[q][j], j)
      BY DEF SpentInv, CachesSpent
    <3>2. \A q \in Process, j \in Job : (IsOf(cache[q][j], j) /\ Spent(cache[q][j], j))'
      BY <1>2, <2>3, <3>1 DEF IsOf, Spent, Plain, Accepted
    <3>. QED  BY <1>2, <3>1, <3>2 DEF CachesSpent, Recorded, Plain
  <2>7. ChainInOrder'
    <3>0. \A i \in 1 .. Len(chain) : chain[i].nonce = i - 1
      BY <2>2 DEF SpentInv, ChainInOrder
    <3>1. \A i \in DOMAIN chain' : chain'[i].nonce = i - 1
      <4> SUFFICES ASSUME NEW i \in DOMAIN chain' PROVE chain'[i].nonce = i - 1
        OBVIOUS
      <4>1. CASE i = Len(chain) + 1
        BY <2>1, <2>2, <4>1
      <4>2. CASE i \in 1 .. Len(chain)
        BY <2>2, <3>0, <4>2
      <4>. QED  BY <2>2, <4>1, <4>2
    <3>2. ~a.tx.blind => \A i \in 1 .. Len(chain) : chain[i].job = a.tx.job => chain[i].blind
      <4>1. Spent(a.tx, a.job)
        BY <1>1 DEF WorkSpent, a
      <4>2. ~a.tx.blind => ~Accepted(a.job)
        BY <1>1, <2>1, <2>2, <4>1 DEF Spent, Plain
      <4>. QED  BY <2>1, <2>2, <4>2 DEF Accepted
    <3>. QED  BY <2>1, <2>2, <3>1, <3>2 DEF SpentInv, ChainInOrder
  <2>8. ASSUME NEW q \in Process PROVE WorkSpent(q)'
    <3>1. /\ proc'[q].tx = proc[q].tx /\ proc'[q].job = proc[q].job
          /\ proc'[q].at \in {proc[q].at, "finalize"}
          /\ proc'[q].at = "finalize" /\ proc[q].at # "finalize" => q = p
          /\ proc'[q].at = "persist" => proc'[q] = proc[q]
      BY <1>2 DEF a
    <3>2. proc[q].tx \in Tx \cup {NoTx} /\ (proc[q].at # "idle" \/ proc[q].tx # NoTx => proc[q].job \in Job)
      BY WorkFields DEF WorkOK
    <3>3. IsOf(proc[q].tx, proc[q].job) /\ WorkSpent(q)
      BY DEF SpentInv, WorkSpent
    <3>4. (IsOf(proc[q].tx, proc[q].job) /\ Spent(proc[q].tx, proc[q].job))'
      BY <2>3, <3>1, <3>2, <3>3 DEF IsOf, Spent, Plain, Accepted
    <3>5. (proc[q].at \notin {"callback", "persist"} => Recorded(proc[q].tx, proc[q].job))'
      BY <1>1, <1>2, <3>1, <3>3 DEF WorkSpent, Recorded, Plain, a
    <3>. QED  BY <1>2, <3>1, <3>3, <3>4, <3>5 DEF WorkSpent
  <2>. QED  BY <2>5, <2>6, <2>7, <2>8 DEF SpentInv
<1>. QED  BY <1>3, <1>4

LEMMA NextSpent == TypesInv /\ SpentInv /\ [Next]_vars => SpentInv'
<1> SUFFICES ASSUME TypesInv, SpentInv, [Next]_vars PROVE SpentInv'
  OBVIOUS
<1>1. ASSUME \/ \E j \in Job : Enqueue(j) \/ \E p \in Process : Terminalize(p, j)
             \/ \E p \in Process : Renew(p)
             \/ \E t \in 1 .. MaxClaims : Expire(t)
             \/ Mine \/ UNCHANGED vars
      PROVE  SpentInv'
  <2>1. UNCHANGED <<proc, cache, chain>>
    BY <1>1 DEF Enqueue, Terminalize, Renew, Expire, Mine, vars
  <2>2. \A j \in Job : job'[j].tx = job[j].tx
    <3>1. CASE \E j \in Job : Enqueue(j)
      BY <3>1 DEF Enqueue, TypesInv, AnchorTypeOK, JobRow
    <3>1a. CASE \E j \in Job, p \in Process : Terminalize(p, j)
      BY <3>1a DEF Terminalize, TypesInv, AnchorTypeOK, JobRow
    <3>2. CASE \E p \in Process : Renew(p)
      BY <3>2 DEF Renew, TypesInv, AnchorTypeOK, JobRow
    <3>3. CASE \E t \in 1 .. MaxClaims : Expire(t)
      BY <3>3 DEF Expire, TypesInv, AnchorTypeOK, JobRow
    <3>4. CASE Mine \/ UNCHANGED vars
      BY <3>4 DEF Mine, vars
    <3>. QED  BY <1>1, <3>1, <3>1a, <3>2, <3>3, <3>4
  <2>. QED  BY <2>1, <2>2, SpentRows
<1>. QED
  BY <1>1, SpentWork, SpentPrepare, SpentCommit, SpentSend DEF Next

--------------------------------------------------------------------------------
(* One process at a time. *)

\* The only one at work is one that has the leases.
LEMMA OnlyWorker ==
  ASSUME TypesInv, ClaimOK, NEW p \in Process, Working(p)
  PROVE  /\ proc[p] \in Activation /\ proc[p].job \in Job /\ job[proc[p].job] \in JobRow
         /\ Leased(proc[p]) /\ InHand(proc[p], cache[p]) /\ Read(proc[p])
         /\ \A q \in Process \ {p} : proc[q].at = "idle"
BY DEF TypesInv, AnchorTypeOK, WorkOK, ClaimOK, AtWork, Working

\* The steps of the worker that leave the rows, the leases and the chain alone.
LEMMA ClaimWork ==
  ASSUME TypesInv, SpentInv, ClaimOK, NEW p \in Process,
         \/ Load(p) \/ Prepare(p) \/ PrepareFails(p) \/ Callback(p) \/ SendFails(p) \/ Finalize(p)
         \/ Record(p)
  PROVE  ClaimOK'
<1> DEFINE a == proc[p]
           r == job[a.job]
<1>1. Working(p)
  BY DEF Load, Prepare, PrepareFails, Callback, SendFails, Finalize, Record, Working
<1>2. /\ a \in Activation /\ a.job \in Job /\ r \in JobRow /\ a.at \notin {"idle", "release"}
      /\ Leased(a) /\ InHand(a, cache[p]) /\ Read(a) /\ WorkOK(p)
      /\ \A q \in Process \ {p} : proc[q].at = "idle"
  BY <1>1, OnlyWorker
  DEF TypesInv, Load, Prepare, PrepareFails, Callback, SendFails, Finalize, Record
<1>3. UNCHANGED <<job, signer, chain, mined>>
  BY DEF Load, Prepare, PrepareFails, Callback, SendFails, Finalize, Record
<1> DEFINE Good(g, k) == Leased(g) /\ InHand(g, k) /\ Read(g)
           Goes(g, k) == proc' = [proc EXCEPT ![p] = g] /\ cache'[p] = k => ClaimOK'
<1>4. \A g, k : Good(g, k) => Goes(g, k)
  <2> SUFFICES ASSUME NEW g, NEW k, Good(g, k), proc' = [proc EXCEPT ![p] = g], cache'[p] = k
               PROVE  ClaimOK'
    OBVIOUS
  <2>1. proc'[p] = g /\ \A q \in Process \ {p} : proc'[q] = proc[q] /\ proc'[q].at = "idle"
    BY <1>2 DEF TypesInv, AnchorTypeOK
  <2>2. AtWork(p)'
    BY <1>3, <2>1 DEF AtWork, Leased, InHand, Read, Mined
  <2>. QED  BY <2>1, <2>2 DEF ClaimOK, AtWork, Working
<1> HIDE DEF Goes
<1>5. r.tx \in {NoTx, cache[p][a.job]} =>
        Good([a EXCEPT !.at = "prepare", !.attempt = "again", !.tx = NoTx, !.seen = NewRow], cache[p])
  BY <1>2 DEF Activation, Leased, InHand, Read
<1>6. Good([a EXCEPT !.at = "record", !.status = "FAILED", !.tx = NoTx, !.seen = NewRow], cache[p])
  BY <1>2 DEF Activation, Leased, InHand, Read
<1>7. cache'[p] = cache[p] /\ Fails(p) => ClaimOK'
  BY <1>4, <1>6 DEF Fails, Goes
<1>8. cache'[p] = cache[p] /\ TriesAgain(p) /\ r.tx \in {NoTx, cache[p][a.job]} => ClaimOK'
  BY <1>4, <1>5 DEF TriesAgain, Goes
<1>9. CASE Load(p)
  <2>1. a.at = "load" /\ Owns(p) /\ a.attempt = "first"
    BY <1>2, <1>9 DEF Load, Leased, Owns, InHand
  <2>2. r.tx # NoTx => Good([a EXCEPT !.at = "send", !.attempt = "reconcile", !.tx = r.tx], cache[p])
    BY <1>2 DEF Activation, Leased, InHand, Read
  <2>3. r.tx = NoTx => Good([a EXCEPT !.at = "prepare"], cache[p])
    BY <1>2, <2>1 DEF Activation, Leased, InHand, Read
  <2>. QED  BY <1>4, <1>9, <2>1, <2>2, <2>3 DEF Load, Goes
<1>10. CASE Prepare(p)
  <2> DEFINE kept == cache[p][a.job]
             fresh == [job |-> a.job, nonce |-> Len(chain), token |-> a.token,
                       blind |-> ~(a.attempt = "first")]
             x == IF kept # NoTx THEN kept ELSE fresh
  <2>1. CASE a.attempt = "first"
    <3>1. proc' = [proc EXCEPT ![p] = [a EXCEPT !.at = "callback", !.tx = x]] /\ cache'[p] = cache[p]
      BY <1>10, <2>1 DEF Prepare
    <3> HIDE DEF x
    <3>2. Good([a EXCEPT !.at = "callback", !.tx = x], cache[p])
      BY <1>2, <1>10, <2>1 DEF Prepare, Activation, Leased, InHand, Read
    <3>. QED  BY <1>4, <3>1, <3>2 DEF Goes
  <2>2. CASE a.attempt # "first"
    <3>1. proc' = [proc EXCEPT ![p] = [a EXCEPT !.at = "send", !.tx = x]] /\ proc'[p].tx = x
      BY <1>2, <1>10, <2>2 DEF Prepare, TypesInv, AnchorTypeOK, Activation
    <3>2. cache'[p][a.job] = x
      BY <1>2, <1>10, <2>2, <3>1 DEF Prepare, TypesInv, AnchorTypeOK
    <3>3. r.tx = x \/ (r.tx = NoTx /\ x.blind)
      <4>1. r.tx \in {NoTx, kept} /\ Recorded(kept, a.job)
        BY <1>2, <1>10 DEF Prepare, InHand, SpentInv, CachesSpent
      <4>2. kept = NoTx => x.blind
        BY <2>2
      <4>. QED  BY <4>1, <4>2 DEF Recorded, Plain
    <3> HIDE DEF x
    <3>4. Good([a EXCEPT !.at = "send", !.tx = x], cache'[p])
      BY <1>2, <3>2, <3>3 DEF Activation, Leased, InHand, Read
    <3>. QED  BY <1>4, <3>1, <3>4 DEF Goes
  <2>. QED  BY <2>1, <2>2
<1>11. CASE PrepareFails(p)
  <2>1. r.tx \in {NoTx, cache[p][a.job]} /\ cache'[p] = cache[p]
    BY <1>2, <1>11 DEF PrepareFails, InHand
  <2>. QED  BY <1>7, <1>8, <1>11, <2>1 DEF PrepareFails
<1>12. CASE Callback(p)
  <2>1. Good([a EXCEPT !.at = "persist", !.seen = r], cache[p])
    BY <1>2, <1>12 DEF Callback, Activation, Leased, InHand, Read
  <2>. QED  BY <1>4, <1>7, <1>12, <2>1 DEF Callback, Goes
<1>13. CASE SendFails(p)
  <2>1. Good([a EXCEPT !.at = "finalize"], cache[p])
    BY <1>2, <1>13 DEF SendFails, Activation, Leased, InHand, Read
  <2>. QED  BY <1>4, <1>7, <1>13, <2>1 DEF SendFails, Step, Goes
<1>14. CASE Finalize(p)
  <2>1. ASSUME Mined(a.tx), NEW status \in {"ANCHORED", "PENDING", "FAILED"}
        PROVE  Good([a EXCEPT !.at = "record", !.status = status], cache[p])
    BY <1>2, <1>14, <2>1 DEF Finalize, Activation, WorkOK, Leased, InHand, Read
  <2>2. a.attempt # "reconcile" => r.tx \in {NoTx, cache[p][a.job]}
    BY <1>2, <1>14 DEF Finalize, InHand
  <2>3. CASE Fails(p) \/ TriesAgain(p)
    BY <1>7, <1>8, <1>14, <2>2, <2>3 DEF Finalize, TriesAgain
  <2>4. CASE ~Fails(p) /\ ~TriesAgain(p)
    <3>1. PICK status \in {"ANCHORED", "PENDING", "FAILED"} :
            Mined(a.tx) /\ proc' = [proc EXCEPT ![p] = [a EXCEPT !.at = "record", !.status = status]]
      BY <1>14, <2>4 DEF Finalize
    <3>2. Goes([a EXCEPT !.at = "record", !.status = status], cache[p])
      BY <1>4, <2>1, <3>1
    <3>. QED  BY <1>14, <3>1, <3>2 DEF Finalize, Goes
  <2>. QED  BY <2>3, <2>4
<1>15. CASE Record(p)
  <2>1. Owns(p) /\ OwnsSigner(p)
    BY <1>2, <1>15 DEF Record, Leased, Owns, OwnsSigner
  <2>2. Good([a EXCEPT !.at = "commit", !.seen = r], cache[p])
    BY <1>2, <1>15 DEF Record, Activation, Leased, InHand, Read
  <2>. QED  BY <1>4, <1>15, <2>1, <2>2 DEF Record, Goes
<1>. QED  BY <1>9, <1>10, <1>11, <1>12, <1>13, <1>14, <1>15

\* The steps that commit to the row or reach the network.
LEMMA ClaimCommit ==
  ASSUME TypesInv, SpentInv, ClaimOK, NEW p \in Process,
         Persist(p) \/ RecordCommit(p) \/ Send(p) \/ Renew(p)
  PROVE  ClaimOK'
<1> USE DEF TypesInv, AnchorTypeOK
<1> DEFINE a == proc[p]
           r == job[a.job]
<1>1. Working(p)
  BY DEF Persist, RecordCommit, Send, Renew, Working
<1>2. /\ a \in Activation /\ a.job \in Job /\ r \in JobRow
      /\ Leased(a) /\ InHand(a, cache[p]) /\ Read(a) /\ WorkOK(p)
      /\ \A q \in Process \ {p} : proc[q].at = "idle"
  BY <1>1, OnlyWorker
<1>3. \A q \in Process \ {p} : proc'[q].at = "idle"
  BY <1>2 DEF Persist, RecordCommit, Send, Renew, Step
<1>4. AtWork(p)'
  <2>1. CASE Persist(p)
    <3>1. /\ proc'[p].at = "send" /\ proc'[p].tx = a.tx /\ proc'[p].job = a.job /\ proc'[p].token = a.token
          /\ proc'[p].attempt = a.attempt
      BY <1>2, <2>1 DEF Persist, Activation
    <3>2. cache'[p][a.job] = a.tx
      BY <1>2, <2>1 DEF Persist
    <3>3. /\ job'[a.job].tx = a.tx /\ job'[a.job].owner = r.owner /\ job'[a.job].lease = r.lease
          /\ job'[a.job].state \in Active /\ signer' = signer
      BY <1>2, <2>1 DEF Persist, Leased, Read, WorkOK, Written, JobRow, Active
    <3>. QED
      BY <1>2, <2>1, <3>1, <3>2, <3>3 DEF Persist, AtWork, Leased, InHand, Read
  <2>2. CASE RecordCommit(p)
    <3>1. proc'[p].at = "release" /\ proc'[p].token = a.token /\ signer' = signer
      BY <1>2, <2>2 DEF RecordCommit, Activation
    <3>2. signer.owner = a.token /\ signer.lease = "live"
      BY <1>2 DEF Leased
    <3>. QED  BY <3>1, <3>2 DEF AtWork, Leased, InHand, Read
  <2>3. CASE Send(p)
    <3>1. proc' = [proc EXCEPT ![p].at = "finalize"] /\ a.at = "send"
          /\ UNCHANGED <<job, signer, cache>>
      BY <2>3 DEF Send, Step
    <3>. QED  BY <1>2, <3>1 DEF AtWork, Leased, InHand, Read, Activation
  <2>4. CASE Renew(p)
    <3>1. /\ UNCHANGED <<proc, cache, chain, mined>> /\ signer'.owner = signer.owner
          /\ signer'.lease = "live"
          /\ job'[a.job].owner = r.owner /\ job'[a.job].lease = "live"
          /\ job'[a.job].tx = r.tx /\ job'[a.job].state = r.state
      BY <1>2, <2>4 DEF Renew, JobRow
    <3>. QED  BY <1>2, <3>1 DEF AtWork, Leased, InHand, Read, Mined, Working
  <2>. QED  BY <2>1, <2>2, <2>3, <2>4
<1>. QED  BY <1>3, <1>4 DEF ClaimOK, AtWork, Working

\* A claim needs both leases, so that nobody is at work; a release and a death
\* leave nobody at work.
LEMMA ClaimChanges ==
  ASSUME TypesInv, ClaimOK, NEW p \in Process,
         (\E j \in Job : Claim(p, j)) \/ Release(p) \/ Crash(p)
  PROVE  ClaimOK'
<1> USE DEF TypesInv, AnchorTypeOK
<1>1. CASE Release(p) \/ Crash(p)
  <2>1. Working(p)
    BY <1>1 DEF Release, Crash, Working
  <2>2. \A q \in Process : proc'[q].at = "idle"
    BY <1>1, <2>1, RecordTypes, OnlyWorker DEF Release, Crash
  <2>. QED  BY <2>2 DEF ClaimOK, AtWork, Working
<1>2. ASSUME NEW j \in Job, Claim(p, j) PROVE ClaimOK'
  <2>1. \A q \in Process : proc[q].at = "idle"
    BY <1>2 DEF Claim, Free, ClaimOK, AtWork, Leased, Working
  <2> DEFINE new == [Idle EXCEPT !.at = "load", !.job = j, !.token = claims']
  <2>2. /\ new.at = "load" /\ new.job = j /\ new.token = claims' /\ new.attempt = "first"
    BY DEF Idle
  <2> HIDE DEF new
  <2>3. proc'[p] = new /\ \A q \in Process \ {p} : proc'[q].at = "idle"
    BY <1>2, <2>1 DEF Claim, Take, new
  <2>4. /\ job'[j].owner = claims' /\ job'[j].lease = "live" /\ job'[j].state \in Active
        /\ signer'.owner = claims' /\ signer'.lease = "live"
    BY <1>2 DEF Claim, Take, JobRow
  <2>5. AtWork(p)'
    BY <2>2, <2>3, <2>4 DEF AtWork, Leased, InHand, Read
  <2>. QED  BY <2>3, <2>5 DEF ClaimOK, AtWork, Working
<1>. QED  BY <1>1, <1>2

\* What happens around the worker.
LEMMA ClaimAround ==
  ASSUME TypesInv, ClaimOK, overtakes' = overtakes,
         \/ \E j \in Job : Enqueue(j) \/ \E p \in Process : Terminalize(p, j)
         \/ \E t \in 1 .. MaxClaims : Expire(t)
         \/ Mine \/ UNCHANGED vars
  PROVE  ClaimOK'
<1> USE DEF TypesInv, AnchorTypeOK
<1>0. UNCHANGED <<proc, cache, chain>> /\ mined' \in {mined, mined + 1}
  BY DEF Enqueue, Terminalize, Expire, Mine, vars
<1>1. UNCHANGED <<proc, cache, chain>> /\ \A x : Mined(x) => Mined(x)'
  BY <1>0 DEF Mined
<1>2. ASSUME NEW p \in Process, Working(p)
      PROVE  /\ signer' = signer /\ job'[proc[p].job].tx = job[proc[p].job].tx
             /\ proc[p].at # "release" => job'[proc[p].job] = job[proc[p].job]
             /\ job'[proc[p].job].state = job[proc[p].job].state \/ proc[p].at = "release"
  <2>1. proc[p].job \in Job /\ Leased(proc[p]) /\ job[proc[p].job] \in JobRow
    BY <1>2, OnlyWorker
  <2>2. ASSUME NEW j \in Job, Enqueue(j)
        PROVE  signer' = signer /\ job'[proc[p].job].tx = job[proc[p].job].tx
               /\ (proc[p].at # "release" => job'[proc[p].job] = job[proc[p].job])
    BY <2>1, <2>2 DEF Enqueue, Leased, Active, JobRow
  <2>3. ASSUME NEW j \in Job, NEW q \in Process, Terminalize(q, j)
        PROVE  signer' = signer /\ job'[proc[p].job].tx = job[proc[p].job].tx
               /\ (proc[p].at # "release" => job'[proc[p].job] = job[proc[p].job])
    BY <2>1, <2>3 DEF Terminalize, Leased, Free, JobRow
  <2>4. ASSUME NEW t \in 1 .. MaxClaims, Expire(t)
        PROVE  signer' = signer /\ job'[proc[p].job].tx = job[proc[p].job].tx
               /\ (proc[p].at # "release" => job'[proc[p].job] = job[proc[p].job])
    <3>1. proc[p].token # t
      BY <1>2, <2>4 DEF Expire, Working
    <3>. QED  BY <2>1, <2>4, <3>1 DEF Expire, Leased, JobRow
  <2>5. CASE Mine \/ UNCHANGED vars
    BY <2>5 DEF Mine, vars
  <2>. QED  BY <2>2, <2>3, <2>4, <2>5
<1>3. ASSUME NEW p \in Process PROVE AtWork(p)'
  <2>1. ~Working(p) => AtWork(p)'
    BY <1>1 DEF AtWork, Working
  <2>2. ASSUME Working(p) PROVE AtWork(p)'
    <3>1. /\ Leased(proc[p]) /\ InHand(proc[p], cache[p]) /\ Read(proc[p])
          /\ proc[p].at = "idle" \/ proc[p].at = "release" \/ job'[proc[p].job] = job[proc[p].job]
          /\ UNCHANGED <<proc, cache, signer>>
      BY <1>1, <1>2, <2>2, OnlyWorker
    <3>2. (Leased(proc[p]) /\ InHand(proc[p], cache[p]))'
      BY <2>2, <3>1 DEF Leased, InHand, Working
    <3>3. proc[p].at \in {"record", "commit"} /\ proc[p].tx # NoTx => Mined(proc[p].tx)'
      <4>1. proc[p].at \in {"record", "commit"} /\ proc[p].tx # NoTx => Mined(proc[p].tx)
        BY <3>1 DEF Read
      <4>2. Mined(proc[p].tx) => \E i \in 1 .. mined' : chain'[i] = proc'[p].tx
        BY <1>0 DEF Mined
      <4>. QED  BY <4>1, <4>2 DEF Mined
    <3>4. Read(proc[p])'
      BY <2>2, <3>1, <3>3 DEF Read, Working
    <3>. QED  BY <3>2, <3>4 DEF AtWork
  <2>. QED  BY <2>1, <2>2
<1>. QED  BY <1>1, <1>3 DEF ClaimOK, Working

--------------------------------------------------------------------------------
(* What the rows say. *)

\* A row keeps the transaction it has, an end it reached, and what it ended with.
Stands(j) ==
  /\ job[j].tx # NoTx => job'[j].tx = job[j].tx
  /\ job[j].state \in {"CONFIRMED", "FAILED"} =>
       job'[j].state = job[j].state /\ job'[j].tx = job[j].tx

\* An end that is new is the chain's.
EndsWell(j) ==
  /\ job'[j].state = "CONFIRMED" /\ job[j].state # "CONFIRMED" =>
       job'[j].tx # NoTx /\ Mined(job'[j].tx)
  /\ job'[j].state = "FAILED" /\ job[j].state # "FAILED" => job'[j].tx = NoTx

LEMMA RowSteps ==
  ASSUME TypesInv, ClaimOK, [Next]_vars, NEW j \in Job
  PROVE  Stands(j) /\ EndsWell(j)
<1> USE DEF TypesInv, AnchorTypeOK
<1>1. job[j] \in JobRow
  OBVIOUS
<1>2. ASSUME NEW p \in Process, Persist(p) PROVE Stands(j) /\ EndsWell(j)
  <2>1. /\ proc[p].job \in Job /\ job[proc[p].job].tx = NoTx
        /\ job[proc[p].job].state \in Active
    BY <1>2, OnlyWorker DEF Persist, Working, InHand, Leased
  <2>2. job'[proc[p].job].state \in Active
    BY <1>2, <2>1 DEF Persist, Written, JobRow, Active
  <2>3. j # proc[p].job => job'[j] = job[j]
    BY <1>2 DEF Persist
  <2>. QED  BY <2>1, <2>2, <2>3 DEF Stands, EndsWell, Active
<1>3. ASSUME NEW p \in Process, RecordCommit(p) PROVE Stands(j) /\ EndsWell(j)
  <2> DEFINE a == proc[p]
             r == job[a.job]
             tx == IF a.tx = NoTx THEN a.seen.tx ELSE a.tx
  <2>1. /\ a \in Activation /\ a.job \in Job /\ r \in JobRow /\ r.state \in Active /\ a.at = "commit"
        /\ a.seen.tx = r.tx /\ a.seen.state = r.state
        /\ a.status # "FAILED" => a.tx # NoTx
        /\ a.tx # NoTx => r.tx \in {NoTx, a.tx} /\ Mined(a.tx)
    BY <1>3, OnlyWorker DEF RecordCommit, Working, Leased, Read
  <2>2. /\ job'[a.job].tx = Written(tx, a.seen.tx, r.tx)
        /\ job'[a.job].state = Written(Outcome(a, tx), a.seen.state, r.state)
    BY <1>3, <2>1 DEF RecordCommit, JobRow
  <2>3. job'[a.job].tx = tx
    BY <2>1, <2>2 DEF Written
  <2>4. job'[a.job].state = Outcome(a, tx)
    BY <2>1, <2>2 DEF Written
  <2>5. /\ Outcome(a, tx) = "CONFIRMED" => a.status = "ANCHORED"
        /\ Outcome(a, tx) = "FAILED" => tx = NoTx
    BY <2>1, WorkFields DEF Outcome
  <2>6. j # a.job => job'[j] = job[j]
    BY <1>3 DEF RecordCommit
  <2>. QED  BY <2>1, <2>3, <2>4, <2>5, <2>6 DEF Stands, EndsWell, Active
<1>4. ASSUME \/ \E i \in Job : Enqueue(i) \/ \E p \in Process : Claim(p, i)
             \/ \E p \in Process : Renew(p)
             \/ \E t \in 1 .. MaxClaims : Expire(t)
      PROVE  Stands(j) /\ EndsWell(j)
  <2>1. ASSUME NEW i \in Job, Enqueue(i) PROVE Stands(j) /\ EndsWell(j)
    BY <1>1, <2>1 DEF Enqueue, JobRow, Stands, EndsWell
  <2>2. ASSUME NEW i \in Job, NEW p \in Process, Claim(p, i) PROVE Stands(j) /\ EndsWell(j)
    BY <1>1, <2>2 DEF Claim, Take, JobRow, Stands, EndsWell
  <2>3. ASSUME NEW p \in Process, Renew(p) PROVE Stands(j) /\ EndsWell(j)
    BY <1>1, <2>3 DEF Renew, JobRow, Stands, EndsWell
  <2>4. ASSUME NEW t \in 1 .. MaxClaims, Expire(t) PROVE Stands(j) /\ EndsWell(j)
    BY <1>1, <2>4 DEF Expire, JobRow, Stands, EndsWell
  <2>. QED  BY <1>4, <2>1, <2>2, <2>3, <2>4
<1>5. ASSUME NEW i \in Job, NEW p \in Process, Terminalize(p, i) PROVE Stands(j) /\ EndsWell(j)
  BY <1>1, <1>5 DEF Terminalize, Exhausted, Active, JobRow, Stands, EndsWell
<1>6. job' = job => Stands(j) /\ EndsWell(j)
  BY DEF Stands, EndsWell
<1>7. ASSUME NEW p \in Process,
             \/ Load(p) \/ Prepare(p) \/ PrepareFails(p) \/ Callback(p)
             \/ Send(p) \/ SendFails(p) \/ Finalize(p) \/ Record(p) \/ Release(p) \/ Crash(p)
      PROVE  job' = job
  BY <1>7 DEF Load, Prepare, PrepareFails, Callback, Send, SendFails, Finalize, Record, Release, Crash
<1>8. Mine \/ UNCHANGED vars => job' = job
  BY DEF Mine, vars
<1>. QED
  BY <1>2, <1>3, <1>4, <1>5, <1>6, <1>7, <1>8 DEF Next

\* The chain grows by what its sender has in hand, and blocks only grow.
LEMMA ChainSteps ==
  ASSUME TypesInv, SpentInv, ClaimOK, [Next]_vars
  PROVE  /\ \A x : Mined(x) => \E i \in 1 .. mined' : chain'[i] = x
         /\ \/ chain' = chain
            \/ \E x \in Tx : /\ chain' = Append(chain, x) /\ x.job \in Job /\ job' = job
                             /\ Plain(x) => job[x.job].tx = x
<1> USE DEF TypesInv, AnchorTypeOK
<1>1. ASSUME NEW p \in Process, Send(p)
      PROVE  /\ mined' = mined
             /\ \/ chain' = chain
                \/ \E x \in Tx : /\ chain' = Append(chain, x) /\ x.job \in Job /\ job' = job
                                 /\ Plain(x) => job[x.job].tx = x
  <2> DEFINE a == proc[p]
  <2>1. a.at = "send" /\ InHand(a, cache[p]) /\ a.job \in Job /\ a.tx \in Tx \cup {NoTx} /\ a.tx # NoTx
    BY <1>1, OnlyWorker, WorkFields DEF Send, Working, WorkOK
  <2>2. a.tx.job = a.job
    BY <2>1 DEF SpentInv, WorkSpent, IsOf
  <2>3. Plain(a.tx) => job[a.tx.job].tx = a.tx
    BY <2>1, <2>2 DEF InHand, Plain
  <2>. QED  BY <1>1, <2>1, <2>2, <2>3 DEF Send
<1>2. ASSUME NEW p \in Process,
             \/ Load(p) \/ Renew(p) \/ Prepare(p) \/ PrepareFails(p) \/ Callback(p) \/ Persist(p)
             \/ SendFails(p) \/ Finalize(p) \/ Record(p) \/ RecordCommit(p) \/ Release(p) \/ Crash(p)
      PROVE  chain' = chain /\ mined' = mined
  BY <1>2 DEF Load, Renew, Prepare, PrepareFails, Callback, Persist, SendFails, Finalize, Record,
              RecordCommit, Release, Crash
<1>3. ASSUME \/ \E j \in Job : Enqueue(j) \/ \E p \in Process : Terminalize(p, j) \/ Claim(p, j)
             \/ \E t \in 1 .. MaxClaims : Expire(t)
             \/ UNCHANGED vars
      PROVE  chain' = chain /\ mined' = mined
  BY <1>3 DEF Enqueue, Terminalize, Claim, Take, Expire, vars
<1>4. Mine => chain' = chain /\ mined' = mined + 1
  BY DEF Mine
<1>5. /\ mined' \in {mined, mined + 1}
      /\ \/ chain' = chain
         \/ \E x \in Tx : /\ chain' = Append(chain, x) /\ x.job \in Job /\ job' = job
                          /\ Plain(x) => job[x.job].tx = x
  BY <1>1, <1>2, <1>3, <1>4 DEF Next
<1>6. \A i \in 1 .. mined : i \in 1 .. mined' /\ chain'[i] = chain[i]
  BY <1>5
<1>. QED  BY <1>5, <1>6 DEF Mined

LEMMA InitClaim == Init => ClaimInv
<1> SUFFICES ASSUME Init PROVE ClaimOK /\ ChainIsRecorded /\ \A j \in Job : EndIsTheChains(j)
  BY DEF ClaimInv
<1>1. \A p \in Process : proc[p].at = "idle"
  BY RecordTypes DEF Init
<1>. QED
  BY <1>1, RecordTypes DEF Init, ClaimOK, AtWork, Working, ChainIsRecorded, EndIsTheChains

LEMMA OvertakesStep ==
  ASSUME TypesInv, [Next]_vars, overtakes' = 0
  PROVE  overtakes = 0
<1>1. overtakes' \in {overtakes, overtakes + 1}
  <2>1. CASE \E t \in 1 .. MaxClaims : Expire(t)
    BY <2>1 DEF Expire
  <2>2. ASSUME NEW p \in Process,
               \/ Load(p) \/ Renew(p) \/ Prepare(p) \/ PrepareFails(p) \/ Callback(p) \/ Persist(p)
               \/ Send(p) \/ SendFails(p) \/ Finalize(p) \/ Record(p) \/ RecordCommit(p) \/ Release(p)
               \/ Crash(p)
        PROVE  overtakes' = overtakes
    BY <2>2 DEF Load, Renew, Prepare, PrepareFails, Callback, Persist, Send, SendFails, Finalize, Record,
                RecordCommit, Release, Crash, bounds
  <2>3. CASE \/ \E j \in Job : Enqueue(j) \/ \E p \in Process : Terminalize(p, j) \/ Claim(p, j)
             \/ Mine \/ UNCHANGED vars
    BY <2>3 DEF Enqueue, Terminalize, Claim, Take, Mine, vars, bounds
  <2>. QED  BY <2>1, <2>2, <2>3 DEF Next
<1>. QED  BY <1>1 DEF TypesInv, AnchorTypeOK

LEMMA NextClaim ==
  ASSUME TypesInv, SpentInv, ClaimInv, [Next]_vars
  PROVE  ClaimInv' /\ RecordStep
<1> SUFFICES ASSUME overtakes' = 0
             PROVE  /\ ClaimOK' /\ ChainIsRecorded' /\ (\A j \in Job : EndIsTheChains(j))'
                    /\ \A j \in Job : Stands(j)
  BY DEF ClaimInv, RecordStep, Stands
<1> USE DEF TypesInv, AnchorTypeOK
<1>1. overtakes = 0 /\ ClaimOK /\ ChainIsRecorded /\ \A j \in Job : EndIsTheChains(j)
  BY OvertakesStep DEF ClaimInv
<1>2. \A j \in Job : Stands(j) /\ EndsWell(j)
  BY <1>1, RowSteps
<1>3. ClaimOK'
  BY <1>1, ClaimWork, ClaimCommit, ClaimChanges, ClaimAround DEF Next
<1>4. \A x : Mined(x) => \E i \in 1 .. mined' : chain'[i] = x
  BY <1>1, ChainSteps
<1>5. ChainIsRecorded'
  <2>1. CASE chain' = chain
    <3>0. \A i \in DOMAIN chain : chain[i] \in Tx
      OBVIOUS
    <3>1. \A i \in DOMAIN chain : chain[i].job \in Job /\ chain[i] # NoTx
      BY <3>0, NullIsNoTx DEF Tx
    <3>. QED  BY <1>1, <1>2, <2>1, <3>1 DEF ChainIsRecorded, Stands, Plain
  <2>2. CASE \E x \in Tx : /\ chain' = Append(chain, x) /\ x.job \in Job /\ job' = job
                           /\ Plain(x) => job[x.job].tx = x
    <3>1. PICK x \in Tx : /\ chain' = Append(chain, x) /\ x.job \in Job /\ job' = job
                          /\ Plain(x) => job[x.job].tx = x
      BY <2>2
    <3>2. \A i \in DOMAIN chain' : chain'[i] = x \/ (i \in DOMAIN chain /\ chain'[i] = chain[i])
      BY <3>1
    <3>. QED  BY <1>1, <3>1, <3>2 DEF ChainIsRecorded, Plain
  <2>. QED  BY <1>1, <2>1, <2>2, ChainSteps
<1>6. ASSUME NEW j \in Job PROVE EndIsTheChains(j)'
  <2>1. \A x : Mined(x) => Mined(x)'
    BY <1>4 DEF Mined
  <2>2. Stands(j) /\ EndsWell(j) /\ EndIsTheChains(j)
    BY <1>1, <1>2
  <2>3. CASE job'[j].state = job[j].state
    <3>1. job[j].state = "CONFIRMED" =>
            /\ job[j].tx # NoTx /\ job'[j].tx = job[j].tx
            /\ \E i \in 1 .. mined' : chain'[i] = job'[j].tx
      BY <1>4, <2>2 DEF Stands, EndIsTheChains
    <3>. QED  BY <2>2, <2>3, <3>1 DEF Stands, EndIsTheChains, Mined
  <2>4. CASE job'[j].state # job[j].state
    <3>1. Mined(job'[j].tx) => \E i \in 1 .. mined' : chain'[i] = job'[j].tx
      BY <1>4
    <3>. QED  BY <2>2, <2>4, <3>1 DEF EndsWell, EndIsTheChains, Mined
  <2>. QED  BY <2>3, <2>4
<1>. QED  BY <1>2, <1>3, <1>5, <1>6

--------------------------------------------------------------------------------
(* The theorems. *)

\* The anchor jobs, their claims and the chain keep their invariants (_claim_job,
\* process_job and anchor of the EAS provider).
THEOREM AnchorInvariant == Spec => [](TypesInv /\ SpentInv /\ ClaimInv)
<1>1. Init => TypesInv /\ SpentInv /\ ClaimInv
  BY InitTypes, InitSpent, InitClaim
<1>2. TypesInv /\ SpentInv /\ ClaimInv /\ [Next]_vars => (TypesInv /\ SpentInv /\ ClaimInv)'
  BY NextTypes, NextSpent, NextClaim
<1>. QED  BY <1>1, <1>2, PTL DEF Spec

\* Every row, lease, activation, cache and transaction is of its type.
THEOREM AnchorTypeCorrect == Spec => []AnchorTypeOK
BY AnchorInvariant, PTL DEF TypesInv

\* "preventing a crash or RPC timeout from silently creating duplicate attestations on
\* retry" (BlockchainAnchorJob): the network never accepts two transactions of one job,
\* if all that it accepted were prepared under the callback; through crashes, retries
\* and leases that expire under a live process.
THEOREM NoSecondTransaction == Spec => []OneTransactionPerJob
<1>1. SpentInv => OneTransactionPerJob
  BY DEF SpentInv, ChainInOrder, OneTransactionPerJob, Blind, NoDuplicateAttestation
<1>. QED  BY <1>1, AnchorInvariant, PTL

\* "A prepared transaction hash is committed before broadcast" (BlockchainAnchorJob).
THEOREM RecordedBeforeBroadcast == Spec => []BroadcastIsRecorded
<1>1. TypesInv /\ ClaimInv => BroadcastIsRecorded
  <2>1. TypesInv => \A i \in DOMAIN chain : chain[i] # NoTx
    BY NullIsNoTx DEF TypesInv, AnchorTypeOK
  <2>. QED  BY <2>1 DEF ClaimInv, ChainIsRecorded, BroadcastIsRecorded, Plain
<1>. QED  BY <1>1, AnchorInvariant, PTL

\* A confirmed job has a mined transaction of its own, a job that is given up has none
\* (_record_result, _claim_job).
THEOREM OutcomesAreTheChains == Spec => []OutcomeIsTheChains
<1>1. SpentInv /\ ClaimInv => OutcomeIsTheChains
  BY DEF SpentInv, RowsSpent, IsOf, ClaimInv, EndIsTheChains, OutcomeIsTheChains
<1>. QED  BY <1>1, AnchorInvariant, PTL

\* "Atomically own one job and its EVM signer across processes" (_claim_job).
THEOREM SignerHasOneWorker == Spec => []OneSigner
<1>1. ClaimInv => OneSigner
  BY DEF ClaimInv, ClaimOK, OneSigner
<1>. QED  BY <1>1, AnchorInvariant, PTL

\* A recorded transaction is never replaced, and CONFIRMED and FAILED are final.
THEOREM RecordsStand == Spec => RecordStands
<1>1. TypesInv /\ SpentInv /\ ClaimInv /\ [Next]_vars => [RecordStep]_vars
  BY NextClaim
<1>. QED  BY <1>1, AnchorInvariant, PTL DEF Spec, RecordStands
================================================================================
