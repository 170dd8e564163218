-------------------------- MODULE CoAttestationProofs ---------------------------
(***************************************************************************)
(* The counters of the network are the numbers they stand for, a commitment  *)
(* claims no more than its job has, and a withdrawal nobody overlapped is    *)
(* final, for every number of members, operators, processes and bodies.      *)
(***************************************************************************)
EXTENDS CoAttestation, FiniteSetTheorems, TLAPS

NetworkInv == NetworkTypeOK /\ CountsAreTrue

\* A row is bound to the attestation it names, and its state to its job.
CommitmentOK(b) ==
  /\ row[b].state = "ANCHORED" => job[b].state = "CONFIRMED"
  /\ row[b].state = "ANCHOR_FAILED" => job[b].state = "FAILED"
  /\ row[b].state = "ANCHOR_PENDING" => job[b].state # "NONE"
  /\ row[b].uid # NoUid => b.uid = row[b].uid
  /\ job[b].state # "NONE" => job[b].ref = row[b].uid /\ row[b].state # "NONE"

\* What a session has read still holds of the parts it relies on.
SessionOK(p) ==
  LET s == proc[p] IN
  /\ s.at # "idle" => s.todo # <<>>
  /\ s.at = "insert" => ~s.seen.withdrawn /\ (s.seen.uid # NoUid => Now(p).uid = s.seen.uid)
  /\ s.at \notin {"idle", "insert"} => \A b \in ToSet(s.todo) : row[b].state # "NONE"
  /\ s.at \in {"queue", "mark", "result"} => s.seen.uid = row[Now(p)].uid
  /\ s.at = "mark" => job[Now(p)].state # "NONE"
  /\ s.at = "result" =>
       job[Now(p)].state = "OPEN" /\ s.seen.state \notin {"ANCHORED", "ANCHOR_FAILED"}

OneResultPerJob ==
  \A p, q \in Process : p # q /\ proc[p].at = "result" /\ proc[q].at = "result" => Now(p) # Now(q)

\* A session that cannot bring a withdrawn body back.
LeavesAlone(p, b) ==
  /\ b \in ToSet(proc[p].todo) => proc[p].at \notin {"queue", "reconcile", "mark"}
  /\ proc[p].at = "result" /\ Now(p) = b => proc[p].seen.state = "WITHDRAWN"

QuietlyWithdrawn(b) == row[b].withdrawn /\ b \notin raced

CommitmentInv ==
  /\ CoAttestationTypeOK
  /\ \A b \in Body : CommitmentOK(b)
  /\ \A p \in Process : SessionOK(p)
  /\ OneResultPerJob
  /\ \A b \in Body : QuietlyWithdrawn(b) =>
       row[b].state = "WITHDRAWN" /\ \A p \in Process : LeavesAlone(p, b)

--------------------------------------------------------------------------------
(* The network. *)

Active == {a \in Member : status[a] = "ACTIVE"}
Standing(a) == {id \in DOMAIN receipt : receipt[id].holder = a /\ ~receipt[id].revoked}

\* The members and the receipts there are can be counted.
LEMMA Countable ==
  ASSUME NetworkTypeOK
  PROVE  /\ IsFiniteSet(Active) /\ \A a \in Member : IsFiniteSet(Standing(a))
         /\ Cardinality(Active) \in Nat
         /\ \A S : S \subseteq Member => IsFiniteSet(S)
<1>1. IsFiniteSet(Active)
  BY NetworkAssumption, FS_Subset DEF Active
<1>2. ASSUME NEW a \in Member
      PROVE  IsFiniteSet(Standing(a))
  <2>1. IsFiniteSet(1..Len(receipt)) /\ Standing(a) \subseteq 1..Len(receipt)
    <3>1. Len(receipt) \in Int /\ DOMAIN receipt = 1..Len(receipt)
      BY DEF NetworkTypeOK
    <3> QED
      BY <3>1, FS_Interval DEF Standing
  <2> QED
    BY <2>1, FS_Subset
<1> QED
  BY <1>1, <1>2, NetworkAssumption, FS_Subset, FS_CardinalityType

LEMMA NetworkInitInv == NetworkInit => NetworkInv
<1> SUFFICES ASSUME NetworkInit
             PROVE  NetworkInv
  OBVIOUS
<1>1. IsFiniteSet(Founder) /\ Cardinality(Founder) \in Nat
  BY NetworkAssumption, FS_Subset, FS_CardinalityType
<1>2. NetworkTypeOK
  BY <1>1, NetworkAssumption DEF NetworkInit, NetworkTypeOK, MemberStatus
<1>3. {a \in Member : status[a] = "ACTIVE"} = Founder
  BY NetworkAssumption DEF NetworkInit
<1>4. \A a \in Member : {id \in DOMAIN receipt : receipt[id].holder = a /\ ~receipt[id].revoked} = {}
  BY DEF NetworkInit
<1>5. CountsAreTrue
  BY <1>3, <1>4, FS_EmptySet DEF NetworkInit, CountsAreTrue
<1> QED
  BY <1>2, <1>5 DEF NetworkInv

\* Who is a member and who holds what does not depend on who governs or issues.
LEMMA RolesMove ==
  ASSUME NetworkInv, UNCHANGED <<status, activeMemberCount, receipt, balance>>,
         governor' \in Operator, issuer' \in Operator,
         pendingGovernor' \in Operator \cup {NoAccount}, transactions' \in Nat
  PROVE  NetworkInv'
BY DEF NetworkInv, NetworkTypeOK, CountsAreTrue

\* A change of one member's status is counted.
LEMMA EnrollInv ==
  ASSUME NetworkInv, NEW sender \in Operator, NEW a \in Member, Enroll(sender, a)
  PROVE  NetworkInv'
<1> USE DEF NetworkInv
<1>1. /\ status' = [status EXCEPT ![a] = "ACTIVE"] /\ status[a] # "ACTIVE"
      /\ activeMemberCount' = activeMemberCount + 1 /\ transactions' = transactions + 1
      /\ UNCHANGED <<governor, pendingGovernor, issuer, receipt, balance>>
  BY DEF Enroll, Transact, receiptVars
<1>2. NetworkTypeOK'
  BY <1>1 DEF NetworkTypeOK, MemberStatus
<1>3. Active' = Active \cup {a} /\ a \notin Active
  BY <1>1 DEF Active, NetworkTypeOK
<1>4. Cardinality(Active') = Cardinality(Active) + 1
  BY <1>3, Countable, FS_AddElement
<1>5. activeMemberCount' = Cardinality(Active')
  BY <1>1, <1>4 DEF CountsAreTrue, Active
<1> QED
  BY <1>1, <1>2, <1>5 DEF CountsAreTrue, Active

LEMMA TransitionInv ==
  ASSUME NetworkInv, NEW sender \in Operator, NEW a \in Member, NEW new \in MemberStatus,
         Transition(sender, a, new)
  PROVE  NetworkInv'
<1> USE DEF NetworkInv
<1>1. /\ status' = [status EXCEPT ![a] = new] /\ status[a] \in {"ACTIVE", "SUSPENDED"} /\ status[a] # new
      /\ activeMemberCount' = Counted(a, new) /\ transactions' = transactions + 1
      /\ UNCHANGED <<governor, pendingGovernor, issuer, receipt, balance>>
  BY DEF Transition, Transact, receiptVars, NetworkTypeOK, MemberStatus
<1>2. activeMemberCount = Cardinality(Active) /\ Cardinality(Active) \in Nat
  BY Countable DEF CountsAreTrue, Active
<1>3. activeMemberCount' = Cardinality(Active')
  <2>1. CASE status[a] = "ACTIVE"
    <3>1. Active' = Active \ {a} /\ a \in Active
      BY <1>1, <2>1 DEF Active, NetworkTypeOK
    <3>2. Cardinality(Active') = Cardinality(Active) - 1 /\ Cardinality(Active') \in Nat
      BY <3>1, Countable, FS_RemoveElement, FS_CardinalityType
    <3> QED
      BY <1>1, <1>2, <2>1, <3>2 DEF Counted
  <2>2. CASE status[a] = "SUSPENDED" /\ new = "ACTIVE"
    <3>1. Active' = Active \cup {a} /\ a \notin Active
      BY <1>1, <2>2 DEF Active, NetworkTypeOK
    <3>2. Cardinality(Active') = Cardinality(Active) + 1
      BY <3>1, Countable, FS_AddElement
    <3> QED
      BY <1>1, <1>2, <2>2, <3>2 DEF Counted
  <2>3. CASE status[a] = "SUSPENDED" /\ new # "ACTIVE"
    <3>1. Active' = Active
      BY <1>1, <2>3 DEF Active, NetworkTypeOK
    <3> QED
      BY <1>1, <1>2, <2>3, <3>1 DEF Counted
  <2> QED
    BY <1>1, <2>1, <2>2, <2>3
<1>4. NetworkTypeOK'
  BY <1>1, <1>2 DEF NetworkTypeOK, Counted
<1> QED
  BY <1>1, <1>3, <1>4 DEF CountsAreTrue, Active

\* A receipt that is issued or revoked is counted for its holder alone.
LEMMA IssueInv ==
  ASSUME NetworkInv, NEW sender \in Operator, NEW a \in Member, NEW packet \in Packet,
         Issue(sender, a, packet)
  PROVE  NetworkInv'
<1> USE DEF NetworkInv
<1> DEFINE new == [holder |-> a, packet |-> packet, revoked |-> FALSE]
           n == Len(receipt) + 1
<1>1. /\ receipt' = Append(receipt, new) /\ balance' = [balance EXCEPT ![a] = @ + 1]
      /\ transactions' = transactions + 1
      /\ UNCHANGED <<governor, pendingGovernor, status, activeMemberCount, issuer>>
  BY DEF Issue, Transact, registryVars
<1>2. new \in Receipt /\ new.holder = a /\ ~new.revoked
  BY DEF Receipt
<1> HIDE DEF new
<1>3. NetworkTypeOK'
  BY <1>1, <1>2 DEF NetworkTypeOK
<1>4. /\ DOMAIN receipt' = DOMAIN receipt \cup {n} /\ n \notin DOMAIN receipt /\ receipt'[n] = new
      /\ \A id \in DOMAIN receipt : receipt'[id] = receipt[id]
  BY <1>1, <1>2 DEF NetworkTypeOK
<1> HIDE DEF n
<1>5. ASSUME NEW c \in Member
      PROVE  balance'[c] = Cardinality(Standing(c)')
  <2>1. balance[c] = Cardinality(Standing(c)) /\ IsFiniteSet(Standing(c))
    BY Countable DEF CountsAreTrue, Standing
  <2>2. CASE c = a
    <3>1. Standing(c)' = Standing(c) \cup {n} /\ n \notin Standing(c)
      BY <1>2, <1>4, <2>2 DEF Standing
    <3>2. Cardinality(Standing(c)') = Cardinality(Standing(c)) + 1
      BY <2>1, <3>1, FS_AddElement
    <3> QED
      BY <1>1, <2>1, <2>2, <3>2 DEF NetworkTypeOK
  <2>3. CASE c # a
    <3>1. Standing(c)' = Standing(c)
      BY <1>2, <1>4, <2>3 DEF Standing
    <3> QED
      BY <1>1, <2>1, <2>3, <3>1 DEF NetworkTypeOK
  <2> QED
    BY <2>2, <2>3
<1> QED
  BY <1>1, <1>3, <1>5 DEF CountsAreTrue, Standing

LEMMA RevokeInv ==
  ASSUME NetworkInv, NEW sender \in Operator, NEW id \in DOMAIN receipt, Revoke(sender, id)
  PROVE  NetworkInv'
<1> USE DEF NetworkInv
<1> DEFINE holder == receipt[id].holder
<1>1. /\ ~receipt[id].revoked /\ receipt' = [receipt EXCEPT ![id].revoked = TRUE]
      /\ balance' = [balance EXCEPT ![holder] = IF @ > 0 THEN @ - 1 ELSE @]
      /\ transactions' = transactions + 1
      /\ UNCHANGED <<governor, pendingGovernor, status, activeMemberCount, issuer>>
  BY DEF Revoke, Transact, registryVars
<1>2. receipt[id] \in Receipt /\ holder \in Member
  <2>1. receipt[id] \in Receipt
    BY DEF NetworkTypeOK
  <2> QED
    BY <2>1 DEF Receipt
<1>3. [receipt[id] EXCEPT !.revoked = TRUE] \in Receipt
  BY <1>2 DEF Receipt
<1>4. /\ receipt' \in Seq(Receipt) /\ DOMAIN receipt' = DOMAIN receipt
      /\ \A k \in DOMAIN receipt : receipt'[k].holder = receipt[k].holder
      /\ \A k \in DOMAIN receipt \ {id} : receipt'[k] = receipt[k]
      /\ receipt'[id].revoked
  BY <1>1, <1>2, <1>3 DEF NetworkTypeOK, Receipt
<1>5. NetworkTypeOK'
  BY <1>1, <1>2, <1>4 DEF NetworkTypeOK
<1>6. ASSUME NEW c \in Member
      PROVE  balance'[c] = Cardinality(Standing(c)')
  <2>1. balance[c] = Cardinality(Standing(c)) /\ IsFiniteSet(Standing(c))
    BY Countable DEF CountsAreTrue, Standing
  <2>2. CASE c = holder
    <3>1. Standing(c)' = Standing(c) \ {id} /\ id \in Standing(c)
      BY <1>1, <1>4, <2>2 DEF Standing
    <3>2. Cardinality(Standing(c)') = Cardinality(Standing(c)) - 1 /\ Cardinality(Standing(c)') \in Nat
      BY <2>1, <3>1, FS_RemoveElement, FS_CardinalityType
    <3>3. balance'[c] = balance[c] - 1
      BY <1>1, <1>2, <2>1, <2>2, <3>2 DEF NetworkTypeOK
    <3> QED
      BY <2>1, <3>2, <3>3
  <2>3. CASE c # holder
    <3>1. Standing(c)' = Standing(c)
      BY <1>1, <1>4, <2>3 DEF Standing
    <3> QED
      BY <1>1, <2>1, <2>3, <3>1 DEF NetworkTypeOK
  <2> QED
    BY <2>2, <2>3
<1> QED
  BY <1>1, <1>5, <1>6 DEF CountsAreTrue, Standing

LEMMA NetworkNextInv ==
  ASSUME NetworkInv, NetworkNext \/ Beside
  PROVE  NetworkInv'
<1>1. ASSUME NEW sender \in Operator, NEW a \in Member,
             Enroll(sender, a) \/ Suspend(sender, a) \/ Reinstate(sender, a) \/ Offboard(sender, a)
      PROVE  NetworkInv'
  BY <1>1, EnrollInv, TransitionInv DEF Suspend, Reinstate, Offboard, MemberStatus
<1>2. ASSUME NEW sender \in Operator, NEW other \in Operator,
             \/ ProposeGovernanceTransfer(sender, other) \/ SetIssuer(sender, other)
             \/ AcceptGovernance(sender)
      PROVE  NetworkInv'
  <2>1. transactions' = transactions + 1 /\ UNCHANGED <<status, activeMemberCount, receipt, balance>>
    BY <1>2 DEF ProposeGovernanceTransfer, SetIssuer, AcceptGovernance, Transact, registryVars, receiptVars
  <2>2. /\ governor' \in Operator /\ issuer' \in Operator
        /\ pendingGovernor' \in Operator \cup {NoAccount}
    BY <1>2 DEF ProposeGovernanceTransfer, SetIssuer, AcceptGovernance, registryVars, receiptVars,
       NetworkInv, NetworkTypeOK
  <2>3. transactions' \in Nat
    BY <2>1 DEF NetworkInv, NetworkTypeOK
  <2> QED
    BY <2>1, <2>2, <2>3, RolesMove
<1>3. ASSUME NEW sender \in Operator, NEW a \in Member, NEW packet \in Packet, Issue(sender, a, packet)
      PROVE  NetworkInv'
  BY <1>3, IssueInv
<1>4. ASSUME NEW sender \in Operator, NEW id \in DOMAIN receipt, Revoke(sender, id)
      PROVE  NetworkInv'
  BY <1>4, RevokeInv
<1>5. CASE NetworkNext
  BY <1>1, <1>2, <1>3, <1>4, <1>5 DEF NetworkNext
<1>6. CASE Beside
  BY <1>1, <1>6, CoAttestationAssumption DEF Beside
<1> QED
  BY <1>5, <1>6

--------------------------------------------------------------------------------
(* Sessions. *)

\* What a session has to do, as a set: the first is a part of it, and going on to the
\* rest adds nothing.
LEMMA ToDo ==
  ASSUME NEW todo \in Seq(Body), todo # <<>>
  PROVE  /\ Head(todo) \in Body /\ Head(todo) \in ToSet(todo)
         /\ Tail(todo) \in Seq(Body) /\ ToSet(Tail(todo)) \subseteq ToSet(todo)
         /\ ToSet(todo) \subseteq Body
BY DEF ToSet

LEMMA OneToDo ==
  ASSUME NEW b \in Body
  PROVE  <<b>> \in Seq(Body) /\ ToSet(<<b>>) = {b} /\ Head(<<b>>) = b /\ <<b>> # <<>>
BY DEF ToSet

\* A batch holds what was selected.
LEMMA Batch ==
  ASSUME NEW S \in SUBSET Body, S # {}
  PROVE  /\ SetToSeq(S) \in Seq(Body) /\ SetToSeq(S) # <<>>
         /\ ToSet(SetToSeq(S)) \subseteq S
<1> DEFINE n == Cardinality(S)
           f == SetToSeq(S)
<1>1. IsFiniteSet(S)
  BY CoAttestationAssumption, FS_Subset
<1>2. n \in Nat /\ n # 0 /\ ExistsBijection(1..n, S)
  BY <1>1, FS_CardinalityType, FS_EmptySet
<1>3. \E g \in [1..n -> S] : IsInjective(g)
  BY <1>2 DEF ExistsBijection, Bijection, Injection
<1>4. f \in [1..n -> S]
  BY <1>3 DEF SetToSeq
<1> HIDE DEF f, n
<1>5. f \in Seq(Body) /\ Len(f) = n
  BY <1>2, <1>4
<1>6. f # <<>>
  BY <1>2, <1>5
<1>7. ToSet(f) \subseteq S
  BY <1>2, <1>4 DEF ToSet
<1> QED
  BY <1>5, <1>6, <1>7 DEF f

LEMMA InitialCommitments == Init => CommitmentInv
<1> SUFFICES ASSUME Init
             PROVE  CommitmentInv
  OBVIOUS
<1>1. NoRow \in Row /\ NoJob \in Job /\ NoRow.state = "NONE" /\ NoRow.uid = NoUid /\ NoJob.state = "NONE"
      /\ ~NoRow.withdrawn
  BY DEF NoRow, NoJob, Row, Job, RowState
<1>2. Idle \in Session /\ Idle.at = "idle" /\ Idle.todo = <<>>
  BY <1>1 DEF Idle, Session
<1>3. CoAttestationTypeOK
  BY <1>1, <1>2, NetworkInitInv DEF Init, NetworkInv, CoAttestationTypeOK
<1>4. \A p \in Process : proc[p].at = "idle"
  BY <1>2 DEF Init
<1>5. \A b \in Body : row[b] = NoRow /\ job[b] = NoJob
  BY DEF Init
<1> QED
  BY <1>1, <1>3, <1>4, <1>5 DEF CommitmentInv, CommitmentOK, SessionOK, OneResultPerJob, QuietlyWithdrawn

\* One session moves on.  It leaves the others what they rely on: a row keeps what it
\* is bound to, a job what is known of it, and a withdrawal made while none of them
\* could undo it stands.
LEMMA SessionMoves ==
  ASSUME CommitmentInv, NEW p \in Process, NEW s \in Session, proc' = [proc EXCEPT ![p] = s],
         UNCHANGED <<networkVars, platform>>,
         row' \in [Body -> Row], job' \in [Body -> Job], raced' \subseteq Body, crashes' \in Nat,
         \A b \in Body : row[b].state # "NONE" => row'[b].state # "NONE" /\ row'[b].uid = row[b].uid,
         \A b \in Body : job[b].state # "NONE" => job'[b].state # "NONE",
         \A q \in Process \ {p} :
           proc[q].at = "result" /\ job[Now(q)].state = "OPEN" => job'[Now(q)].state = "OPEN",
         \A b \in Body : CommitmentOK(b)',
         SessionOK(p)',
         \A q \in Process \ {p} : s.at = "result" /\ proc[q].at = "result" => Head(s.todo) # Now(q),
         \A b \in Body : QuietlyWithdrawn(b)' =>
           /\ row'[b].state = "WITHDRAWN" /\ LeavesAlone(p, b)'
           /\ QuietlyWithdrawn(b) \/ \A q \in Process \ {p} : LeavesAlone(q, b)
  PROVE  CommitmentInv'
<1> USE DEF CommitmentInv
<1>1. proc'[p] = s /\ \A q \in Process \ {p} : proc'[q] = proc[q]
  BY DEF CoAttestationTypeOK
<1>2. CoAttestationTypeOK'
  <2>1. NetworkTypeOK'
    BY DEF CoAttestationTypeOK, NetworkTypeOK, networkVars, registryVars, receiptVars
  <2> QED
    BY <2>1 DEF CoAttestationTypeOK
<1>3. \A q \in Process \ {p} : Now(q)' = Now(q) /\ \A b \in Body : LeavesAlone(q, b)' <=> LeavesAlone(q, b)
  BY <1>1 DEF Now, LeavesAlone
<1>4. ASSUME NEW q \in Process
      PROVE  SessionOK(q)'
  <2>1. CASE q = p
    BY <2>1
  <2>2. CASE q # p /\ proc[q].at \in {"idle", "insert"}
    BY <2>2, <1>1, <1>3 DEF SessionOK
  <2>3. CASE q # p /\ proc[q].at \notin {"idle", "insert"}
    <3>1. SessionOK(q) /\ proc[q].todo \in Seq(Body) /\ proc[q].todo # <<>>
      BY <2>3 DEF SessionOK, CoAttestationTypeOK, Session
    <3>2. Now(q) \in Body /\ Now(q) \in ToSet(proc[q].todo) /\ ToSet(proc[q].todo) \subseteq Body
      BY <3>1, ToDo DEF Now
    <3>3. row[Now(q)].state # "NONE" /\ row'[Now(q)].uid = row[Now(q)].uid
      BY <2>3, <3>1, <3>2 DEF SessionOK
    <3>4. \A b \in ToSet(proc[q].todo) : row'[b].state # "NONE"
      BY <2>3, <3>1, <3>2 DEF SessionOK
    <3> QED
      BY <2>3, <3>1, <3>2, <3>3, <3>4, <1>1, <1>3 DEF SessionOK
  <2> QED
    BY <2>1, <2>2, <2>3
<1>5. OneResultPerJob'
  BY <1>1, <1>3 DEF OneResultPerJob, Now
<1>6. ASSUME NEW b \in Body, QuietlyWithdrawn(b)'
      PROVE  row'[b].state = "WITHDRAWN" /\ \A q \in Process : LeavesAlone(q, b)'
  BY <1>3, <1>6
<1> QED
  BY <1>2, <1>4, <1>5, <1>6

\* The step of a session that writes neither a row nor a job.
LEMMA SessionOnlyReads ==
  ASSUME CommitmentInv, NEW p \in Process, NEW s \in Session, proc' = [proc EXCEPT ![p] = s],
         UNCHANGED <<networkVars, platform, row, job, raced>>, crashes' \in Nat,
         SessionOK(p)',
         \A q \in Process \ {p} : s.at = "result" /\ proc[q].at = "result" => Head(s.todo) # Now(q),
         \A b \in Body : QuietlyWithdrawn(b) => LeavesAlone(p, b)'
  PROVE  CommitmentInv'
<1>1. row \in [Body -> Row] /\ job \in [Body -> Job] /\ raced \subseteq Body
  BY DEF CommitmentInv, CoAttestationTypeOK
<1>2. \A b \in Body : CommitmentOK(b)'
  BY DEF CommitmentInv, CommitmentOK
<1>3. \A b \in Body : QuietlyWithdrawn(b)' =>
        /\ row'[b].state = "WITHDRAWN" /\ LeavesAlone(p, b)'
        /\ QuietlyWithdrawn(b) \/ \A q \in Process \ {p} : LeavesAlone(q, b)
  BY DEF CommitmentInv, QuietlyWithdrawn
<1> QED
  BY <1>1, <1>2, <1>3, SessionMoves

\* A session turns to one body.
LEMMA Turns ==
  ASSUME CommitmentInv, NEW p \in Process,
         NEW at \in {"insert", "queue", "mark", "reconcile", "result", "withdraw"},
         NEW b \in Body, NEW seen \in Row, At(p, at, b, seen)
  PROVE  \E s \in Session :
           /\ proc' = [proc EXCEPT ![p] = s] /\ proc'[p] = s /\ Now(p)' = b
           /\ s.at = at /\ s.todo = <<b>> /\ s.seen = seen
           /\ s.todo # <<>> /\ ToSet(s.todo) = {b} /\ Head(s.todo) = b
<1>1. <<b>> \in Seq(Body) /\ ToSet(<<b>>) = {b} /\ Head(<<b>>) = b /\ <<b>> # <<>>
  BY OneToDo
<1> DEFINE todo == <<b>>
           s == [Idle EXCEPT !.at = at, !.todo = todo, !.seen = seen]
<1>2. proc' = [proc EXCEPT ![p] = s]
  BY DEF At
<1> HIDE DEF todo
<1>3. s \in Session /\ s.at = at /\ s.todo = todo /\ s.seen = seen
  BY <1>1 DEF Idle, Session, todo
<1> HIDE DEF s
<1>4. proc' = [proc EXCEPT ![p] = s] /\ proc'[p] = s
  BY <1>2 DEF CommitmentInv, CoAttestationTypeOK
<1> QED
  BY <1>1, <1>3, <1>4 DEF Now, todo

\* A session ends, and relies on nothing any more.
LEMMA Ends ==
  ASSUME CommitmentInv, NEW p \in Process, Leaves(p)
  PROVE  /\ Idle \in Session /\ proc' = [proc EXCEPT ![p] = Idle] /\ Idle.at = "idle"
         /\ SessionOK(p)' /\ \A b \in Body : LeavesAlone(p, b)'
<1>1. Idle \in Session /\ Idle.at = "idle"
  BY DEF Idle, Session, NoRow, Row, RowState
<1>2. proc' = [proc EXCEPT ![p] = Idle] /\ proc'[p] = Idle
  BY DEF Leaves, CommitmentInv, CoAttestationTypeOK
<1> QED
  BY <1>1, <1>2 DEF SessionOK, LeavesAlone

\* What a working session is about.
LEMMA AboutNow ==
  ASSUME CommitmentInv, NEW p \in Process, proc[p].at # "idle"
  PROVE  /\ proc[p] \in Session /\ proc[p].todo \in Seq(Body) /\ proc[p].seen \in Row
         /\ proc[p].todo # <<>> /\ SessionOK(p)
         /\ Now(p) \in Body /\ Now(p) \in ToSet(proc[p].todo)
         /\ row[Now(p)] \in Row /\ job[Now(p)] \in Job /\ CommitmentOK(Now(p))
         /\ proc[p].at # "insert" => row[Now(p)].state # "NONE"
<1>1. proc[p] \in Session /\ SessionOK(p)
  BY DEF CommitmentInv, CoAttestationTypeOK
<1>2. proc[p].todo \in Seq(Body) /\ proc[p].seen \in Row /\ proc[p].todo # <<>>
  BY <1>1 DEF Session, SessionOK
<1>3. Now(p) \in Body /\ Now(p) \in ToSet(proc[p].todo)
  BY <1>2, ToDo DEF Now
<1> QED
  BY <1>1, <1>2, <1>3 DEF CommitmentInv, CoAttestationTypeOK, SessionOK

LEMMA SubmitInv ==
  ASSUME CommitmentInv, NEW p \in Process, NEW b \in Body, Submit(p, b)
  PROVE  CommitmentInv'
<1>1. PICK seen : seen = [NoRow EXCEPT !.uid = platform]
  OBVIOUS
<1>2. platform \in {Uid, NoUid} /\ crashes \in Nat
  BY DEF CommitmentInv, CoAttestationTypeOK
<1>3. seen \in Row /\ ~seen.withdrawn /\ (seen.uid # NoUid => b.uid = seen.uid)
  BY <1>1, <1>2 DEF Submit, NoRow, Row, RowState
<1>4. At(p, "insert", b, seen) /\ UNCHANGED <<networkVars, platform, row, job, raced, crashes>>
  BY <1>1 DEF Submit
<1>5. PICK s \in Session :
        /\ proc' = [proc EXCEPT ![p] = s] /\ proc'[p] = s /\ Now(p)' = b
        /\ s.at = "insert" /\ s.todo # <<>> /\ s.seen = seen
  BY <1>3, <1>4, Turns
<1>6. SessionOK(p)' /\ \A c \in Body : LeavesAlone(p, c)'
  BY <1>3, <1>5 DEF SessionOK, LeavesAlone
<1> QED
  BY <1>2, <1>4, <1>5, <1>6, SessionOnlyReads

LEMMA ResultReadInv ==
  ASSUME CommitmentInv, NEW p \in Process, NEW b \in Body, ResultRead(p, b)
  PROVE  CommitmentInv'
<1>1. row[b] \in Row /\ CommitmentOK(b) /\ crashes \in Nat
  BY DEF CommitmentInv, CoAttestationTypeOK
<1>2. /\ At(p, "result", b, row[b]) /\ UNCHANGED <<networkVars, platform, row, job, raced, crashes>>
      /\ job[b].state = "OPEN" /\ \A q \in Process : ~(proc[q].at = "result" /\ Now(q) = b)
  BY DEF ResultRead
<1>3. PICK s \in Session :
        /\ proc' = [proc EXCEPT ![p] = s] /\ proc'[p] = s /\ Now(p)' = b
        /\ s.at = "result" /\ s.todo # <<>> /\ s.seen = row[b] /\ ToSet(s.todo) = {b} /\ Head(s.todo) = b
  BY <1>1, <1>2, Turns
<1>4. SessionOK(p)'
  BY <1>1, <1>2, <1>3 DEF SessionOK, CommitmentOK
<1>5. \A c \in Body : QuietlyWithdrawn(c) => LeavesAlone(p, c)'
  BY <1>3 DEF LeavesAlone, CommitmentInv
<1> QED
  BY <1>1, <1>2, <1>3, <1>4, <1>5, SessionOnlyReads

LEMMA WithdrawReadInv ==
  ASSUME CommitmentInv, NEW p \in Process, NEW b \in Body, WithdrawRead(p, b)
  PROVE  CommitmentInv'
<1>1. NoRow \in Row /\ crashes \in Nat
  BY DEF NoRow, Row, RowState, CommitmentInv, CoAttestationTypeOK
<1>2. /\ At(p, "withdraw", b, NoRow) /\ UNCHANGED <<networkVars, platform, row, job, raced, crashes>>
      /\ row[b].state # "NONE"
  BY DEF WithdrawRead
<1>3. PICK s \in Session :
        /\ proc' = [proc EXCEPT ![p] = s] /\ proc'[p] = s
        /\ s.at = "withdraw" /\ s.todo # <<>> /\ ToSet(s.todo) = {b}
  BY <1>1, <1>2, Turns
<1>4. SessionOK(p)' /\ \A c \in Body : LeavesAlone(p, c)'
  BY <1>2, <1>3 DEF SessionOK, LeavesAlone
<1> QED
  BY <1>1, <1>2, <1>3, <1>4, SessionOnlyReads

LEMMA ReconcileInv ==
  ASSUME CommitmentInv, NEW p \in Process, Reconcile(p)
  PROVE  CommitmentInv'
<1> DEFINE batch == SetToSeq(Unqueued)
           s == [Idle EXCEPT !.at = "reconcile", !.todo = batch]
<1>1. /\ UNCHANGED <<networkVars, platform, row, job, raced, crashes>> /\ Unqueued # {}
      /\ proc' = [proc EXCEPT ![p] = s]
  BY DEF Reconcile
<1>2. batch \in Seq(Body) /\ batch # <<>> /\ ToSet(batch) \subseteq Unqueued
  BY <1>1, Batch DEF Unqueued
<1> HIDE DEF batch
<1>3. s \in Session /\ s.at = "reconcile" /\ s.todo = batch
  BY <1>2 DEF Idle, Session, NoRow, Row, RowState
<1> HIDE DEF s
<1>4. proc'[p] = s /\ crashes \in Nat
  BY <1>1 DEF CommitmentInv, CoAttestationTypeOK
<1>5. SessionOK(p)'
  BY <1>1, <1>2, <1>3, <1>4 DEF SessionOK, Unqueued
<1>6. \A c \in Body : QuietlyWithdrawn(c) => LeavesAlone(p, c)'
  BY <1>2, <1>3, <1>4 DEF LeavesAlone, CommitmentInv, Unqueued
<1> QED
  BY <1>1, <1>3, <1>4, <1>5, <1>6, SessionOnlyReads

LEMMA CrashInv ==
  ASSUME CommitmentInv, NEW p \in Process, Crash(p)
  PROVE  CommitmentInv'
<1>1. /\ Leaves(p) /\ UNCHANGED <<networkVars, platform, row, job, raced>> /\ crashes' = crashes + 1
  BY DEF Crash
<1>2. crashes' \in Nat
  BY <1>1 DEF CommitmentInv, CoAttestationTypeOK
<1> QED
  BY <1>1, <1>2, Ends, SessionOnlyReads

\* The attestation of the platform arrives: it is not what any row names yet.
LEMMA PlatformAttestedInv ==
  ASSUME CommitmentInv, PlatformAttested
  PROVE  CommitmentInv'
<1>1. platform' = Uid /\ UNCHANGED <<networkVars, row, job, proc, raced, crashes>>
  BY DEF PlatformAttested
<1>2. CoAttestationTypeOK'
  BY <1>1 DEF CommitmentInv, CoAttestationTypeOK, NetworkTypeOK, networkVars, registryVars, receiptVars
<1> QED
  BY <1>1, <1>2 DEF CommitmentInv, CommitmentOK, SessionOK, OneResultPerJob, LeavesAlone, QuietlyWithdrawn, Now

--------------------------------------------------------------------------------
(* The steps that write. *)

\* The row that is inserted is bound to what the platform had when it was checked.
LEMMA InsertInv ==
  ASSUME CommitmentInv, NEW p \in Process, Insert(p)
  PROVE  CommitmentInv'
<1> DEFINE b == Now(p)
           seen == proc[p].seen
<1>1. /\ proc[p].at = "insert" /\ UNCHANGED <<networkVars, platform, job, raced, crashes>>
      /\ b \in Body /\ seen \in Row /\ ~seen.withdrawn /\ (seen.uid # NoUid => b.uid = seen.uid)
      /\ CommitmentOK(b)
  BY AboutNow DEF Insert, SessionOK
<1>2. /\ row \in [Body -> Row] /\ job \in [Body -> Job] /\ raced \subseteq Body /\ crashes \in Nat
      /\ \A c \in Body : CommitmentOK(c)
      /\ \A c \in Body : QuietlyWithdrawn(c) => row[c].state = "WITHDRAWN"
  BY DEF CommitmentInv, CoAttestationTypeOK
<1>3. CASE row[b].state # "NONE"
  <2>1. Leaves(p) /\ UNCHANGED row
    BY <1>3 DEF Insert
  <2> QED
    BY <1>1, <1>2, <2>1, Ends, SessionOnlyReads
<1>4. CASE row[b].state = "NONE"
  <2> DEFINE new == [seen EXCEPT !.state = "SIGNED"]
  <2>1. row' = [row EXCEPT ![b] = new] /\ At(p, "queue", b, row'[b])
    BY <1>4 DEF Insert
  <2>2. /\ new \in Row /\ new.state = "SIGNED" /\ new.uid = seen.uid /\ ~new.withdrawn
    BY <1>1 DEF Row, RowState
  <2> HIDE DEF new, b, seen
  <2>3. /\ row' \in [Body -> Row] /\ row'[b] = new
        /\ \A c \in Body \ {b} : row'[c] = row[c]
    BY <1>1, <1>2, <2>1, <2>2
  <2>4. PICK s \in Session :
          /\ proc' = [proc EXCEPT ![p] = s] /\ proc'[p] = s /\ Now(p)' = b
          /\ s.at = "queue" /\ s.todo # <<>> /\ s.seen = new /\ ToSet(s.todo) = {b}
    <3>1. At(p, "queue", b, new)
      BY <2>1, <2>3
    <3> QED
      BY <1>1, <2>2, <3>1, Turns DEF b
  <2>5. SessionOK(p)'
    BY <2>2, <2>3, <2>4 DEF SessionOK
  <2>6. \A c \in Body : CommitmentOK(c)'
    BY <1>1, <1>2, <1>4, <2>2, <2>3 DEF CommitmentOK, b
  <2>7. \A c \in Body : QuietlyWithdrawn(c)' =>
          row'[c].state = "WITHDRAWN" /\ LeavesAlone(p, c)' /\ QuietlyWithdrawn(c)
    BY <1>1, <1>2, <2>2, <2>3, <2>4 DEF QuietlyWithdrawn, LeavesAlone
  <2>8. \A c \in Body : row[c].state # "NONE" => row'[c].state # "NONE" /\ row'[c].uid = row[c].uid
    BY <1>4, <2>3 DEF b
  <2> QED
    BY <1>1, <1>2, <2>3, <2>4, <2>5, <2>6, <2>7, <2>8, SessionMoves
<1> QED
  BY <1>3, <1>4

\* A job is made for the row as the session has it, which has the row's binding.
LEMMA Queueing ==
  ASSUME CommitmentInv, NEW p \in Process, proc[p].at \in {"queue", "reconcile"},
         NEW seen \in Row, seen.uid = row[Now(p)].uid, Enqueues(Now(p), seen.uid),
         proc' = [proc EXCEPT ![p].at = "mark", ![p].seen = seen],
         UNCHANGED <<networkVars, platform, row, raced, crashes>>
  PROVE  CommitmentInv'
<1> DEFINE b == Now(p)
           s == [proc[p] EXCEPT !.at = "mark", !.seen = seen]
           new == [state |-> "OPEN", ref |-> seen.uid]
<1>1. /\ proc[p] \in Session /\ proc[p].todo # <<>> /\ SessionOK(p) /\ b \in Body
      /\ row[b].state # "NONE" /\ CommitmentOK(b)
  BY AboutNow
<1>2. /\ row \in [Body -> Row] /\ job \in [Body -> Job] /\ raced \subseteq Body /\ crashes \in Nat
      /\ \A c \in Body : CommitmentOK(c)
      /\ \A c \in Body : QuietlyWithdrawn(c) => row[c].state = "WITHDRAWN" /\ LeavesAlone(p, c)
  BY DEF CommitmentInv, CoAttestationTypeOK
<1>3. proc' = [proc EXCEPT ![p] = s] /\ proc'[p] = s
  BY DEF CommitmentInv, CoAttestationTypeOK
<1>4. s \in Session /\ s.at = "mark" /\ s.todo = proc[p].todo /\ s.seen = seen
  BY <1>1 DEF Session
<1>5. new \in Job /\ new.state = "OPEN" /\ new.ref = seen.uid
  BY DEF Job, Row
<1>6. IF job[b].state = "NONE" THEN job' = [job EXCEPT ![b] = new] ELSE job' = job
  BY DEF Enqueues
<1> HIDE DEF s, new
<1>7. /\ job' \in [Body -> Job] /\ job'[b].state # "NONE"
      /\ \A c \in Body : job[c].state # "NONE" => job'[c] = job[c]
      /\ \A c \in Body : c # b => job'[c] = job[c]
      /\ job'[b] # job[b] => job'[b] = new /\ job[b].state = "NONE"
  BY <1>1, <1>2, <1>5, <1>6
<1>8. Now(p)' = b
  BY <1>3, <1>4 DEF Now
<1>9. SessionOK(p)'
  BY <1>1, <1>3, <1>4, <1>7, <1>8 DEF SessionOK
<1>10. \A c \in Body : CommitmentOK(c)'
  <2> SUFFICES ASSUME NEW c \in Body
               PROVE  CommitmentOK(c)'
    OBVIOUS
  <2>1. CASE job'[c] = job[c]
    BY <2>1, <1>2 DEF CommitmentOK
  <2>2. CASE job'[c] # job[c]
    BY <2>2, <1>1, <1>5, <1>7 DEF CommitmentOK
  <2> QED
    BY <2>1, <2>2
<1>11. \A c \in Body : QuietlyWithdrawn(c)' =>
         row'[c].state = "WITHDRAWN" /\ LeavesAlone(p, c)' /\ QuietlyWithdrawn(c)
  BY <1>2, <1>3, <1>4 DEF QuietlyWithdrawn, LeavesAlone
<1>12. \A q \in Process \ {p} :
         proc[q].at = "result" /\ job[Now(q)].state = "OPEN" => job'[Now(q)].state = "OPEN"
  <2> SUFFICES ASSUME NEW q \in Process \ {p}, proc[q].at = "result", job[Now(q)].state = "OPEN"
               PROVE  job'[Now(q)].state = "OPEN"
    OBVIOUS
  <2>1. Now(q) \in Body
    BY AboutNow
  <2> QED
    BY <2>1, <1>7
<1> QED
  BY <1>2, <1>3, <1>4, <1>7, <1>9, <1>10, <1>11, <1>12, SessionMoves

LEMMA QueueInv ==
  ASSUME CommitmentInv, NEW p \in Process, Queue(p)
  PROVE  CommitmentInv'
<1>1. /\ proc[p].at = "queue" /\ UNCHANGED <<networkVars, platform, row, raced, crashes>>
      /\ Now(p) \in Body /\ proc[p].seen \in Row /\ row[Now(p)] \in Row
      /\ proc[p].seen.uid = row[Now(p)].uid /\ crashes \in Nat
  BY AboutNow DEF Queue, SessionOK, CommitmentInv, CoAttestationTypeOK
<1>2. PICK r \in {proc[p].seen, row[Now(p)]} :
        IF r.queued THEN Leaves(p) /\ UNCHANGED job
        ELSE /\ Enqueues(Now(p), r.uid)
             /\ proc' = [proc EXCEPT ![p].at = "mark", ![p].seen = r]
  BY DEF Queue
<1>3. CASE r.queued
  BY <1>1, <1>2, <1>3, Ends, SessionOnlyReads
<1>4. CASE ~r.queued
  BY <1>1, <1>2, <1>4, Queueing
<1> QED
  BY <1>3, <1>4

LEMMA ReconcileRowInv ==
  ASSUME CommitmentInv, NEW p \in Process, ReconcileRow(p)
  PROVE  CommitmentInv'
<1> DEFINE seen == [row[Now(p)] EXCEPT !.queued = FALSE, !.state = "SIGNED"]
<1>1. /\ proc[p].at = "reconcile" /\ UNCHANGED <<networkVars, platform, row, raced, crashes>>
      /\ row[Now(p)] \in Row /\ Enqueues(Now(p), row[Now(p)].uid)
      /\ proc' = [proc EXCEPT ![p].at = "mark", ![p].seen = seen]
  BY AboutNow DEF ReconcileRow
<1>2. seen \in Row /\ seen.uid = row[Now(p)].uid
  BY <1>1 DEF Row, RowState
<1> HIDE DEF seen
<1> QED
  BY <1>1, <1>2, Queueing

\* The row is marked without looking at it again; that never touches a row whose
\* withdrawal nobody overlapped, for such a row is in no batch.
LEMMA MarkInv ==
  ASSUME CommitmentInv, NEW p \in Process, Mark(p)
  PROVE  CommitmentInv'
<1> DEFINE b == Now(p)
           rest == Tail(proc[p].todo)
           state == IF proc[p].seen.state = "ANCHOR_PENDING" THEN row[b].state ELSE "ANCHOR_PENDING"
           new == [row[b] EXCEPT !.queued = TRUE, !.state = state]
           s == IF rest = <<>> THEN Idle ELSE [Idle EXCEPT !.at = "reconcile", !.todo = rest]
<1>1. /\ proc[p].at = "mark" /\ UNCHANGED <<networkVars, platform, job, raced, crashes>>
      /\ b \in Body /\ b \in ToSet(proc[p].todo) /\ row[b] \in Row /\ row[b].state # "NONE"
      /\ SessionOK(p) /\ CommitmentOK(b) /\ job[b].state # "NONE"
      /\ proc[p].todo \in Seq(Body) /\ proc[p].todo # <<>>
  BY AboutNow DEF Mark, SessionOK
<1>2. /\ row \in [Body -> Row] /\ job \in [Body -> Job] /\ raced \subseteq Body /\ crashes \in Nat
      /\ \A c \in Body : CommitmentOK(c)
      /\ \A c \in Body : QuietlyWithdrawn(c) => row[c].state = "WITHDRAWN" /\ LeavesAlone(p, c)
  BY DEF CommitmentInv, CoAttestationTypeOK
<1>3. row' = [row EXCEPT ![b] = new] /\ proc' = [proc EXCEPT ![p] = s]
  BY <1>1, <1>2 DEF Mark, NextRow
<1>4. state \in RowState /\ state \in {row[b].state, "ANCHOR_PENDING"}
  BY <1>1 DEF Row, RowState
<1>5. rest \in Seq(Body) /\ ToSet(rest) \subseteq ToSet(proc[p].todo) /\ ToSet(rest) \subseteq Body
  BY <1>1, ToDo
<1> HIDE DEF state, rest, b
<1>6. /\ new \in Row /\ new.state \in {row[b].state, "ANCHOR_PENDING"} /\ new.uid = row[b].uid
      /\ new.withdrawn = row[b].withdrawn
  BY <1>1, <1>4 DEF Row
<1> HIDE DEF new
<1>7. row' \in [Body -> Row] /\ row'[b] = new /\ \A c \in Body \ {b} : row'[c] = row[c]
  BY <1>1, <1>2, <1>3, <1>6
<1>8. /\ s \in Session /\ s.at \in {"idle", "reconcile"} /\ (s.at = "reconcile" => s.todo = rest /\ rest # <<>>)
      /\ (s.at = "idle" => s.todo = <<>>)
  BY <1>5 DEF Idle, Session, NoRow, Row, RowState
<1> HIDE DEF s
<1>9. proc'[p] = s
  BY <1>3 DEF CommitmentInv, CoAttestationTypeOK
<1>10. \A c \in Body : row[c].state # "NONE" => row'[c].state # "NONE" /\ row'[c].uid = row[c].uid
  BY <1>6, <1>7
<1>11. \A c \in Body : CommitmentOK(c)'
  BY <1>1, <1>2, <1>6, <1>7 DEF CommitmentOK
<1>12. SessionOK(p)'
  BY <1>1, <1>5, <1>8, <1>9, <1>10 DEF SessionOK
<1>13. ASSUME NEW c \in Body, QuietlyWithdrawn(c)'
       PROVE  row'[c].state = "WITHDRAWN" /\ LeavesAlone(p, c)' /\ QuietlyWithdrawn(c)
  <2>1. QuietlyWithdrawn(c)
    BY <1>1, <1>6, <1>7, <1>13 DEF QuietlyWithdrawn
  <2>2. c \notin ToSet(proc[p].todo) /\ row[c].state = "WITHDRAWN"
    BY <1>1, <1>2, <2>1 DEF LeavesAlone
  <2>3. c \notin ToSet(s.todo)
    BY <1>5, <1>8, <2>2 DEF ToSet
  <2> QED
    BY <1>1, <1>7, <1>8, <1>9, <2>1, <2>2, <2>3 DEF LeavesAlone
<1> QED
  BY <1>1, <1>2, <1>3, <1>7, <1>8, <1>10, <1>11, <1>12, <1>13, SessionMoves

\* A result settles job and row together; nothing else settled the job meanwhile, so
\* the row it was read from was not yet at an end of its own.
LEMMA ResultCommitInv ==
  ASSUME CommitmentInv, NEW p \in Process, NEW result \in {"OPEN", "CONFIRMED", "FAILED"},
         ResultCommit(p, result)
  PROVE  CommitmentInv'
<1> DEFINE b == Now(p)
           seen == proc[p].seen
           settled == [job[b] EXCEPT !.state = result]
           state == IF seen.state = Settled(result) THEN row[b].state ELSE Settled(result)
           uid == IF seen.uid = NoUid /\ result = "CONFIRMED" THEN job[b].ref ELSE row[b].uid
           new == [row[b] EXCEPT !.state = state, !.uid = uid]
<1>1. /\ proc[p].at = "result" /\ UNCHANGED <<networkVars, platform, raced, crashes>> /\ Leaves(p)
      /\ b \in Body /\ row[b] \in Row /\ row[b].state # "NONE" /\ job[b] \in Job /\ seen \in Row
      /\ SessionOK(p) /\ CommitmentOK(b) /\ job[b].state = "OPEN" /\ seen.uid = row[b].uid
      /\ seen.state \notin {"ANCHORED", "ANCHOR_FAILED"}
  BY AboutNow DEF ResultCommit, SessionOK
<1>2. /\ row \in [Body -> Row] /\ job \in [Body -> Job] /\ raced \subseteq Body /\ crashes \in Nat
      /\ \A c \in Body : CommitmentOK(c)
      /\ \A c \in Body : QuietlyWithdrawn(c) => row[c].state = "WITHDRAWN" /\ LeavesAlone(p, c)
  BY DEF CommitmentInv, CoAttestationTypeOK
<1>3. job' = [job EXCEPT ![b] = settled] /\ row' = IF Applies(seen) THEN [row EXCEPT ![b] = new] ELSE row
  BY <1>1, <1>2 DEF ResultCommit
<1>4. settled \in Job /\ settled.state = result /\ settled.ref = row[b].uid
  BY <1>1 DEF Job, CommitmentOK
<1>5. /\ Settled(result) \in {"ANCHORED", "ANCHOR_FAILED", "ANCHOR_PENDING"}
      /\ (Settled(result) = "ANCHORED" => result = "CONFIRMED")
      /\ (Settled(result) = "ANCHOR_FAILED" => result = "FAILED")
      /\ (result = "CONFIRMED" => Settled(result) = "ANCHORED")
      /\ (result = "FAILED" => Settled(result) = "ANCHOR_FAILED")
  BY DEF Settled
<1>6. state \in RowState /\ uid = row[b].uid
  BY <1>1, <1>5 DEF Row, RowState, CommitmentOK
<1>7. /\ row[b].state \notin {"ANCHORED", "ANCHOR_FAILED"}
      /\ (state = "ANCHORED" => result = "CONFIRMED") /\ (state = "ANCHOR_FAILED" => result = "FAILED")
      /\ state # "NONE"
  BY <1>1, <1>5 DEF CommitmentOK
<1> HIDE DEF state, uid, settled, b, seen
<1>8. /\ new \in Row /\ new.state = state /\ new.uid = row[b].uid /\ new.withdrawn = row[b].withdrawn
  BY <1>1, <1>6 DEF Row
<1> HIDE DEF new
<1>9. /\ job' \in [Body -> Job] /\ job'[b] = settled /\ \A c \in Body \ {b} : job'[c] = job[c]
      /\ row' \in [Body -> Row] /\ (row'[b] = new \/ row'[b] = row[b])
      /\ \A c \in Body \ {b} : row'[c] = row[c]
  BY <1>1, <1>2, <1>3, <1>4, <1>8
<1>10. \A c \in Body : CommitmentOK(c)'
  <2> SUFFICES ASSUME NEW c \in Body
               PROVE  CommitmentOK(c)'
    OBVIOUS
  <2>1. CASE c # b
    BY <2>1, <1>2, <1>9 DEF CommitmentOK
  <2>2. CASE c = b /\ row'[b] = row[b]
    BY <2>2, <1>1, <1>4, <1>7, <1>9 DEF CommitmentOK
  <2>3. CASE c = b /\ row'[b] = new
    BY <2>3, <1>1, <1>4, <1>7, <1>8, <1>9 DEF CommitmentOK
  <2> QED
    BY <1>9, <2>1, <2>2, <2>3
<1>11. ASSUME NEW q \in Process \ {p}, proc[q].at = "result", job[Now(q)].state = "OPEN"
       PROVE  job'[Now(q)].state = "OPEN"
  <2>1. Now(q) \in Body /\ Now(q) # b
    BY <1>1, <1>11, AboutNow DEF b, CommitmentInv, OneResultPerJob
  <2> QED
    BY <1>9, <1>11, <2>1
<1>12. ASSUME NEW c \in Body, QuietlyWithdrawn(c)'
       PROVE  row'[c].state = "WITHDRAWN" /\ QuietlyWithdrawn(c)
  <2>1. QuietlyWithdrawn(c)
    BY <1>1, <1>8, <1>9, <1>12 DEF QuietlyWithdrawn
  <2>2. row[c].state = "WITHDRAWN" /\ LeavesAlone(p, c)
    BY <1>2, <2>1
  <2>3. c = b => ~Applies(seen)
    BY <1>1, <2>2 DEF LeavesAlone, Applies, b, seen
  <2> QED
    BY <1>3, <1>9, <2>1, <2>2, <2>3
<1>13. \A c \in Body : row[c].state # "NONE" => row'[c].state # "NONE" /\ row'[c].uid = row[c].uid
  BY <1>7, <1>8, <1>9
<1>14. \A c \in Body : job[c].state # "NONE" => job'[c].state # "NONE"
  BY <1>4, <1>9
<1> QED
  BY <1>1, <1>2, <1>9, <1>10, <1>11, <1>12, <1>13, <1>14, Ends, SessionMoves

\* A withdrawal is undone by no session that is not under way when it is made.
LEMMA WithdrawInv ==
  ASSUME CommitmentInv, NEW p \in Process, Withdraw(p)
  PROVE  CommitmentInv'
<1> DEFINE b == Now(p)
           new == [row[b] EXCEPT !.state = "WITHDRAWN", !.withdrawn = TRUE]
<1>1. /\ proc[p].at = "withdraw" /\ UNCHANGED <<networkVars, platform, job, crashes>> /\ Leaves(p)
      /\ raced' = IF InFlight(b) THEN raced \cup {b} ELSE raced
      /\ b \in Body /\ row[b] \in Row /\ row[b].state # "NONE" /\ CommitmentOK(b)
  BY AboutNow DEF Withdraw
<1>2. /\ row \in [Body -> Row] /\ job \in [Body -> Job] /\ raced \subseteq Body /\ crashes \in Nat
      /\ \A c \in Body : CommitmentOK(c)
      /\ \A c \in Body : QuietlyWithdrawn(c) => row[c].state = "WITHDRAWN"
  BY DEF CommitmentInv, CoAttestationTypeOK
<1>3. row' = [row EXCEPT ![b] = new]
  BY <1>1, <1>2 DEF Withdraw
<1>4. new \in Row /\ new.state = "WITHDRAWN" /\ new.uid = row[b].uid
  BY <1>1 DEF Row, RowState
<1>5. ~InFlight(b) => \A q \in Process : LeavesAlone(q, b)
  <2> SUFFICES ASSUME ~InFlight(b), NEW q \in Process
               PROVE  LeavesAlone(q, b)
    OBVIOUS
  <2>1. b \in ToSet(proc[q].todo) => proc[q].at \notin {"queue", "reconcile", "mark", "result"}
    BY DEF InFlight
  <2>2. proc[q].at = "result" => Now(q) \in ToSet(proc[q].todo)
    BY AboutNow
  <2> QED
    BY <2>1, <2>2 DEF LeavesAlone
<1> HIDE DEF new, b
<1>6. row' \in [Body -> Row] /\ row'[b] = new /\ \A c \in Body \ {b} : row'[c] = row[c]
  BY <1>1, <1>2, <1>3, <1>4
<1>7. \A c \in Body : CommitmentOK(c)'
  BY <1>1, <1>2, <1>4, <1>6 DEF CommitmentOK
<1>8. ASSUME NEW c \in Body, QuietlyWithdrawn(c)'
      PROVE  /\ row'[c].state = "WITHDRAWN"
             /\ QuietlyWithdrawn(c) \/ \A q \in Process \ {p} : LeavesAlone(q, c)
  <2>1. CASE c = b
    BY <2>1, <1>1, <1>4, <1>5, <1>6, <1>8 DEF QuietlyWithdrawn
  <2>2. CASE c # b
    BY <2>2, <1>1, <1>2, <1>6, <1>8 DEF QuietlyWithdrawn
  <2> QED
    BY <2>1, <2>2
<1>9. \A c \in Body : row[c].state # "NONE" => row'[c].state # "NONE" /\ row'[c].uid = row[c].uid
  BY <1>4, <1>6
<1> QED
  BY <1>1, <1>2, <1>6, <1>7, <1>8, <1>9, Ends, SessionMoves

--------------------------------------------------------------------------------
LEMMA InitInv == Init => NetworkInv /\ CommitmentInv
BY NetworkInitInv, InitialCommitments DEF Init

LEMMA NextInv == NetworkInv /\ CommitmentInv /\ [Next]_vars => NetworkInv' /\ CommitmentInv'
<1> SUFFICES ASSUME NetworkInv, CommitmentInv, [Next]_vars
             PROVE  NetworkInv' /\ CommitmentInv'
  OBVIOUS
<1>1. CASE UNCHANGED networkVars /\ (CommitmentInv')
  BY <1>1 DEF networkVars, registryVars, receiptVars, NetworkInv, NetworkTypeOK, CountsAreTrue
<1>2. CASE (NetworkNext \/ Beside) /\ UNCHANGED coVars
  <2>1. NetworkInv'
    BY <1>2, NetworkNextInv
  <2>2. CoAttestationTypeOK'
    BY <1>2, <2>1 DEF CommitmentInv, CoAttestationTypeOK, NetworkInv, coVars
  <2> QED
    BY <1>2, <2>1, <2>2 DEF coVars, CommitmentInv, CommitmentOK, SessionOK, OneResultPerJob, LeavesAlone,
       QuietlyWithdrawn, Now
<1>3. CASE PlatformAttested
  BY <1>1, <1>3, PlatformAttestedInv DEF PlatformAttested
<1>4. ASSUME NEW p \in Process, Work(p) \/ Reconcile(p) \/ Crash(p)
      PROVE  NetworkInv' /\ CommitmentInv'
  <2>1. CommitmentInv'
    BY <1>4, InsertInv, QueueInv, MarkInv, ReconcileRowInv, WithdrawInv, ResultCommitInv, ReconcileInv,
       CrashInv DEF Work
  <2>2. UNCHANGED networkVars
    BY <1>4 DEF Work, Insert, Queue, Mark, ReconcileRow, Withdraw, ResultCommit, Reconcile, Crash
  <2> QED
    BY <1>1, <2>1, <2>2
<1>5. ASSUME NEW p \in Process, NEW b \in Body, Submit(p, b) \/ ResultRead(p, b) \/ WithdrawRead(p, b)
      PROVE  NetworkInv' /\ CommitmentInv'
  <2>1. CommitmentInv'
    BY <1>5, SubmitInv, ResultReadInv, WithdrawReadInv
  <2>2. UNCHANGED networkVars
    BY <1>5 DEF Submit, ResultRead, WithdrawRead
  <2> QED
    BY <1>1, <2>1, <2>2
<1>6. CASE UNCHANGED vars
  <2>1. CoAttestationTypeOK'
    BY <1>6 DEF vars, coVars, networkVars, registryVars, receiptVars, CommitmentInv, CoAttestationTypeOK,
       NetworkTypeOK
  <2>2. CommitmentInv'
    BY <1>6, <2>1 DEF vars, coVars, CommitmentInv, CommitmentOK, SessionOK, OneResultPerJob, LeavesAlone,
       QuietlyWithdrawn, Now
  <2> QED
    BY <1>1, <1>6, <2>2 DEF vars
<1> QED
  BY <1>2, <1>3, <1>4, <1>5, <1>6 DEF Next

\* The inductive invariant: the network's counters with the members and receipts they
\* count, and for every commitment what each open session has read of it that it will
\* write without looking again.
THEOREM CommitmentInvariant == Spec => [](NetworkInv /\ CommitmentInv)
BY InitInv, NextInv, PTL DEF Spec

\* Types of every reachable state of the network and of the commitments over it.
THEOREM CommitmentTypeCorrect == Spec => []CoAttestationTypeOK
<1>1. NetworkInv /\ CommitmentInv => CoAttestationTypeOK
  BY DEF CommitmentInv
<1> QED
  BY <1>1, CommitmentInvariant, PTL

\* activeMemberCount and the balances are the numbers of active members and of
\* standing receipts, in any order of enrolments, suspensions, issues and revocations.
THEOREM CountersAreTrue == Spec => []CountsAreTrue
<1>1. NetworkInv /\ CommitmentInv => CountsAreTrue
  BY DEF NetworkInv
<1> QED
  BY <1>1, CommitmentInvariant, PTL

\* A commitment's state is that of its job, and what it names of the platform is what
\* its body was signed over and its job refers to.
THEOREM CommitmentsClaimNoMore == Spec => []CommitmentIsWhatItSays
<1>1. NetworkInv /\ CommitmentInv => CommitmentIsWhatItSays
  BY DEF CommitmentInv, CommitmentOK, CommitmentIsWhatItSays
<1> QED
  BY <1>1, CommitmentInvariant, PTL

\* A withdrawal that no queueing, reconciling or settling session overlapped is final.
THEOREM QuietWithdrawalsStand == Spec => []QuietWithdrawalStands
<1>1. NetworkInv /\ CommitmentInv => QuietWithdrawalStands
  BY DEF CommitmentInv, QuietlyWithdrawn, QuietWithdrawalStands
<1> QED
  BY <1>1, CommitmentInvariant, PTL
================================================================================
