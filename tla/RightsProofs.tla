------------------------------ MODULE RightsProofs ------------------------------
(***************************************************************************)
(* RightsRegistry: the signed history of claims and licences accounts for    *)
(* their rows, and a scan that was cleared against a matched work was cleared  *)
(* by rights that held together at one instant.  ScanAssessment: what the      *)
(* packet of a scan says rests on what was checked, and its readers agree.     *)
(* For every number of clerks and works, and all claims, licences, terms,     *)
(* policies, uses, measurements, detectors and operating points.             *)
(***************************************************************************)
EXTENDS RightsRegistry, ScanAssessment, TLAPS

--------------------------------------------------------------------------------
(* RightsRegistry *)


\* The newest event of a record says what its row says; a record without a row has none.
NewestTellsTheRow ==
  \A s \in Subject :
    IF s \in DOMAIN row
    THEN \E i \in EventsOf(s) : events[i].row = row[s] /\ \A j \in EventsOf(s) : j <= i
    ELSE EventsOf(s) = {}

\* Between two events of a record with none of its own between them, one legal transition.
HistoryIsLegal ==
  \A i, j \in DOMAIN events :
    LET a == events[i]  b == events[j]
        follows == /\ i < j /\ a.subject = b.subject
                   /\ ~\E k \in i + 1 .. j - 1 : events[k].subject = a.subject
    IN follows => /\ b.row.version = a.row.version + 1
                  /\ May(a.subject, a.row.state, b.row.state)

\* One of the licences has the highest version, so the next one is defined.
SomeVersionIsTop ==
  License \cap DOMAIN row # {} =>
    \E l \in License \cap DOMAIN row :
      \A k \in License \cap DOMAIN row : row[k].version <= row[l].version

\* The scan's own steps: a policy that exists is pinned, and only the decision acts.
ScanIsPinned ==
  /\ scan.at \notin {"none", "new"} => scan.policy \in 1..Len(policies)
  /\ scan.at # "decided" => scan.action = "NONE"

ScanHasItsFields ==
  scan = [at |-> scan.at, policy |-> scan.policy, now |-> scan.now, claims |-> scan.claims,
          licenses |-> scan.licenses, asOf |-> scan.asOf, facts |-> scan.facts,
          match |-> scan.match, action |-> scan.action]

TableInv ==
  /\ IsTable(row) /\ \A s \in DOMAIN row : row[s] \in Projection(s)
  /\ events \in Seq([subject : Subject, row : ClaimRow \cup LicenseRow, logged : BOOLEAN])
  /\ NewestTellsTheRow /\ HistoryIsLegal /\ SomeVersionIsTop

ScanInv ==
  /\ ScanHasItsFields /\ ScanIsPinned /\ PassWasAuthorized
  /\ scan.at \in {"none", "new", "accepted", "licenses", "events", "decided"}
  /\ IsTable(scan.claims) /\ IsTable(scan.licenses) /\ IsTable(scan.asOf)
  /\ scan.policy \in Nat /\ scan.now \in Nat
  /\ scan.match \in MatchStatus \cup {"NONE"}
  /\ scan.action \in {"NONE", "PASS_BY_POLICY", "REVIEW", "BLOCK"}

\* Requests in flight speak of rows that are still there.
DeskInv ==
  /\ policies \in Seq(Rules \cup {DefaultRules}) /\ policies # <<>>
  /\ clerk \in [Clerk -> ClerkWork] /\ clock \in Nat
  /\ \A h \in Clerk : clerk[h].at = "event" => clerk[h].subject \in DOMAIN row

\* So does the scan's snapshot.
SnapshotInv ==
  /\ DOMAIN scan.claims \subseteq Claim \cap DOMAIN row
  /\ DOMAIN scan.licenses \subseteq License \cap DOMAIN row

RegistryInv == TableInv /\ ScanInv /\ DeskInv /\ SnapshotInv

--------------------------------------------------------------------------------
(* The table and the signed history. *)

\* The newest event is the one nothing follows.
LEMMA LatestIsNewest ==
  ASSUME TableInv, NEW s \in DOMAIN row
  PROVE  /\ EventsOf(s) # {} /\ Latest(s).row = row[s]
         /\ Latest(s) = events[CHOOSE i \in EventsOf(s) : \A j \in EventsOf(s) : j <= i]
<1>1. s \in Subject
  BY DEF TableInv, IsTable
<1>2. PICK i \in EventsOf(s) : events[i].row = row[s] /\ \A j \in EventsOf(s) : j <= i
  BY <1>1 DEF TableInv, NewestTellsTheRow
<1>3. EventsOf(s) \subseteq Nat
  BY DEF TableInv, EventsOf
<1>4. ASSUME NEW k \in EventsOf(s), \A j \in EventsOf(s) : j <= k
      PROVE  k = i
  BY <1>2, <1>3, <1>4
<1>5. (CHOOSE k \in EventsOf(s) : \A j \in EventsOf(s) : j <= k) = i
  BY <1>2, <1>4
<1>. QED  BY <1>2, <1>5 DEF Latest

\* A commit that stores a new row, or the next version of a row by a legal transition,
\* with its event keeps the history in step with the table.
LEMMA StoreKeepsHistory ==
  ASSUME TableInv, NEW s \in Subject, NEW r \in Projection(s), Store(s, r),
         s \in DOMAIN row => r.version = row[s].version + 1 /\ May(s, row[s].state, r.state)
  PROVE  TableInv' /\ DOMAIN row \subseteq DOMAIN row'
<1> DEFINE e == [subject |-> s, row |-> r, logged |-> FALSE]
           n == Len(events)
           Record == ClaimRow \cup LicenseRow
           Entry == [subject : Subject, row : Record, logged : BOOLEAN]
<1>1. row' = With(row, s, r) /\ events' = Append(events, e)
  BY DEF Store
<1>2. r \in Record
  BY DEF Projection
<1>3. /\ DOMAIN row' = DOMAIN row \cup {s}
      /\ \A t \in DOMAIN row' : row'[t] = IF t = s THEN r ELSE row[t]
  BY <1>1 DEF With
<1>4. IsTable(row)' /\ \A t \in DOMAIN row' : row'[t] \in Projection(t)
  <2>1. row' = [t \in DOMAIN row' |-> row'[t]]
    BY <1>1 DEF With
  <2>2. \A t \in DOMAIN row' : row'[t] \in Record
    BY <1>2, <1>3 DEF TableInv, IsTable
  <2>3. \A t \in DOMAIN row' : row'[t] \in Projection(t)
    BY <1>3 DEF TableInv
  <2>. QED  BY <1>3, <2>1, <2>2, <2>3 DEF IsTable, TableInv
<1>5. e \in Entry /\ e.subject = s /\ e.row = r
  BY <1>2
<1> HIDE DEF e
<1>6. /\ n \in Nat /\ DOMAIN events = 1..n /\ DOMAIN events' = 1..(n + 1)
      /\ events' \in Seq(Entry) /\ events'[n + 1] = e
      /\ \A i \in 1..n : events'[i] = events[i]
  BY <1>1, <1>5 DEF TableInv
<1> HIDE DEF n
<1>7. \A t \in Subject : EventsOf(t)' = IF t = s THEN EventsOf(t) \cup {n + 1} ELSE EventsOf(t)
  BY <1>5, <1>6 DEF EventsOf
<1>8. \A t : EventsOf(t) \subseteq 1..n
  BY <1>6 DEF EventsOf
<1>9. NewestTellsTheRow'
  <2> SUFFICES ASSUME NEW t \in Subject
               PROVE  IF t \in DOMAIN row'
                      THEN \E i \in EventsOf(t)' : /\ events'[i].row = row'[t]
                                                   /\ \A j \in EventsOf(t)' : j <= i
                      ELSE EventsOf(t)' = {}
    BY DEF NewestTellsTheRow
  <2>1. CASE t = s
    <3>1. n + 1 \in EventsOf(t)' /\ \A j \in EventsOf(t)' : j <= n + 1
      BY <1>6, <1>7, <1>8, <2>1
    <3>. QED  BY <1>3, <1>5, <1>6, <2>1, <3>1
  <2>2. CASE t # s
    BY <1>3, <1>6, <1>7, <1>8, <2>2 DEF TableInv, NewestTellsTheRow
  <2>. QED  BY <2>1, <2>2
<1>10. HistoryIsLegal'
  <2> SUFFICES ASSUME NEW i \in 1..(n + 1), NEW j \in 1..(n + 1),
                      i < j, events'[i].subject = events'[j].subject,
                      ~\E k \in i + 1 .. j - 1 : events'[k].subject = events'[i].subject
               PROVE  /\ events'[j].row.version = events'[i].row.version + 1
                      /\ May(events'[i].subject, events'[i].row.state, events'[j].row.state)
    BY <1>6 DEF HistoryIsLegal, May
  <2>1. i \in 1..n /\ events'[i] = events[i]
    BY <1>6
  <2>2. \A k \in i + 1 .. j - 1 : k \in 1..n /\ events'[k] = events[k]
    BY <1>6
  <2>3. CASE j \in 1..n
    <3>1. HistoryIsLegal /\ events'[j] = events[j]
      BY <1>6, <2>3 DEF TableInv
    <3>2. ~\E k \in i + 1 .. j - 1 : events[k].subject = events[i].subject
      BY <2>1, <2>2
    <3>3. i \in DOMAIN events /\ j \in DOMAIN events /\ events[i].subject = events[j].subject
      BY <1>6, <2>1, <2>3, <3>1
    <3>4. /\ events[j].row.version = events[i].row.version + 1
          /\ May(events[i].subject, events[i].row.state, events[j].row.state)
      BY <3>1, <3>2, <3>3 DEF HistoryIsLegal
    <3>. QED  BY <2>1, <3>1, <3>4
  <2>4. CASE j = n + 1
    <3>1. events[i].subject = s /\ i \in EventsOf(s)
      BY <1>5, <1>6, <2>1, <2>4 DEF EventsOf
    <3>2. s \in DOMAIN row
      BY <3>1 DEF TableInv, NewestTellsTheRow
    <3>3. PICK m \in EventsOf(s) : events[m].row = row[s] /\ \A k \in EventsOf(s) : k <= m
      BY <3>2 DEF TableInv, NewestTellsTheRow
    <3>4. m \in 1..n /\ events[m].subject = s
      BY <1>8, <3>3 DEF EventsOf
    <3>5. m = i
      BY <1>6, <2>1, <2>2, <2>4, <3>1, <3>3, <3>4
    <3>. QED  BY <1>5, <1>6, <2>1, <2>4, <3>1, <3>2, <3>3, <3>5
  <2>. QED  BY <1>6, <2>3, <2>4
<1>11. SomeVersionIsTop'
  <2>1. \A t \in DOMAIN row : row[t].version \in Nat
    BY DEF TableInv, Projection, ClaimRow, LicenseRow
  <2>2. \A t \in DOMAIN row' : row'[t].version \in Nat
    BY <1>4 DEF Projection, ClaimRow, LicenseRow
  <2> SUFFICES ASSUME NEW t \in License \cap DOMAIN row'
               PROVE  \E l \in License \cap DOMAIN row' :
                        \A k \in License \cap DOMAIN row' : row'[k].version <= row'[l].version
    BY DEF SomeVersionIsTop
  <2>3. CASE License \cap DOMAIN row = {}
    BY <1>3, <2>2, <2>3
  <2>4. CASE License \cap DOMAIN row # {}
    <3>1. PICK l \in License \cap DOMAIN row :
            \A k \in License \cap DOMAIN row : row[k].version <= row[l].version
      BY <2>4 DEF TableInv, SomeVersionIsTop
    <3>2. CASE s \in License /\ row'[s].version >= row[l].version
      <4>1. \A k \in License \cap DOMAIN row' : row'[k].version <= row'[s].version
        BY <1>3, <2>1, <2>2, <3>1, <3>2
      <4>. QED  BY <1>3, <3>2, <4>1
    <3>3. CASE s \notin License
      BY <1>3, <3>1, <3>3
    <3>4. CASE s \in License /\ row'[s].version < row[l].version
      <4>1. l # s
        BY <1>3, <2>1, <3>1, <3>4
      <4>. QED  BY <1>3, <3>1, <3>4, <4>1, <2>1, <2>2
    <3>. QED  BY <1>3, <2>1, <2>2, <3>1, <3>2, <3>3, <3>4
  <2>. QED  BY <2>3, <2>4
<1>. QED  BY <1>3, <1>4, <1>6, <1>9, <1>10, <1>11 DEF TableInv

\* So does a step that touches neither.
LEMMA TableStays ==
  ASSUME TableInv, UNCHANGED <<row, events>>
  PROVE  TableInv' /\ DOMAIN row \subseteq DOMAIN row'
<1>1. NewestTellsTheRow' /\ HistoryIsLegal' /\ SomeVersionIsTop'
  BY DEF TableInv, NewestTellsTheRow, HistoryIsLegal, SomeVersionIsTop, EventsOf, May
<1>. QED  BY <1>1 DEF TableInv, IsTable

\* A log entry says nothing new of the row.
LEMMA LogKeepsHistory ==
  ASSUME TableInv, NEW i \in DOMAIN events, LogEvent(i)
  PROVE  TableInv' /\ DOMAIN row \subseteq DOMAIN row'
<1> DEFINE Entry == [subject : Subject, row : ClaimRow \cup LicenseRow, logged : BOOLEAN]
<1>1. events' = [events EXCEPT ![i].logged = TRUE] /\ row' = row
  BY DEF LogEvent
<1>2. events[i] \in Entry /\ [events[i] EXCEPT !.logged = TRUE] \in Entry
  <2>1. events[i] \in Entry
    <3>1. events \in Seq(Entry)
      BY DEF TableInv
    <3> HIDE DEF Entry
    <3>2. i \in 1..Len(events)
      BY <3>1
    <3>. QED  BY <3>1, <3>2
  <2>2. \A b \in BOOLEAN : [events[i] EXCEPT !.logged = b] \in Entry
    BY <2>1
  <2>. QED  BY <2>1, <2>2
<1>3. events' \in Seq(Entry) /\ DOMAIN events' = DOMAIN events
  BY <1>1, <1>2 DEF TableInv
<1>4. \A j \in DOMAIN events : events'[j].subject = events[j].subject /\ events'[j].row = events[j].row
  BY <1>1, <1>2 DEF TableInv
<1>5. \A s : EventsOf(s)' = EventsOf(s)
  BY <1>3, <1>4 DEF EventsOf
<1>6. NewestTellsTheRow'
  <2>1. \A s : \A j \in EventsOf(s) : j \in DOMAIN events
    BY DEF EventsOf
  <2>. QED  BY <1>1, <1>4, <1>5, <2>1 DEF TableInv, NewestTellsTheRow
<1>7. HistoryIsLegal'
  <2> SUFFICES ASSUME NEW j \in DOMAIN events, NEW k \in DOMAIN events,
                      j < k, events'[j].subject = events'[k].subject,
                      ~\E m \in j + 1 .. k - 1 : events'[m].subject = events'[j].subject
               PROVE  /\ events'[k].row.version = events'[j].row.version + 1
                      /\ May(events'[j].subject, events'[j].row.state, events'[k].row.state)
    BY <1>3 DEF HistoryIsLegal, May
  <2>1. \A m \in j + 1 .. k - 1 : m \in DOMAIN events
    BY DEF TableInv
  <2>. QED  BY <1>4, <2>1 DEF TableInv, HistoryIsLegal
<1>8. SomeVersionIsTop'
  BY <1>1 DEF TableInv, SomeVersionIsTop
<1>. QED  BY <1>1, <1>3, <1>6, <1>7, <1>8 DEF TableInv, IsTable

--------------------------------------------------------------------------------
(* The steps of the registry.  None of them acts for the scan. *)

\* What a clerk holds is told by its stage.
LEMMA ClerkWorkOf ==
  ASSUME NEW w \in ClerkWork
  PROVE  /\ w.at = "license" => w.claim \in Claim
         /\ w.at = "event" => /\ w.subject \in Subject /\ w.version \in Nat
                             /\ w.state \in ClaimState \cup LicenseState
  BY DEF ClerkWork

\* A step of the registry that leaves the scan alone keeps its invariant, because rows stay.
LEMMA RegistryStep ==
  ASSUME RegistryInv, scan.at # "decided", UNCHANGED scan,
         policies' \in Seq(Rules \cup {DefaultRules}), Len(policies') >= Len(policies),
         TableInv', DOMAIN row \subseteq DOMAIN row', DeskInv'
  PROVE  RegistryInv'
<1>1. ScanInv /\ SnapshotInv /\ Len(policies) \in Nat
  BY DEF RegistryInv, DeskInv
<1>2. scan.action = "NONE"
  BY <1>1 DEF ScanInv, ScanIsPinned
<1>3. ScanHasItsFields' /\ ScanIsPinned' /\ PassWasAuthorized'
  <2>1. ScanHasItsFields' /\ PassWasAuthorized'
    BY <1>1, <1>2 DEF ScanInv, ScanHasItsFields, PassWasAuthorized
  <2>2. Len(policies') \in Nat
    OBVIOUS
  <2>3. ScanIsPinned'
    BY <1>1, <2>2 DEF ScanInv, ScanIsPinned
  <2>. QED  BY <2>1, <2>3
<1>4. ScanInv'
  BY <1>1, <1>3 DEF ScanInv, IsTable
<1>5. SnapshotInv'
  BY <1>1 DEF SnapshotInv
<1>. QED  BY <1>4, <1>5 DEF RegistryInv

\* Clerks come and go without a row being taken away.
LEMMA ClerksKeepRows ==
  ASSUME RegistryInv, NEW h \in Clerk, NEW w \in ClerkWork,
         w.at = "event" => w.subject \in DOMAIN row,
         clerk' = [clerk EXCEPT ![h] = w],
         UNCHANGED <<policies, clock>>, DOMAIN row \subseteq DOMAIN row'
  PROVE  DeskInv'
<1>1. \A g \in Clerk : clerk'[g] = IF g = h THEN w ELSE clerk[g]
  BY DEF RegistryInv, DeskInv
<1>. QED  BY <1>1 DEF RegistryInv, DeskInv

LEMMA LeavesKeepRows ==
  ASSUME RegistryInv, NEW h \in Clerk, Leaves(h), UNCHANGED <<policies, clock>>,
         DOMAIN row \subseteq DOMAIN row'
  PROVE  DeskInv'
<1>1. IdleClerk \in ClerkWork /\ IdleClerk.at = "idle"
  BY DEF IdleClerk, ClerkWork
<1>. QED  BY <1>1, ClerksKeepRows DEF Leaves

\* A first version of a licence fits the table.
LEMMA LicenseFits ==
  ASSUME RegistryInv, NEW l \in License, NEW c \in Claim \cup {NoClaim}, NEW t \in Terms,
         NewLicense(l, c, t)
  PROVE  TableInv' /\ DOMAIN row \subseteq DOMAIN row'
<1> DEFINE from == clock + t.delay
           until == IF t.length = Never THEN Never ELSE from + t.length
           r == [claim |-> c, state |-> "ACTIVE", version |-> NextVersion, from |-> from,
                 until |-> until, permits |-> t.permits, prohibits |-> t.prohibits,
                 scope |-> t.scope]
<1>1. NextVersion \in Nat
  <2>1. \A k \in License \cap DOMAIN row : row[k].version \in Nat
    BY DEF RegistryInv, TableInv, Projection, ClaimRow, LicenseRow
  <2>2. CASE License \cap DOMAIN row = {}
    BY <2>2 DEF NextVersion
  <2>3. CASE License \cap DOMAIN row # {}
    <3> DEFINE versions == {row[k].version : k \in License \cap DOMAIN row}
    <3>1. PICK k \in License \cap DOMAIN row :
            \A j \in License \cap DOMAIN row : row[j].version <= row[k].version
      BY <2>3 DEF RegistryInv, TableInv, SomeVersionIsTop
    <3>2. versions # {} /\ versions \subseteq Nat
      BY <2>1, <2>3
    <3>3. \E v \in versions : \A w \in versions : v >= w
      <4>1. row[k].version \in versions /\ \A w \in versions : row[k].version >= w
        BY <2>1, <3>1
      <4>. QED  BY <4>1
    <3>4. NextVersion = 1 + CHOOSE v \in versions : \A w \in versions : v >= w
      BY <3>2 DEF NextVersion
    <3> HIDE DEF versions
    <3>5. (CHOOSE v \in versions : \A w \in versions : v >= w) \in Nat
      BY <3>2, <3>3
    <3>. QED  BY <3>4, <3>5
  <2>. QED  BY <2>2, <2>3
<1>2. t.delay \in Nat /\ t.length \in (Nat \ {0}) \cup {Never} /\ clock \in Nat
        /\ t.permits \in SUBSET Use /\ t.prohibits \in SUBSET Use
        /\ t.scope \in [Dimension -> SUBSET (Scope \cup {Anything})]
  BY RegistryAssumption DEF RegistryInv, DeskInv
<1>3. from \in Nat /\ until \in Nat \cup {Never}
  BY <1>2
<1>4. l \notin DOMAIN row /\ Store(l, r)
  BY DEF NewLicense
<1> HIDE DEF from, until
<1>5. r \in LicenseRow
  BY <1>1, <1>2, <1>3 DEF LicenseRow, LicenseState
<1>6. l \in Subject /\ r \in Projection(l)
  BY <1>5, RightsAssumption DEF Subject, Projection
<1> HIDE DEF r
<1>. QED  BY <1>4, <1>6, StoreKeepsHistory DEF RegistryInv

--------------------------------------------------------------------------------
(* One lemma for every step. *)

LEMMA CreateClaimInv ==
  ASSUME RegistryInv, scan.at # "decided", NEW c \in Claim, CreateClaim(c)
  PROVE  RegistryInv'
<1> DEFINE r == [state |-> "ASSERTED", version |-> 1]
<1>1. c \in Subject /\ r \in Projection(c)
  BY DEF Subject, Projection, ClaimRow, ClaimState
<1>2. c \notin DOMAIN row /\ Store(c, r) /\ UNCHANGED <<policies, clerk, scan, clock>>
  BY DEF CreateClaim
<1> HIDE DEF r
<1>3. TableInv' /\ DOMAIN row \subseteq DOMAIN row'
  BY <1>1, <1>2, StoreKeepsHistory DEF RegistryInv
<1>4. DeskInv'
  BY <1>2, <1>3 DEF RegistryInv, DeskInv
<1>5. policies' \in Seq(Rules \cup {DefaultRules}) /\ Len(policies') >= Len(policies)
  BY <1>2 DEF RegistryInv, DeskInv
<1>. QED  BY <1>2, <1>3, <1>4, <1>5, RegistryStep

LEMMA RecordLicenseInv ==
  ASSUME RegistryInv, scan.at # "decided", NEW l \in License, NEW t \in Terms,
         RecordLicense(l, t)
  PROVE  RegistryInv'
<1>1. NewLicense(l, NoClaim, t) /\ UNCHANGED <<policies, clerk, scan, clock>>
  BY DEF RecordLicense
<1>2. TableInv' /\ DOMAIN row \subseteq DOMAIN row'
  BY <1>1, LicenseFits
<1>3. DeskInv'
  BY <1>1, <1>2 DEF RegistryInv, DeskInv
<1>4. policies' \in Seq(Rules \cup {DefaultRules}) /\ Len(policies') >= Len(policies)
  BY <1>1 DEF RegistryInv, DeskInv
<1>. QED  BY <1>1, <1>2, <1>3, <1>4, RegistryStep

LEMMA InsertLicenseInv ==
  ASSUME RegistryInv, scan.at # "decided", NEW h \in Clerk, NEW l \in License, NEW t \in Terms,
         InsertLicense(h, l, t)
  PROVE  RegistryInv'
<1>1. NewLicense(l, clerk[h].claim, t) /\ Leaves(h) /\ UNCHANGED <<policies, scan, clock>>
  BY DEF InsertLicense
<1>2. clerk[h].claim \in Claim \cup {NoClaim}
  BY ClerkWorkOf DEF InsertLicense, RegistryInv, DeskInv
<1>3. TableInv' /\ DOMAIN row \subseteq DOMAIN row'
  BY <1>1, <1>2, LicenseFits
<1>4. DeskInv'
  BY <1>1, <1>3, LeavesKeepRows
<1>5. policies' \in Seq(Rules \cup {DefaultRules}) /\ Len(policies') >= Len(policies)
  BY <1>1 DEF RegistryInv, DeskInv
<1>. QED  BY <1>1, <1>3, <1>4, <1>5, RegistryStep

LEMMA ReadClaimInv ==
  ASSUME RegistryInv, scan.at # "decided", NEW h \in Clerk, NEW c \in Claim, ReadClaim(h, c)
  PROVE  RegistryInv'
<1> DEFINE w == [at |-> "license", claim |-> c]
<1>1. clerk' = [clerk EXCEPT ![h] = w] /\ UNCHANGED <<row, events, policies, scan, clock>>
  BY DEF ReadClaim
<1>2. w \in ClerkWork /\ w.at = "license"
  BY DEF ClerkWork
<1> HIDE DEF w
<1>3. DeskInv'
  BY <1>1, <1>2, ClerksKeepRows
<1>4. TableInv'
  BY <1>1, TableStays DEF RegistryInv
<1>5. policies' \in Seq(Rules \cup {DefaultRules}) /\ Len(policies') >= Len(policies)
  BY <1>1 DEF RegistryInv, DeskInv
<1>. QED  BY <1>1, <1>3, <1>4, <1>5, RegistryStep

LEMMA ReadRowInv ==
  ASSUME RegistryInv, scan.at # "decided", NEW h \in Clerk, NEW s \in Subject, ReadRow(h, s)
  PROVE  RegistryInv'
<1> DEFINE w == [at |-> "event", subject |-> s, state |-> row[s].state, version |-> row[s].version]
<1>1. clerk' = [clerk EXCEPT ![h] = w] /\ UNCHANGED <<row, events, policies, scan, clock>>
        /\ s \in DOMAIN row
  BY DEF ReadRow
<1>2. w \in ClerkWork /\ w.at = "event" /\ w.subject = s
  BY <1>1 DEF ClerkWork, RegistryInv, TableInv, Projection, ClaimRow, LicenseRow
<1> HIDE DEF w
<1>3. DeskInv'
  BY <1>1, <1>2, ClerksKeepRows
<1>4. TableInv'
  BY <1>1, TableStays DEF RegistryInv
<1>5. policies' \in Seq(Rules \cup {DefaultRules}) /\ Len(policies') >= Len(policies)
  BY <1>1 DEF RegistryInv, DeskInv
<1>. QED  BY <1>1, <1>3, <1>4, <1>5, RegistryStep

\* Moving a row keeps its kind.
MovedTo(r, state, version) == [r EXCEPT !.state = state, !.version = version]

LEMMA MovedClaim ==
  ASSUME NEW c \in ClaimRow, NEW state \in ClaimState, NEW version \in Nat
  PROVE  /\ MovedTo(c, state, version) \in ClaimRow
         /\ MovedTo(c, state, version).version = version
         /\ MovedTo(c, state, version).state = state
  BY DEF MovedTo, ClaimRow

LEMMA MovedLicense ==
  ASSUME NEW l \in LicenseRow, NEW state \in LicenseState, NEW version \in Nat
  PROVE  /\ MovedTo(l, state, version) \in LicenseRow
         /\ MovedTo(l, state, version).version = version
         /\ MovedTo(l, state, version).state = state
<1>1. MovedTo(l, state, version) \in LicenseRow
  BY DEF MovedTo, LicenseRow
<1>2. MovedTo(l, state, version).version = version
  BY DEF MovedTo, LicenseRow
<1>3. MovedTo(l, state, version).state = state
  BY DEF MovedTo, LicenseRow
<1>. QED  BY <1>1, <1>2, <1>3

\* The compare-and-set lets a request write only the successor of the row it read.
LEMMA CommitRowInv ==
  ASSUME RegistryInv, scan.at # "decided", NEW h \in Clerk,
         NEW to \in ClaimState \cup LicenseState, CommitRow(h, to)
  PROVE  RegistryInv'
<1> DEFINE seen == clerk[h]
           s == clerk[h].subject
           r == Moved(s, seen.version, to)
<1>1. /\ s \in Subject /\ s \in DOMAIN row /\ seen.version \in Nat
      /\ row[s] \in Projection(s) /\ clock \in Nat
  BY ClerkWorkOf DEF CommitRow, RegistryInv, DeskInv, TableInv
<1>2. May(s, seen.state, to) /\ Leaves(h) /\ UNCHANGED <<policies, scan, clock>>
  BY DEF CommitRow
<1>3. IF Unchanged(s, seen) THEN Store(s, r) ELSE UNCHANGED <<row, events>>
  BY DEF CommitRow
<1> HIDE DEF r, s, seen
<1>4. TableInv' /\ DOMAIN row \subseteq DOMAIN row'
  <2>1. CASE Unchanged(s, seen)
    <3>1. seen.state = row[s].state /\ seen.version = row[s].version
      BY <2>1 DEF Unchanged
    <3>2. r \in Projection(s) /\ r.version = row[s].version + 1 /\ r.state = to
      <4>1. CASE s \in Claim
        <5>1. to \in ClaimState /\ s \notin License
          BY <1>2, <4>1, RightsAssumption DEF May, ClaimTransition, ClaimState
        <5>2. row[s] \in ClaimRow /\ seen.version + 1 \in Nat
          BY <1>1, <4>1 DEF Projection
        <5>3. r = MovedTo(row[s], to, seen.version + 1)
          BY <5>1 DEF r, Moved, MovedTo
        <5>. QED  BY <3>1, <4>1, <5>1, <5>2, <5>3, MovedClaim DEF Projection
      <4>2. CASE s \notin Claim
        <5>1. to \in LicenseState /\ s \in License
          BY <1>1, <1>2, <4>2 DEF May, LicenseTransition, LicenseState, Subject
        <5> DEFINE moved == MovedTo(row[s], to, seen.version + 1)
        <5>2. row[s] \in LicenseRow /\ seen.version + 1 \in Nat
          BY <1>1, <4>2 DEF Projection
        <5>3. moved \in LicenseRow /\ moved.version = row[s].version + 1 /\ moved.state = to
          BY <3>1, <5>1, <5>2, MovedLicense
        <5>4. r = IF to \in Ending THEN [moved EXCEPT !.until = clock] ELSE moved
          BY <5>1 DEF r, Moved, MovedTo
        <5> HIDE DEF moved
        <5>5. [moved EXCEPT !.until = clock] \in LicenseRow
                /\ [moved EXCEPT !.until = clock].version = moved.version
                /\ [moved EXCEPT !.until = clock].state = moved.state
          BY <1>1, <5>3 DEF LicenseRow
        <5>. QED  BY <4>2, <5>3, <5>4, <5>5 DEF Projection
      <4>. QED  BY <4>1, <4>2
    <3>. QED
      BY <1>1, <1>2, <1>3, <2>1, <3>1, <3>2, StoreKeepsHistory DEF RegistryInv
  <2>2. CASE ~Unchanged(s, seen)
    BY <1>3, <2>2, TableStays DEF RegistryInv
  <2>. QED  BY <2>1, <2>2
<1>5. DeskInv'
  BY <1>2, <1>4, LeavesKeepRows
<1>6. policies' \in Seq(Rules \cup {DefaultRules}) /\ Len(policies') >= Len(policies)
  BY <1>2 DEF RegistryInv, DeskInv
<1>. QED  BY <1>2, <1>4, <1>5, <1>6, RegistryStep

LEMMA LogEventInv ==
  ASSUME RegistryInv, scan.at # "decided", NEW i \in DOMAIN events, LogEvent(i)
  PROVE  RegistryInv'
<1>1. UNCHANGED <<row, policies, clerk, scan, clock>>
  BY DEF LogEvent
<1>2. TableInv' /\ DOMAIN row \subseteq DOMAIN row'
  BY LogKeepsHistory DEF RegistryInv
<1>3. DeskInv'
  BY <1>1 DEF RegistryInv, DeskInv
<1>4. policies' \in Seq(Rules \cup {DefaultRules}) /\ Len(policies') >= Len(policies)
  BY <1>1 DEF RegistryInv, DeskInv
<1>. QED  BY <1>1, <1>2, <1>3, <1>4, RegistryStep

LEMMA PublishPolicyInv ==
  ASSUME RegistryInv, scan.at # "decided", NEW rules \in Rules, PublishPolicy(rules)
  PROVE  RegistryInv'
<1>1. policies' = Append(policies, rules) /\ UNCHANGED <<row, events, clerk, scan, clock>>
  BY DEF PublishPolicy
<1>2. policies' \in Seq(Rules \cup {DefaultRules}) /\ Len(policies') >= Len(policies)
  BY <1>1 DEF RegistryInv, DeskInv
<1>3. TableInv'
  BY <1>1, TableStays DEF RegistryInv
<1>4. DeskInv'
  BY <1>1, <1>2 DEF RegistryInv, DeskInv
<1>. QED  BY <1>1, <1>2, <1>3, <1>4, RegistryStep

LEMMA TickInv ==
  ASSUME RegistryInv, scan.at # "decided", Tick
  PROVE  RegistryInv'
<1>1. clock' = clock + 1 /\ UNCHANGED <<row, events, policies, clerk, scan>>
  BY DEF Tick, registryVars
<1>2. TableInv'
  BY <1>1, TableStays DEF RegistryInv
<1>3. DeskInv' /\ policies' \in Seq(Rules \cup {DefaultRules}) /\ Len(policies') >= Len(policies)
  BY <1>1 DEF RegistryInv, DeskInv
<1>. QED  BY <1>1, <1>2, <1>3, RegistryStep

--------------------------------------------------------------------------------
(* The scan. *)

\* A step of the scan before its decision.
ScanAt(at, policy, now, claims, licenses) ==
  [scan EXCEPT !.at = at, !.policy = policy, !.now = now, !.claims = claims, !.licenses = licenses]

LEMMA ScanStep ==
  ASSUME RegistryInv, UNCHANGED <<row, events, policies, clerk, clock>>,
         NEW at \in {"accepted", "licenses", "events"},
         NEW policy \in 1..Len(policies), NEW now \in Nat, NEW claims, NEW licenses,
         IsTable(claims), IsTable(licenses),
         DOMAIN claims \subseteq Claim \cap DOMAIN row,
         DOMAIN licenses \subseteq License \cap DOMAIN row,
         scan.at # "decided",
         scan' = ScanAt(at, policy, now, claims, licenses)
  PROVE  RegistryInv'
<1>1. scan = [at |-> scan.at, policy |-> scan.policy, now |-> scan.now, claims |-> scan.claims,
              licenses |-> scan.licenses, asOf |-> scan.asOf, facts |-> scan.facts,
              match |-> scan.match, action |-> scan.action]
  BY DEF RegistryInv, ScanInv, ScanHasItsFields
<1>2. scan' = [at |-> at, policy |-> policy, now |-> now, claims |-> claims,
               licenses |-> licenses, asOf |-> scan.asOf, facts |-> scan.facts,
               match |-> scan.match, action |-> scan.action]
  BY <1>1 DEF ScanAt
<1>3. /\ scan'.at = at /\ scan'.policy = policy /\ scan'.now = now /\ scan'.claims = claims
      /\ scan'.licenses = licenses /\ scan'.asOf = scan.asOf /\ scan'.facts = scan.facts
      /\ scan'.match = scan.match /\ scan'.action = scan.action
  BY <1>2
<1>4. scan.action = "NONE"
  BY DEF RegistryInv, ScanInv, ScanIsPinned
<1>5. ScanHasItsFields'
  BY <1>2, <1>3 DEF ScanHasItsFields
<1>6. ScanIsPinned' /\ PassWasAuthorized'
  BY <1>3, <1>4 DEF ScanIsPinned, PassWasAuthorized
<1>7. IsTable(scan.asOf)' /\ IsTable(scan.claims)' /\ IsTable(scan.licenses)'
  BY <1>3 DEF RegistryInv, ScanInv, IsTable
<1>8. Len(policies) \in Nat
  BY DEF RegistryInv, DeskInv
<1>9. ScanInv'
  BY <1>3, <1>5, <1>6, <1>7, <1>8 DEF RegistryInv, ScanInv
<1>10. TableInv' /\ DeskInv' /\ SnapshotInv'
  BY <1>3, TableStays DEF RegistryInv, DeskInv, SnapshotInv
<1>. QED  BY <1>9, <1>10 DEF RegistryInv

\* The rows of one kind are a table of their own.
LEMMA RowsAreATable ==
  ASSUME RegistryInv, NEW kind \in {Claim, License}
  PROVE  IsTable(Rows(kind)) /\ DOMAIN Rows(kind) \subseteq kind \cap DOMAIN row
  BY DEF RegistryInv, TableInv, IsTable, Rows

LEMMA AcceptScanInv ==
  ASSUME RegistryInv, AcceptScan
  PROVE  RegistryInv'
<1>1. /\ scan.at = "new" /\ UNCHANGED <<row, events, policies, clerk, clock>>
      /\ scan' = [scan EXCEPT !.at = "accepted", !.policy = Len(policies)]
  BY DEF AcceptScan, registryVars
<1>2. scan' = ScanAt("accepted", Len(policies), scan.now, scan.claims, scan.licenses)
  BY <1>1 DEF ScanAt, RegistryInv, ScanInv, ScanHasItsFields
<1>3. Len(policies) \in 1..Len(policies)
  BY DEF RegistryInv, DeskInv
<1>. QED
  BY <1>1, <1>2, <1>3, ScanStep DEF RegistryInv, ScanInv, SnapshotInv

LEMMA ReadClaimsInv ==
  ASSUME RegistryInv, ReadClaims
  PROVE  RegistryInv'
<1>1. /\ scan.at = "accepted" /\ UNCHANGED <<row, events, policies, clerk, clock>>
      /\ scan' = [scan EXCEPT !.at = "licenses", !.now = clock, !.claims = Rows(Claim)]
  BY DEF ReadClaims, registryVars
<1>2. scan' = ScanAt("licenses", scan.policy, clock, Rows(Claim), scan.licenses)
  BY <1>1 DEF ScanAt, RegistryInv, ScanInv, ScanHasItsFields
<1>3. scan.policy \in 1..Len(policies) /\ clock \in Nat
  BY <1>1 DEF RegistryInv, ScanInv, ScanIsPinned, DeskInv
<1>4. IsTable(Rows(Claim)) /\ DOMAIN Rows(Claim) \subseteq Claim \cap DOMAIN row
  BY RowsAreATable
<1>. QED
  BY <1>1, <1>2, <1>3, <1>4, ScanStep DEF RegistryInv, ScanInv, SnapshotInv

LEMMA ReadLicensesInv ==
  ASSUME RegistryInv, ReadLicenses
  PROVE  RegistryInv'
<1>1. /\ scan.at = "licenses" /\ UNCHANGED <<row, events, policies, clerk, clock>>
      /\ scan' = [scan EXCEPT !.at = "events", !.licenses = Rows(License)]
  BY DEF ReadLicenses, registryVars
<1>2. scan' = ScanAt("events", scan.policy, scan.now, scan.claims, Rows(License))
  BY <1>1 DEF ScanAt, RegistryInv, ScanInv, ScanHasItsFields
<1>3. scan.policy \in 1..Len(policies)
  BY <1>1 DEF RegistryInv, ScanInv, ScanIsPinned
<1>4. IsTable(Rows(License)) /\ DOMAIN Rows(License) \subseteq License \cap DOMAIN row
  BY RowsAreATable
<1>. QED
  BY <1>1, <1>2, <1>3, <1>4, ScanStep DEF RegistryInv, ScanInv, SnapshotInv

\* A row that was read and still matches its newest event has not changed since.
LEMMA VerifiedIsCurrent ==
  ASSUME RegistryInv, NEW s \in Snapshot, Verified(s)
  PROVE  s \in DOMAIN row /\ Seen(s) = row[s]
<1>1. s \in DOMAIN row
  BY DEF RegistryInv, SnapshotInv, Snapshot
<1>. QED  BY <1>1, LatestIsNewest DEF RegistryInv, Verified

\* What the evaluation needs for a match to pass.
LEMMA PassNeedsALicense ==
  ASSUME NEW rules, NEW ev, NEW facts, EvaluatePolicy(rules, ev, facts) = "PASS_BY_POLICY",
         ev.match = "MATCH_FOUND"
  PROVE  IF rules.corroborated THEN facts.strong # {} ELSE facts.scope # {}
  BY DEF EvaluatePolicy, Granted

\* The facts of a match: licences in scope that were verified, and those a verified
\* corroborated claim stands behind.
LEMMA FactsOfAMatch ==
  ASSUME NEW claims, NEW licenses, NEW proven, NEW passport, NEW declared, NEW now
  PROVE  LET facts == CollectFacts(claims, licenses, proven, passport, declared, now)
             known == {l \in DOMAIN licenses : l \in proven}
             inScope == {l \in known : LicenseAuthorizes(licenses[l], declared, now)}
         IN /\ facts.scope = inScope
            /\ facts.strong = {l \in inScope : licenses[l].claim \in Corroborated(claims, proven)}
  BY DEF CollectFacts

LEMMA DecideInv ==
  ASSUME RegistryInv, NEW ev \in Evidence, NEW passport \in Passport, Decide(ev, passport)
  PROVE  RegistryInv'
<1> DEFINE facts == Facts(ev, passport)
           rules == policies[scan.policy]
           action == EvaluatePolicy(rules, ev, facts)
           proven == {s \in Snapshot : Verified(s)}
<1>1. /\ scan.at = "events" /\ UNCHANGED <<row, events, policies, clerk, clock>>
      /\ scan' = [scan EXCEPT !.at = "decided", !.asOf = row, !.match = ev.match,
                              !.facts = facts, !.action = action]
  BY DEF Decide, registryVars
<1>2. scan.policy \in 1..Len(policies)
  BY <1>1 DEF RegistryInv, ScanInv, ScanIsPinned
<1>3. action \in {"PASS_BY_POLICY", "REVIEW", "BLOCK"}
  BY DEF EvaluatePolicy
<1>4. ASSUME action = "PASS_BY_POLICY", ev.match = "MATCH_FOUND"
      PROVE  \E l \in License \cap DOMAIN row :
               /\ LicenseAuthorizes(row[l], TheUse, scan.now)
               /\ rules.corroborated =>
                    row[l].claim \in DOMAIN row /\ row[row[l].claim].state = "CORROBORATED"
  <2> DEFINE known == {l \in DOMAIN scan.licenses : l \in proven}
             inScope == {l \in known : LicenseAuthorizes(scan.licenses[l], TheUse, scan.now)}
  <2>1. /\ facts.scope = inScope
        /\ facts.strong = {l \in inScope :
                             scan.licenses[l].claim \in Corroborated(scan.claims, proven)}
    <3>1. facts = CollectFacts(scan.claims, scan.licenses, proven, passport, TheUse, scan.now)
      BY <1>4 DEF Facts
    <3> HIDE DEF facts, proven
    <3>. QED  BY <3>1, FactsOfAMatch
  <2>2. ASSUME NEW l \in inScope
        PROVE  /\ l \in License \cap DOMAIN row /\ row[l] = scan.licenses[l]
               /\ LicenseAuthorizes(row[l], TheUse, scan.now)
    <3>1. l \in License \cap DOMAIN row /\ l \in Snapshot /\ Verified(l) /\ l \notin Claim
      BY RightsAssumption DEF RegistryInv, SnapshotInv, Snapshot
    <3>2. Seen(l) = scan.licenses[l]
      BY <3>1 DEF Seen
    <3>3. row[l] = scan.licenses[l]
      BY <3>1, <3>2, VerifiedIsCurrent
    <3>4. LicenseAuthorizes(scan.licenses[l], TheUse, scan.now)
      OBVIOUS
    <3>. QED  BY <3>1, <3>3, <3>4
  <2>3. ASSUME NEW c \in Corroborated(scan.claims, proven)
        PROVE  c \in DOMAIN row /\ row[c].state = "CORROBORATED"
    <3>1. c \in DOMAIN scan.claims /\ scan.claims[c].state = "CORROBORATED" /\ c \in proven
      BY DEF Corroborated
    <3>2. c \in Claim /\ c \in Snapshot /\ Verified(c)
      BY <3>1 DEF RegistryInv, SnapshotInv
    <3>. QED  BY <3>1, <3>2, VerifiedIsCurrent DEF Seen
  <2> HIDE DEF facts, rules, action, proven, inScope
  <2>4. IF rules.corroborated THEN facts.strong # {} ELSE facts.scope # {}
    BY <1>4, PassNeedsALicense DEF action
  <2>5. CASE rules.corroborated
    <3>1. PICK l \in inScope : scan.licenses[l].claim \in Corroborated(scan.claims, proven)
      BY <2>1, <2>4, <2>5
    <3>. QED  BY <2>2, <2>3, <3>1
  <2>6. CASE ~rules.corroborated
    BY <2>1, <2>2, <2>4, <2>6
  <2>. QED  BY <2>5, <2>6
<1> HIDE DEF facts, action, proven
<1>5. /\ scan' = [at |-> "decided", policy |-> scan.policy, now |-> scan.now, claims |-> scan.claims,
                  licenses |-> scan.licenses, asOf |-> row, facts |-> facts,
                  match |-> ev.match, action |-> action]
  BY <1>1 DEF RegistryInv, ScanInv, ScanHasItsFields
<1>6. /\ scan'.at = "decided" /\ scan'.policy = scan.policy /\ scan'.now = scan.now
      /\ scan'.claims = scan.claims /\ scan'.licenses = scan.licenses /\ scan'.asOf = row
      /\ scan'.facts = facts /\ scan'.match = ev.match /\ scan'.action = action
  BY <1>5
<1>7. ScanHasItsFields'
  BY <1>5, <1>6 DEF ScanHasItsFields
<1>8. ScanIsPinned'
  BY <1>1, <1>2, <1>6 DEF ScanIsPinned
<1>9. PassWasAuthorized'
  BY <1>1, <1>4, <1>6 DEF PassWasAuthorized, LicenseAuthorizes
<1>10. IsTable(scan.asOf)' /\ IsTable(scan.claims)' /\ IsTable(scan.licenses)'
  BY <1>6 DEF RegistryInv, ScanInv, TableInv, IsTable
<1>11. ev.match \in MatchStatus
  BY RegistryAssumption
<1>12. ScanInv'
  BY <1>3, <1>6, <1>7, <1>8, <1>9, <1>10, <1>11 DEF RegistryInv, ScanInv
<1>13. TableInv' /\ DeskInv' /\ SnapshotInv'
  BY <1>1, <1>6, TableStays DEF RegistryInv, DeskInv, SnapshotInv
<1>. QED  BY <1>12, <1>13 DEF RegistryInv

--------------------------------------------------------------------------------
(* The invariant of the specification, and what follows. *)

LEMMA InitInv == Init => RegistryInv
<1> SUFFICES ASSUME Init PROVE RegistryInv
  OBVIOUS
<1> DEFINE none == <<>>
<1>1. row = <<>> /\ events = <<>> /\ DOMAIN row = {} /\ DOMAIN events = {} /\ DOMAIN <<>> = {}
  BY DEF Init
<1>2. TableInv
  BY <1>1 DEF TableInv, IsTable, NewestTellsTheRow, HistoryIsLegal, SomeVersionIsTop, EventsOf
<1>3. IdleClerk \in ClerkWork /\ IdleClerk.at = "idle"
  BY DEF IdleClerk, ClerkWork
<1>4. DeskInv
  BY <1>3 DEF Init, DeskInv
<1>5. ScanInv
  <2>1. scan = [NewScan EXCEPT !.at = scan.at] /\ scan.at \in {"new", "none"}
    BY DEF Init, NewScan, NoScan
  <2>2. /\ scan.policy = 0 /\ scan.now = 0 /\ scan.claims = <<>> /\ scan.licenses = <<>>
        /\ scan.asOf = <<>> /\ scan.match = "NONE" /\ scan.action = "NONE"
    BY <2>1 DEF NewScan
  <2>3. ScanHasItsFields
    BY DEF Init, NewScan, NoScan, ScanHasItsFields
  <2>4. IsTable(<<>>)
    BY <1>1 DEF IsTable
  <2>. QED  BY <2>1, <2>2, <2>3, <2>4 DEF ScanInv, ScanIsPinned, PassWasAuthorized
<1>6. SnapshotInv
  BY <1>1 DEF Init, SnapshotInv, NewScan, NoScan
<1>. QED  BY <1>2, <1>4, <1>5, <1>6 DEF RegistryInv

LEMMA StutterInv == RegistryInv /\ UNCHANGED vars => RegistryInv'
<1> SUFFICES ASSUME RegistryInv, UNCHANGED vars PROVE RegistryInv'
  OBVIOUS
<1>1. TableInv' /\ SnapshotInv' /\ DeskInv'
  BY TableStays DEF vars, RegistryInv, SnapshotInv, DeskInv
<1>2. ScanInv'
  BY DEF vars, RegistryInv, ScanInv, ScanHasItsFields, ScanIsPinned, PassWasAuthorized, IsTable,
         LicenseAuthorizes
<1>. QED  BY <1>1, <1>2 DEF RegistryInv

LEMMA NextInv == RegistryInv /\ [Next]_vars => RegistryInv'
<1> SUFFICES ASSUME RegistryInv, Next PROVE RegistryInv'
  BY StutterInv
<1>1. scan.at # "decided"
  BY DEF Next
<1>2. CASE \E c \in Claim : CreateClaim(c)
  BY <1>1, <1>2, CreateClaimInv
<1>3. CASE \E l \in License, t \in Terms :
             RecordLicense(l, t) \/ \E h \in Clerk : InsertLicense(h, l, t)
  BY <1>1, <1>3, RecordLicenseInv, InsertLicenseInv
<1>4. CASE \E h \in Clerk : \/ \E c \in Claim : ReadClaim(h, c)
                           \/ \E s \in Subject : ReadRow(h, s)
                           \/ \E to \in ClaimState \cup LicenseState : CommitRow(h, to)
  BY <1>1, <1>4, ReadClaimInv, ReadRowInv, CommitRowInv
<1>5. CASE \E i \in DOMAIN events : LogEvent(i)
  BY <1>1, <1>5, LogEventInv
<1>6. CASE \E rules \in Rules : PublishPolicy(rules)
  BY <1>1, <1>6, PublishPolicyInv
<1>7. CASE Tick \/ AcceptScan \/ ReadClaims \/ ReadLicenses
  BY <1>1, <1>7, TickInv, AcceptScanInv, ReadClaimsInv, ReadLicensesInv
<1>8. CASE \E ev \in Evidence, passport \in Passport : Decide(ev, passport)
  BY <1>8, DecideInv
<1>. QED  BY <1>2, <1>3, <1>4, <1>5, <1>6, <1>7, <1>8 DEF Next

\* Every reachable state of the registry satisfies the inductive invariant.
THEOREM RegistryInvariant == Spec => []RegistryInv
  BY InitInv, NextInv, PTL DEF Spec

\* Rows, events, policies and requests keep their kind.
THEOREM RegistryTypeCorrect == Spec => []RegistryTypeOK
<1>1. RegistryInv => RegistryTypeOK
  BY DEF RegistryInv, TableInv, ScanInv, DeskInv, RegistryTypeOK
<1>. QED  BY <1>1, RegistryInvariant, PTL

\* The signed history and the table agree, and every event is one legal transition and
\* one version after the one before it (the compare-and-set of rights.py).
THEOREM HistoryTellsTheRow == Spec => []EventsTellTheRow
<1>1. RegistryInv => EventsTellTheRow
  BY LatestIsNewest DEF RegistryInv, TableInv, HistoryIsLegal, EventsTellTheRow
<1>. QED  BY <1>1, RegistryInvariant, PTL

\* A match that passed was authorised by rights that held together when it was decided,
\* although they were read one after the other.
THEOREM PassIsAuthorized == Spec => []PassWasAuthorized
<1>1. RegistryInv => PassWasAuthorized
  BY DEF RegistryInv, ScanInv
<1>. QED  BY <1>1, RegistryInvariant, PTL

--------------------------------------------------------------------------------
(* ScanAssessment *)


\* What the AI-origin lane must have seen to say that it found nothing.
Clears(r) ==
  /\ r.assertion = "NONE" /\ ~r.marker /\ ~r.small /\ ~r.unstable /\ ~r.disagreement
  /\ \A f \in DOMAIN r.families : r.families[f].level = "LOW"
  /\ Cardinality({f \in DOMAIN r.families :
                    r.families[f].verified /\ r.families[f].calibrated}) >= MinFamilies

PacketHasItsFields ==
  packet = [match |-> packet.match, coverage |-> packet.coverage, top |-> packet.top,
            supported |-> packet.supported, facts |-> packet.facts, action |-> packet.action]

Closed == {"completed", "notified"}

\* The match status is of the works that were compared, and of the search.
DecisionMeans ==
  step \in {"rights"} \cup Closed =>
    /\ packet.match \in MatchStatus
    /\ packet.match = "MATCH_FOUND" => packet.supported # {}
    /\ packet.match = "NO_MATCH_IN_CHECKED_SOURCES" =>
         packet.supported = {} /\ packet.coverage = "COMPLETE"

\* There is an action once the policy was evaluated; a search that was not complete is
\* never passed.
ActionMeans ==
  /\ step \notin Closed => packet.action = "NONE"
  /\ step \in Closed /\ packet.match = "SCOPE_INCOMPLETE" => packet.action \in {"REVIEW", "BLOCK"}

\* No work was compared before the search.
NothingYet == step \in {"origin", "retrieve"} => verified = {}

AssessmentInv ==
  /\ AssessmentTypeOK /\ NothingYet /\ PacketHasItsFields /\ DecisionMeans /\ ActionMeans
  /\ ClearedMeansChecked /\ PassIsNoMisuse /\ HumanReviewIsQueued

--------------------------------------------------------------------------------
(* ScanAssessment: its operators. *)

LEMMA ClassifyIsAClass ==
  ASSUME NEW r
  PROVE  Classify(r) \in OriginClass
  BY DEF Classify, OriginClass, PositiveOrigin

LEMMA ClassifyClears ==
  ASSUME NEW r \in Reading, Classify(r) = "NO_AI_ORIGIN_EVIDENCE_DETECTED"
  PROVE  Clears(r)
<1> DEFINE rows == {r.families[f] : f \in DOMAIN r.families}
           seen == {f \in DOMAIN r.families : r.families[f].verified}
           solid == {f \in DOMAIN r.families : r.families[f].verified /\ r.families[f].calibrated}
<1>1. /\ r.assertion \notin {"TRUSTED", "UNTRUSTED"} /\ ~r.marker /\ ~r.small /\ ~r.disagreement
      /\ ~(\E x \in rows : x.stability # "UNSTABLE" /\ x.level \in Positive) /\ ~r.unstable
      /\ Cardinality(seen) >= MinFamilies /\ \A x \in rows : x.verified => x.calibrated
      /\ \A x \in rows : x.verified => x.level = "LOW"
  BY DEF Classify
<1>2. seen = solid
  BY <1>1
<1>3. \A f \in DOMAIN r.families : r.families[f].level = "LOW"
  BY <1>1, AssessmentAssumption DEF Level, Positive
<1> QED  BY <1>1, <1>2, <1>3, AssessmentAssumption DEF Clears

\* A pair in the lowest tier supports neither a match nor a review.
LEMMA TierZero ==
  ASSUME NEW a
  PROVE  /\ Tier(a) \in 0 .. 3
         /\ Tier(a) = 0 <=> ~MatchSupported(a) /\ ~ReviewSupported(a)
<1>1. a.exact => MatchSupported(a)
  BY DEF MatchSupported
<1>2. ReviewSupported(a) => ~MatchSupported(a)
  BY DEF ReviewSupported
<1> QED  BY <1>1, <1>2 DEF Tier

LEMMA FirstIsHighest ==
  ASSUME NEW a, NEW b, ~RanksBefore(a, b)
  PROVE  Tier(a) <= Tier(b)
  BY TierZero DEF RanksBefore

LEMMA CompleteMeansAll ==
  ASSUME NEW works, NEW read, NEW embedded, NEW nominated, NEW compared, NEW learned,
         Coverage(works, read, embedded, nominated, compared, learned) = "COMPLETE"
  PROVE  /\ works # {} /\ read = works /\ compared = works
         /\ learned => embedded = works
  BY DEF Coverage

\* What a policy can answer, and what a pass says.
LEMMA PassMeans ==
  ASSUME NEW rules, NEW ev, NEW facts
  PROVE  LET action == EvaluatePolicy(rules, ev, facts)
         IN  /\ action \in {"PASS_BY_POLICY", "REVIEW", "BLOCK"}
             /\ action = "PASS_BY_POLICY" =>
                  /\ Granted(rules, ev, facts) /\ facts.blocking = {}
                  /\ rules.honorMode /\ ev.mode = "REQUIRED" =>
                       ev.origin = "NO_AI_ORIGIN_EVIDENCE_DETECTED"
  BY DEF EvaluatePolicy, TakenBack

LEMMA ObjectionsBlock ==
  ASSUME NEW claims, NEW licenses, NEW proven, NEW passport, NEW declared, NEW now
  PROVE  LET facts == CollectFacts(claims, licenses, proven, passport, declared, now)
         IN  facts.objections \subseteq facts.blocking
  BY DEF CollectFacts

--------------------------------------------------------------------------------
(* ScanAssessment: its steps. *)

LEMMA AssessmentStarts == AssessmentInit => AssessmentInv
<1> SUFFICES ASSUME AssessmentInit PROVE AssessmentInv
  OBVIOUS
<1>1. packet = NoPacket /\ step = "origin" /\ measure = <<>> /\ kept = {} /\ verified = {}
  BY DEF AssessmentInit
<1>2. DOMAIN measure = {}
  BY <1>1
<1>3. AssessmentTypeOK
  <2>1. accepted \in [mode : Mode, rules : Rules] /\ style \in Style /\ filed \in BOOLEAN
          /\ origin \in OriginClass /\ reading = NoReading
    BY DEF AssessmentInit, OriginClass
  <2>2. packet.match = "ERROR" /\ packet.top = NoWork /\ packet.action = "NONE"
    BY <1>1 DEF NoPacket
  <2> QED  BY <1>1, <1>2, <2>1, <2>2 DEF AssessmentTypeOK
<1>4. PacketHasItsFields /\ DecisionMeans /\ ActionMeans
  BY <1>1 DEF NoPacket, PacketHasItsFields, DecisionMeans, ActionMeans, Closed
<1>5. ClearedMeansChecked /\ PassIsNoMisuse /\ HumanReviewIsQueued
  BY <1>1 DEF NoPacket, ClearedMeansChecked, PassIsNoMisuse, HumanReviewIsQueued
<1> QED  BY <1>1, <1>3, <1>4, <1>5 DEF AssessmentInv, NothingYet

\* Before the policy is evaluated a packet that stays as it is says nothing new.
LEMMA PacketStays ==
  ASSUME AssessmentInv, packet' = packet, filed' = filed,
         step \in {"origin", "retrieve", "style"}, step' \in {"retrieve", "style", "verify"}
  PROVE  /\ PacketHasItsFields' /\ DecisionMeans' /\ ActionMeans'
         /\ PassIsNoMisuse' /\ HumanReviewIsQueued'
<1>1. PacketHasItsFields' /\ DecisionMeans' /\ ActionMeans'
  BY DEF AssessmentInv, PacketHasItsFields, DecisionMeans, ActionMeans, Closed
<1>2. packet'.action = "NONE"
  BY DEF AssessmentInv, ActionMeans, Closed
<1> QED  BY <1>1, <1>2 DEF PassIsNoMisuse, HumanReviewIsQueued

LEMMA OriginSteps ==
  ASSUME AssessmentInv,
         \/ \E r \in Reading : CheckOrigin(r)
         \/ \E marker \in BOOLEAN : FailOrigin(marker)
         \/ SkipOrigin
  PROVE  AssessmentInv'
<1>1. /\ step = "origin" /\ step' = "retrieve" /\ packet' = packet /\ filed' = filed
      /\ UNCHANGED <<accepted, measure, kept, verified, style>>
  BY DEF CheckOrigin, FailOrigin, SkipOrigin
<1>2. origin' \in OriginClass
  BY ClassifyIsAClass DEF CheckOrigin, FailOrigin, SkipOrigin, OriginClass, PositiveOrigin
<1>3. reading' \in Reading \cup {NoReading}
  BY DEF CheckOrigin, FailOrigin, SkipOrigin, AssessmentInv, AssessmentTypeOK
<1>4. AssessmentTypeOK'
  BY <1>1, <1>2, <1>3 DEF AssessmentInv, AssessmentTypeOK
<1>5. origin' = "NO_AI_ORIGIN_EVIDENCE_DETECTED" => Clears(reading')
  BY ClassifyClears DEF CheckOrigin, FailOrigin, SkipOrigin
<1>6. ClearedMeansChecked'
  BY <1>1, <1>5 DEF ClearedMeansChecked, Clears
<1> QED  BY <1>1, <1>4, <1>6, PacketStays DEF AssessmentInv, NothingYet

LEMMA RetrieveStep ==
  ASSUME AssessmentInv, NEW works \in SUBSET Work, NEW m \in [works -> Measure \cup {Broken}],
         NEW nominated \in SUBSET works, Retrieve(m, nominated)
  PROVE  AssessmentInv'
<1>1. /\ step = "retrieve" /\ step' = "style" /\ packet' = packet /\ filed' = filed
      /\ measure' = m /\ kept' = nominated /\ reading' = NoReading
      /\ UNCHANGED <<accepted, origin, verified, style>>
  BY DEF Retrieve
<1>2. verified = {}
  BY <1>1 DEF AssessmentInv, NothingYet
<1>3. AssessmentTypeOK'
  BY <1>1, <1>2 DEF AssessmentInv, AssessmentTypeOK
<1>4. ClearedMeansChecked'
  BY <1>1 DEF ClearedMeansChecked
<1> QED  BY <1>1, <1>3, <1>4, PacketStays DEF AssessmentInv, NothingYet

LEMMA StyleStep ==
  ASSUME AssessmentInv, NEW s \in Style, CheckStyle(s)
  PROVE  AssessmentInv'
<1>1. /\ step = "style" /\ step' = "verify" /\ packet' = packet /\ filed' = filed
      /\ style' = s /\ UNCHANGED <<accepted, origin, reading, measure, kept, verified>>
  BY DEF CheckStyle
<1>2. AssessmentTypeOK'
  BY <1>1 DEF AssessmentInv, AssessmentTypeOK
<1>3. ClearedMeansChecked'
  BY <1>1 DEF ClearedMeansChecked
<1> QED  BY <1>1, <1>2, <1>3, PacketStays DEF AssessmentInv, NothingYet

LEMMA VerifyStep ==
  ASSUME AssessmentInv, NEW compared \in SUBSET kept, NEW top \in Work \cup {NoWork},
         Verify(compared, top)
  PROVE  AssessmentInv'
<1> DEFINE coverage == Coverage(DOMAIN measure, Intact(measure), Embedded, kept, compared, LearnedRequired)
           supported == {w \in compared : MatchSupported(Aligned(measure[w]))}
           match == Decision(top, coverage)
<1>1. /\ step = "verify" /\ step' = "rights" /\ verified' = compared
      /\ UNCHANGED <<accepted, origin, reading, measure, kept, style, filed>>
      /\ top \in (IF compared = {} THEN {NoWork} ELSE compared)
      /\ \A w \in compared : ~RanksBefore(Aligned(measure[w]), Aligned(measure[top]))
  BY DEF Verify
<1>2. packet' = [packet EXCEPT !.coverage = coverage, !.match = match, !.top = top,
                              !.supported = supported]
  BY DEF Verify
<1> HIDE DEF coverage, supported, match
<1>3. /\ packet'.coverage = coverage /\ packet'.match = match /\ packet'.top = top
      /\ packet'.supported = supported /\ packet'.facts = packet.facts
      /\ packet'.action = packet.action /\ PacketHasItsFields'
  BY <1>2 DEF AssessmentInv, PacketHasItsFields
<1>4. packet.action = "NONE"
  BY <1>1 DEF AssessmentInv, ActionMeans, Closed
<1>5. compared \subseteq Work /\ compared \subseteq DOMAIN measure
  BY DEF AssessmentInv, AssessmentTypeOK
<1>6. match \in MatchStatus
  BY DEF match, Decision, MatchStatus
<1>7. AssessmentTypeOK'
  <2>1. packet'.match \in MatchStatus \cup {"ERROR"} /\ packet'.top \in Work \cup {NoWork}
          /\ packet'.action = "NONE"
    BY <1>3, <1>4, <1>6
  <2> QED  BY <1>1, <2>1 DEF AssessmentInv, AssessmentTypeOK
<1>8. ASSUME match = "MATCH_FOUND" PROVE supported # {}
  <2>1. top # NoWork /\ MatchSupported(Aligned(measure[top]))
    BY <1>8 DEF match, Decision
  <2>2. top \in compared
    BY <1>1, <2>1
  <2> QED  BY <2>1, <2>2 DEF supported
<1>9. ASSUME match = "NO_MATCH_IN_CHECKED_SOURCES"
      PROVE  /\ supported = {} /\ coverage = "COMPLETE"
             /\ \A w \in compared : Tier(Aligned(measure[w])) = 0
  <2>1. coverage = "COMPLETE"
    BY <1>9 DEF match, Decision
  <2>2. ASSUME NEW w \in compared PROVE Tier(Aligned(measure[w])) = 0
    <3>1. top # NoWork
      BY <1>1, <1>5, AssessmentAssumption
    <3>2. ~MatchSupported(Aligned(measure[top])) /\ ~ReviewSupported(Aligned(measure[top]))
      BY <1>9, <3>1 DEF match, Decision
    <3>3. Tier(Aligned(measure[top])) = 0
      BY <3>2, TierZero
    <3>4. Tier(Aligned(measure[w])) <= Tier(Aligned(measure[top]))
      BY <1>1, FirstIsHighest
    <3>5. Tier(Aligned(measure[w])) \in 0 .. 3
      BY TierZero
    <3> QED  BY <3>3, <3>4, <3>5
  <2>3. supported = {}
    BY <2>2, TierZero DEF supported
  <2> QED  BY <2>1, <2>2, <2>3
<1>10. DecisionMeans' /\ ActionMeans'
  BY <1>1, <1>3, <1>4, <1>6, <1>8, <1>9 DEF DecisionMeans, ActionMeans, Closed
<1>11. ClearedMeansChecked'
  <2> SUFFICES ASSUME ~HumanReviewRequired'
               PROVE  /\ DOMAIN measure # {} /\ compared = DOMAIN measure
                      /\ \A w \in DOMAIN measure :
                           measure[w] # Broken /\ Tier(Aligned(measure[w])) = 0
                      /\ LearnedRequired => \A w \in DOMAIN measure : measure[w].ai # Absent
    BY <1>1 DEF ClearedMeansChecked
  <2>1. match = "NO_MATCH_IN_CHECKED_SOURCES" /\ coverage = "COMPLETE"
    BY <1>3 DEF HumanReviewRequired, NothingFound
  <2>2. /\ DOMAIN measure # {} /\ Intact(measure) = DOMAIN measure /\ compared = DOMAIN measure
        /\ LearnedRequired => Embedded = DOMAIN measure
    BY <2>1, CompleteMeansAll DEF coverage
  <2>3. \A w \in DOMAIN measure : measure[w] # Broken
    BY <2>2 DEF Intact
  <2>4. LearnedRequired => \A w \in DOMAIN measure : measure[w].ai # Absent
    BY <2>2 DEF Embedded
  <2> QED  BY <1>9, <2>1, <2>2, <2>3, <2>4
<1>12. PassIsNoMisuse' /\ HumanReviewIsQueued'
  BY <1>1, <1>3, <1>4 DEF PassIsNoMisuse, HumanReviewIsQueued
<1> QED  BY <1>1, <1>3, <1>7, <1>10, <1>11, <1>12 DEF AssessmentInv, NothingYet

LEMMA EvaluateStep ==
  ASSUME AssessmentInv, NEW p \in Position, Evaluate(p)
  PROVE  AssessmentInv'
<1> DEFINE facts == IF packet.match = "MATCH_FOUND"
                    THEN CollectFacts(p.claims, p.licenses, p.verified, p.passport, TheUse, 0)
                    ELSE NoWorkFacts
           ev == [match |-> packet.match, coverage |-> packet.coverage, origin |-> origin,
                  tier |-> PolicyTier, mode |-> accepted.mode]
           action == EvaluatePolicy(accepted.rules, ev, facts)
<1>1. /\ step = "rights" /\ step' = "completed" /\ measure' = <<>> /\ kept' = {} /\ verified' = {}
      /\ UNCHANGED <<accepted, origin, reading, style, filed>>
  BY DEF Evaluate
<1>2. packet' = [packet EXCEPT !.facts = facts, !.action = action]
  BY DEF Evaluate
<1>3. ev.match = packet.match /\ ev.coverage = packet.coverage /\ ev.mode = accepted.mode
        /\ ev.origin = origin
  OBVIOUS
<1>4. packet.match = "MATCH_FOUND" => facts.objections \subseteq facts.blocking
  BY ObjectionsBlock
<1>5. /\ action \in {"PASS_BY_POLICY", "REVIEW", "BLOCK"}
      /\ action = "PASS_BY_POLICY" =>
           /\ Granted(accepted.rules, ev, facts) /\ facts.blocking = {}
           /\ accepted.rules.honorMode /\ accepted.mode = "REQUIRED" =>
                origin = "NO_AI_ORIGIN_EVIDENCE_DETECTED"
  BY PassMeans
<1> HIDE DEF facts, ev, action
<1>6. /\ packet'.coverage = packet.coverage /\ packet'.match = packet.match
      /\ packet'.top = packet.top /\ packet'.supported = packet.supported
      /\ packet'.facts = facts /\ packet'.action = action /\ PacketHasItsFields'
  BY <1>2 DEF AssessmentInv, PacketHasItsFields
<1>7. /\ packet.match \in MatchStatus
      /\ packet.match = "MATCH_FOUND" => packet.supported # {}
      /\ packet.match = "NO_MATCH_IN_CHECKED_SOURCES" =>
           packet.supported = {} /\ packet.coverage = "COMPLETE"
  BY <1>1 DEF AssessmentInv, DecisionMeans
<1>8. AssessmentTypeOK'
  <2>1. DOMAIN measure' = {}
    BY <1>1
  <2> QED  BY <1>1, <1>5, <1>6, <2>1 DEF AssessmentInv, AssessmentTypeOK
<1>9. ASSUME action = "PASS_BY_POLICY"
      PROVE  \/ packet.match = "NO_MATCH_IN_CHECKED_SOURCES"
             \/ /\ packet.match = "MATCH_FOUND" /\ facts.objections = {}
                /\ accepted.rules.corroborated => facts.strong # {}
  BY <1>3, <1>4, <1>5, <1>9 DEF Granted, BaselinePasses
<1>10. DecisionMeans' /\ ActionMeans'
  <2>1. packet.match = "SCOPE_INCOMPLETE" => action \in {"REVIEW", "BLOCK"}
    BY <1>5, <1>9
  <2> QED  BY <1>1, <1>6, <1>7, <2>1 DEF DecisionMeans, ActionMeans, Closed
<1>11. PassIsNoMisuse'
  <2> SUFFICES ASSUME action = "PASS_BY_POLICY"
               PROVE  /\ ~DraftAllowed'
                      /\ \/ Verdict' \in {"RECORDED_AUTHORIZED_REUSE", "NO_MISUSE_ESTABLISHED_IN_CHECKED_SOURCES"}
                         \/ ~accepted.rules.corroborated /\ ~Denied'
                      /\ accepted.rules.honorMode /\ accepted.mode = "REQUIRED" =>
                           origin = "NO_AI_ORIGIN_EVIDENCE_DETECTED"
    BY <1>1, <1>6 DEF PassIsNoMisuse
  <2>1. ~DraftAllowed'
    BY <1>6 DEF DraftAllowed
  <2>2. CASE packet.match = "NO_MATCH_IN_CHECKED_SOURCES"
    <3>1. ~Confirmed' /\ NothingFound'
      BY <1>6, <1>7, <2>2 DEF Confirmed, NothingFound
    <3>2. Verdict' = "NO_MISUSE_ESTABLISHED_IN_CHECKED_SOURCES"
      BY <3>1 DEF Verdict
    <3> QED  BY <1>5, <2>1, <3>2
  <2>3. CASE /\ packet.match = "MATCH_FOUND" /\ facts.objections = {}
             /\ accepted.rules.corroborated => facts.strong # {}
    <3>1. Confirmed' /\ ~Denied' /\ (accepted.rules.corroborated => Authorized')
      BY <1>6, <1>7, <2>3 DEF Confirmed, Denied, Authorized
    <3>2. Authorized' => Verdict' = "RECORDED_AUTHORIZED_REUSE"
      BY <3>1 DEF Verdict
    <3> QED  BY <1>5, <2>1, <3>1, <3>2
  <2> QED  BY <1>9, <2>2, <2>3
<1>12. ClearedMeansChecked' /\ HumanReviewIsQueued' /\ NothingYet'
  BY <1>1 DEF ClearedMeansChecked, HumanReviewIsQueued, NothingYet
<1> QED  BY <1>6, <1>8, <1>10, <1>11, <1>12 DEF AssessmentInv

LEMMA NotifyStep ==
  ASSUME AssessmentInv, Notify
  PROVE  AssessmentInv'
<1>1. /\ step = "completed" /\ step' = "notified" /\ filed' = CaseNeeded
      /\ UNCHANGED <<accepted, origin, reading, measure, kept, verified, style, packet>>
  BY DEF Notify, evidenceVars
<1>2. /\ packet.match \in MatchStatus
      /\ packet.match = "MATCH_FOUND" => packet.supported # {}
      /\ packet.match = "NO_MATCH_IN_CHECKED_SOURCES" =>
           packet.supported = {} /\ packet.coverage = "COMPLETE"
      /\ packet.match = "SCOPE_INCOMPLETE" => packet.action \in {"REVIEW", "BLOCK"}
  BY <1>1 DEF AssessmentInv, DecisionMeans, ActionMeans, Closed
<1>3. Signals # {} <=> \/ packet.match \in {"MATCH_FOUND", "INCONCLUSIVE"}
                       \/ origin \in PositiveOrigin
                       \/ style.learned /\ style.review
  <2>1. packet.match = "MATCH_FOUND" => "CATALOG_MATCH" \in Signals
    BY DEF Signals
  <2>2. packet.match = "INCONCLUSIVE" => "COPY_EVIDENCE_INCONCLUSIVE" \in Signals
    BY DEF Signals
  <2>3. origin \in PositiveOrigin => "AI_ORIGIN_INDICATORS" \in Signals
    BY DEF Signals
  <2>4. style.learned /\ style.review => "CREATOR_RESEMBLANCE" \in Signals
    BY DEF Signals
  <2>5. ASSUME NEW x \in Signals
        PROVE  \/ packet.match \in {"MATCH_FOUND", "INCONCLUSIVE"}
               \/ origin \in PositiveOrigin
               \/ style.learned /\ style.review
    BY DEF Signals
  <2> QED  BY <2>1, <2>2, <2>3, <2>4, <2>5
<1>4. CaseNeeded <=> InboxShows
  BY <1>2, <1>3 DEF CaseNeeded, InboxShows, MatchStatus
<1>5. HumanReviewRequired => CaseNeeded
  BY <1>2, <1>3 DEF HumanReviewRequired, Confirmed, NothingFound, CaseNeeded, MatchStatus
<1>6. Abstention \notin {"NONE", "CONTRADICTORY"} => CaseNeeded
  BY <1>2, <1>3 DEF Abstention, CaseNeeded, MatchStatus
<1>7. HumanReviewIsQueued'
  <2>1. HumanReviewRequired' = HumanReviewRequired /\ Abstention' = Abstention
          /\ InboxShows' = InboxShows
    BY <1>1 DEF HumanReviewRequired, Confirmed, NothingFound, Abstention, InboxShows
  <2> QED  BY <1>1, <1>4, <1>5, <1>6, <2>1 DEF HumanReviewIsQueued
<1>8. CaseNeeded \in BOOLEAN
  BY DEF CaseNeeded
<1>9. AssessmentTypeOK'
  BY <1>1, <1>8 DEF AssessmentInv, AssessmentTypeOK
<1>10. PacketHasItsFields' /\ DecisionMeans' /\ ActionMeans' /\ NothingYet'
  BY <1>1 DEF AssessmentInv, PacketHasItsFields, DecisionMeans, ActionMeans, Closed, NothingYet
<1>11. ClearedMeansChecked'
  BY <1>1 DEF ClearedMeansChecked
<1>12. PassIsNoMisuse'
  <2>1. DraftAllowed' = DraftAllowed /\ Verdict' = Verdict /\ Denied' = Denied
    BY <1>1 DEF DraftAllowed, Verdict, Denied, Authorized, Confirmed, NothingFound, LicenseDemanded
  <2> QED  BY <1>1, <2>1 DEF AssessmentInv, PassIsNoMisuse
<1> QED  BY <1>7, <1>9, <1>10, <1>11, <1>12 DEF AssessmentInv

LEMMA AssessmentStutters ==
  ASSUME AssessmentInv, UNCHANGED assessmentVars
  PROVE  AssessmentInv'
<1>1. UNCHANGED <<step, accepted, origin, reading, measure, kept, verified, style, packet, filed>>
  BY DEF assessmentVars, evidenceVars
<1>2. AssessmentTypeOK' /\ NothingYet' /\ PacketHasItsFields' /\ DecisionMeans' /\ ActionMeans'
  BY <1>1 DEF AssessmentInv, AssessmentTypeOK, NothingYet, PacketHasItsFields, DecisionMeans,
              ActionMeans
<1>3. HumanReviewRequired' = HumanReviewRequired /\ Abstention' = Abstention
        /\ InboxShows' = InboxShows /\ DraftAllowed' = DraftAllowed /\ Verdict' = Verdict
        /\ Denied' = Denied
  BY <1>1 DEF HumanReviewRequired, Abstention, InboxShows, DraftAllowed, Verdict, Denied,
              Authorized, Confirmed, NothingFound, LicenseDemanded
<1>4. ClearedMeansChecked'
  BY <1>1, <1>3 DEF AssessmentInv, ClearedMeansChecked
<1>5. PassIsNoMisuse' /\ HumanReviewIsQueued'
  BY <1>1, <1>3 DEF AssessmentInv, PassIsNoMisuse, HumanReviewIsQueued
<1> QED  BY <1>2, <1>4, <1>5 DEF AssessmentInv

LEMMA AssessmentSteps == AssessmentInv /\ [AssessmentNext]_assessmentVars => AssessmentInv'
  BY OriginSteps, RetrieveStep, StyleStep, VerifyStep, EvaluateStep, NotifyStep,
     AssessmentStutters DEF AssessmentNext

--------------------------------------------------------------------------------
\* The inductive invariant of a scan on its way through the evidence packet.
THEOREM AssessmentInvariant == AssessmentSpec => []AssessmentInv
<1> QED  BY AssessmentStarts, AssessmentSteps, PTL DEF AssessmentSpec

\* Type correctness.
THEOREM AssessmentTypeCorrect == AssessmentSpec => []AssessmentTypeOK
<1>1. AssessmentInv => AssessmentTypeOK
  BY DEF AssessmentInv
<1> QED  BY <1>1, AssessmentInvariant, PTL

\* A negative finding of either lane rests on checks that were all done, for any
\* catalogue, any measurements and any detectors (corpus_snapshot, analyze_synthetic_origin).
THEOREM NegativesAreEarned == AssessmentSpec => []ClearedMeansChecked
<1>1. AssessmentInv => ClearedMeansChecked
  BY DEF AssessmentInv
<1> QED  BY <1>1, AssessmentInvariant, PTL

\* What a policy passes no other reader shows as possible misuse, for any rule set and
\* any rights (evaluate_policy, assess_evidence_packet).
THEOREM PassesAreNoMisuse == AssessmentSpec => []PassIsNoMisuse
<1>1. AssessmentInv => PassIsNoMisuse
  BY DEF AssessmentInv
<1> QED  BY <1>1, AssessmentInvariant, PTL

\* A case is opened for whatever needs a person, and the inbox shows exactly those scans
\* (open_review_case_if_needed, _flagged_scan_filter).
THEOREM ReviewsAreQueued == AssessmentSpec => []HumanReviewIsQueued
<1>1. AssessmentInv => HumanReviewIsQueued
  BY DEF AssessmentInv
<1> QED  BY <1>1, AssessmentInvariant, PTL
================================================================================
