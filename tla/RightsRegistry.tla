---------------------------- MODULE RightsRegistry ----------------------------
(***************************************************************************)
(* Claims and licences with their lifecycle (apps/api/app/api/routes/rights.py), *)
(* policy versions (routes/policies.py), and the decision of one scan about      *)
(* them: the policy pinned at acceptance (routes/scans.py), the snapshot of the  *)
(* rights (collect_rights_facts) and the evaluation (services/evidence.py).     *)
(* The creator's rights policy is whatever the last read finds.                 *)
(*                                                                         *)
(* Every handler reads a row and writes it later under a compare-and-set; the    *)
(* row lock of PostgreSQL only removes interleavings and is left out.  A signed  *)
(* integrity event commits with the row; its leaf follows now or after recovery. *)
(***************************************************************************)
EXTENDS RightsFacts, Sequences

CONSTANTS
  Clerk,        \* API requests on the rights routes
  Beside,       \* those of them at work while a scan is decided (a bound)
  Terms,        \* [permits, prohibits, scope, delay, length] of the licences a tenant records
  Passport,     \* the newest rights policy of the work when the scan reads it
  Evidence,     \* what the analysis of the candidate found
  MaxEvents, MaxPolicies, MaxClock   \* bounds of the model

ASSUME RegistryAssumption ==
  /\ TheUse \in Declared /\ \A p \in Passport : Answers(p)
  /\ \A t \in Terms : /\ t.permits \in SUBSET Use /\ t.prohibits \in SUBSET Use
                     /\ t.permits \cap t.prohibits = {}
                     /\ t.scope \in [Dimension -> SUBSET (Scope \cup {Anything})]
                     /\ t.delay \in Nat /\ t.length \in (Nat \ {0}) \cup {Never}
  /\ \A ev \in Evidence : ev.match \in MatchStatus
  /\ MaxEvents \in Nat /\ MaxPolicies \in Nat \ {0} /\ MaxClock \in Nat

Subject == Claim \cup License

VARIABLES
  row,        \* the claims and licences that exist
  events,     \* signed integrity events, in the order of their commits
  policies,   \* versions of the tenant's policy
  clerk,      \* clerk[h]: a request between its read and its write
  scan,       \* the scan and its snapshot of the rights
  clock

registryVars == <<row, events, policies, clerk>>
vars == <<row, events, policies, clerk, scan, clock>>

Rows(kind) == [s \in kind \cap DOMAIN row |-> row[s]]
With(f, s, r) == [t \in DOMAIN f \cup {s} |-> IF t = s THEN r ELSE f[t]]

IdleClerk == [at |-> "idle"]
Free(h) == clerk[h].at = "idle" /\ (scan.at = "none" \/ h \in Beside)
Leaves(h) == clerk' = [clerk EXCEPT ![h] = IdleClerk]

NewScan == [at |-> "new", policy |-> 0, now |-> 0, claims |-> <<>>, licenses |-> <<>>,
            asOf |-> <<>>, facts |-> NoWorkFacts, match |-> "NONE", action |-> "NONE"]
NoScan == [NewScan EXCEPT !.at = "none"]

Init ==
  /\ row = <<>> /\ events = <<>>
  /\ policies = <<DefaultRules>>
  /\ clerk = [h \in Clerk |-> IdleClerk]
  /\ scan \in {NewScan, NoScan} /\ clock = 0

--------------------------------------------------------------------------------
(* Records and their events. *)

\* The row's projection is signed in the commit that writes the row.
Store(s, r) ==
  /\ Len(events) < MaxEvents
  /\ row' = With(row, s, r)
  /\ events' = Append(events, [subject |-> s, row |-> r, logged |-> FALSE])

CreateClaim(c) ==
  /\ c \notin DOMAIN row
  /\ Store(c, [state |-> "ASSERTED", version |-> 1])
  /\ UNCHANGED <<policies, clerk, scan, clock>>

NextVersion ==
  LET versions == {row[l].version : l \in License \cap DOMAIN row}
  IN IF versions = {} THEN 1 ELSE 1 + CHOOSE v \in versions : \A w \in versions : v >= w

NewLicense(l, c, t) ==
  LET from == clock + t.delay
  IN /\ l \notin DOMAIN row
     /\ Store(l, [claim |-> c, state |-> "ACTIVE", version |-> NextVersion, from |-> from,
                  until |-> IF t.length = Never THEN Never ELSE from + t.length,
                  permits |-> t.permits, prohibits |-> t.prohibits, scope |-> t.scope])

RecordLicense(l, t) ==
  /\ NewLicense(l, NoClaim, t)
  /\ UNCHANGED <<policies, clerk, scan, clock>>

\* create_license looks at the claim, then inserts the licence without asking again.
CanBack(c) == c \in DOMAIN row /\ row[c].state \notin UnauthorizingClaim

ReadClaim(h, c) ==
  /\ Free(h) /\ CanBack(c)
  /\ clerk' = [clerk EXCEPT ![h] = [at |-> "license", claim |-> c]]
  /\ UNCHANGED <<row, events, policies, scan, clock>>

InsertLicense(h, l, t) ==
  /\ clerk[h].at = "license"
  /\ NewLicense(l, clerk[h].claim, t)
  /\ Leaves(h)
  /\ UNCHANGED <<policies, scan, clock>>

\* The states an event leads to, and those it may follow.
ClaimTransition(state) ==
  CASE state = "ASSERTED" -> {"CORROBORATED", "DISPUTED", "SUPERSEDED", "REVOKED"}
    [] state = "CORROBORATED" -> {"DISPUTED", "SUPERSEDED", "REVOKED"}
    [] state = "DISPUTED" -> {"CORROBORATED", "SUPERSEDED", "REVOKED"}
    [] OTHER -> {}

LicenseTransition(state) ==
  CASE state = "ACTIVE" -> {"SUSPENDED", "SUPERSEDED", "REVOKED", "EXPIRED"}
    [] state = "SUSPENDED" -> {"SUPERSEDED", "REVOKED", "EXPIRED"}
    [] OTHER -> {}

May(s, from, to) ==
  to \in (IF s \in Claim THEN ClaimTransition(from) ELSE LicenseTransition(from))

\* Supersession names another record of the same kind and work.
HasReplacement(s) ==
  \E o \in DOMAIN row \ {s} : (o \in Claim) = (s \in Claim)

\* What the request asks for is decided by the row it read; the row is written later.
ReadRow(h, s) ==
  /\ Free(h) /\ s \in DOMAIN row
  /\ clerk' = [clerk EXCEPT ![h] =
       [at |-> "event", subject |-> s, state |-> row[s].state, version |-> row[s].version]]
  /\ UNCHANGED <<row, events, policies, scan, clock>>

Ending == {"EXPIRED", "REVOKED", "SUPERSEDED"}
\* Claims need no window here: their end is set with their terminal state.
Moved(s, version, to) ==
  LET moved == [row[s] EXCEPT !.state = to, !.version = version + 1]
  IN IF s \in License /\ to \in Ending THEN [moved EXCEPT !.until = clock] ELSE moved

\* Variant: the update addresses the row by its primary key alone.
UnchangedByKey(s, seen) == s \in DOMAIN row

Unchanged(s, seen) == row[s].state = seen.state /\ row[s].version = seen.version

CommitRow(h, to) ==
  /\ clerk[h].at = "event"
  /\ LET seen == clerk[h]  s == seen.subject
     IN /\ May(s, seen.state, to)
        /\ to = "SUPERSEDED" => HasReplacement(s)
        /\ IF Unchanged(s, seen)
           THEN Store(s, Moved(s, seen.version, to))
           ELSE UNCHANGED <<row, events>>     \* 409: STALE_RIGHTS_PROJECTION
  /\ Leaves(h)
  /\ UNCHANGED <<policies, scan, clock>>

\* append_integrity_event, by the request or by the recovery of deferred events.
LogEvent(i) ==
  /\ ~events[i].logged
  /\ events' = [events EXCEPT ![i].logged = TRUE]
  /\ UNCHANGED <<row, policies, clerk, scan, clock>>

PublishPolicy(rules) ==
  /\ Len(policies) < MaxPolicies
  /\ policies' = Append(policies, rules)
  /\ UNCHANGED <<row, events, clerk, scan, clock>>

Tick ==
  /\ clock < MaxClock /\ clock' = clock + 1
  /\ UNCHANGED <<registryVars, scan>>

--------------------------------------------------------------------------------
(* The decision of a scan. *)

AcceptScan ==
  /\ scan.at = "new"
  /\ scan' = [scan EXCEPT !.at = "accepted", !.policy = Len(policies)]
  /\ UNCHANGED <<registryVars, clock>>

\* `now` is taken once, before the first of the reads.
ReadClaims ==
  /\ scan.at = "accepted"
  /\ scan' = [scan EXCEPT !.at = "licenses", !.now = clock, !.claims = Rows(Claim)]
  /\ UNCHANGED <<registryVars, clock>>

ReadLicenses ==
  /\ scan.at = "licenses"
  /\ scan' = [scan EXCEPT !.at = "events", !.licenses = Rows(License)]
  /\ UNCHANGED <<registryVars, clock>>

EventsOf(s) == {i \in DOMAIN events : events[i].subject = s}
Latest(s) == events[CHOOSE i \in EventsOf(s) : \A j \in EventsOf(s) : j <= i]

Snapshot == DOMAIN scan.claims \cup DOMAIN scan.licenses
Seen(s) == IF s \in Claim THEN scan.claims[s] ELSE scan.licenses[s]

\* Variant: an entry in the log is enough, whatever the event says of the row.
VerifiedByLeaf(s) == Latest(s).logged

\* A row counts when its newest event is in the log and says the same of it.
Verified(s) == Latest(s).logged /\ Latest(s).row = Seen(s)

Facts(ev, passport) ==
  IF ev.match = "MATCH_FOUND"
  THEN CollectFacts(scan.claims, scan.licenses, {s \in Snapshot : Verified(s)}, passport,
                    TheUse, scan.now)
  ELSE NoWorkFacts

\* The events and their log entries are the last reads of rows that change; an event
\* is never taken back, so one step takes both.  `asOf` is what the tables say then.
Decide(ev, passport) ==
  /\ scan.at = "events"
  /\ scan' = [scan EXCEPT !.at = "decided", !.asOf = row, !.match = ev.match,
                          !.facts = Facts(ev, passport),
                          !.action = EvaluatePolicy(policies[scan.policy], ev, Facts(ev, passport))]
  /\ UNCHANGED <<registryVars, clock>>

--------------------------------------------------------------------------------

\* A behaviour is of interest until the decision.
Next ==
  /\ scan.at # "decided"
  /\ \/ \E c \in Claim : CreateClaim(c)
     \/ \E l \in License, t \in Terms :
          RecordLicense(l, t) \/ \E h \in Clerk : InsertLicense(h, l, t)
     \/ \E h \in Clerk : \/ \E c \in Claim : ReadClaim(h, c)
                        \/ \E s \in Subject : ReadRow(h, s)
                        \/ \E to \in ClaimState \cup LicenseState : CommitRow(h, to)
     \/ \E i \in DOMAIN events : LogEvent(i)
     \/ \E rules \in Rules : PublishPolicy(rules)
     \/ Tick
     \/ AcceptScan \/ ReadClaims \/ ReadLicenses
     \/ \E ev \in Evidence, passport \in Passport : Decide(ev, passport)

Spec == Init /\ [][Next]_vars

--------------------------------------------------------------------------------
(* Properties. *)

ClaimRow == [state : ClaimState, version : Nat]
LicenseRow ==
  [claim : Claim \cup {NoClaim}, state : LicenseState, version : Nat, from : Nat,
   until : Nat \cup {Never}, permits : SUBSET Use, prohibits : SUBSET Use,
   scope : [Dimension -> SUBSET (Scope \cup {Anything})]]
Projection(s) == IF s \in Claim THEN ClaimRow ELSE LicenseRow
IsTable(f) == DOMAIN f \subseteq Subject /\ f \in [DOMAIN f -> ClaimRow \cup LicenseRow]

ClerkWork ==
  [at : {"idle"}] \cup [at : {"license"}, claim : Claim]
    \cup [at : {"event"}, subject : Subject, state : ClaimState \cup LicenseState, version : Nat]

RegistryTypeOK ==
  /\ IsTable(row) /\ \A s \in DOMAIN row : row[s] \in Projection(s)
  /\ events \in Seq([subject : Subject, row : ClaimRow \cup LicenseRow, logged : BOOLEAN])
  /\ policies \in Seq(Rules \cup {DefaultRules})
  /\ clerk \in [Clerk -> ClerkWork]
  /\ scan.at \in {"none", "new", "accepted", "licenses", "events", "decided"}
  /\ IsTable(scan.claims) /\ IsTable(scan.licenses) /\ IsTable(scan.asOf)
  /\ scan.policy \in Nat /\ scan.now \in Nat
  /\ scan.match \in MatchStatus \cup {"NONE"}
  /\ scan.action \in {"NONE", "PASS_BY_POLICY", "REVIEW", "BLOCK"}
  /\ clock \in Nat

\* The signed history and the table agree, whatever requests overlap: the last event
\* of a record carries its row, and each event is one legal transition and one version
\* after the one before it (rights.py:390-408, "STALE_RIGHTS_PROJECTION").
EventsTellTheRow ==
  /\ \A s \in DOMAIN row : EventsOf(s) # {} /\ Latest(s).row = row[s]
  /\ \A i, j \in DOMAIN events :
       LET a == events[i]  b == events[j]
           follows == /\ i < j /\ a.subject = b.subject
                      /\ ~\E k \in i + 1 .. j - 1 : events[k].subject = a.subject
       IN follows => /\ b.row.version = a.row.version + 1
                     /\ May(a.subject, a.row.state, b.row.state)

\* A scan cleared against a matched work was cleared by a licence that authorised the
\* use at one instant, with its claim corroborated at that same instant when the policy
\* in force at acceptance asks for it, although claims, licences, events and log
\* entries are four reads (policy_store.py:322-329).
PassWasAuthorized ==
  scan.action = "PASS_BY_POLICY" /\ scan.match = "MATCH_FOUND" =>
    \E l \in License \cap DOMAIN scan.asOf :
      /\ LicenseAuthorizes(scan.asOf[l], TheUse, scan.now)
      /\ policies[scan.policy].corroborated =>
           LET c == scan.asOf[l].claim
           IN c \in DOMAIN scan.asOf /\ scan.asOf[c].state = "CORROBORATED"

\* policy_store.py:5-6: "A revoked, disputed, superseded or expired claim or license can
\* never authorize a use.  Policy configuration cannot switch that off."  It fails: with
\* require_corroborated_claim and review_on_missing_facts off, an active licence whose
\* claim was revoked still passes.
TerminalNeverAuthorizes ==
  scan.action = "PASS_BY_POLICY" /\ scan.match = "MATCH_FOUND" =>
    \E l \in scan.facts.scope :
      LET c == scan.licenses[l].claim
      IN c \in DOMAIN scan.claims => scan.claims[c].state \notin UnauthorizingClaim
================================================================================
