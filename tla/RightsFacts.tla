------------------------------ MODULE RightsFacts ------------------------------
(***************************************************************************)
(* What the recorded rights say about one use of one work, and what a stored *)
(* policy makes of it: the pure part of apps/api/app/services/               *)
(* policy_store.py and the evidence baseline of services/evidence.py.        *)
(*                                                                         *)
(* Rows are records; a work has some of the claims Claim and the licences    *)
(* License.  The declared use and its scope (territory, channel, audience,   *)
(* transformation) are compared by equality only, so they are model values.  *)
(***************************************************************************)
EXTENDS Integers, FiniteSets

CONSTANTS
  Claim, License,   \* identifiers of the rows of the work
  NoClaim,          \* a licence that names no claim
  Use,              \* declared uses
  Dimension,        \* the scope columns
  Scope,            \* their values
  Anything,         \* "*"
  Silent,           \* a dimension the request says nothing about
  Never,            \* effective_until of a row without an end
  Rules,            \* rule sets of the policies a tenant may store
  TheUse            \* what the request of a scan declares, in Declared

ASSUME RightsAssumption ==
  /\ NoClaim \notin Claim /\ Claim \cap License = {}
  /\ {Anything, Silent} \cap Scope = {} /\ Anything # Silent
  /\ Never \notin Nat

ClaimState == {"ASSERTED", "CORROBORATED", "DISPUTED", "SUPERSEDED", "REVOKED"}
LicenseState == {"ACTIVE", "SUSPENDED", "SUPERSEDED", "REVOKED", "EXPIRED"}
UnauthorizingClaim == {"DISPUTED", "SUPERSEDED", "REVOKED"}
UnauthorizingLicense == {"EXPIRED", "SUSPENDED", "REVOKED", "SUPERSEDED"}

\* The declared use of a scan: what for, and what it says of each dimension.
Declared == [use : Use, context : [Dimension -> Scope \cup {Silent}]]

Started(l, now) == l.from <= now
Ended(l, now) == l.until # Never /\ l.until <= now

\* An empty column or one with "*" does not restrict; otherwise the value must be
\* declared and listed.
InScope(allowed, value) == allowed = {} \/ Anything \in allowed \/ value \in allowed

LicenseAuthorizes(l, declared, now) ==
  /\ l.state \notin UnauthorizingLicense
  /\ Started(l, now) /\ ~Ended(l, now)
  /\ declared.use \notin l.prohibits /\ declared.use \in l.permits
  /\ \A d \in Dimension : InScope(l.scope[d], declared.context[d])

--------------------------------------------------------------------------------
(* The creator's recorded preference (the newest rights policy of the work). *)

PermissionValue == {"ALLOW", "DENY", "LICENSE_REQUIRED", "REVIEW", "UNKNOWN", "NOT_APPLICABLE"}
Answers(p) == p.asked \in PermissionValue \cup {"UNASKED"} /\ p.broad \in PermissionValue

\* policy_state: the first thing that keeps a version from being in force.
PolicyState(p, now) ==
  CASE ~p.recorded -> "UNKNOWN"
    [] p.recorded /\ p.revoked -> "REVOKED"
    [] p.recorded /\ ~p.revoked /\ p.consent = "WITHDRAWN" -> "CONSENT_WITHDRAWN"
    [] p.recorded /\ ~p.revoked /\ p.consent = "NOT_GRANTED" -> "CONSENT_NOT_GRANTED"
    [] OTHER -> IF Ended(p, now) THEN "EXPIRED"
                ELSE IF ~Started(p, now) THEN "NOT_YET_EFFECTIVE"
                ELSE IF ~p.digestMatches THEN "INTEGRITY_MISMATCH" ELSE "ACTIVE"

\* The answer to the declared use ("UNASKED" when the use maps to no permission); the
\* three narrow training permissions fall back on the broad one (`broad` is UNKNOWN for
\* the other uses).
Preference(p) == IF p.asked = "UNKNOWN" THEN p.broad ELSE p.asked

\* One scope dimension of the preference: nothing, a missing fact or an objection.
DimensionFact(p, d, value) ==
  LET allowed == p.permits[d]  denied == p.forbids[d]
      limits == (allowed # {} /\ Anything \notin allowed) \/ denied # {}
  IN IF ~limits THEN "NONE"
     ELSE IF value = Silent THEN "MISSING"
     ELSE IF value \in denied \/ Anything \in denied \/ ~InScope(allowed, value) THEN "BLOCKING"
     ELSE "NONE"

PreferenceFacts(p, declared, now) ==
  LET state == PolicyState(p, now)
      speaks == state = "ACTIVE" /\ ~p.baseline
      of == [d \in Dimension |-> DimensionFact(p, d, declared.context[d])]
      value == Preference(p)
  IN [state |-> state,
      preference |-> IF speaks /\ value # "UNASKED" THEN value ELSE "UNKNOWN",
      licenseRequired |-> speaks /\ (p.license \/ value = "LICENSE_REQUIRED"),
      blocking |-> IF speaks
                   THEN {"DENIES_USE" : v \in {value} \cap {"DENY"}}
                          \cup {"SCOPE" : d \in {e \in Dimension : of[e] = "BLOCKING"}}
                   ELSE {},
      missing |-> IF speaks
                  THEN {"PERMISSION" : v \in {value} \cap {"UNKNOWN", "REVIEW", "NOT_APPLICABLE"}}
                         \cup {"CONTEXT" : d \in {e \in Dimension : of[e] = "MISSING"}}
                  ELSE {"INACTIVE" : s \in {state} \ {"ACTIVE", "UNKNOWN"}}]

--------------------------------------------------------------------------------
(* collect_rights_facts over the rows read; `verified` are the rows that match    *)
(* their newest event, which the transparency log holds.                          *)

NoWorkFacts ==
  [work |-> FALSE, blocking |-> {}, missing |-> {"NO_MATCHED_WORK"}, scope |-> {}, strong |-> {},
   path |-> "NO_LICENSE_INFO", objections |-> {}, inactive |-> TRUE, licenseRequired |-> FALSE,
   preference |-> "UNKNOWN"]

\* Rows as functions from the identifiers that exist.
Corroborated(claims, verified) ==
  {c \in DOMAIN claims : claims[c].state = "CORROBORATED" /\ c \in verified}

CollectFacts(claims, licenses, verified, passport, declared, now) ==
  LET wish == PreferenceFacts(passport, declared, now)
      solid == Corroborated(claims, verified)
      known == {l \in DOMAIN licenses : l \in verified}
      scope == {l \in known : LicenseAuthorizes(licenses[l], declared, now)}
      strong == {l \in scope : licenses[l].claim \in solid}
      blocking == {"CLAIM_DISPUTED" : c \in {d \in DOMAIN claims : claims[d].state = "DISPUTED"}}
                    \cup {"LICENSE_SUSPENDED" : l \in {k \in known : licenses[k].state = "SUSPENDED"}}
                    \cup wish.blocking
      missing == {"CLAIM_UNVERIFIED" : c \in DOMAIN claims \ verified}
                   \cup (IF DOMAIN claims = {} THEN {"NO_RECORDED_CLAIM"}
                         ELSE IF solid = {} THEN {"NO_CORROBORATED_CLAIM"} ELSE {})
                   \cup {"LICENSE_UNVERIFIED" : l \in DOMAIN licenses \ known}
                   \cup (IF DOMAIN licenses = {} THEN {"NO_RECORDED_LICENSE"} ELSE {})
                   \cup wish.missing
  IN [work |-> TRUE, blocking |-> blocking, missing |-> missing, scope |-> scope, strong |-> strong,
      path |-> IF strong # {} THEN "EXISTING_LICENSE"
               ELSE IF blocking # {} THEN "DISPUTED"
               ELSE IF DOMAIN licenses # {} THEN "EXISTING_LICENSE" ELSE "NO_LICENSE_INFO",
      objections |-> wish.blocking, inactive |-> wish.state # "ACTIVE",
      licenseRequired |-> wish.licenseRequired, preference |-> wish.preference]

--------------------------------------------------------------------------------
(* The stored policy. *)

MatchStatus == {"MATCH_FOUND", "INCONCLUSIVE", "NO_MATCH_IN_CHECKED_SOURCES", "SCOPE_INCOMPLETE"}

\* _evidence_policy_baseline: evidence alone passes only a completed search that
\* found nothing.
BaselinePasses(ev) == ev.match = "NO_MATCH_IN_CHECKED_SOURCES"

\* evaluate_policy.  The decisions follow one another in the code, each taking a
\* pass back to review, and the tenant's block comes over all of them.
Granted(rules, ev, facts) ==
  IF ev.match = "MATCH_FOUND"
  THEN ev.coverage = "COMPLETE" /\ (IF rules.corroborated THEN facts.strong ELSE facts.scope) # {}
  ELSE BaselinePasses(ev)

\* Variant: a licence in scope is enough, whatever the creator objects to.
TakenBackIfMissing(rules, ev, facts) ==
  \/ rules.complete /\ ev.coverage # "COMPLETE" /\ ev.match # "NO_MATCH_IN_CHECKED_SOURCES"
  \/ rules.corroborated /\ ev.match = "MATCH_FOUND" /\ "NO_CORROBORATED_CLAIM" \in facts.missing
  \/ ev.origin \in rules.escalateOrigin
  \/ ev.tier \in rules.escalateTier
  \/ rules.honorMode /\ ev.mode = "REQUIRED" /\ ev.origin # "NO_AI_ORIGIN_EVIDENCE_DETECTED"
  \/ rules.missing /\ ev.match = "MATCH_FOUND" /\ facts.missing # {}

TakenBack(rules, ev, facts) ==
  \/ facts.blocking # {}
  \/ rules.complete /\ ev.coverage # "COMPLETE" /\ ev.match # "NO_MATCH_IN_CHECKED_SOURCES"
  \/ rules.corroborated /\ ev.match = "MATCH_FOUND" /\ "NO_CORROBORATED_CLAIM" \in facts.missing
  \/ ev.origin \in rules.escalateOrigin
  \/ ev.tier \in rules.escalateTier
  \/ rules.honorMode /\ ev.mode = "REQUIRED" /\ ev.origin # "NO_AI_ORIGIN_EVIDENCE_DETECTED"
  \/ rules.missing /\ ev.match = "MATCH_FOUND" /\ facts.missing # {}

Blocked(rules, ev, facts) ==
  rules.block /\ ev.match = "MATCH_FOUND" /\ ev.coverage = "COMPLETE" /\ facts.blocking # {}

EvaluatePolicy(rules, ev, facts) ==
  IF Blocked(rules, ev, facts) THEN "BLOCK"
  ELSE IF Granted(rules, ev, facts) /\ ~TakenBack(rules, ev, facts) THEN "PASS_BY_POLICY"
  ELSE "REVIEW"

\* DEFAULT_POLICY_RULES; a stored policy is merged over them.
DefaultRules ==
  [complete |-> TRUE, corroborated |-> TRUE, block |-> FALSE, missing |-> TRUE, honorMode |-> TRUE,
   escalateOrigin |-> {}, escalateTier |-> {}]
================================================================================
