---------------------------- MODULE MCRightsRegistry ----------------------------
(* Instances of RightsRegistry for TLC. *)
EXTENDS RightsRegistry
CONSTANTS print, web, territory, here

Permissive == [DefaultRules EXCEPT !.corroborated = FALSE, !.missing = FALSE]
MCRules == {Permissive}

Unrestricted == [d \in Dimension |-> {}]
Now == [permits |-> {print}, prohibits |-> {}, scope |-> Unrestricted, delay |-> 0, length |-> Never]
MCTerms == {[Now EXCEPT !.length = 1]}

Unrecorded ==
  [recorded |-> FALSE, revoked |-> FALSE, consent |-> "NOT_GRANTED", from |-> 0, until |-> Never,
   digestMatches |-> TRUE, baseline |-> FALSE, asked |-> "UNKNOWN", broad |-> "UNKNOWN",
   license |-> FALSE, permits |-> Unrestricted, forbids |-> Unrestricted]
Granting == [Unrecorded EXCEPT !.recorded = TRUE, !.consent = "GRANTED", !.asked = "ALLOW"]
MCPassport == {Unrecorded, [Granting EXCEPT !.asked = "DENY"]}

Found == [match |-> "MATCH_FOUND", coverage |-> "COMPLETE", tier |-> "NONE", mode |-> "DISABLED",
          origin |-> "NO_AI_ORIGIN_EVIDENCE_DETECTED"]
MCEvidence == {Found}

MCUse == [use |-> print, context |-> [d \in Dimension |-> here]]
================================================================================
