---------------------------- MODULE MCScanAssessment ----------------------------
(* Instances of ScanAssessment for TLC. *)
EXTENDS ScanAssessment
CONSTANTS print, territory, here, c1, l1, f1, f2

\* core/config.py:131-165
MCFloor == [escalation |-> 55, ai |-> 55, aiReview |-> 80, aiVeryStrong |-> 86, phash |-> 78,
            phashReview |-> 90, structure |-> 62, structureMatch |-> 76, structureVeryStrong |-> 84,
            structureConclusive |-> 97, quality |-> 72, inliers |-> 90]

Unlike == [exact |-> FALSE, ai |-> 20, phash |-> 40, direct |-> "NONE", mirrored |-> "NONE",
           relaxed |-> "NONE", quality |-> 0, inliers |-> 0, structure |-> 10]
Near == [Unlike EXCEPT !.ai = 75, !.direct = "STRICT", !.quality = 60, !.inliers = 80, !.structure = 80]
Flat == [Unlike EXCEPT !.ai = 70, !.relaxed = "USABLE", !.structure = 88]
MCMeasure ==
  {Unlike, [Unlike EXCEPT !.ai = Absent], [Unlike EXCEPT !.ai = 82],
   [Unlike EXCEPT !.exact = TRUE], Near, Flat}
MCRelaxed == {Unlike, Flat, [Flat EXCEPT !.relaxed = "STRICT"]}

Row == {x \in [verified : BOOLEAN, calibrated : BOOLEAN, level : Level,
               stability : {"STABLE", "UNSTABLE"}] : x.calibrated => x.verified}
Families == UNION {[F -> Row] : F \in SUBSET {f1, f2}}
\* Readings the detectors can give: the fused level lies between those of the rows, a
\* disagreement needs two of them, and a family is unstable
\* when a row of it is; beside a provenance assertion one family is enough.
Possible(r) ==
  LET levels == {r.families[f].level : f \in DOMAIN r.families}
      rank(x) == CASE x = "LOW" -> 1 [] x = "REVIEW" -> 2 [] x = "LIKELY" -> 3
  IN /\ IF levels = {} THEN r.fused = "LOW"
        ELSE /\ \E x \in levels : rank(x) <= rank(r.fused)
             /\ \E x \in levels : rank(x) >= rank(r.fused)
     /\ r.disagreement => Cardinality(DOMAIN r.families) > 1
     /\ r.unstable => levels # {}
     /\ (\E f \in DOMAIN r.families : r.families[f].stability = "UNSTABLE") => r.unstable
     /\ r.assertion # "NONE" => Cardinality(DOMAIN r.families) = 1
MCReading ==
  {r \in [assertion : {"NONE", "UNTRUSTED", "TRUSTED"}, marker : BOOLEAN, small : BOOLEAN,
          disagreement : BOOLEAN, unstable : BOOLEAN, fused : Level, families : Families] : Possible(r)}

NoStyle == [learned |-> FALSE, tier |-> "UNAVAILABLE", review |-> FALSE, authorized |-> FALSE]
MCStyle == {NoStyle, [learned |-> TRUE, tier |-> "HIGH", review |-> TRUE, authorized |-> FALSE],
            [learned |-> TRUE, tier |-> "HIGH", review |-> TRUE, authorized |-> TRUE]}

MCRules == {DefaultRules, [DefaultRules EXCEPT !.corroborated = FALSE, !.missing = FALSE],
            [DefaultRules EXCEPT !.block = TRUE, !.escalateTier = {"HIGH"}, !.honorMode = FALSE]}

Unrestricted == [d \in Dimension |-> {}]
Licence(c) == [claim |-> c, state |-> "ACTIVE", version |-> 1, from |-> 0, until |-> Never,
               permits |-> {print}, prohibits |-> {}, scope |-> [d \in Dimension |-> {here}]]
Wish(answer) ==
  [recorded |-> TRUE, revoked |-> FALSE, consent |-> "GRANTED", from |-> 0, until |-> Never,
   digestMatches |-> TRUE, baseline |-> FALSE, asked |-> answer, broad |-> "UNKNOWN",
   license |-> FALSE, permits |-> Unrestricted, forbids |-> Unrestricted]
Backed(state, answer) ==
  [claims |-> [c \in {c1} |-> [state |-> state, version |-> 1]],
   licenses |-> [l \in {l1} |-> Licence(c1)], verified |-> {c1, l1}, passport |-> Wish(answer)]
Bare(answer) == [claims |-> <<>>, licenses |-> <<>>, verified |-> {}, passport |-> Wish(answer)]
MCPosition ==
  {Bare("UNKNOWN"), Bare("DENY"), Bare("LICENSE_REQUIRED"), Backed("CORROBORATED", "ALLOW"),
   Backed("CORROBORATED", "DENY"), Backed("CORROBORATED", "UNASKED"), Backed("ASSERTED", "ALLOW"), Backed("REVOKED", "ALLOW"),
   Backed("ASSERTED", "LICENSE_REQUIRED"), [Backed("CORROBORATED", "ALLOW") EXCEPT !.verified = {l1}]}
MCUse == [use |-> print, context |-> [d \in Dimension |-> here]]
================================================================================
