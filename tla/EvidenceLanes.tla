----------------------------- MODULE EvidenceLanes -----------------------------
(***************************************************************************)
(* The pure part of the copy lane and of the AI-origin lane of a scan:       *)
(* the escalation of local alignment (providers/geometry.py), the fusion of   *)
(* copy evidence (services/copy_fusion.py), nomination and coverage           *)
(* (services/retrieval.py), and the classification of the detectors' rows     *)
(* (services/synthetic_analysis.py).                                        *)
(*                                                                         *)
(* Scores are percentages; one that was not measured is Absent, which is below *)
(* every threshold.  What the detectors' rows weigh together is any level      *)
(* between the lowest and the highest of them.                               *)
(***************************************************************************)
EXTENDS Integers, FiniteSets

CONSTANTS
  Floor,         \* the operating points of core/config.py
  MinFamilies    \* synthetic_min_independent_families

ASSUME LanesAssumption ==
  /\ \A t \in DOMAIN Floor : Floor[t] \in 0..100
  /\ MinFamilies \in Nat \ {0, 1}

Absent == -1

--------------------------------------------------------------------------------
(* A candidate and one reference: what each pass of the geometry verifier finds    *)
(* ("STRICT": every gate, "USABLE": a sane matrix that fails a gate, "NONE"), and   *)
(* what is measured under the alignment.                                          *)

\* alignment_grade of one pass.
Graded(pass, relaxed) ==
  CASE pass = "STRICT" -> "STRICT"
    [] pass = "USABLE" /\ relaxed -> "CORROBORATION_REQUIRED"
    [] OTHER -> "NONE"

\* HomographyGeometryVerifier.verify: submitted, mirrored, relaxed; a relaxed pass
\* counts only when it still needs corroboration.
Alignment(m, escalate) ==
  LET direct == Graded(m.direct, FALSE)
      mirrored == Graded(m.mirrored, FALSE)
      relaxed == Graded(m.relaxed, TRUE)
  IN IF direct = "STRICT" \/ ~escalate THEN direct
     ELSE IF mirrored = "STRICT" THEN mirrored
     ELSE IF relaxed = "CORROBORATION_REQUIRED" THEN relaxed ELSE direct

Nomination(m) == IF m.ai # Absent THEN m.ai ELSE m.phash

\* The pair as the fusion sees it.
Aligned(m) ==
  LET grade == Alignment(m, Nomination(m) >= Floor.escalation)
  IN [exact |-> m.exact, ai |-> m.ai, phash |-> m.phash, grade |-> grade,
      quality |-> IF grade = "STRICT" THEN m.quality ELSE 0,
      inliers |-> m.inliers,
      structure |-> IF grade = "NONE" THEN Absent ELSE m.structure]

\* fuse_copy_evidence: the paths to a match.
GlobalSupport(a) == a.ai >= Floor.ai \/ a.phash >= Floor.phash

MatchSupported(a) ==
  \/ a.exact
  \/ /\ a.grade = "STRICT"
     /\ \/ a.structure >= Floor.structureMatch /\ GlobalSupport(a)
        \/ a.structure >= Floor.structureVeryStrong /\ a.quality >= Floor.quality
        \/ a.ai >= Floor.aiVeryStrong /\ a.quality >= Floor.quality
             /\ a.structure >= Floor.structure
        \/ a.structure >= Floor.structureConclusive /\ a.inliers >= Floor.inliers
  \/ /\ a.grade = "CORROBORATION_REQUIRED"
     /\ a.structure >= Floor.structureVeryStrong /\ GlobalSupport(a)

ReviewSupported(a) ==
  /\ ~MatchSupported(a)
  /\ a.grade # "NONE" \/ a.ai >= Floor.aiReview \/ a.phash >= Floor.phashReview

EvidenceIndex(a) ==
  LET positive(x) == IF x = Absent THEN 0 ELSE x
  IN IF a.exact THEN 10000
     ELSE 25 * (IF a.ai # Absent THEN a.ai ELSE a.phash) + 15 * a.phash + 32 * a.quality
            + 28 * positive(a.structure)

Tier(a) ==
  CASE a.exact -> 3
    [] ~a.exact /\ MatchSupported(a) -> 2
    [] ReviewSupported(a) -> 1
    [] OTHER -> 0

\* _verification_sort_key, down to the rank of the retrieval.
RanksBefore(a, b) ==
  Tier(a) > Tier(b) \/ (Tier(a) = Tier(b) /\ EvidenceIndex(a) > EvidenceIndex(b))

--------------------------------------------------------------------------------
(* Nomination and coverage. *)

\* bounded_candidate_limit
CandidateLimit(total, topK, exhaustiveMax) ==
  IF total <= exhaustiveMax THEN total ELSE IF topK < total THEN topK ELSE total

\* rank_key: exact bytes, then learned similarity, then the perceptual hash.
RetrievedBefore(m, n) ==
  LET group(x) == IF x.exact THEN 0 ELSE IF x.ai # Absent THEN 1 ELSE 2
      score(x) == IF x.ai # Absent THEN x.ai ELSE x.phash
  IN \/ group(m) < group(n)
     \/ group(m) = group(n) /\ group(m) # 0 /\ score(m) > score(n)

\* The candidates kept of those ranked: as many as the limit allows, none passed over
\* for one ranked after it.
IsNomination(kept, ranked, measure, limit) ==
  /\ kept \subseteq ranked
  /\ Cardinality(kept) = (IF Cardinality(ranked) < limit THEN Cardinality(ranked) ELSE limit)
  /\ \A w \in kept, v \in ranked \ kept : ~RetrievedBefore(measure[v], measure[w])

\* Variant: a search counts as complete once everything nominated was compared.
CoverageOfKept(works, read, embedded, kept, verified, learnedRequired) ==
  IF read # works THEN "FAILED"
  ELSE IF works = {} THEN "EMPTY_SCOPE"
  ELSE IF kept # {} /\ verified = {} THEN "FAILED"
  ELSE IF learnedRequired /\ embedded # works THEN "DEGRADED"
  ELSE IF verified # kept THEN "PARTIAL" ELSE "COMPLETE"

\* corpus_snapshot.  `read` and `embedded` are the works whose object was intact and
\* whose embedding was compared; the first status that applies is recorded.
Coverage(works, read, embedded, kept, verified, learnedRequired) ==
  IF read # works THEN "FAILED"
  ELSE IF works = {} THEN "EMPTY_SCOPE"
  ELSE IF kept # {} /\ verified = {} THEN "FAILED"
  ELSE IF learnedRequired /\ embedded # works THEN "DEGRADED"
  ELSE IF verified # kept THEN "PARTIAL"
  ELSE IF kept # works THEN "TRUNCATED"
  ELSE "COMPLETE"

--------------------------------------------------------------------------------
(* The AI-origin lane.  A reading has the provenance assertion, the visible marker, *)
(* and one row per evidence family of the detectors that answered.                 *)

Level == {"LOW", "REVIEW", "LIKELY"}
Positive == {"REVIEW", "LIKELY"}

Classify(r) ==
  LET rows == {r.families[f] : f \in DOMAIN r.families}
      Count(P(_)) == Cardinality({f \in DOMAIN r.families : P(r.families[f])})
      Stable(x) == x.stability # "UNSTABLE"
      CalibratedPositive(x) == x.verified /\ x.calibrated /\ Stable(x) /\ x.level \in Positive
      CalibratedStrong(x) == x.verified /\ x.calibrated /\ Stable(x) /\ x.level = "LIKELY"
      Verified(x) == x.verified
      allCalibrated == \A x \in rows : x.verified => x.calibrated
      cleared == /\ Count(Verified) >= MinFamilies /\ allCalibrated
                 /\ \A x \in rows : x.verified => x.level = "LOW"
  IN IF r.assertion = "TRUSTED" THEN "AI_PROVENANCE_CONFIRMED"
     ELSE IF r.assertion = "UNTRUSTED" THEN "AI_PROVENANCE_ASSERTED_UNTRUSTED_SIGNER"
     ELSE IF r.marker /\ Count(CalibratedPositive) >= 1 /\ ~r.unstable
     THEN "AI_INDICATORS_CORROBORATED"
     ELSE IF r.marker THEN "AI_ORIGIN_MARKER_FOUND"
     ELSE IF rows = {} THEN "SYNTHETIC_ORIGIN_ANALYSIS_UNAVAILABLE"
     ELSE IF r.small THEN "INCONCLUSIVE_LOW_RESOLUTION"
     ELSE IF r.disagreement THEN "INCONCLUSIVE_DETECTOR_DISAGREEMENT"
     ELSE IF /\ r.fused = "LIKELY" /\ Count(CalibratedStrong) >= MinFamilies
             /\ allCalibrated /\ ~r.unstable
     THEN "LIKELY_AI_GENERATED"
     ELSE IF r.fused \in Positive \/ \E x \in rows : Stable(x) /\ x.level \in Positive
     THEN "AI_ORIGIN_REVIEW_CANDIDATE"
     ELSE IF r.unstable THEN "INCONCLUSIVE_TRANSFORM_INSTABILITY"
     ELSE IF cleared THEN "NO_AI_ORIGIN_EVIDENCE_DETECTED"
     ELSE "AI_ORIGIN_INCONCLUSIVE_LIMITED_COVERAGE"

PositiveOrigin ==
  {"AI_PROVENANCE_CONFIRMED", "LIKELY_AI_GENERATED", "AI_INDICATORS_CORROBORATED",
   "AI_ORIGIN_MARKER_FOUND", "AI_ORIGIN_REVIEW_CANDIDATE",
   "AI_PROVENANCE_ASSERTED_UNTRUSTED_SIGNER"}

OriginClass ==
  PositiveOrigin \cup
  {"SYNTHETIC_ORIGIN_ANALYSIS_UNAVAILABLE", "INCONCLUSIVE_LOW_RESOLUTION",
   "INCONCLUSIVE_DETECTOR_DISAGREEMENT", "INCONCLUSIVE_TRANSFORM_INSTABILITY",
   "NO_AI_ORIGIN_EVIDENCE_DETECTED", "AI_ORIGIN_INCONCLUSIVE_LIMITED_COVERAGE",
   "AI_ORIGIN_CHECK_DISABLED"}
================================================================================
