---------------------------- MODULE ScanAssessment -----------------------------
(***************************************************************************)
(* One scan from its bytes to what people are told: build_evidence_packet     *)
(* (apps/api/app/services/evidence.py) with the lanes of EvidenceLanes and the  *)
(* rights of RightsFacts, and the readers of the finished packet, each of which *)
(* draws its own conclusion: the lane assessment (evidence_assessment.py), the  *)
(* evidence matrix (evidence_matrix.py), the review case (review.py), the       *)
(* operator's inbox (routes/admin.py) and the drafting gate (admin_review.py).  *)
(***************************************************************************)
EXTENDS RightsFacts, EvidenceLanes

CONSTANTS
  Work, NoWork,
  Measure,           \* what comparing the candidate with a reference would find
  Broken,            \* a reference whose object is missing or altered
  Reading,           \* what the AI-origin detectors, the marker and provenance find
  NoReading,
  Style,             \* decisions of the creator-profile lane
  Position,          \* [claims, licenses, verified, passport]: rights of a matched work
  LearnedRequired,   \* copy_retrieval_requirement
  TopK, ExhaustiveMax

ASSUME AssessmentAssumption ==
  /\ NoWork \notin Work /\ Broken \notin Measure
  /\ TheUse \in Declared /\ \A p \in Position : Answers(p.passport)
  /\ LearnedRequired \in BOOLEAN /\ TopK \in Nat \ {0} /\ ExhaustiveMax \in Nat
  /\ \A s \in Style : s.review => s.learned
  /\ \A r \in Reading :
       /\ r.assertion \in {"NONE", "UNTRUSTED", "TRUSTED"}
       /\ \A f \in DOMAIN r.families : /\ r.families[f].level \in Level
                                       /\ r.families[f].stability = "UNSTABLE" => r.unstable

Mode == {"DISABLED", "INFORMATIONAL", "REQUIRED"}

VARIABLES
  step,
  accepted,   \* [mode, rules]: what the request and the policy fixed at acceptance
  origin,     \* the class of the AI-origin lane
  reading,    \* and what it was made from, until the next step
  measure,    \* the eligible works, and what each would measure, until the decision
  kept,       \* works nominated
  verified,   \* works compared
  style,
  packet,     \* the decision block and what the readers take of the matches
  filed       \* whether a review case was opened

evidenceVars == <<origin, reading, measure, kept, verified, style>>
assessmentVars == <<step, accepted, evidenceVars, packet, filed>>

NoPacket == [match |-> "ERROR", coverage |-> "FAILED", top |-> NoWork, supported |-> {},
             facts |-> NoWorkFacts, action |-> "NONE"]

AssessmentInit ==
  /\ step = "origin"
  /\ accepted \in [mode : Mode, rules : Rules]
  /\ origin = "SYNTHETIC_ORIGIN_ANALYSIS_UNAVAILABLE" /\ reading = NoReading
  /\ measure = <<>> /\ kept = {} /\ verified = {}
  /\ style \in {s \in Style : ~s.learned /\ s.tier = "UNAVAILABLE"}
  /\ packet = NoPacket /\ filed = FALSE

--------------------------------------------------------------------------------
(* build_evidence_packet *)

\* _analyze_origin_lane; a failure of the detectors leaves the visible marker.
CheckOrigin(r) ==
  /\ step = "origin" /\ accepted.mode # "DISABLED"
  /\ reading' = r /\ origin' = Classify(r)
  /\ step' = "retrieve"
  /\ UNCHANGED <<accepted, measure, kept, verified, style, packet, filed>>

FailOrigin(marker) ==
  /\ step = "origin" /\ accepted.mode # "DISABLED"
  /\ origin' = IF marker THEN "AI_ORIGIN_MARKER_FOUND" ELSE "SYNTHETIC_ORIGIN_ANALYSIS_UNAVAILABLE"
  /\ step' = "retrieve"
  /\ UNCHANGED <<accepted, reading, measure, kept, verified, style, packet, filed>>

SkipOrigin ==
  /\ step = "origin" /\ accepted.mode = "DISABLED"
  /\ origin' = "AI_ORIGIN_CHECK_DISABLED"
  /\ step' = "retrieve"
  /\ UNCHANGED <<accepted, reading, measure, kept, verified, style, packet, filed>>

Intact(m) == {w \in DOMAIN m : m[w] # Broken}

\* retrieve_candidates; a query that could not be embedded leaves every reference
\* without a learned score.
Retrieve(m, nominated) ==
  /\ step = "retrieve"
  /\ IsNomination(nominated, Intact(m), m, CandidateLimit(Cardinality(DOMAIN m), TopK, ExhaustiveMax))
  /\ measure' = m /\ kept' = nominated /\ reading' = NoReading
  /\ step' = "style"
  /\ UNCHANGED <<accepted, origin, verified, style, packet, filed>>

CheckStyle(s) ==
  /\ step = "style"
  /\ style' = s /\ step' = "verify"
  /\ UNCHANGED <<accepted, origin, reading, measure, kept, verified, packet, filed>>

\* _decision over the first of the verified candidates.
Decision(top, coverage) ==
  IF top # NoWork /\ MatchSupported(Aligned(measure[top])) THEN "MATCH_FOUND"
  ELSE IF top # NoWork /\ ReviewSupported(Aligned(measure[top])) THEN "INCONCLUSIVE"
  ELSE IF coverage = "COMPLETE" THEN "NO_MATCH_IN_CHECKED_SOURCES"
  ELSE "SCOPE_INCOMPLETE"

Embedded == {w \in Intact(measure) : measure[w].ai # Absent}

\* Each nominated work is read again and compared; some of that may fail.
Verify(compared, top) ==
  /\ step = "verify"
  /\ top \in (IF compared = {} THEN {NoWork} ELSE compared)
  /\ \A w \in compared : ~RanksBefore(Aligned(measure[w]), Aligned(measure[top]))
  /\ verified' = compared
  /\ LET coverage == Coverage(DOMAIN measure, Intact(measure), Embedded, kept, compared, LearnedRequired)
     IN packet' = [packet EXCEPT
          !.coverage = coverage, !.match = Decision(top, coverage), !.top = top,
          !.supported = {w \in compared : MatchSupported(Aligned(measure[w]))}]
  /\ step' = "rights"
  /\ UNCHANGED <<accepted, origin, reading, measure, kept, style, filed>>

\* The tier counts for the policy only when the creator consented to the profile.
PolicyTier == IF style.authorized THEN style.tier ELSE "NONE"

Evaluate(p) ==
  /\ step = "rights"
  /\ packet.match # "MATCH_FOUND" => p = CHOOSE any \in Position : TRUE
  /\ LET facts == IF packet.match = "MATCH_FOUND"
                  THEN CollectFacts(p.claims, p.licenses, p.verified, p.passport, TheUse, 0)
                  ELSE NoWorkFacts
         ev == [match |-> packet.match, coverage |-> packet.coverage, origin |-> origin,
                tier |-> PolicyTier, mode |-> accepted.mode]
     IN packet' = [packet EXCEPT !.facts = facts,
                                 !.action = EvaluatePolicy(accepted.rules, ev, facts)]
  /\ measure' = <<>> /\ kept' = {} /\ verified' = {}
  /\ step' = "completed"
  /\ UNCHANGED <<accepted, origin, reading, style, filed>>

--------------------------------------------------------------------------------
(* The readers of the packet. *)

\* assess_evidence_packet
Confirmed == packet.match = "MATCH_FOUND" /\ packet.supported # {}
NothingFound ==
  /\ packet.match = "NO_MATCH_IN_CHECKED_SOURCES" /\ packet.supported = {}
  /\ packet.coverage = "COMPLETE"
HumanReviewRequired == Confirmed \/ ~NothingFound

Authorized == packet.facts.strong # {}
Denied == packet.facts.objections # {}
LicenseDemanded == packet.facts.licenseRequired

Verdict ==
  CASE Confirmed /\ Denied /\ ~Authorized -> "POTENTIAL_MISUSE_PERMISSION_CONFLICT"
    [] Confirmed /\ Denied /\ Authorized -> "CONFLICTING_PERMISSION_RECORDS"
    [] Confirmed /\ ~Denied /\ Authorized -> "RECORDED_AUTHORIZED_REUSE"
    [] Confirmed /\ ~Denied /\ ~Authorized /\ LicenseDemanded -> "POTENTIAL_MISUSE_REQUIRED_LICENSE"
    [] Confirmed /\ ~Denied /\ ~Authorized /\ ~LicenseDemanded ->
         "REUSE_CONFIRMED_AUTHORIZATION_UNVERIFIED"
    [] ~Confirmed /\ NothingFound -> "NO_MISUSE_ESTABLISHED_IN_CHECKED_SOURCES"
    [] OTHER -> "MISUSE_UNRESOLVED"

\* matrix_summary: why the matrix abstains, or NONE.
Abstention ==
  IF origin = "INCONCLUSIVE_DETECTOR_DISAGREEMENT" THEN "CONTRADICTORY"
  ELSE IF packet.coverage # "COMPLETE" /\ packet.match # "MATCH_FOUND" THEN "INSUFFICIENT_COVERAGE"
  ELSE IF packet.match = "INCONCLUSIVE" THEN "INCONCLUSIVE" ELSE "NONE"

\* Variant: a style resemblance is left to the lane that reports it.
SignalsWithoutStyle ==
  {"CATALOG_MATCH" : a \in {packet.match} \cap {"MATCH_FOUND"}}
    \cup {"COPY_EVIDENCE_INCONCLUSIVE" : a \in {packet.match} \cap {"INCONCLUSIVE"}}
    \cup {"AI_ORIGIN_INDICATORS" : a \in {origin} \cap PositiveOrigin}

\* review_signal
Signals ==
  {"CATALOG_MATCH" : a \in {packet.match} \cap {"MATCH_FOUND"}}
    \cup {"COPY_EVIDENCE_INCONCLUSIVE" : a \in {packet.match} \cap {"INCONCLUSIVE"}}
    \cup {"AI_ORIGIN_INDICATORS" : a \in {origin} \cap PositiveOrigin}
    \cup {"CREATOR_RESEMBLANCE" : s \in {t \in {style} : t.learned /\ t.review}}

CaseNeeded ==
  \/ packet.action \in {"REVIEW", "BLOCK"}
  \/ packet.match \in {"SCOPE_INCOMPLETE", "ERROR"}
  \/ Signals # {}

\* open_review_case_if_needed, in the notify stage of a completed scan.
Notify ==
  /\ step = "completed"
  /\ filed' = CaseNeeded /\ step' = "notified"
  /\ UNCHANGED <<accepted, evidenceVars, packet>>

\* _flagged_scan_filter, the SQL of the operator's inbox.
InboxShows ==
  \/ packet.action \in {"REVIEW", "BLOCK"}
  \/ packet.match \in {"MATCH_FOUND", "INCONCLUSIVE"}
  \/ origin \in PositiveOrigin
  \/ style.learned /\ style.review

\* copyright_draft_block_reason before any case is decided.
DraftAllowed ==
  packet.match = "MATCH_FOUND" /\ packet.action # "PASS_BY_POLICY" /\ ~Authorized

AssessmentNext ==
  \/ \E r \in Reading : CheckOrigin(r)
  \/ \E marker \in BOOLEAN : FailOrigin(marker)
  \/ SkipOrigin
  \/ \E works \in SUBSET Work : \E m \in [works -> Measure \cup {Broken}] :
       \E nominated \in SUBSET works : Retrieve(m, nominated)
  \/ \E s \in Style : CheckStyle(s)
  \/ \E compared \in SUBSET kept, top \in Work \cup {NoWork} : Verify(compared, top)
  \/ \E p \in Position : Evaluate(p)
  \/ Notify

AssessmentSpec == AssessmentInit /\ [][AssessmentNext]_assessmentVars

--------------------------------------------------------------------------------
(* Properties. *)

AssessmentTypeOK ==
  /\ step \in {"origin", "retrieve", "style", "verify", "rights", "completed", "notified"}
  /\ accepted \in [mode : Mode, rules : Rules]
  /\ origin \in OriginClass /\ reading \in Reading \cup {NoReading} /\ style \in Style
  /\ kept \subseteq DOMAIN measure /\ verified \subseteq kept /\ DOMAIN measure \subseteq Work
  /\ packet.match \in MatchStatus \cup {"ERROR"} /\ packet.top \in Work \cup {NoWork}
  /\ packet.action \in {"NONE", "PASS_BY_POLICY", "REVIEW", "BLOCK"}
  /\ filed \in BOOLEAN

\* A negative finding of either lane rests on checks that were all done.  "No misuse
\* established": the catalogue is not empty, every eligible work was intact, nominated
\* and compared, and none supports a copy or a review.  "No AI-origin evidence": enough
\* independent calibrated families answered, every row is low, none was unstable.
ClearedMeansChecked ==
  /\ step = "rights" /\ ~HumanReviewRequired =>
       /\ DOMAIN measure # {}
       /\ verified = DOMAIN measure
       /\ \A w \in DOMAIN measure : measure[w] # Broken /\ Tier(Aligned(measure[w])) = 0
       /\ LearnedRequired => \A w \in DOMAIN measure : measure[w].ai # Absent
  /\ step = "retrieve" /\ origin = "NO_AI_ORIGIN_EVIDENCE_DETECTED" =>
       /\ reading.assertion = "NONE" /\ ~reading.marker /\ ~reading.small
       /\ ~reading.unstable /\ ~reading.disagreement
       /\ \A f \in DOMAIN reading.families : reading.families[f].level = "LOW"
       /\ Cardinality({f \in DOMAIN reading.families :
                         reading.families[f].verified /\ reading.families[f].calibrated}) >= MinFamilies

\* The policy's pass and the other readers never contradict each other: what passes is
\* not shown as possible misuse, no notice can be drafted against it, and where the
\* origin check is required it was clean (evidence_assessment.py, admin_review.py:97-101).
PassIsNoMisuse ==
  packet.action = "PASS_BY_POLICY" =>
    /\ ~DraftAllowed
    /\ \/ Verdict \in {"RECORDED_AUTHORIZED_REUSE", "NO_MISUSE_ESTABLISHED_IN_CHECKED_SOURCES"}
       \/ ~accepted.rules.corroborated /\ ~Denied
    /\ accepted.rules.honorMode /\ accepted.mode = "REQUIRED" =>
         origin = "NO_AI_ORIGIN_EVIDENCE_DETECTED"

\* Whoever says that a person must look puts the scan where people look: a case is
\* opened, and the inbox, whose filter repeats the rule in SQL, shows exactly the scans
\* with a case ("SQL counterpart to review_signal", routes/admin.py:244).  A matrix that
\* abstains because detectors disagree is the exception.
HumanReviewIsQueued ==
  step = "notified" =>
    /\ HumanReviewRequired \/ Abstention \notin {"NONE", "CONTRADICTORY"} => filed
    /\ filed <=> InboxShows

\* providers/geometry.py:288: "The relaxed pass is returned as an alignment still
\* needing corroboration".  It fails: a relaxed pass that meets every gate is graded
\* STRICT, is not returned, and the pixels under it are never compared.
RelaxedPassIsReturned ==
  \A w \in kept : LET m == measure[w]
    IN Nomination(m) >= Floor.escalation /\ m.relaxed # "NONE" => Aligned(m).grade # "NONE"
================================================================================
