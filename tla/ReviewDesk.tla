------------------------------- MODULE ReviewDesk -------------------------------
(***************************************************************************)
(* The people around one flagged, completed scan with a match: the review     *)
(* case (services/review.py, api/routes/review.py) opened by the notify stage,  *)
(* by the operator's button or by storing the comparison, the actions reviewers *)
(* take on it, the assistant's investigations and the decisions on their output *)
(* (api/routes/investigations.py), and takedown notices (api/routes/admin.py).  *)
(*                                                                         *)
(* A request reads in one step and writes in a later one; between the two any   *)
(* other request may run.  SELECT .. FOR UPDATE is not modelled: SQLite ignores  *)
(* it, and the lock only takes interleavings away.                            *)
(***************************************************************************)
EXTENDS Naturals, Sequences

CONSTANTS
  Desk,            \* requests served at a time
  Person, Nobody,  \* assignees
  Run,             \* investigation runs
  Ask,             \* what reviewers may post: [decides, state, disposition, assignee]
  NoCase, Keep,    \* no row; a field the request leaves out
  MaxRequests

CaseState == {"OPEN", "IN_REVIEW", "AWAITING_INFORMATION", "DISPUTED", "RESOLVED", "CLOSED"}
Settled == {"RESOLVED", "CLOSED"}
Disposition == {"NOT_DECIDED", "APPROVED_FOR_PUBLICATION", "REJECTED_FOR_PUBLICATION",
                "ESCALATED", "NEEDS_LICENSE"}
Decision == {"ACCEPTED", "EDITED", "REJECTED"}

\* A row: what its events record, the length of the trail at its last decision, and
\* whether it names the result statement.
CaseRow == [state : CaseState, disposition : Disposition, assignee : Person \cup {Nobody},
            resolved : Nat, bound : BOOLEAN]

ASSUME DeskAssumption ==
  /\ Nobody \notin Person /\ Keep \notin Person
  /\ NoCase \notin CaseRow
  /\ MaxRequests \in Nat
  /\ Ask \subseteq [decides : BOOLEAN, state : CaseState \cup {Keep},
                    disposition : Disposition \cup {Keep},
                    assignee : Person \cup {Nobody, Keep}]
  /\ \A a \in Ask : a.decides => a.disposition # Keep   \* 422 otherwise

\* _ALLOWED_TRANSITIONS
Allowed ==
  [OPEN |-> CaseState \ {"OPEN"},
   IN_REVIEW |-> CaseState \ {"OPEN", "IN_REVIEW"},
   AWAITING_INFORMATION |-> CaseState \ {"OPEN", "AWAITING_INFORMATION"},
   DISPUTED |-> CaseState \ {"OPEN", "AWAITING_INFORMATION", "DISPUTED"},
   RESOLVED |-> {"CLOSED", "IN_REVIEW"},
   CLOSED |-> {"IN_REVIEW"}]

VARIABLES
  case,      \* NoCase or the row: state, disposition, assignee, resolved, bound
  trail,     \* its review events that carry its standing, in commit order
  signed,    \* signed integrity events: which of them named the statement
  runs,      \* investigation runs with their output's decision and their notice
  reviews,   \* INVESTIGATION_REVIEWED audit rows of each run
  notified,  \* an attempt of the notify stage went through
  desk,      \* the requests in flight
  requests   \* how many there were

vars == <<case, trail, signed, runs, reviews, notified, desk, requests>>

Idle == [task |-> "idle"]
NewRun == [status |-> "NONE", notice |-> FALSE, decision |-> "NONE", draft |-> "NONE"]

Init ==
  /\ case = NoCase /\ trail = <<>> /\ signed = <<>>
  /\ runs = [r \in Run |-> NewRun] /\ reviews = [r \in Run |-> <<>>]
  /\ notified = FALSE
  /\ desk = [d \in Desk |-> Idle] /\ requests = 0

\* What the events record of a case and the compare-and-set compares.
Standing(c) == [state |-> c.state, disposition |-> c.disposition, assignee |-> c.assignee]

Take(d, work) ==
  /\ desk[d] = Idle /\ requests < MaxRequests
  /\ requests' = requests + 1
  /\ desk' = [desk EXCEPT ![d] = work]

Leave(d) == desk' = [desk EXCEPT ![d] = Idle]

--------------------------------------------------------------------------------
(* The case. *)

\* open_review_case_if_needed looks for the case: from the notify stage, which knows
\* the result statement, runs one at a time and may be repeated, or from an operator, who does not.
LookForCase(d, stage) ==
  /\ stage => \A e \in Desk : desk[e].task = "open" => ~desk[e].stage
  /\ Take(d, [task |-> "open", seen |-> case, stage |-> stage])
  /\ UNCHANGED <<case, trail, signed, runs, reviews, notified>>

Created(stage) ==
  [state |-> "OPEN", disposition |-> "NOT_DECIDED", assignee |-> Nobody, resolved |-> 0,
   bound |-> stage]

\* Inserts the case; the unique (tenant, scan) refuses a second one, which fails the
\* stage (it is tried again) and is answered with the first case to an operator.
InsertCase(d) ==
  /\ desk[d].task = "open" /\ desk[d].seen = NoCase
  /\ IF case = NoCase
     THEN /\ case' = Created(desk[d].stage)
          /\ trail' = Append(trail, [kind |-> "CREATED", from |-> NoCase, to |-> Standing(case')])
          /\ signed' = Append(signed, desk[d].stage)
          /\ notified' = (notified \/ desk[d].stage)
     ELSE UNCHANGED <<case, trail, signed, notified>>
  /\ Leave(d)
  /\ UNCHANGED <<runs, reviews, requests>>

\* Variant: a case that exists is taken as it is.
FindCase(d) ==
  /\ desk[d].task = "open" /\ desk[d].seen # NoCase
  /\ notified' = (notified \/ desk[d].stage)
  /\ Leave(d)
  /\ UNCHANGED <<case, trail, signed, runs, reviews, requests>>

\* A case opened before the statement was known is bound to it, with an event of its own.
BindCase(d) ==
  /\ desk[d].task = "open" /\ desk[d].seen # NoCase
  /\ IF desk[d].stage /\ ~desk[d].seen.bound
     THEN case' = [case EXCEPT !.bound = TRUE] /\ signed' = Append(signed, TRUE)
     ELSE UNCHANGED <<case, signed>>
  /\ notified' = (notified \/ desk[d].stage)
  /\ Leave(d)
  /\ UNCHANGED <<trail, runs, reviews, requests>>

\* append_action reads the case and checks the request against it.
ReadCase(d, ask) ==
  /\ case # NoCase
  /\ ask.state # Keep => ask.state \in Allowed[case.state]
  /\ ask.decides => case.state \notin Settled
  /\ Take(d, [task |-> "act", seen |-> case, ask |-> ask])
  /\ UNCHANGED <<case, trail, signed, runs, reviews, notified>>

Choose(asked, otherwise) == IF asked = Keep THEN otherwise ELSE asked

\* The row after the request, computed from the row it read.
Acted(seen, ask) ==
  [seen EXCEPT
     !.state = IF ask.decides THEN "RESOLVED" ELSE Choose(ask.state, seen.state),
     !.disposition = IF ask.decides THEN ask.disposition ELSE seen.disposition,
     !.assignee = Choose(ask.assignee, seen.assignee),
     !.resolved = IF ask.decides THEN Len(trail) + 1 ELSE seen.resolved]

\* Variant: the row is the one that was read.
Current(seen) == case # NoCase

\* The UPDATE's conditions.
StillStands(seen) == Standing(case) = Standing(seen)

\* Writes the event and the row together, or neither (409 STALE_REVIEW_CASE).
WriteAction(d) ==
  /\ desk[d].task = "act"
  /\ LET seen == desk[d].seen  new == Acted(seen, desk[d].ask)
     IN IF StillStands(seen)
        THEN /\ case' = [new EXCEPT !.bound = case.bound]
             /\ trail' = Append(trail, [kind |-> IF desk[d].ask.decides THEN "DECIDED" ELSE "ACTED",
                                        from |-> Standing(seen), to |-> Standing(new)])
        ELSE UNCHANGED <<case, trail>>
  /\ Leave(d)
  /\ UNCHANGED <<signed, runs, reviews, notified, requests>>

--------------------------------------------------------------------------------
(* Investigations and notices. *)

\* copyright_draft_block_reason for a match whose work is there and which no policy
\* passed: what is left of it is the case.
Approved == case # NoCase /\ case.state \in Settled /\ case.disposition = "APPROVED_FOR_PUBLICATION"

\* investigate_scan, or create_takedown_draft past its gate: the run is committed and
\* the assistant asked.
Investigate(d, r, notice) ==
  /\ runs[r].status = "NONE" /\ notice => ~Approved
  /\ Take(d, [task |-> "await", run |-> r])
  /\ runs' = [runs EXCEPT ![r].status = "RUNNING", ![r].notice = notice]
  /\ UNCHANGED <<case, trail, signed, reviews, notified>>

\* The assistant answers or fails.  A notice is drafted either way, from the template
\* when there is no answer, and the case is not looked at again.
Answer(d, well) ==
  /\ desk[d].task = "await"
  /\ LET r == desk[d].run
     IN runs' = [runs EXCEPT ![r].status = IF well THEN "COMPLETED" ELSE "FAILED",
                             ![r].draft = IF runs[r].notice THEN "DRAFT" ELSE "NONE"]
  /\ Leave(d)
  /\ UNCHANGED <<case, trail, signed, reviews, notified, requests>>

\* mark_takedown_sent; SENT is written by nobody.
SendNotice(r, how) ==
  /\ runs[r].draft \notin {"NONE", how}
  /\ runs' = [runs EXCEPT ![r].draft = how]
  /\ UNCHANGED <<case, trail, signed, reviews, notified, desk, requests>>

\* decide_investigation reads the output.
ReadOutput(d, r, decision) ==
  /\ runs[r].status = "COMPLETED" /\ runs[r].decision = "NONE"
  /\ Take(d, [task |-> "decide", run |-> r, decision |-> decision])
  /\ UNCHANGED <<case, trail, signed, runs, reviews, notified>>

\* Variant: the check made when the output was read is trusted.
Decidable(r) == runs[r].status = "COMPLETED"

\* ... WHERE human_decision IS NULL
Undecided(r) == runs[r].decision = "NONE"

WriteDecision(d) ==
  /\ desk[d].task = "decide"
  /\ LET r == desk[d].run
     IN IF Undecided(r)
        THEN /\ runs' = [runs EXCEPT ![r].decision = desk[d].decision]
             /\ reviews' = [reviews EXCEPT ![r] = Append(@, desk[d].decision)]
        ELSE UNCHANGED <<runs, reviews>>
  /\ Leave(d)
  /\ UNCHANGED <<case, trail, signed, notified, requests>>

\* The process dies, or the client goes away: nothing more is written.
Crash(d) ==
  /\ desk[d] # Idle /\ Leave(d)
  /\ UNCHANGED <<case, trail, signed, runs, reviews, notified, requests>>

Next ==
  \/ \E d \in Desk :
       \/ \E stage \in BOOLEAN : LookForCase(d, stage)
       \/ InsertCase(d) \/ BindCase(d)
       \/ \E ask \in Ask : ReadCase(d, ask)
       \/ WriteAction(d)
       \/ \E r \in Run, notice \in BOOLEAN : Investigate(d, r, notice)
       \/ \E well \in BOOLEAN : Answer(d, well)
       \/ \E r \in Run, decision \in Decision : ReadOutput(d, r, decision)
       \/ WriteDecision(d)
       \/ Crash(d)
  \/ \E r \in Run, how \in {"MAILTO_OPENED", "READY_FOR_MANUAL_SUBMISSION"} : SendNotice(r, how)

Spec == Init /\ [][Next]_vars

--------------------------------------------------------------------------------
(* Properties. *)

Position == [state : CaseState, disposition : Disposition, assignee : Person \cup {Nobody}]
Event == [kind : {"CREATED", "ACTED", "DECIDED"}, from : Position \cup {NoCase}, to : Position]
RunRow ==
  [status : {"NONE", "RUNNING", "COMPLETED", "FAILED"}, notice : BOOLEAN,
   decision : Decision \cup {"NONE"},
   draft : {"NONE", "DRAFT", "MAILTO_OPENED", "READY_FOR_MANUAL_SUBMISSION"}]
Work ==
  {Idle} \cup [task : {"open"}, seen : CaseRow \cup {NoCase}, stage : BOOLEAN]
    \cup [task : {"act"}, seen : CaseRow, ask : Ask]
    \cup [task : {"await"}, run : Run]
    \cup [task : {"decide"}, run : Run, decision : Decision]

DeskTypeOK ==
  /\ case \in CaseRow \cup {NoCase}
  /\ trail \in Seq(Event)
  /\ signed \in Seq(BOOLEAN)
  /\ runs \in [Run -> RunRow]
  /\ reviews \in [Run -> Seq(Decision)]
  /\ desk \in [Desk -> Work]
  /\ notified \in BOOLEAN /\ requests \in Nat

\* "Immutable reviewer action.  Every action is attributable" (models.py:1303): the
\* events of a case account for it.  One CREATED comes first, every event starts from
\* the standing its predecessor left, and the row is what the last one says.
TrailTellsTheCase ==
  IF case = NoCase THEN trail = <<>>
  ELSE /\ trail # <<>> /\ trail[Len(trail)].to = Standing(case)
       /\ \A i \in 1..Len(trail) :
            /\ (trail[i].kind = "CREATED") <=> (i = 1)
            /\ i > 1 => trail[i].from = trail[i - 1].to

\* "This review case already has a recorded decision" (routes/review.py:142): of two
\* reviewers who decide at the same time one is refused, and a decision is replaced
\* only after someone reopened the case.
DecisionStandsUntilReopened ==
  \A j \in 1..Len(trail) : trail[j].kind = "DECIDED" =>
    \A i \in 1..(j - 1) : trail[i].kind = "DECIDED" =>
      \E k \in (i + 1)..(j - 1) : trail[i].to.state \in Settled /\ trail[k].to.state = "IN_REVIEW"

\* Whoever opened the case first, once the notify stage is done the case names the
\* result statement, and exactly one signed event says so (services/review.py:92-119).
CaseNamesItsStatement ==
  notified =>
    /\ case # NoCase /\ case.bound
    /\ \E i \in 1..Len(signed) : \A j \in 1..Len(signed) : signed[j] <=> (j = i)

\* "Compare-and-set protects SQLite as well as PostgreSQL when two operators submit a
\* disposition simultaneously" (routes/investigations.py:272): an output has at most
\* one decision, it never changes, and its one review artefact is the same decision.
OneHumanDecision ==
  \A r \in Run : reviews[r] = IF runs[r].decision = "NONE" THEN <<>> ELSE <<runs[r].decision>>

--------------------------------------------------------------------------------
(* What the code does not promise. *)

\* A notice is not drafted for a case whose publication the operator approved
\* (admin_review.py:93-96).  It fails: the case is read before the assistant is asked.
NoNoticeAfterApproval ==
  [][\A r \in Run : runs[r].draft = "NONE" /\ runs'[r].draft = "DRAFT" => ~Approved]_vars

\* resolved_at is the time of the last decision.  It fails: the compare-and-set leaves
\* resolved_at out, so a request that read the case before it was decided again and
\* reopened writes the old time back.
ResolvedByLastDecision ==
  case # NoCase =>
    \A i \in 1..Len(trail) : trail[i].kind = "DECIDED" => i <= case.resolved
================================================================================
