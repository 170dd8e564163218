---------------------------- MODULE ReviewDeskProofs ----------------------------
(***************************************************************************)
(* The case keeps its word between a reviewer's read and write: DeskInv is  *)
(* inductive, for every number of requests in flight, every set of reviewers, *)
(* runs and posts.  What it adds to the properties is about the requests in  *)
(* flight: what they read still binds what they may write.                 *)
(***************************************************************************)
EXTENDS ReviewDesk, TLAPS

\* The first event opens the case, every later one starts where its predecessor ended.
TrailIsLinked ==
  \A i \in 1..Len(trail) :
    /\ (trail[i].kind = "CREATED") <=> (i = 1)
    /\ i > 1 => trail[i].from = trail[i - 1].to

\* The row is what the last event says.
RowIsLastEvent ==
  IF case = NoCase THEN trail = <<>>
  ELSE trail # <<>> /\ trail[Len(trail)].to = Standing(case)

\* A request in flight was allowed by the row it read.
RequestFitsWhatItRead ==
  \A d \in Desk : desk[d].task = "act" =>
    /\ case # NoCase
    /\ desk[d].ask.state # Keep => desk[d].ask.state \in Allowed[desk[d].seen.state]
    /\ desk[d].ask.decides => desk[d].seen.state \notin Settled

\* A decision leaves the case settled until an event reopens it.
SettledUntilReopened ==
  \A i \in 1..Len(trail) : trail[i].kind = "DECIDED" =>
    /\ trail[i].to.state \in Settled
    /\ \/ trail[Len(trail)].to.state \in Settled
       \/ \E k \in (i + 1)..Len(trail) : trail[k].to.state = "IN_REVIEW"

\* Only the one notify stage binds a case that exists, so what it read of that is current.
OpenersKnowTheBinding ==
  \A d \in Desk : desk[d].task = "open" =>
    /\ desk[d].seen # NoCase => case # NoCase
    /\ desk[d].seen # NoCase /\ desk[d].stage => desk[d].seen.bound = case.bound
    /\ desk[d].stage =>
         \A e \in Desk : desk[e].task = "open" /\ desk[e].stage => e = d

\* One signed event names the statement once the case does, and none before.
BindingIsSigned ==
  /\ notified => case # NoCase /\ case.bound
  /\ IF case # NoCase /\ case.bound
     THEN \E i \in 1..Len(signed) : \A j \in 1..Len(signed) : signed[j] <=> (j = i)
     ELSE \A j \in 1..Len(signed) : ~signed[j]

\* The invariant of the case alone, without the runs.
CaseInv ==
  /\ TrailIsLinked /\ RowIsLastEvent /\ RequestFitsWhatItRead
  /\ SettledUntilReopened /\ DecisionStandsUntilReopened
  /\ OpenersKnowTheBinding /\ BindingIsSigned

DeskInv == DeskTypeOK /\ CaseInv /\ OneHumanDecision

--------------------------------------------------------------------------------
(* What a request in flight carries, and what a step that only moves requests keeps. *)

\* What a request carries is told by its task.
LEMMA WorkOfTask ==
  ASSUME NEW w \in Work
  PROVE  /\ w.task = "open" => w.seen \in CaseRow \cup {NoCase} /\ w.stage \in BOOLEAN
         /\ w.task = "act" => w.seen \in CaseRow /\ w.ask \in Ask
         /\ w.task = "await" => w.run \in Run
         /\ w.task = "decide" => w.run \in Run /\ w.decision \in Decision
  BY DEF Work, Idle

\* A standing is a position.
LEMMA StandingTyped ==
  ASSUME NEW c \in CaseRow
  PROVE  Standing(c) \in Position
  BY DEF Standing, CaseRow, Position

\* Starting or ending a request that may start keeps the case's invariant.
LEMMA RequestMoves ==
  ASSUME NEW d \in Desk, NEW work \in Work, DeskInv,
         desk' = [desk EXCEPT ![d] = work],
         UNCHANGED <<case, trail, signed, notified>>,
         work.task = "act" =>
           /\ case # NoCase
           /\ work.ask.state # Keep => work.ask.state \in Allowed[work.seen.state]
           /\ work.ask.decides => work.seen.state \notin Settled,
         work.task = "open" =>
           /\ work.seen = case
           /\ work.stage => \A e \in Desk : ~(desk[e].task = "open" /\ desk[e].stage)
  PROVE  CaseInv' /\ desk' \in [Desk -> Work]
<1>1. desk' \in [Desk -> Work] /\ \A e \in Desk : desk'[e] = IF e = d THEN work ELSE desk[e]
  BY DEF DeskInv, DeskTypeOK
<1>2. TrailIsLinked' /\ RowIsLastEvent' /\ SettledUntilReopened' /\ DecisionStandsUntilReopened'
        /\ BindingIsSigned'
  <2>1. TrailIsLinked' /\ RowIsLastEvent'
    BY DEF DeskInv, CaseInv, TrailIsLinked, RowIsLastEvent, Standing
  <2>2. SettledUntilReopened' /\ DecisionStandsUntilReopened'
    BY DEF DeskInv, CaseInv, SettledUntilReopened, DecisionStandsUntilReopened
  <2>3. BindingIsSigned'
    BY DEF DeskInv, CaseInv, BindingIsSigned
  <2>. QED  BY <2>1, <2>2, <2>3
<1>3. RequestFitsWhatItRead'
  BY <1>1 DEF DeskInv, CaseInv, RequestFitsWhatItRead
<1>4. OpenersKnowTheBinding'
  BY <1>1 DEF DeskInv, CaseInv, OpenersKnowTheBinding
<1>. QED  BY <1>1, <1>2, <1>3, <1>4 DEF CaseInv

\* A request that ends carries nothing.
LEMMA LeaveMoves ==
  ASSUME NEW d \in Desk, DeskInv, Leave(d), UNCHANGED <<case, trail, signed, notified>>
  PROVE  CaseInv' /\ desk' \in [Desk -> Work]
<1>1. Idle \in Work /\ Idle.task = "idle"
  BY DEF Idle, Work
<1>. QED  BY <1>1, RequestMoves DEF Leave

\* Initially nobody asked for anything and there is no case.
LEMMA InitInv == Init => DeskInv
<1> SUFFICES ASSUME Init PROVE DeskInv
  OBVIOUS
<1>1. Idle \in Work /\ Idle.task = "idle"
  BY DEF Idle, Work
<1>2. DeskTypeOK
  <2>1. trail \in Seq(Event) /\ signed \in Seq(BOOLEAN) /\ reviews \in [Run -> Seq(Decision)]
    BY DEF Init
  <2>2. runs \in [Run -> RunRow]
    BY DEF Init, NewRun, RunRow
  <2>. QED  BY <1>1, <2>1, <2>2 DEF Init, DeskTypeOK
<1>3. CaseInv
  BY <1>1 DEF Init, CaseInv, TrailIsLinked, RowIsLastEvent, RequestFitsWhatItRead,
         SettledUntilReopened, DecisionStandsUntilReopened, OpenersKnowTheBinding, BindingIsSigned
<1>4. OneHumanDecision
  BY DEF Init, OneHumanDecision, NewRun
<1>. QED  BY <1>2, <1>3, <1>4 DEF DeskInv

LEMMA LookForCaseInv ==
  ASSUME NEW d \in Desk, NEW stage \in BOOLEAN, DeskInv, LookForCase(d, stage)
  PROVE  DeskInv'
<1> DEFINE work == [task |-> "open", seen |-> case, stage |-> stage]
<1>1. work \in Work /\ work.task = "open" /\ work.seen = case /\ work.stage = stage
  BY DEF DeskInv, DeskTypeOK, Work
<1>2. desk' = [desk EXCEPT ![d] = work] /\ requests' = requests + 1
        /\ UNCHANGED <<case, trail, signed, runs, reviews, notified>>
  BY DEF LookForCase, Take
<1>3. stage => \A e \in Desk : ~(desk[e].task = "open" /\ desk[e].stage)
  BY DEF LookForCase
<1> HIDE DEF work
<1>4. CaseInv' /\ desk' \in [Desk -> Work]
  BY <1>1, <1>2, <1>3, RequestMoves
<1>5. DeskTypeOK' /\ OneHumanDecision'
  BY <1>2, <1>4 DEF DeskInv, DeskTypeOK, OneHumanDecision
<1>. QED  BY <1>4, <1>5 DEF DeskInv

LEMMA ReadCaseInv ==
  ASSUME NEW d \in Desk, NEW ask \in Ask, DeskInv, ReadCase(d, ask)
  PROVE  DeskInv'
<1> DEFINE work == [task |-> "act", seen |-> case, ask |-> ask]
<1>1. work \in Work /\ work.task = "act" /\ work.seen = case /\ work.ask = ask
  BY DEF DeskInv, DeskTypeOK, Work, ReadCase
<1>2. /\ desk' = [desk EXCEPT ![d] = work] /\ requests' = requests + 1
      /\ UNCHANGED <<case, trail, signed, runs, reviews, notified>>
  BY DEF ReadCase, Take
<1>3. /\ case # NoCase
      /\ ask.state # Keep => ask.state \in Allowed[case.state]
      /\ ask.decides => case.state \notin Settled
  BY DEF ReadCase
<1> HIDE DEF work
<1>4. CaseInv' /\ desk' \in [Desk -> Work]
  BY <1>1, <1>2, <1>3, RequestMoves
<1>5. DeskTypeOK' /\ OneHumanDecision'
  BY <1>2, <1>4 DEF DeskInv, DeskTypeOK, OneHumanDecision
<1>. QED  BY <1>4, <1>5 DEF DeskInv

--------------------------------------------------------------------------------
(* The writers of the case. *)

\* Appending to events none of which names the statement makes one or none that does.
LEMMA FirstToName ==
  ASSUME NEW events \in Seq(BOOLEAN), \A j \in 1..Len(events) : ~events[j], NEW names \in BOOLEAN
  PROVE  LET more == Append(events, names) IN
         IF names
         THEN \E i \in 1..Len(more) : \A j \in 1..Len(more) : more[j] <=> (j = i)
         ELSE \A j \in 1..Len(more) : ~more[j]
<1> DEFINE more == Append(events, names)
           n == Len(events)
<1>1. n \in Nat /\ Len(more) = n + 1 /\ more[n + 1] = names
  OBVIOUS
<1>2. \A j \in 1..n : more[j] = events[j]
  OBVIOUS
<1>3. \A j \in 1..n : ~more[j]
  BY <1>2, Zenon
<1>4. \A j \in 1..Len(more) : j \in 1..n \/ j = n + 1
  BY <1>1
<1>5. n + 1 \in 1..Len(more) /\ n + 1 \notin 1..n
  BY <1>1
<1> HIDE DEF more, n
<1>6. CASE names
  <2>1. \A j \in 1..Len(more) : more[j] <=> (j = n + 1)
    BY <1>1, <1>3, <1>4, <1>5, <1>6, Zenon
  <2>. QED  BY <1>5, <1>6, <2>1, Zenon DEF more
<1>7. CASE ~names
  <2>1. \A j \in 1..Len(more) : ~more[j]
    BY <1>1, <1>3, <1>4, <1>7, Zenon
  <2>. QED  BY <1>7, <2>1, Zenon DEF more
<1>. QED  BY <1>6, <1>7

\* The insert makes the first event and the first signed event together, or nothing.
LEMMA InsertCaseInv ==
  ASSUME NEW d \in Desk, DeskInv, InsertCase(d)
  PROVE  DeskInv'
<1> DEFINE stage == desk[d].stage
           opened == [kind |-> "CREATED", from |-> NoCase, to |-> Standing(Created(stage))]
<1>1. desk[d].task = "open" /\ desk[d].seen = NoCase /\ stage \in BOOLEAN
  BY WorkOfTask DEF InsertCase, DeskInv, DeskTypeOK
<1>2. CASE case # NoCase
  <2>1. Leave(d) /\ UNCHANGED <<case, trail, signed, notified, runs, reviews, requests>>
    BY <1>2 DEF InsertCase
  <2>2. CaseInv' /\ desk' \in [Desk -> Work]
    BY <2>1, LeaveMoves
  <2>. QED  BY <2>1, <2>2 DEF DeskInv, DeskTypeOK, OneHumanDecision
<1>3. CASE case = NoCase
  <2>1. /\ case' = Created(stage) /\ trail' = Append(trail, opened)
        /\ signed' = Append(signed, stage) /\ notified' = (notified \/ stage)
        /\ desk' = [desk EXCEPT ![d] = Idle] /\ UNCHANGED <<runs, reviews, requests>>
    BY <1>3 DEF InsertCase, Leave
  <2>2. Created(stage) \in CaseRow /\ Created(stage).bound = stage
    BY <1>1 DEF Created, CaseRow, CaseState, Disposition
  <2>3. opened \in Event /\ opened.kind = "CREATED" /\ opened.to = Standing(Created(stage))
    BY <2>2, StandingTyped DEF Event
  <2>4. Idle \in Work /\ Idle.task = "idle"
    BY DEF Idle, Work
  <2> HIDE DEF stage, opened
  <2>5. case' # NoCase
    BY <2>1, <2>2, DeskAssumption
  <2>6. trail = <<>> /\ ~notified
    BY <1>3 DEF DeskInv, CaseInv, RowIsLastEvent, BindingIsSigned
  <2>7. Len(trail') = 1 /\ trail'[1] = opened
    BY <2>1, <2>3, <2>6
  <2>8. DeskTypeOK'
    BY <1>1, <2>1, <2>2, <2>3, <2>4 DEF DeskInv, DeskTypeOK
  <2>9. TrailIsLinked' /\ RowIsLastEvent' /\ SettledUntilReopened' /\ DecisionStandsUntilReopened'
    BY <2>1, <2>3, <2>5, <2>7
    DEF TrailIsLinked, RowIsLastEvent, SettledUntilReopened, DecisionStandsUntilReopened
  <2>10. \A e \in Desk : desk'[e] = IF e = d THEN Idle ELSE desk[e]
    BY <2>1 DEF DeskInv, DeskTypeOK
  <2>11. RequestFitsWhatItRead' /\ OpenersKnowTheBinding'
    BY <1>3, <2>4, <2>5, <2>10
    DEF DeskInv, CaseInv, RequestFitsWhatItRead, OpenersKnowTheBinding
  <2>12. BindingIsSigned'
    <3>1. signed \in Seq(BOOLEAN) /\ \A j \in 1..Len(signed) : ~signed[j]
      BY <1>3 DEF DeskInv, DeskTypeOK, CaseInv, BindingIsSigned
    <3>2. case'.bound = stage /\ (notified' <=> stage)
      BY <2>1, <2>2, <2>6
    <3>3. IF stage
          THEN \E i \in 1..Len(signed') : \A j \in 1..Len(signed') : signed'[j] <=> (j = i)
          ELSE \A j \in 1..Len(signed') : ~signed'[j]
      BY <1>1, <2>1, <3>1, FirstToName
    <3>. QED  BY <1>1, <2>5, <3>2, <3>3, Zenon DEF BindingIsSigned
  <2>13. OneHumanDecision'
    BY <2>1 DEF DeskInv, OneHumanDecision
  <2>. QED  BY <2>8, <2>9, <2>11, <2>12, <2>13 DEF DeskInv, CaseInv
<1>. QED  BY <1>2, <1>3

\* What the stage read of the binding still holds when it binds, so the event it signs
\* is the first to name the statement.
LEMMA BindCaseInv ==
  ASSUME NEW d \in Desk, DeskInv, BindCase(d)
  PROVE  DeskInv'
<1> DEFINE stage == desk[d].stage
<1>1. /\ desk[d].task = "open" /\ desk[d].seen \in CaseRow /\ stage \in BOOLEAN
      /\ case # NoCase /\ case \in CaseRow
      /\ stage => desk[d].seen.bound = case.bound
  BY WorkOfTask DEF BindCase, DeskInv, DeskTypeOK, CaseInv, OpenersKnowTheBinding
<1>2. desk' = [desk EXCEPT ![d] = Idle] /\ UNCHANGED <<trail, runs, reviews, requests>>
        /\ notified' = (notified \/ stage)
  BY DEF BindCase, Leave
<1>3. IF stage /\ ~case.bound
      THEN case' = [case EXCEPT !.bound = TRUE] /\ signed' = Append(signed, TRUE)
      ELSE UNCHANGED <<case, signed>>
  BY <1>1 DEF BindCase
<1>4. Idle \in Work /\ Idle.task = "idle"
  BY DEF Idle, Work
<1>5. /\ case' \in CaseRow /\ Standing(case') = Standing(case)
      /\ case'.bound = (case.bound \/ stage)
  BY <1>1, <1>3 DEF CaseRow, Standing
<1>6. case' # NoCase
  BY <1>5, DeskAssumption
<1>7. DeskTypeOK'
  <2>1. signed' \in Seq(BOOLEAN)
    <3>1. signed \in Seq(BOOLEAN)
      BY DEF DeskInv, DeskTypeOK
    <3>2. signed' = signed \/ signed' = Append(signed, TRUE)
      BY <1>3
    <3>3. \A names \in BOOLEAN : Append(signed, names) \in Seq(BOOLEAN)
      BY <3>1
    <3>. QED  BY <3>1, <3>2, <3>3
  <2>2. notified' \in BOOLEAN
    BY <1>1, <1>2 DEF DeskInv, DeskTypeOK
  <2>. QED  BY <1>2, <1>4, <1>5, <2>1, <2>2 DEF DeskInv, DeskTypeOK
<1>8. TrailIsLinked' /\ RowIsLastEvent' /\ SettledUntilReopened' /\ DecisionStandsUntilReopened'
  <2>1. TrailIsLinked' /\ RowIsLastEvent'
    BY <1>1, <1>2, <1>5, <1>6 DEF DeskInv, CaseInv, TrailIsLinked, RowIsLastEvent
  <2>2. SettledUntilReopened' /\ DecisionStandsUntilReopened'
    BY <1>2 DEF DeskInv, CaseInv, SettledUntilReopened, DecisionStandsUntilReopened
  <2>. QED  BY <2>1, <2>2
<1>9. \A e \in Desk : desk'[e] = IF e = d THEN Idle ELSE desk[e]
  BY <1>2 DEF DeskInv, DeskTypeOK
<1>10. RequestFitsWhatItRead'
  BY <1>4, <1>6, <1>9 DEF DeskInv, CaseInv, RequestFitsWhatItRead
<1>11. OpenersKnowTheBinding'
  <2>1. ASSUME NEW e \in Desk, desk'[e].task = "open", desk'[e].stage
        PROVE  desk'[e] = desk[e] /\ e # d /\ case' = case
    <3>1. e # d /\ desk'[e] = desk[e]
      BY <1>4, <1>9, <2>1
    <3>2. ~stage
      BY <1>1, <2>1, <3>1 DEF DeskInv, CaseInv, OpenersKnowTheBinding
    <3>. QED  BY <1>3, <3>1, <3>2
  <2>. QED  BY <1>4, <1>6, <1>9, <2>1 DEF DeskInv, CaseInv, OpenersKnowTheBinding
<1>12. BindingIsSigned'
  <2>1. CASE stage /\ ~case.bound
    <3>1. signed \in Seq(BOOLEAN) /\ \A j \in 1..Len(signed) : ~signed[j]
      BY <2>1 DEF DeskInv, DeskTypeOK, CaseInv, BindingIsSigned
    <3>2. \E i \in 1..Len(signed') : \A j \in 1..Len(signed') : signed'[j] <=> (j = i)
      <4>1. signed' = Append(signed, TRUE)
        BY <1>3, <2>1
      <4> DEFINE names == TRUE
      <4>2. names \in BOOLEAN /\ names /\ signed' = Append(signed, names)
        BY <4>1
      <4> HIDE DEF names
      <4>. QED  BY <3>1, <4>2, FirstToName
    <3>3. case'.bound = TRUE
      BY <1>5, <2>1
    <3>. QED  BY <1>6, <3>2, <3>3, Zenon DEF BindingIsSigned
  <2>2. CASE ~(stage /\ ~case.bound)
    BY <1>1, <1>2, <1>3, <2>2 DEF DeskInv, CaseInv, BindingIsSigned
  <2>. QED  BY <2>1, <2>2
<1>13. OneHumanDecision'
  BY <1>2 DEF DeskInv, OneHumanDecision
<1>. QED  BY <1>7, <1>8, <1>10, <1>11, <1>12, <1>13 DEF DeskInv, CaseInv

\* The row a request writes: it fits the table, and it leaves a settled case settled or
\* reopens it.
LEMMA ActedRow ==
  ASSUME NEW seen \in CaseRow, NEW ask \in Ask, DeskInv,
         ask.state # Keep => ask.state \in Allowed[seen.state]
  PROVE  /\ Acted(seen, ask) \in CaseRow
         /\ ask.decides => Acted(seen, ask).state = "RESOLVED"
         /\ seen.state \in Settled =>
              Acted(seen, ask).state \in Settled \cup {"IN_REVIEW"}
<1> DEFINE new == Acted(seen, ask)
<1>1. /\ ask \in [decides : BOOLEAN, state : CaseState \cup {Keep},
                  disposition : Disposition \cup {Keep}, assignee : Person \cup {Nobody, Keep}]
      /\ ask.decides => ask.disposition # Keep
  BY DeskAssumption
<1>2. /\ seen.state \in CaseState /\ seen.disposition \in Disposition
      /\ seen.assignee \in Person \cup {Nobody} /\ seen.resolved \in Nat /\ seen.bound \in BOOLEAN
  BY DEF CaseRow
<1> DEFINE state == IF ask.decides THEN "RESOLVED" ELSE Choose(ask.state, seen.state)
           disposition == IF ask.decides THEN ask.disposition ELSE seen.disposition
           assignee == Choose(ask.assignee, seen.assignee)
           resolved == IF ask.decides THEN Len(trail) + 1 ELSE seen.resolved
<1>3. new = [seen EXCEPT !.state = state, !.disposition = disposition,
                         !.assignee = assignee, !.resolved = resolved]
  BY DEF Acted
<1>4. Len(trail) + 1 \in Nat
  BY DEF DeskInv, DeskTypeOK
<1>5. /\ state \in CaseState /\ disposition \in Disposition
      /\ assignee \in Person \cup {Nobody} /\ resolved \in Nat
  BY <1>1, <1>2, <1>4 DEF Choose, CaseState
<1>6. state = IF ask.decides THEN "RESOLVED" ELSE Choose(ask.state, seen.state)
  OBVIOUS
<1> HIDE DEF new, state, disposition, assignee, resolved
<1>7. new \in CaseRow /\ new.state = state
  BY <1>3, <1>5 DEF CaseRow
<1>8. seen.state \in Settled => new.state \in Settled \cup {"IN_REVIEW"}
  BY <1>6, <1>7 DEF Choose, Allowed, Settled, CaseState
<1>. QED  BY <1>6, <1>7, <1>8 DEF new

\* Rebinding a row leaves its standing.
LEMMA ReboundRow ==
  ASSUME NEW c \in CaseRow, NEW bound \in BOOLEAN
  PROVE  /\ [c EXCEPT !.bound = bound] \in CaseRow
         /\ [c EXCEPT !.bound = bound].bound = bound
         /\ Standing([c EXCEPT !.bound = bound]) = Standing(c)
<1>1. [c EXCEPT !.bound = bound] \in CaseRow
  BY DEF CaseRow
<1>2. [c EXCEPT !.bound = bound].bound = bound
  BY DEF CaseRow
<1>3. Standing([c EXCEPT !.bound = bound]) = Standing(c)
  BY DEF CaseRow, Standing
<1>. QED  BY <1>1, <1>2, <1>3

\* The compare-and-set writes the row and its event from the standing that was read, or nothing.
LEMMA WriteActionInv ==
  ASSUME NEW d \in Desk, DeskInv, WriteAction(d)
  PROVE  DeskInv'
<1> DEFINE seen == desk[d].seen
           ask == desk[d].ask
           new == Acted(seen, ask)
           event == [kind |-> IF ask.decides THEN "DECIDED" ELSE "ACTED",
                     from |-> Standing(seen), to |-> Standing(new)]
<1>1. desk[d].task = "act" /\ seen \in CaseRow /\ ask \in Ask
  BY WorkOfTask DEF WriteAction, DeskInv, DeskTypeOK
<1>2. /\ case # NoCase /\ case \in CaseRow
      /\ ask.state # Keep => ask.state \in Allowed[seen.state]
      /\ ask.decides => seen.state \notin Settled
  BY <1>1 DEF DeskInv, DeskTypeOK, CaseInv, RequestFitsWhatItRead
<1>3. Leave(d) /\ UNCHANGED <<signed, runs, reviews, notified, requests>>
  BY DEF WriteAction
<1>4. CASE ~StillStands(seen)
  <2>1. UNCHANGED <<case, trail>>
    BY <1>4 DEF WriteAction
  <2>2. CaseInv' /\ desk' \in [Desk -> Work]
    BY <1>3, <2>1, LeaveMoves
  <2>. QED  BY <1>3, <2>1, <2>2 DEF DeskInv, DeskTypeOK, OneHumanDecision
<1>5. CASE StillStands(seen)
  <2>1. /\ case' = [new EXCEPT !.bound = case.bound]
        /\ trail' = Append(trail, event)
        /\ desk' = [desk EXCEPT ![d] = Idle]
    BY <1>3, <1>5 DEF WriteAction, Leave
  <2>2. /\ new \in CaseRow
        /\ ask.decides => new.state = "RESOLVED"
        /\ seen.state \in Settled => new.state \in Settled \cup {"IN_REVIEW"}
    BY <1>1, <1>2, ActedRow
  <2>3. Standing(case) = Standing(seen) /\ case.state = seen.state
    BY <1>5 DEF StillStands, Standing
  <2>4. ask.decides \in BOOLEAN
    BY <1>1, DeskAssumption
  <2>5. /\ event \in Event /\ event.from = Standing(case) /\ event.to = Standing(new)
        /\ event.to.state = new.state
        /\ event.kind = IF ask.decides THEN "DECIDED" ELSE "ACTED"
    <3> HIDE DEF seen, new
    <3>1. Standing(seen) \in Position /\ Standing(new) \in Position
      BY <1>1, <2>2, StandingTyped
    <3>2. Standing(new).state = new.state
      BY DEF Standing
    <3>. QED  BY <2>3, <2>4, <3>1, <3>2 DEF Event
  <2>6. Idle \in Work /\ Idle.task = "idle"
    BY DEF Idle, Work
  <2> HIDE DEF seen, ask, new, event
  <2>7. /\ case' \in CaseRow /\ case' # NoCase
        /\ Standing(case') = Standing(new) /\ case'.bound = case.bound
    <3>1. case.bound \in BOOLEAN
      BY <1>2 DEF CaseRow
    <3>. QED  BY <2>1, <2>2, <3>1, ReboundRow, DeskAssumption
  <2> DEFINE n == Len(trail)
  <2>8. /\ n \in Nat \ {0} /\ Len(trail') = n + 1 /\ trail'[n + 1] = event
        /\ \A i \in 1..n : trail'[i] = trail[i]
        /\ trail[n].to = Standing(case) /\ trail[n].to.state = case.state
        /\ trail' \in Seq(Event) /\ trail' # <<>>
    <3>1. trail \in Seq(Event) /\ trail # <<>> /\ trail[n].to = Standing(case)
      BY <1>2 DEF DeskInv, DeskTypeOK, CaseInv, RowIsLastEvent
    <3>2. trail[n].to.state = case.state
      BY <3>1 DEF Standing
    <3>. QED  BY <2>1, <2>5, <3>1, <3>2
  <2>9. DeskTypeOK'
    BY <1>3, <2>1, <2>6, <2>7, <2>8 DEF DeskInv, DeskTypeOK
  <2> HIDE DEF n
  <2>10. TrailIsLinked'
    BY <2>5, <2>8 DEF DeskInv, CaseInv, TrailIsLinked, n
  <2>11. RowIsLastEvent'
    BY <2>5, <2>7, <2>8 DEF RowIsLastEvent
  <2>12. SettledUntilReopened' /\ DecisionStandsUntilReopened'
    <3>1. ASSUME NEW i \in 1..n, trail[i].kind = "DECIDED"
          PROVE  /\ trail[i].to.state \in Settled
                 /\ \/ case.state \in Settled
                    \/ \E k \in (i + 1)..n : trail[k].to.state = "IN_REVIEW"
      BY <2>8, <3>1 DEF DeskInv, CaseInv, SettledUntilReopened, n
    <3>2. ASSUME NEW i \in 1..n, NEW k \in (i + 1)..n
          PROVE  k \in 1..n /\ k \in (i + 1)..(n + 1) /\ trail'[k] = trail[k]
      BY <2>8
    <3>3. SettledUntilReopened'
      <4>1. ASSUME NEW i \in 1..n, trail'[i].kind = "DECIDED"
            PROVE  /\ trail'[i].to.state \in Settled
                   /\ \/ event.to.state \in Settled
                      \/ \E k \in (i + 1)..(n + 1) : trail'[k].to.state = "IN_REVIEW"
        <5>1. trail'[i] = trail[i] /\ n + 1 \in (i + 1)..(n + 1)
          BY <2>8
        <5>2. CASE case.state \in Settled
          BY <2>2, <2>3, <2>5, <2>8, <3>1, <4>1, <5>1, <5>2
        <5>3. CASE \E k \in (i + 1)..n : trail[k].to.state = "IN_REVIEW"
          BY <3>1, <3>2, <4>1, <5>1, <5>3
        <5>. QED  BY <3>1, <4>1, <5>1, <5>2, <5>3
      <4>2. event.kind = "DECIDED" => event.to.state \in Settled
        <5>1. event.kind = "DECIDED" => ask.decides
          BY <2>5
        <5>2. ask.decides => new.state \in Settled
          BY <2>2 DEF Settled
        <5>. QED  BY <2>5, <5>1, <5>2
      <4>. QED  BY <2>8, <4>1, <4>2 DEF SettledUntilReopened
    <3>4. DecisionStandsUntilReopened'
      <4>1. ASSUME NEW j \in 1..n, NEW i \in 1..(j - 1),
                   trail'[j].kind = "DECIDED", trail'[i].kind = "DECIDED"
            PROVE  \E k \in (i + 1)..(j - 1) :
                     trail'[i].to.state \in Settled /\ trail'[k].to.state = "IN_REVIEW"
        <5>1. i \in 1..n /\ trail'[i] = trail[i] /\ trail'[j] = trail[j]
                /\ \A k \in (i + 1)..(j - 1) : k \in 1..n /\ trail'[k] = trail[k]
          BY <2>8
        <5>. QED
          BY <4>1, <5>1 DEF DeskInv, CaseInv, DecisionStandsUntilReopened, n
      <4>2. ASSUME NEW i \in 1..n, event.kind = "DECIDED", trail'[i].kind = "DECIDED"
            PROVE  \E k \in (i + 1)..n :
                     trail'[i].to.state \in Settled /\ trail'[k].to.state = "IN_REVIEW"
        <5>1. case.state \notin Settled
          BY <1>2, <2>3, <2>4, <2>5, <4>2 DEF seen, ask
        <5>2. trail'[i] = trail[i]
          BY <2>8
        <5>. QED  BY <3>1, <3>2, <4>2, <5>1, <5>2
      <4>. QED  BY <2>8, <4>1, <4>2 DEF DecisionStandsUntilReopened
    <3>. QED  BY <3>3, <3>4
  <2>13. \A e \in Desk : desk'[e] = IF e = d THEN Idle ELSE desk[e]
    BY <2>1 DEF DeskInv, DeskTypeOK
  <2>14. RequestFitsWhatItRead'
    BY <2>6, <2>7, <2>13 DEF DeskInv, CaseInv, RequestFitsWhatItRead
  <2>15. OpenersKnowTheBinding'
    BY <2>6, <2>7, <2>13 DEF DeskInv, CaseInv, OpenersKnowTheBinding
  <2>16. BindingIsSigned'
    BY <1>2, <1>3, <2>7 DEF DeskInv, CaseInv, BindingIsSigned
  <2>17. OneHumanDecision'
    BY <1>3 DEF DeskInv, OneHumanDecision
  <2>. QED  BY <2>9, <2>10, <2>11, <2>12, <2>14, <2>15, <2>16, <2>17 DEF DeskInv, CaseInv
<1>. QED  BY <1>4, <1>5

--------------------------------------------------------------------------------
(* Investigations and notices: the case is not touched. *)

\* Replacing a run's row leaves the decisions as they are when its own stays.
LEMMA RunStep ==
  ASSUME NEW r \in Run, NEW new \in RunRow, DeskInv,
         new.decision = runs[r].decision,
         runs' = [runs EXCEPT ![r] = new],
         desk' \in [Desk -> Work], requests' \in Nat,
         UNCHANGED <<case, trail, signed, reviews, notified>>
  PROVE  DeskTypeOK' /\ OneHumanDecision'
<1>1. DeskTypeOK'
  BY DEF DeskInv, DeskTypeOK
<1>2. \A q \in Run : runs'[q].decision = runs[q].decision
  BY DEF DeskInv, DeskTypeOK
<1>3. OneHumanDecision'
  BY <1>2 DEF DeskInv, OneHumanDecision
<1>. QED  BY <1>1, <1>3

LEMMA InvestigateInv ==
  ASSUME NEW d \in Desk, NEW r \in Run, NEW notice \in BOOLEAN, DeskInv,
         Investigate(d, r, notice)
  PROVE  DeskInv'
<1> DEFINE work == [task |-> "await", run |-> r]
<1>1. work \in Work /\ work.task = "await"
  BY DEF Work
<1>2. /\ desk' = [desk EXCEPT ![d] = work] /\ requests' = requests + 1
      /\ runs' = [runs EXCEPT ![r].status = "RUNNING", ![r].notice = notice]
      /\ UNCHANGED <<case, trail, signed, reviews, notified>>
  BY DEF Investigate, Take
<1> HIDE DEF work
<1>3. CaseInv' /\ desk' \in [Desk -> Work]
  BY <1>1, <1>2, RequestMoves
<1> DEFINE new == [runs[r] EXCEPT !.status = "RUNNING", !.notice = notice]
<1>4. runs \in [Run -> RunRow] /\ runs[r] \in RunRow
  BY DEF DeskInv, DeskTypeOK
<1>5. new \in RunRow /\ new.decision = runs[r].decision
  BY <1>4 DEF RunRow
<1>6. runs' = [runs EXCEPT ![r] = new]
  BY <1>2, <1>4
<1>7. DeskTypeOK' /\ OneHumanDecision'
  <2>1. requests' \in Nat
    BY <1>2 DEF DeskInv, DeskTypeOK
  <2> HIDE DEF new
  <2>. QED  BY <1>2, <1>3, <1>5, <1>6, <2>1, RunStep
<1>. QED  BY <1>3, <1>7 DEF DeskInv

LEMMA AnswerInv ==
  ASSUME NEW d \in Desk, NEW well \in BOOLEAN, DeskInv, Answer(d, well)
  PROVE  DeskInv'
<1> PICK r \in Run :
      /\ runs' = [runs EXCEPT ![r].status = IF well THEN "COMPLETED" ELSE "FAILED",
                              ![r].draft = IF runs[r].notice THEN "DRAFT" ELSE "NONE"]
      /\ Leave(d) /\ UNCHANGED <<case, trail, signed, reviews, notified, requests>>
  BY WorkOfTask DEF Answer, DeskInv, DeskTypeOK
<1>1. CaseInv' /\ desk' \in [Desk -> Work]
  BY LeaveMoves
<1> DEFINE status == IF well THEN "COMPLETED" ELSE "FAILED"
           draft == IF runs[r].notice THEN "DRAFT" ELSE "NONE"
           new == [runs[r] EXCEPT !.status = status, !.draft = draft]
<1>2. runs \in [Run -> RunRow] /\ runs[r] \in RunRow
  BY DEF DeskInv, DeskTypeOK
<1>3. status \in {"COMPLETED", "FAILED"} /\ draft \in {"DRAFT", "NONE"}
  OBVIOUS
<1>4. runs' = [runs EXCEPT ![r] = new]
  BY <1>2
<1> HIDE DEF status, draft
<1>5. new \in RunRow /\ new.decision = runs[r].decision
  BY <1>2, <1>3 DEF RunRow
<1> HIDE DEF new
<1>6. desk' \in [Desk -> Work] /\ requests' \in Nat
  BY <1>1 DEF DeskInv, DeskTypeOK
<1>7. DeskTypeOK' /\ OneHumanDecision'
  BY <1>4, <1>5, <1>6, RunStep
<1>. QED  BY <1>1, <1>7 DEF DeskInv

LEMMA SendNoticeInv ==
  ASSUME NEW r \in Run, NEW how \in {"MAILTO_OPENED", "READY_FOR_MANUAL_SUBMISSION"}, DeskInv,
         SendNotice(r, how)
  PROVE  DeskInv'
<1>1. CaseInv'
  <2>1. UNCHANGED <<case, trail, signed, notified, desk>>
    BY DEF SendNotice
  <2>2. TrailIsLinked' /\ RowIsLastEvent' /\ SettledUntilReopened' /\ DecisionStandsUntilReopened'
    BY <2>1
    DEF DeskInv, CaseInv, TrailIsLinked, RowIsLastEvent, SettledUntilReopened,
        DecisionStandsUntilReopened, Standing
  <2>3. RequestFitsWhatItRead' /\ OpenersKnowTheBinding' /\ BindingIsSigned'
    BY <2>1 DEF DeskInv, CaseInv, RequestFitsWhatItRead, OpenersKnowTheBinding, BindingIsSigned
  <2>. QED  BY <2>2, <2>3 DEF CaseInv
<1> DEFINE new == [runs[r] EXCEPT !.draft = how]
<1>2. runs[r] \in RunRow
  BY DEF DeskInv, DeskTypeOK
<1>3. new \in RunRow /\ new.decision = runs[r].decision
  BY <1>2 DEF RunRow
<1>4. runs' = [runs EXCEPT ![r] = new] /\ UNCHANGED <<case, trail, signed, reviews, notified>>
  BY DEF SendNotice
<1> HIDE DEF new
<1>5. desk' \in [Desk -> Work] /\ requests' \in Nat
  BY DEF DeskInv, DeskTypeOK, SendNotice
<1>6. DeskTypeOK' /\ OneHumanDecision'
  BY <1>3, <1>4, <1>5, RunStep
<1>. QED  BY <1>1, <1>6 DEF DeskInv

LEMMA ReadOutputInv ==
  ASSUME NEW d \in Desk, NEW r \in Run, NEW decision \in Decision, DeskInv,
         ReadOutput(d, r, decision)
  PROVE  DeskInv'
<1> DEFINE work == [task |-> "decide", run |-> r, decision |-> decision]
<1>1. work \in Work /\ work.task = "decide"
  BY DEF Work
<1>2. /\ desk' = [desk EXCEPT ![d] = work] /\ requests' = requests + 1
      /\ UNCHANGED <<case, trail, signed, runs, reviews, notified>>
  BY DEF ReadOutput, Take
<1> HIDE DEF work
<1>3. CaseInv' /\ desk' \in [Desk -> Work]
  BY <1>1, <1>2, RequestMoves
<1>4. DeskTypeOK' /\ OneHumanDecision'
  BY <1>2, <1>3 DEF DeskInv, DeskTypeOK, OneHumanDecision
<1>. QED  BY <1>3, <1>4 DEF DeskInv

\* The second of two decisions on an output finds the first and writes nothing.
LEMMA WriteDecisionInv ==
  ASSUME NEW d \in Desk, DeskInv, WriteDecision(d)
  PROVE  DeskInv'
<1> DEFINE r == desk[d].run
           decision == desk[d].decision
<1>1. r \in Run /\ decision \in Decision
  BY WorkOfTask DEF WriteDecision, DeskInv, DeskTypeOK
<1>2. Leave(d) /\ UNCHANGED <<case, trail, signed, notified, requests>>
  BY DEF WriteDecision
<1>3. IF Undecided(r)
      THEN /\ runs' = [runs EXCEPT ![r].decision = decision]
           /\ reviews' = [reviews EXCEPT ![r] = Append(@, decision)]
      ELSE UNCHANGED <<runs, reviews>>
  BY DEF WriteDecision
<1>4. CaseInv' /\ desk' \in [Desk -> Work]
  BY <1>2, LeaveMoves
<1> HIDE DEF r, decision
<1>5. CASE Undecided(r)
  <2>1. /\ reviews[r] = <<>> /\ decision # "NONE"
        /\ Append(reviews[r], decision) = <<decision>>
    <3>1. reviews[r] = <<>> /\ decision # "NONE"
      BY <1>1, <1>5 DEF DeskInv, OneHumanDecision, Undecided, Decision
    <3>2. Append(<<>>, decision) = <<decision>>
      OBVIOUS
    <3>. QED  BY <3>1, <3>2
  <2>2. /\ runs' = [runs EXCEPT ![r].decision = decision]
        /\ reviews' = [reviews EXCEPT ![r] = <<decision>>]
    BY <1>3, <1>5, <2>1
  <2>3. DeskTypeOK'
    <3>1. runs[r] \in RunRow /\ [runs[r] EXCEPT !.decision = decision] \in RunRow
      BY <1>1 DEF DeskInv, DeskTypeOK, RunRow
    <3>2. runs' \in [Run -> RunRow]
      BY <1>1, <2>2, <3>1 DEF DeskInv, DeskTypeOK
    <3>3. reviews' \in [Run -> Seq(Decision)]
      BY <1>1, <2>2 DEF DeskInv, DeskTypeOK
    <3>. QED  BY <1>2, <1>4, <3>2, <3>3 DEF DeskInv, DeskTypeOK
  <2>4. \A q \in Run : /\ runs'[q].decision = IF q = r THEN decision ELSE runs[q].decision
                       /\ reviews'[q] = IF q = r THEN <<decision>> ELSE reviews[q]
    BY <1>1, <2>2 DEF DeskInv, DeskTypeOK
  <2>5. OneHumanDecision'
    BY <2>1, <2>4 DEF DeskInv, OneHumanDecision
  <2>. QED  BY <1>4, <2>3, <2>5 DEF DeskInv
<1>6. CASE ~Undecided(r)
  BY <1>2, <1>3, <1>4, <1>6 DEF DeskInv, DeskTypeOK, OneHumanDecision
<1>. QED  BY <1>5, <1>6

LEMMA CrashInv ==
  ASSUME NEW d \in Desk, DeskInv, Crash(d)
  PROVE  DeskInv'
<1>1. Leave(d) /\ UNCHANGED <<case, trail, signed, runs, reviews, notified, requests>>
  BY DEF Crash
<1>2. CaseInv' /\ desk' \in [Desk -> Work]
  BY <1>1, LeaveMoves
<1>. QED  BY <1>1, <1>2 DEF DeskInv, DeskTypeOK, OneHumanDecision

--------------------------------------------------------------------------------
(* The invariant of the specification, and what follows. *)

LEMMA StutterInv == DeskInv /\ UNCHANGED vars => DeskInv'
<1> SUFFICES ASSUME DeskInv, UNCHANGED vars PROVE DeskInv'
  OBVIOUS
<1>1. TrailIsLinked' /\ RowIsLastEvent' /\ SettledUntilReopened' /\ DecisionStandsUntilReopened'
  BY DEF vars, DeskInv, CaseInv, TrailIsLinked, RowIsLastEvent, SettledUntilReopened,
         DecisionStandsUntilReopened, Standing
<1>2. RequestFitsWhatItRead' /\ OpenersKnowTheBinding' /\ BindingIsSigned'
  BY DEF vars, DeskInv, CaseInv, RequestFitsWhatItRead, OpenersKnowTheBinding, BindingIsSigned
<1>3. DeskTypeOK' /\ OneHumanDecision'
  BY DEF vars, DeskInv, DeskTypeOK, OneHumanDecision
<1>. QED  BY <1>1, <1>2, <1>3 DEF DeskInv, CaseInv

LEMMA NextInv == DeskInv /\ [Next]_vars => DeskInv'
<1> SUFFICES ASSUME DeskInv, [Next]_vars PROVE DeskInv'
  OBVIOUS
<1>1. ASSUME NEW d \in Desk,
             \/ \E stage \in BOOLEAN : LookForCase(d, stage)
             \/ InsertCase(d) \/ BindCase(d)
             \/ \E ask \in Ask : ReadCase(d, ask)
             \/ WriteAction(d)
             \/ \E r \in Run, notice \in BOOLEAN : Investigate(d, r, notice)
             \/ \E well \in BOOLEAN : Answer(d, well)
             \/ \E r \in Run, decision \in Decision : ReadOutput(d, r, decision)
             \/ WriteDecision(d)
             \/ Crash(d)
      PROVE  DeskInv'
  BY <1>1, LookForCaseInv, InsertCaseInv, BindCaseInv, ReadCaseInv, WriteActionInv,
     InvestigateInv, AnswerInv, ReadOutputInv, WriteDecisionInv, CrashInv
<1>2. ASSUME NEW r \in Run, NEW how \in {"MAILTO_OPENED", "READY_FOR_MANUAL_SUBMISSION"},
             SendNotice(r, how)
      PROVE  DeskInv'
  BY <1>2, SendNoticeInv
<1>3. CASE UNCHANGED vars
  BY <1>3, StutterInv
<1>. QED  BY <1>1, <1>2, <1>3 DEF Next

\* Every reachable state of the desk satisfies the inductive invariant.
THEOREM DeskInvariant == Spec => []DeskInv
  BY InitInv, NextInv, PTL DEF Spec

\* The tables hold rows of their kind, and every request carries what its task needs.
THEOREM DeskTypeCorrect == Spec => []DeskTypeOK
<1>1. DeskInv => DeskTypeOK
  BY DEF DeskInv
<1>. QED  BY <1>1, DeskInvariant, PTL

\* The review events account for the case: one opens it, each continues its predecessor,
\* and the row is what the last one says (append_action's compare-and-set).
THEOREM TrailAccountsForCase == Spec => []TrailTellsTheCase
<1>1. DeskInv => TrailTellsTheCase
  BY DEF DeskInv, CaseInv, TrailIsLinked, RowIsLastEvent, TrailTellsTheCase
<1>. QED  BY <1>1, DeskInvariant, PTL

\* A second decision is recorded only after somebody reopened the case.
THEOREM DecisionsAreSeparated == Spec => []DecisionStandsUntilReopened
<1>1. DeskInv => DecisionStandsUntilReopened
  BY DEF DeskInv, CaseInv
<1>. QED  BY <1>1, DeskInvariant, PTL

\* Once the notify stage is through, one signed event names the result statement.
THEOREM CaseIsBound == Spec => []CaseNamesItsStatement
<1>1. DeskInv => CaseNamesItsStatement
  BY DEF DeskInv, CaseInv, BindingIsSigned, CaseNamesItsStatement
<1>. QED  BY <1>1, DeskInvariant, PTL

\* An investigation's output is decided once, and its one review artefact says how.
THEOREM OutputIsDecidedOnce == Spec => []OneHumanDecision
<1>1. DeskInv => OneHumanDecision
  BY DEF DeskInv
<1>. QED  BY <1>1, DeskInvariant, PTL
================================================================================
