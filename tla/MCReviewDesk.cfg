CONSTANTS
  alice = alice
  Desk = {d1, d2}
  Person = {alice}
  Nobody = Nobody
  Run = {r1}
  Ask <- MCAsk
  NoCase = NoCase
  Keep = Keep
  MaxRequests = 7
SPECIFICATION Spec
CHECK_DEADLOCK FALSE
INVARIANTS
  TrailTellsTheCase
  DecisionStandsUntilReopened
  CaseNamesItsStatement
  OneHumanDecision
