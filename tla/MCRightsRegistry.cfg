CONSTANTS
  print = print
  web = web
  territory = territory
  here = here
  Claim = {c1}
  License = {l1}
  NoClaim = NoClaim
  Use = {print, web}
  Dimension = {territory}
  Scope = {here}
  Anything = Anything
  Silent = Silent
  Never = Never
  Clerk = {h1, h2}
  Beside = {h1}
  Terms <- MCTerms
  Rules <- MCRules
  Passport <- MCPassport
  Evidence <- MCEvidence
  TheUse <- MCUse
  MaxEvents = 4
  MaxPolicies = 2
  MaxClock = 1
SPECIFICATION Spec
CHECK_DEADLOCK FALSE
INVARIANTS
  EventsTellTheRow
  PassWasAuthorized
