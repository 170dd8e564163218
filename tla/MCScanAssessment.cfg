CONSTANTS
  print = print
  territory = territory
  here = here
  c1 = c1
  l1 = l1
  f1 = f1
  f2 = f2
  Claim = {c1}
  License = {l1}
  NoClaim = NoClaim
  Use = {print}
  Dimension = {territory}
  Scope = {here}
  Anything = Anything
  Silent = Silent
  Never = Never
  Floor <- MCFloor
  MinFamilies = 2
  Work = {w1, w2}
  NoWork = NoWork
  Measure <- MCMeasure
  Broken = Broken
  Reading <- MCReading
  NoReading = NoReading
  Style <- MCStyle
  Position <- MCPosition
  Rules <- MCRules
  TheUse <- MCUse
  LearnedRequired = TRUE
  TopK = 1
  ExhaustiveMax = 1
SPECIFICATION AssessmentSpec
CHECK_DEADLOCK FALSE
INVARIANTS
  ClearedMeansChecked
  PassIsNoMisuse
  HumanReviewIsQueued
