CONSTANTS
  w1 = w1
  w2 = w2
  r1 = r1
  NoWorker = NoWorker
  Worker <- MCOneWorker
  Reaper <- MCReaper
  Stage <- MCStage
  Messages = 3
  MaxAttempts = 2
  MaxEpoch = 4
  Strict = TRUE
  Stoppable = FALSE
  MaxCrashes = 1
  MaxOvertakes = 0
SPECIFICATION Spec
CHECK_DEADLOCK FALSE
INVARIANTS
  UnfinishedIsClaimable
