CONSTANTS
  w1 = w1
  w2 = w2
  r1 = r1
  NoWorker = NoWorker
  Worker <- MCWorker
  Reaper <- MCReaper
  Stage <- MCStage
  Messages = 2
  MaxAttempts = 2
  MaxEpoch = 4
  Strict = TRUE
  Stoppable = FALSE
  MaxCrashes = 0
  MaxOvertakes = 1
SPECIFICATION Spec
SYMMETRY Symmetry
CHECK_DEADLOCK FALSE
INVARIANTS
  ProofAfterStatement
  StrictNotifyAfterChain
  RunnerKeepsLedger
  SucceededMeansDone
  OneResultStatement
