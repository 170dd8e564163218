CONSTANTS
  w1 = w1
  w2 = w2
  r1 = r1
  NoWorker = NoWorker
  Worker <- MCOneWorker
  Reaper <- MCReaper
  Stage <- MCStage
  Messages = 4
  MaxAttempts = 2
  MaxEpoch = 4
  Strict = TRUE
  Stoppable = TRUE
  MaxCrashes = 2
  MaxOvertakes = 0
SPECIFICATION FairSpec
CHECK_DEADLOCK FALSE
PROPERTIES
  TerminalStands
  UndisturbedScanFinishes
