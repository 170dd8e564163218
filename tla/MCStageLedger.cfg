CONSTANTS
  w1 = w1
  w2 = w2
  r1 = r1
  evidence = evidence
  w3 = w3
  r2 = r2
  NoWorker = NoWorker
  Worker <- MCWorker
  Reaper <- MCReaper
  Stage <- MCStage
  MaxAttempts = 2
  MaxEpoch = 3
SPECIFICATION FairLedgerSpec
INVARIANTS
  SingleHolder
  AttemptIsEpoch
PROPERTIES
  OrphansAreReclaimed
  KeepsFence
