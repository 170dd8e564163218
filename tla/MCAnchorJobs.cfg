CONSTANTS
  p1 = p1
  p2 = p2
  j1 = j1
  j2 = j2
  NoJob = NoJob
  NoTx = NoTx
  Process <- MCProcess
  Job <- MCJob
  MaxAttempts = 2
  Retries = TRUE
  MaxClaims = 3
  MaxCrashes = 1
  MaxOvertakes = 1
SPECIFICATION Spec
SYMMETRY Symmetry
CHECK_DEADLOCK FALSE
INVARIANTS
  OneTransactionPerJob
  BroadcastIsRecorded
  OutcomeIsTheChains
PROPERTIES
  RecordStands
