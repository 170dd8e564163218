CONSTANTS
  h1 = h1
  h2 = h2
  Handler <- MCHandler
  Worker = {w1, w2}
  Thread = Thread
  Setups <- MCSetups
  RowLocks = TRUE
  Nobody = Nobody
  Orphan = Orphan
  MaxPublishes = 2
  MaxAttempts = 2
  MaxDeliveries = 2
  MaxRuns = 2
SPECIFICATION FairSpec
CHECK_DEADLOCK FALSE
INVARIANTS
  MediaLivesAsLongAsWork
  
PROPERTIES
  
  KeepsAcceptance
