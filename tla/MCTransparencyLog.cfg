CONSTANTS
  s1 = s1
  NoScan = NoScan
  Process = {p1, p2}
  Scan <- MCScan
  Changes = {"DISPUTE", "REVOCATION"}
  Interval = 2
  AdvisoryLock = FALSE
  Histories <- MCHistories
  MaxRecords = 2
  MaxFaults = 1
SPECIFICATION FairSpec
CHECK_DEADLOCK FALSE
INVARIANTS
  LogIsOneSequence
  InclusionVerifies
  LineageIsLinear
PROPERTIES
  BacklogClears
  KeepsPromise
