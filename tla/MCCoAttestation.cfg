CONSTANTS
  m1 = m1
  m2 = m2
  Member <- MCMember
  Operator = {g1, g2}
  Deployer = g1
  Founder <- MCFounder
  NoAccount = NoAccount
  Packet = {k1}
  MaxTransactions = 5
  Process = {p1, p2}
  Body <- MCBody
  Uid = Uid
  NoUid = NoUid
  MaxTroubles = 1
SPECIFICATION FairSpec
CHECK_DEADLOCK FALSE
INVARIANTS
  CountsAreTrue
  CommitmentIsWhatItSays
  QuietWithdrawalStands
PROPERTIES
  SignedIsQueued
