CONSTANTS
  UUID = {u1, u2}
  Resource = {r1}
  Handler = {h1}
  None = None
  MaxTxnID = 2
  MaxToken = 1
  MaxRestarts = 0
SPECIFICATION ProcessFairSpec
 
PROPERTIES GracefulStopReturns AbandonedLockReclaimed
