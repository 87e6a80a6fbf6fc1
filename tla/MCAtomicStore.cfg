CONSTANTS
  Txn = {t1, t2}
  Resource = {r1, r2}
  None = None
  MaxToken = 2
  MaxVersion = 2
SYMMETRY Symmetry
SPECIFICATION StoreSpec
INVARIANTS ProvedIsLive
PROPERTY ImplementsFencedStore NoLostUpdate
CHECK_DEADLOCK FALSE
