CONSTANTS
  Txn = {t1, t2}
  Resource = {r1, r2}
  Call = {c1, c2}
  NoTxn = NoTxn
  NoRequest = NoRequest
SPECIFICATION SchedulerSpec
INVARIANTS SharedExclusive HoldersAgree RecordIffInUse NoLostWakeup
PROPERTIES ImplementsLockTable WaiterServed DoneCallReturns
