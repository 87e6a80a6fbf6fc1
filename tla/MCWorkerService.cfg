CONSTANTS
  Rpc = {c1, c2}
  AuthConcurrency = 0
SPECIFICATION Spec
INVARIANTS SlotsAccounted
PROPERTIES CallAdmitted ShutdownCompletes OutageNoticed
CHECK_DEADLOCK FALSE
