CONSTANTS
  Rpc = {c1}
  AuthConcurrency = 1
SPECIFICATION Spec
INVARIANT UnreadyWhileDraining
CHECK_DEADLOCK FALSE
