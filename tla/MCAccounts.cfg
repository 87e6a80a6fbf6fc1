CONSTANTS
  User = {a, b}
  Call = {c1, c2, c3}
  None = None
SPECIFICATION Spec
INVARIANTS OneIdentity 
CHECK_DEADLOCK FALSE
