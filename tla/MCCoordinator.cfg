CONSTANTS
  UUID = {u1, u2}
  Resource = {r1}
  Handler = {h1, h2}
  None = None
  MaxTxnID = 2
  MaxToken = 2
  MaxRestarts = 0
SYMMETRY Symmetry
SPECIFICATION Spec
INVARIANTS NoOrphanLock GrantBacked OneGrantPerResource KeepsLocksUntilFenced
