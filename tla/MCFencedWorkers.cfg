SPECIFICATION WorkersSpec
CONSTANTS
  None = None
  UUID = {u1, u2}
  Resource = {r1}
  Handler = {h1, h2}
  MaxTxnID = 2
  MaxToken = 2
  MaxRestarts = 1
  MaxVersion = 2
SYMMETRY Symmetry
PROPERTIES
  WorkersImplementFencedStore
