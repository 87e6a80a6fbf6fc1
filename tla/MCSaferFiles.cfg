CONSTANTS
  alice = alice
  bob = bob
  a1 = a1
  b1 = b1
  b2 = b2
  User = {alice, bob}
  Name = {a1, b1, b2}
  UserOf <- MCUserOf
  None = None
  MaxOps = 6
  MaxConcurrent = 2
  MaxVersion = 3
  MaxFaults = 2
SPECIFICATION SharedSpec
INVARIANTS ContentIntact NoGarbage AccessExact BranchesCurrent LoadSerial NoCircularWait
PROPERTY AcceptInstallsAccess
CHECK_DEADLOCK FALSE
