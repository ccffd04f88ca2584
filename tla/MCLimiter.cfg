SPECIFICATION Spec
CONSTANTS
  k1 = k1
  k2 = k2
  k3 = k3
  a1 = a1
  a2 = a2
  a3 = a3
  Keys <- MCKeys
  Attempts <- MCAttempts
  loginFailureLimit = 2
  loginWindow = 2
  capacity = 2
  MaxNow = 3
  MaxSerial = 4
SYMMETRY MCSymmetry
CHECK_DEADLOCK FALSE
INVARIANTS
  AccountsBalance
PROPERTIES
  PendingNotEvicted
