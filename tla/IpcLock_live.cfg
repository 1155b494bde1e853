CONSTANTS
  None = None
  Proc = {p1, p2, p3}
  MaxTries = 2
  Faults = {"death"}
SPECIFICATION LiveSpec
PROPERTIES LockGranted TimeoutReturns
