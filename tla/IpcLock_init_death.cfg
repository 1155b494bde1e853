CONSTANTS
  None = None
  Proc = {p1, p2}
  MaxTries = 2
  Faults = {"init_death"}
SPECIFICATION LiveSpec
PROPERTIES FreeLockIsGranted
CHECK_DEADLOCK FALSE
