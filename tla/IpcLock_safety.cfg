CONSTANTS
  None = None
  Proc = {p1, p2, p3}
  MaxTries = 2
  Faults = {"death", "init_death", "no_sem", "errno"}
SPECIFICATION Spec
INVARIANTS TypeOK OneToken HeldIsOwned
PROPERTIES ImplementsMutex
