CONSTANTS
  p1 = p1
  p2 = p2
  t1 = t1
  t2 = t2
  t3 = t3
  c1 = c1
  c2 = c2
  c3 = c3
  None = None
  Proc = {p1, p2}
  Thread = {t1, t3}
  ProcOf <- MCProcOf
  Change = {c1, c2}
  Faults = {"lost"}
  MaxFaults = 1
SPECIFICATION Spec
SYMMETRY ChangesAlike
INVARIANTS AckedSurvives
