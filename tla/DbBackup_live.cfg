CONSTANTS
  p1 = p1
  p2 = p2
  t1 = t1
  t2 = t2
  t3 = t3
  c1 = c1
  c2 = c2
  c3 = c3
  None = None
  Proc = {p1, p2}
  Thread = {t1, t2}
  ProcOf <- MCProcOf
  Change = {c1}
  Faults = {"crash", "statement"}
  MaxFaults = 2
SPECIFICATION LiveSpec
PROPERTIES WaiterServed StartUpEnds
