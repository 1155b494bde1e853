CONSTANTS
  p1 = p1
  p2 = p2
  v1 = v1
  v2 = v2
  v3 = v3
  a = a
  b = b
  c = c
  None = None
  Proc = {p1, p2}
  Version = {v1, v2, v3}
  ColsOf <- MCColsOf
  Id = {1}
  Faults = {"main"}
  MaxFaults = 1
SPECIFICATION Spec
PROPERTIES RenamedRowsKept
