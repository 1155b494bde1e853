CONSTANTS
  b1 = b1
  b2 = b2
  x = x
  y = y
  None = None
  New = New
  Browser = {b1, b2}
  Title = {x, y}
  Column = {"title", "created_time"}
  Unique = {"title"}
  Value <- MCValue
  Radix = 2
  MaxId = 2
  MaxTime = 1
  Faults = {"table", "cut"}
SPECIFICATION Spec
SYMMETRY Alike
PROPERTIES EditsStay
CHECK_DEADLOCK FALSE
