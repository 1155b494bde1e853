CONSTANTS
  t1 = t1
  t2 = t2
  x = x
  y = y
  None = None
  Thread = {t1, t2}
  Column = {"title"}
  Unique = {"title"}
  Value = {x, y}
  MaxId = 2
  Radix = 2
  Faults = {"main", "backup", "cut", "stray"}
  U32Max = 3
  I64Max = 7
  U64Max = 15
SPECIFICATION Spec
SYMMETRY Alike
VIEW State
INVARIANTS TypeOK CopiesAgree PagesAreTheRows
PROPERTIES ImplementsRowStore CutDeletesNothing
CHECK_DEADLOCK FALSE
