SPECIFICATION Spec
CONSTANTS
  NULL = NULL
  Row = {r1, r2, r3, r4}
  MaxAnswer = 3
SYMMETRY Alike
INVARIANTS TypeOK RowsInOrder NothingDangling NothingLost
