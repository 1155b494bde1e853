CONSTANTS
  t1 = t1
  t2 = t2
  None = None
  Thread = {t1, t2}
  NameLen = 8
  Number = {"1", "3307"}
  Url <- MCUrl
  MaxMade = 3
  Faults = {"connect"}
SPECIFICATION Spec
SYMMETRY Alike
INVARIANTS TypeOK MadeOnce ConnectionsOwned BackupsApart UrlRoundTrip
CHECK_DEADLOCK FALSE
