\* Loop's Save and the Save of the server's Shutdown at once.
CONSTANTS
  Keys = {k1}
  Cols = {c1}
  Vals = {0, 1}
  ZeroVal = 0
  Rows = {r1}
  Clients = {p1}
  ExecMayFail = FALSE
  MaxStarts = 0
  None = None
SPECIFICATION Spec
INVARIANT AllDataSavedAtExit
CHECK_DEADLOCK FALSE
