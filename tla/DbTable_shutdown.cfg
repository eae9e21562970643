\* Shutdown's Save beside Loop's, statements that fail, and restarts.
CONSTANTS
  Keys = {k1, k2}
  Cols = {c1}
  Vals = {0}
  ZeroVal = 0
  Rows = {r1, r2}
  Clients = {p1}
  ExecMayFail = TRUE
  MaxStarts = 1
  None = None
SPECIFICATION FairSpec
INVARIANT NoStatementAfterClose
PROPERTY ShutdownCompletes
\* A server that has shut down and is not started again stops.
CHECK_DEADLOCK FALSE
