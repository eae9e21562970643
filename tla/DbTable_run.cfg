\* The cache while the server runs and MySQL accepts every statement; two handlers race for
\* one row, and Loop is scheduled fairly.
CONSTANTS
  Keys = {k1}
  Cols = {c1, c2}
  Vals = {0, 1}
  ZeroVal = 0
  Rows = {r1, r2}
  Clients = {p1, p2}
  ExecMayFail = FALSE
  MaxStarts = 1
  None = None
SPECIFICATION FairRunSpec
INVARIANT TypeOK
INVARIANT CleanColumnIsStored
INVARIANT StatementFits
PROPERTY DurableRowsSpec
PROPERTY SetReachesDb
