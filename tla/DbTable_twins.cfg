\* Two handlers that both found no row.
CONSTANTS
  Keys = {k1}
  Cols = {c1}
  Vals = {0}
  ZeroVal = 0
  Rows = {r1, r2}
  Clients = {p1, p2}
  ExecMayFail = FALSE
  MaxStarts = 0
  None = None
SPECIFICATION RunSpec
INVARIANT MapsAreDisjoint
