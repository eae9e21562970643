\* Both kinds of delete in one list, of a charm that falls to 0 and of a cat that is gone,
\* with two calls at once.
CONSTANTS
  Keys = {1, 2}
  Vals = {0, 1, 2}
  Zeros = {0}
  Objects = {o1, o2, o3}
  Handlers = {h1, h2}
  Removals = TRUE
  None = None
  Gone = Gone
SPECIFICATION Spec
SYMMETRY Symmetry
INVARIANT TypeOK
INVARIANT SortedOnce
INVARIANT AckedIsRanked
INVARIANT PooledIsUnlisted
