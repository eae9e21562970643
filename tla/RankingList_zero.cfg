\* A charm that falls to 0 leaves the list and comes back later.
CONSTANTS
  Keys = {1, 2}
  Vals = {0, 1, 2}
  Zeros = {0}
  Objects = {o1, o2}
  Handlers = {h1}
  Removals = FALSE
  None = None
  Gone = Gone
SPECIFICATION Spec
INVARIANT SucceededIsRanked
