\* Two players, two requests at once, on one hall or on two.
CONSTANTS
  Players = {p1, p2}
  Handlers = {h1, h2}
  Scenarios <- Topics
  MaxUnread = 2
  MaxGives = 1
  None = None
SPECIFICATION Spec
SYMMETRY Symmetry
INVARIANT TypeOK
INVARIANT MutualFriends
INVARIANT GiftClaimedOnce
INVARIANT UnreadIdHasMessage
INVARIANT NoMessageLeftBehind
\* When the friends are gone there may be nothing left to ask for.
CHECK_DEADLOCK FALSE
