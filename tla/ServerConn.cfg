\* Sends, broadcasts, closes and the shutdown of a node with a connection, and closes of two.
CONSTANTS
  c1 = c1
  c2 = c2
  Conns <- TwoConns
  Users = {u1}
  Scenarios <- Together
  Cap = 1
  None = None
SPECIFICATION FairSpec
INVARIANT TypeOK
INVARIANT ShutdownMeansTold
PROPERTY ClosingIsReleased
PROPERTY NothingLeftRunning
PROPERTY ShutdownCompletes
\* A node whose clients have gone and whose callers have returned stops.
CHECK_DEADLOCK FALSE
