\* Two halls that announce to each other, and one hall whose pool is used again.
CONSTANTS
  A = A
  B = B
  Halls = {A, B}
  Messages = {1, 2, 3, 4}
  Requests = {1, 2}
  Scenarios <- Topics
  PoolSize = 2
  Exist = 1
  SendMax = 2
  Cooldown = 1
  None = None
SPECIFICATION FairSpec
INVARIANT TypeOK
INVARIANT ListKeepsLatest
INVARIANT ReadInOrder
PROPERTY NobodyWaitsForEver
\* When everything is pushed and the clock stands, the halls may rest.
CHECK_DEADLOCK FALSE
