\* Two requests for one account, and a hall that connects twice.
CONSTANTS
  Accounts = {a1}
  Handlers = {1, 2}
  HallConns = {1, 2}
  MaxTime = 1
  MaxBreaks = 1
  None = None
SPECIFICATION FairSpec
INVARIANT TypeOK
INVARIANT OneSenderPerWait
INVARIANT LastTokenCounts
INVARIANT RegistrationHolds
PROPERTY EveryLoginAnswered
\* A handler may wait for ever.
CHECK_DEADLOCK FALSE
