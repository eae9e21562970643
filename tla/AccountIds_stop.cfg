\* Three accounts, tables of two ids, restarts after a shutdown only.
CONSTANTS
  Accounts = {a1, a2, a3}
  TableSize = 2
  CrashAnywhere = FALSE
  MaxPid = 3
  None = None
SPECIFICATION FairSpec
INVARIANT TypeOK
INVARIANT PidsAreDistinct
INVARIANT PidFitsTable
PROPERTY PidIsKept
PROPERTY PidReachesDb
