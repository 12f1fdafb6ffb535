SPECIFICATION FairSpec
CONSTANTS
  LastId = 7
  MaxFailures = 2
  LastStatus = 2
  MaxSessions = 1
  None = None
INVARIANTS TypeOK NoOrphansServed EnteredIsKept
PROPERTIES FlagMeansComplete ComesUp
CHECK_DEADLOCK FALSE
