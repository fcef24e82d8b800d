CONSTANTS
  Runs <- MCRuns
  ReleaseOf <- MCReleaseOf
  PortOf <- MCPortOf
  FirstPort = "p1"
  MaxMishaps = 2
  None = None
SPECIFICATION Spec
CHECK_DEADLOCK FALSE
INVARIANTS
  DatabaseIsSafe
  PreviousIsKept
PROPERTIES
  Restores
  UndisturbedRunSucceeds
  LearnersAreWaitedFor
