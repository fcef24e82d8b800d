CONSTANTS
  c1 = c1
  c2 = c2
  w1 = w1
  w2 = w2
  Sessions = {"live", "lesson"}
  Talks = {"live"}
  Conns <- MCConns
  Workers <- MCWorkers
  Limit = 1
  Longest = 1
  None = None
  NoJob = NoJob
SPECIFICATION FairSpec
CHECK_DEADLOCK FALSE
INVARIANTS
  OneAtATime
  SummaryReadsTheEnd
  SummaryCountedOnce
PROPERTIES
  FlagClears
  EveryJobEnds
