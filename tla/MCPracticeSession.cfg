CONSTANTS
  h1 = h1
  h2 = h2
  s1 = s1
  s2 = s2
  l1 = l1
  r1 = r1
  r2 = r2
  Handlers <- MCHandlers
  Sessions <- MCSessions
  Lessons <- MCLessons
  Modes = {"placement"}
  Requests <- MCRequests
  HintRequests = {}
  Legacy <- MCSessions
  LegacyLesson <- MCLegacyLesson
  Drills = 1
  MaxHint = 1
  PlacementMin = 1
  Verdicts = {"pass", "unclear"}
  MaxStep = 1
  None = None
SPECIFICATION Spec
SYMMETRY Symmetry
CHECK_DEADLOCK FALSE
INVARIANTS
  CreditsAreDistinctRounds
  MasteryIsEarned
  SummaryIsSound
  OneActivePerLesson
PROPERTIES
  CompletedIsFinal
  KeepsLedger
