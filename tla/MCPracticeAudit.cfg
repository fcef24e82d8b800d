CONSTANTS
  s1 = s1
  l1 = l1
  Handlers = {h1, h2}
  Sessions = {s1}
  Lessons = {l1}
  Modes = {}
  Requests = {r1, r2}
  HintRequests = {}
  Legacy = {s1}
  LegacyLesson <- OldLesson
  Drills = 2
  MaxHint = 2
  PlacementMin = 5
  Verdicts = {"pass", "wrong"}
  MaxStep = 1
  None = None
SPECIFICATION AuditSpec
CHECK_DEADLOCK FALSE
INVARIANTS
  SecondRoundCompletes
PROPERTIES
  NoCreditAfterHelp
  EveryHandlerEnds
