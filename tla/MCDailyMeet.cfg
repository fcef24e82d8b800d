CONSTANTS
  long = long
  short = short
  half = half
  rest = rest
  other = other
  t1 = t1
  t2 = t2
  j1 = j1
  j2 = j2
  p1 = p1
  p2 = p2
  Texts = {t1, t2}
  Wordings = {long, short, half, rest, other}
  Plain <- MCPlain
  Splits <- MCSplits
  Speakers <- MCSpeakers
  Jobs <- MCJobs
  Requests = {q1, q2}
  MaxIndex = 3
  MaxLevel = 2
  None = None
SPECIFICATION Spec
CHECK_DEADLOCK FALSE
SYMMETRY Symmetry
INVARIANTS
  AnalyzedIsTold
PROPERTIES
  PassedIsKept
  OnlyLateAnalysisParts
