CONSTANTS
  h1 = h1
  h2 = h2
  s1 = s1
  s2 = s2
  c1 = c1
  c2 = c2
  a1 = a1
  a2 = a2
  Handlers <- MCHandlers
  Sessions <- MCSessions
  Quiz = {"q1"}
  Listening = {"l1"}
  Reading <- MCReading
  Lines = 2
  Checks <- MCChecks
  Answers <- MCAnswers
  OldProgress <- NewOrLearned
  None = None
SPECIFICATION Spec
SYMMETRY Symmetry
CHECK_DEADLOCK FALSE
INVARIANTS
  ProgressIsEarned
  FinishedIsInReview
PROPERTIES
  OnlyTheseLoseProgress
