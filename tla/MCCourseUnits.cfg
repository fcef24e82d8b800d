SPECIFICATION Spec
CONSTANTS
  N = 2
  Lesson <- MCLesson
  Drafts <- MCDrafts
  Edits <- MCEdits
  Answers <- MCAnswers
  Terms <- MCTerms
  Theme <- MCTheme
  Workers = 1
  Attempts <- MCAttempts
  MaxEdits = 1
  MaxKills = 1
INVARIANTS
  StartRefusesOnlyGaps
  SolvedMeansAccepted
PROPERTIES
  CleanRunIsJudged
  RepairsAnswerFindings
  UnitsRunDelivers
CHECK_DEADLOCK FALSE
