SPECIFICATION SyllabusSpec
CONSTANTS
  Chunks = 3
  UnitOf <- MCUnitOf
  Terms <- MCTerms
  Empty = ""
  NoFile = NoFile
  CutFile = CutFile
  Attempts = 2
  Rounds = 2
  MaxKills = 1
  MaxDeletes = 1
INVARIANTS
  GloballyNew
PROPERTIES
  ScriptEnds
