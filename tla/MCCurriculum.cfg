SPECIFICATION Spec
CONSTANTS
  Editions <- MCEditions
  PerUnit = 2
  Levels = {"A1", "A2"}
  PracticalLevels = {"A2"}
  LastSource = 145
  ORIGINAL_FOUNDATION_IDS <- MCFoundation
  CoreUnits <- MCCoreUnits
  WorkScenes <- MCWorkScenes
  EverydayScenes = 2
  UnitsPerLevel = 2
  MaxScripts = 6
  MaxImages = 3
INVARIANTS
  StartsIffOrdinalsAgree
  LearnersReadTheirRelease
  ScriptsPassTests
