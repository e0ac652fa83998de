SPECIFICATION Spec
CONSTANTS
  Truth <- MCTruth
  Mutant = {"m1", "m2"}
  Config = {"full", "package"}
  Version = {"A", "B"}
  MaxRuns = 3
  MaxEdits = 2
  EditDuringRun = FALSE
  SiblingEdits = FALSE
  CacheInside = FALSE
  TearAtNewline = FALSE
INVARIANTS
  HitIsTruth
  GarbageOnlyAtEnd
  WrittenSurvives
  EndedRunIsCached
PROPERTIES
  NeverRerun
