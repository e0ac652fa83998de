SPECIFICATION Spec
CONSTANTS
  Home <- MCHome
  Foreign <- MCForeign
  Target = "p"
  Layouts <- WithTestdata
  MaxEdits = 1
  EditPhases <- NotWhileChecked
INVARIANTS
  WorkspaceComplete
