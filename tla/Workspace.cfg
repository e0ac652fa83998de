SPECIFICATION Spec
CONSTANTS
  Home <- MCHome
  Foreign <- MCForeign
  Target = "p"
  Layouts <- AnyLayout
  MaxEdits = 1
  EditPhases <- NotWhileChecked
INVARIANTS
  WorkspaceComplete
  KeyIsWorkspace
  WorktreeRemoved
PROPERTIES
  WorkspaceIsDisk
