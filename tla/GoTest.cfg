SPECIFICATION Spec
CONSTANTS
  Behaviour = {"passes", "fails", "hangs", "noTests", "logsAtInit", "panicsAtInit", "broken"}
  Signal = {"turango", "group"}
  LineLength <- MCLineLength
  MaxEventLine = 2
INVARIANTS
  VerdictEarned
  NothingUnheard
PROPERTIES
  Returned
