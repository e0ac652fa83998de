SPECIFICATION Spec
CONSTANTS
  Files <- Counted
  Op <- MCOp
  TypedOp <- MCTyped
  Test <- MCTest
  Line <- MCLine
INVARIANTS
  UniqueIds
  StableIds
  WalkIsExact
  NothingMissed
