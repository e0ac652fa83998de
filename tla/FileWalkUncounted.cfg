SPECIFICATION Spec
CONSTANTS
  Files <- Uncounted
  Op <- MCOp
  TypedOp <- MCTyped
  Test <- MCTest
  Line <- MCLine
INVARIANTS
  NothingMissed
