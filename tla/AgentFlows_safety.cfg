SPECIFICATION Spec
CONSTANTS
  Tool = {"borrow", "staking", "lend"}
  Mode = {"normal", "shield", "unshield"}
  FeeOn = FALSE
  Funds = 1
  Bounds <- Sizes
INVARIANTS
  TypeOK
  StageAfterSuccess
  RepeatedOnlyElsewhere
  DoneSucceeded
CHECK_DEADLOCK FALSE
