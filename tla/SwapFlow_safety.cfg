SPECIFICATION Spec
CONSTANTS
  Mode = {"normal", "shield", "unshield"}
  PlanOf <- Plans
  FeeOn = FALSE
  Faults = {"refuse", "load", "bind", "revert"}
  Funds = 1
  Outputs = {1}
  MaxRuns = 2
  MaxTxs = 3
  MaxDeposits = 0
  MaxSwitches = 4
  MaxReloads = 1
INVARIANTS
  TypeOK
  StageAfterSuccess
  PageSendsOnce
  PublicDoneSucceeded
CHECK_DEADLOCK FALSE
