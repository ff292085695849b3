SPECIFICATION Spec
CONSTANTS
  Mode = {"unshield"}
  PlanOf <- Plans
  FeeOn = TRUE
  Faults = {}
  Funds = 1
  Outputs = {1}
  MaxRuns = 1
  MaxTxs = 3
  MaxDeposits = 0
  MaxSwitches = 0
  MaxReloads = 1
INVARIANT
  StageSentOnce
CHECK_DEADLOCK FALSE
