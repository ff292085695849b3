SPECIFICATION FairSpec
CONSTANTS
  Mode = {"shield"}
  PlanOf <- Plans
  FeeOn = TRUE
  Faults = {"slow", "seal"}
  Funds = 1
  Outputs = {1}
  MaxRuns = 1
  MaxTxs = 3
  MaxDeposits = 1
  MaxSwitches = 0
  MaxReloads = 2
PROPERTY
  RecoverableAdvances
CHECK_DEADLOCK FALSE
