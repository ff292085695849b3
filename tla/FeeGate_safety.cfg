SPECIFICATION FairSpec
CONSTANTS
  p1 = p1
  p2 = p2
  m1 = m1
  m2 = m2
  v1 = v1
  v2 = v2
  Plan <- TwoPlans
  Mode <- TwoModes
  ModeOf <- ModeEach
  Recovery <- TwoEffects
  CanLapse = TRUE
  MaxRuns = 3
  MaxObjects = 4
  MaxSwitches = 2
  MaxReloads = 1
INVARIANTS
  StartedRunPaid
  FeeBuysOneStart
  OneChargePerAttempt
  SessionStarted
PROPERTIES
  PaidFeeSettles
CHECK_DEADLOCK FALSE
