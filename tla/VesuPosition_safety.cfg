SPECIFICATION Spec
CONSTANTS
  Scale = 8
  BufferBps = 1
  Bps = 8
  Rate <- Rates
  Price <- Prices
  MaxLtv = 5
  MaxUtilization = 6
  Floor = 3
  DebtCap = 7
  VaultCap = 18
  Amount = {8}
  AmountD = {1, 4}
  Chains <- WithAndWithout
  MaxOpen = 2
  MaxMoves = 1
  MaxTxs = 2
INVARIANTS
  NoAllowanceLeft
PROPERTIES
  PreparedHolds
  CloseEmpties
CHECK_DEADLOCK FALSE
