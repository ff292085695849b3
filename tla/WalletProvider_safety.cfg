SPECIFICATION Spec
CONSTANTS
  a1 = a1
  b1 = b1
  Account <- TwoAccounts
  NetworkOf <- Networks
  Handler <- SomeHandlers
  MaxConnects = 2
  MaxCalls = 2
INVARIANTS
  AsksConnectedAccount
  RefHeldOnce
  NothingLeftSet
CHECK_DEADLOCK FALSE
