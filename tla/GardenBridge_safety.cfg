SPECIFICATION FairSpec
CONSTANTS
  Review = {"out"}
  ToBitcoin = {"out"}
  Keep = 30
  MaxOrders = 1
  MaxTxs = 2
  MaxViews = 1
INVARIANTS
  FundedTwiceOnlyForgotten
PROPERTIES
  RetryFindsOrder
  OrderFollowed
CHECK_DEADLOCK FALSE
