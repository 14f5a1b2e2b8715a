SPECIFICATION SumSpec
CONSTANTS
  Traders <- MCTraders
  Owner = "owner"
  RowCount = 2
  Moves = {3}
  Cuts <- MCCuts
  BuilderFees = {1}
  LiquidationCuts <- MCLiquidationCuts
  CloseoutFees <- MCCloseoutFees
  BufferTarget = 1
  FloorTokens = 1
  VaultTokens = {0, 1}
  Payees <- MCPayees
  PoolsAtStart = {4}
  MaxOrders = 2
  MaxInstructions = 2
  OrderIds = {1, 2, 3, 4, 5}
  KindOf <- MCKinds
  AuctionSlots = 0
  LifeSlots = 1
  LastTip = 2
  MaxWrites = 3
  MaxReconnects = 1
  MaxQueue = 2
CHECK_DEADLOCK FALSE
INVARIANTS
  RowsAccounted BookFollowsMap
PROPERTIES
  BooksBalance DrainsLeaveReserves
