SPECIFICATION MCFairSpec
CONSTANTS
  Traders <- MCTraders
  Owner = "owner"
  RowCount = 2
  Moves = {3}
  Cuts <- MCCuts
  BuilderFees = {1}
  LiquidationCuts <- MCLiquidationCuts
  CloseoutFees <- MCCloseoutFees
  BufferTarget = 1
  FloorTokens = 1
  VaultTokens = {0, 1}
  Payees <- MCPayees
  PoolsAtStart = {4}
  MaxOrders = 2
  MaxInstructions = 1
CHECK_DEADLOCK FALSE
PROPERTIES EveryRowHasAnEndState
