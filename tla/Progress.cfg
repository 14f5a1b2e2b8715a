SPECIFICATION ProgressSpec
CONSTANTS
  Small = {1, 2, 3, 4, 5, 6, 7, 8, 9, 10, 11, 12}
  Large = 13
  SmallDeposit = 9
  LargeDeposit = 200
  Users <- SmallMarketUsers
  Amounts <- SmallMarketAmounts
  FundBalances = {}
  Factors <- NoFactors
  AdminSwitches = {}
  BalancePrecision = 100
  InterestPrecision = 100
  UtilizationPrecision = 200
  YearRate = 1000
  FactorPrecision = 10
  TwapWindow = 4
  RateCurve <- FlatCurve
  BpsPrecision = 100
  Guard <- SmallMarketGuard
  MaxTime = 17
  Traders <- MCTraders
  Owner = "owner"
  RowCount = 2
  Moves = {3, 5}
  Cuts <- MCCuts
  BuilderFees = {1}
  LiquidationCuts <- MCLiquidationCuts
  CloseoutFees <- MCCloseoutFees
  BufferTarget = 1
  FloorTokens = 1
  VaultTokens = {0, 1}
  Payees <- MCPayees
  PoolsAtStart = {0}
  MaxOrders = 2
  MaxInstructions = 1
  Gates <- MCGates
  EffectiveSlot <- MCEffectiveSlot
  LegacyStarts <- MCLegacyStarts
  FirstSlot = 1
  LastSlot = 10
  Stride = 1
  Windows = {0, 100, 350, 700, 1000, 1750}
  Subscriptions = {s1, s2}
  TipLimit = 2
  NodeLag = 1
  PollFailures = 1
  MaxAccountWrites = 1
  MaxSyncFailures = 1
  Jobs = {1, 2}
CHECK_DEADLOCK FALSE
INVARIANTS
  ExceptionsShareOneBudget ClockAgrees NotBehindTheSlowest
PROPERTIES
  RowsEnd AllGatesRecorded ServersCatchUp
  CacheConverges
