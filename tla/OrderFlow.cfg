SPECIFICATION SumSpec
CONSTANTS
  taker = taker
  maker = maker
  Users <- MCUsers
  Requests <- MCRequests
  Bases <- MCBases
  MaxOrderId <- MCMaxOrderId
  Distressed = {taker}
  Slots = 2
  MaxAmount = 2
  MaxBase = 2
  MaxTime = 2
  Interests = {1, 2, 5}
  FactorPairs <- MCPairs
  MaxOwed = 40
  Optima = {1, 40, 100, 160, 170}
  CurveRates = {0, 40, 333}
  MaxUtilization = 205
  BalancePrecision = 100
  InterestPrecision = 100
  UtilizationPrecision = 200
  YearRate = 1000
  FactorPrecision = 10
  TwapWindow = 4
  RateCurve <- MCCurve
  FUNDING_RATE_PRECISION = 2
  AMM_TO_QUOTE_PRECISION_RATIO = 2
  BASE_PRECISION = 2
  MaxOpenInterest = 4
  MinFees <- MCMinFees
  MaxFees = 9
  MaxRate = 9
CHECK_DEADLOCK FALSE
INVARIANTS
  OrdersAccounted CarveoutsExact
PROPERTIES
  ReduceOnlyMarketOnlyReduces FillsStayWithinWorstCase ImplementsOrderLife
  RateRisesWithinBounds FundingWithinBudget
