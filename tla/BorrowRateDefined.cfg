SPECIFICATION InterestSpec
CONSTANTS
  Interests = {1, 2, 5}
  FactorPairs <- MCPairs
  MaxOwed = 60
  Optima = {160, 170, 171, 200}
  CurveRates = {0, 7, 40, 333}
  MaxUtilization = 205
  BalancePrecision = 100
  InterestPrecision = 100
  UtilizationPrecision = 200
  YearRate = 1000
  FactorPrecision = 10
  TwapWindow = 4
  RateCurve <- MCCurve
CHECK_DEADLOCK FALSE
INVARIANT AdmittedCurveHasRate
