SPECIFICATION MCSpec
CONSTANTS
  Users = {u1, u2}
  Amounts = {3, 10}
  FundBalances = {}
  Factors <- MCFactors
  AdminSwitches = {"UpdateCumulativeInterest"}
  BalancePrecision = 100
  InterestPrecision = 100
  UtilizationPrecision = 200
  YearRate = 1000
  FactorPrecision = 10
  TwapWindow = 4
  RateCurve <- MCCurve
  BpsPrecision = 100
  Guard <- MCGuardOpen
  MaxTime = 4
  MaxInstructions = 5
SYMMETRY UserSymmetry
CHECK_DEADLOCK FALSE
PROPERTIES
  PausedTimeNeverBilled
