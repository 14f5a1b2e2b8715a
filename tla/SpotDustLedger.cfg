SPECIFICATION MCSpec
CONSTANTS
  Users = {u1, u2}
  Amounts = {1, 2}
  FundBalances = {1}
  Factors <- MCFactors
  AdminSwitches = {}
  BalancePrecision = 1000
  InterestPrecision = 100
  UtilizationPrecision = 200
  YearRate = 1000
  FactorPrecision = 10
  TwapWindow = 4
  RateCurve <- MCCurve
  BpsPrecision = 100
  Guard <- MCGuardOpen
  MaxTime = 3
  MaxInstructions = 4
SYMMETRY UserSymmetry
CHECK_DEADLOCK FALSE
INVARIANTS
  LedgerBalanced
