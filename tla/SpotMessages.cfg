SPECIFICATION SumSpec
CONSTANTS
  Users = {u1, u2}
  Amounts = {3, 9, 10}
  FundBalances = {4}
  Factors <- MCFactors
  AdminSwitches = {"Withdraw"}
  BalancePrecision = 1000
  InterestPrecision = 100
  UtilizationPrecision = 200
  YearRate = 1000
  FactorPrecision = 10
  TwapWindow = 4
  RateCurve <- MCCurve
  BpsPrecision = 100
  Guard <- MCGuardCapped
  MaxTime = 2
  MaxInstructions = 4
  Subaccounts = {s1, s2}
  Outside = outside
  Prices = {1, 2}
  MaxUnits = 1
  MaxQuote = 3
  MaxQuoteDebt = 1
  MaxFloor = 2
  QuoteAmounts = {1}
  FloorSettings <- MCFloorSettings
  FloorDeltas = {1, 2}
  Gates = {4}
  EffectiveSlot <- MCEffective
  LegacyStarts <- MCLegacy
  FirstSlot = 75
  LastSlot = 240
  Stride = 15
  Windows = {}
  Messages <- MCMessages
  RecordSizes = {1, 2}
  MaxOrderId = 5
  MaxOpenOrders = 3
  Collateral = 2
SYMMETRY AccountSymmetry
CHECK_DEADLOCK FALSE
INVARIANTS
  LedgerSound OnlyAbsoluteCapRefusesRepayment MessageTakesEffectOnce
PROPERTIES
  ClaimsStayBacked IdleTimeNeverBilled
  OnlyReductionsGoUngated TripProvesBreach BreachNotDefused
