\* Fund: two stakers; a draw down to one token makes the next instruction rebase,
\* and revenue, donations and a pause fall around the exits.
\* Vault: the plans of MCVault.  Router: three ladders, one of them refused.
\* Perp market: the plans of MCPerpMarket, the positions sized in units of which
\* two make a base unit, so that every division may round.
SPECIFICATION LedgersSpec
CONSTANTS
  Stakers = {s1, s2}
  StakeAmounts = {30, 100}
  Losses = {1000}
  Revenues = {40}
  Donations = {9}
  Claims = {7, 100}
  Pausable = {"WithdrawPaused"}
  UnstakingPeriod = 1
  RevenueSettlePeriod = 2
  SettlesPerYear = 20
  MaxInstructions = 5
  MaxExpo = 2
  MaxTime = 2
  Depositors = {1, 2}
  Pool = 0
  Precision = 100
  Year = 4
  MinTimelock = 2
  LiquidationTime = 1
  MaxTokens = 0
  VaultPlans <- MCVaultPlans
  MaxEquity = 2000
  Ladders <- MCLadders
  Exploited = 9
  FeeAmounts = {2, 5}
  PoolDonations = {1, 3}
  MaxArrivals = 4
  LastDay = 2
  FUNDING_RATE_PRECISION = 2
  AMM_TO_QUOTE_PRECISION_RATIO = 2
  BASE_PRECISION = 2
  Users <- MCUsers
  Sizes = {1, 3}
  Prices = {1, 4}
  Tiers <- MCAllTiers
  Costs = {1}
  Amounts = {0, 2, 20}
  Rates <- MCRates
  FeesAtStart = 9
  Plans <- MCPlans
  Dust = 3
SYMMETRY StakerSymmetry
CHECK_DEADLOCK FALSE
INVARIANTS
  FundSound StakesHonoured VaultSound DepositorCanLeave DaySplitIsTheLadder
  PositionsSound BooksMatch AmmInStep FundingAccounted
PROPERTIES
  SharePriceNeverFalls ExitsPricedFairly StayersKeepPrice TokensKeepBacking
  PoolShareIsRecognised
