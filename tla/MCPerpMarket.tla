---------------------------- MODULE MCPerpMarket ----------------------------
(***************************************************************************)
(* Small instances of PerpMarket for TLC.  A behaviour starts from a       *)
(* market that a few fills have already opened, and a budget bounds the    *)
(* instructions that follow.                                               *)
(***************************************************************************)
EXTENDS PerpMarket, Sequences

CONSTANTS
    Plans,      \* what a behaviour starts from and may do: opening (the fills
                \* that opened the market, a sequence of [user, base, price]),
                \* budget, and its share of the inputs of PerpMarket
    Dust        \* rounding one instruction may leave, in quote atoms

VARIABLES plan, steps

NoFees == [fee |-> 0, rebate |-> 0, reward |-> 0, toMarket |-> 0,
           toPools |-> 0]

\* The market after the opening fills.
Opened(fills) ==
    LET after[n \in 0..Len(fills)] ==
          IF n = 0
            THEN [position |-> [u \in Users |-> EmptyPosition],
                  market |-> NewMarket]
            ELSE AmmFill(after[n - 1], fills[n].user, fills[n].user,
                         fills[n].base, fills[n].price, NoFees)
    IN  after[Len(fills)]

MCPerpInit ==
    /\ plan \in Plans
    /\ position = Opened(plan.opening).position
    /\ market = Opened(plan.opening).market
    /\ bankrupt = [u \in Users |-> FALSE]
    /\ status = "Active"
    /\ steps = 0

-----------------------------------------------------------------------------
\* The disjuncts of PerpNext over the inputs of the plan.
Bases == plan.sizes \cup {-n : n \in plan.sizes}

PlannedTrade ==
    \/ \E taker, filler \in Users, base \in Bases, price \in plan.prices,
          tier \in plan.tiers : FillAgainstAmm(taker, filler, base, price, tier)
    \/ \E taker, maker, filler \in Users, base \in Bases,
          price \in plan.prices, tier \in plan.tiers :
          FillAgainstMaker(taker, maker, filler, base, price, tier)
    \/ \E from, to \in Users, amount \in Bases, price \in plan.prices :
          TransferPerpPosition(from, to, amount, price)
    \/ \E u \in Users, amount \in Bases, price \in plan.prices :
          TransferToVamm(u, amount, price)

PlannedSettlement ==
    \/ \E rate \in plan.rates, kCost \in Signed(Costs) :
          UpdateFundingRate(rate, kCost)
    \/ \E u \in Users : SettleFunding(u)
    \/ \E u \in Users, amount \in Signed(plan.amounts),
          price \in plan.prices : SettlePnl(u, amount, price)
    \/ \E cost \in Costs : SettleExpiredMarket(cost)
    \/ \E u \in Users, price \in plan.prices, tier \in plan.tiers :
          SettleExpiredPosition(u, price, tier.fee)

PlannedLiquidation ==
    \/ \E u, liquidator \in Users, amount \in Bases, price \in plan.prices,
          tier \in plan.tiers, latch \in BOOLEAN :
          LiquidatePerp(u, liquidator, amount, price, tier, latch)
    \/ \E u, liquidator, maker \in Users, amount \in Bases,
          price \in plan.prices, tier \in plan.tiers, latch \in BOOLEAN :
          LiquidatePerpWithFill(u, liquidator, maker, amount, price, tier,
                                latch)
    \/ \E u, liquidator \in Users, pnl \in plan.amounts, latch \in BOOLEAN :
          LiquidateBorrowForPerpPnl(u, liquidator, pnl, latch)
    \/ \E u, liquidator \in Users, pnl \in plan.amounts, latch \in BOOLEAN :
          LiquidatePerpPnlForDeposit(u, liquidator, pnl, latch)

PlannedBankruptcy ==
    \/ \E u \in Users : LatchElsewhere(u)
    \/ \E u \in Users, setoff, covered, clawed \in plan.amounts,
          assets, stillBankrupt \in BOOLEAN :
          ResolvePerpBankruptcy(u, setoff, covered, clawed, assets,
                                stillBankrupt)
    \/ \E u \in Users, amount \in plan.amounts : WindUpClaim(u, amount)

MCPerpNext ==
    /\ steps < plan.budget
    /\ steps' = steps + 1
    /\ UNCHANGED plan
    /\ PlannedTrade \/ PlannedSettlement \/ PlannedLiquidation
         \/ PlannedBankruptcy

MCPerpSpec == MCPerpInit /\ [][MCPerpNext]_<<perpVars, plan, steps>>

-----------------------------------------------------------------------------
Fill(u, base, price) == [user |-> u, base |-> base, price |-> price]

MCUsers == 1..3

\* A fee worth more than the parts paid from it.
MCTiers == {[fee |-> 3, rebate |-> 1, reward |-> 1, toMarket |-> 1,
             toPools |-> 2]}

MCAllTiers == MCTiers \cup {NoFees}

MCRates == {-50, 50}

\* One side against the AMM, both sides, and two accounts on one side.
BookPlans ==
    {[opening |-> fills, budget |-> 2, sizes |-> {1, 3}, prices |-> {1, 4},
      tiers |-> MCTiers, amounts |-> {0, 2}, rates |-> MCRates] :
        fills \in {<<Fill(1, 3, 4)>>,
                   <<Fill(1, 3, 4), Fill(2, -1, 4)>>,
                   <<Fill(1, -3, 1), Fill(2, -1, 4)>>}}

\* An account that a fall of the price leaves in debt, one that gains from it
\* and one that has no position yet.
BankruptcyPlan ==
    [opening |-> <<Fill(1, 3, 20), Fill(2, -3, 20)>>, budget |-> 4,
     sizes |-> {3}, prices |-> {1}, tiers |-> {NoFees}, amounts |-> {0, 20},
     rates |-> {50}]

MCPlans == BookPlans \cup {BankruptcyPlan}

\* Every plan keeps to the inputs of PerpMarket.
ASSUME PlansWithinInputs ==
    \A p \in Plans :
        /\ p.sizes \subseteq Sizes /\ p.prices \subseteq Prices
        /\ p.tiers \subseteq Tiers /\ p.amounts \subseteq Amounts
        /\ p.rates \subseteq Rates

-----------------------------------------------------------------------------
\* The market's unsettled funding is what its positions have yet to settle, up
\* to the rounding of the instructions so far: funding paid to one side is
\* owed by the other or by the AMM, and a socialised loss by the survivors.
FundingAccounted ==
    Abs(market.net_unsettled_funding_pnl
          - Sum([u \in Users |-> PendingFunding(position[u], market)]))
      <= Cardinality(Users) + Dust * steps
=============================================================================
