----------------------------- MODULE PerpMarket -----------------------------
(***************************************************************************)
(* One perp market, its AMM as counterparty, and the positions of the      *)
(* accounts that trade it: fills, funding, pnl settlement, liquidation,    *)
(* bankruptcy and the wind-down of an expired market.  Each action is one  *)
(* instruction, which the program runs atomically.                         *)
(*                                                                         *)
(* Prices, fees and what the rest of an account is worth are open: a       *)
(* margin check or a pool balance only decides which amounts an            *)
(* instruction may move, and the model allows every amount of a small set. *)
(***************************************************************************)
EXTENDS PerpPosition, FiniteSets, Functions

CONSTANTS
    Users,
    Sizes,      \* base traded by one fill, in base atoms
    Prices,     \* quote atoms per base atom
    Tiers,      \* what a fill or a liquidation charges and pays
    Costs,      \* what a curve update costs the AMM
    Amounts,    \* quote amounts settled, transferred or covered
    Rates,      \* funding rates of one period
    FeesAtStart \* the AMM's retained equity when the market opens

ASSUME MarketAssumption ==
    /\ IsFiniteSet(Users)
    /\ Sizes \subseteq Nat \ {0}
    /\ Prices \subseteq Nat \ {0}
    /\ Tiers \subseteq [fee : Nat, rebate : Nat, reward : Nat,
                         toMarket : Nat, toPools : Nat]
    /\ Costs \subseteq Nat
    /\ Amounts \subseteq Nat
    /\ Rates \subseteq Int
    /\ FeesAtStart \in Nat

VARIABLES
    position,   \* PerpPosition of each account in this market
    market,     \* PerpMarket and its AMM
    bankrupt,   \* the account's bankruptcy latch
    status      \* MarketStatus

perpVars == <<position, market, bankrupt, status>>

NewMarket ==
    [base_asset_amount |-> [s \in Sides |-> 0],
     quote_entry_amount |-> [s \in Sides |-> 0],
     quote_break_even_amount |-> [s \in Sides |-> 0],
     cumulative_funding_rate |-> [s \in Sides |-> 0],
     quote_asset_amount |-> 0,
     number_of_users |-> 0,
     number_of_users_with_base |-> 0,
     net_unsettled_funding_pnl |-> 0,
     pending_bankruptcy_claims |-> 0,
     base_asset_amount_with_amm |-> 0,
     total_fee_minus_distributions |-> FeesAtStart,
     amm_last_cumulative_funding_rate |-> [s \in Sides |-> 0]]

PerpInit ==
    /\ position = [u \in Users |-> EmptyPosition]
    /\ market = NewMarket
    /\ bankrupt = [u \in Users |-> FALSE]
    /\ status = "Active"

Deltas == Sizes \cup {-n : n \in Sizes}

\* max(|long|, |short|)
OpenInterest(m) == Greater(Abs(m.base_asset_amount["Long"]),
                           Abs(m.base_asset_amount["Short"]))

GrossInterest(m) == Abs(m.base_asset_amount["Long"])
                      + Abs(m.base_asset_amount["Short"])

-----------------------------------------------------------------------------
(***************************************************************************)
(* A state s = [position, market] and what one call does to it.            *)
(***************************************************************************)
Now == [position |-> position, market |-> market]

Book(s, u) == [p |-> s.position[u], m |-> s.market]

\* The book with the slot of force_get_perp_position_mut.
ForcedBook(s, u) == [p |-> ForceGet(s.position[u]), m |-> s.market]

With(s, u, b) == [position |-> [s.position EXCEPT ![u] = b.p], market |-> b.m]

AfterFunding(s, u) == With(s, u, SettleFundingPayment(Book(s, u)))

Traded(s, u, base, price) ==
    With(s, u, UpdatePositionAndMarket(ForcedBook(s, u),
                   [base |-> base, quote |-> -(base * price)]))

Charged(s, u, fee) ==
    With(s, u, UpdateQuoteAssetAndBreakEvenAmount(Book(s, u), -fee))

\* credit_filler_perp_pnl and the transfers of quote to a forced slot
Credited(s, u, amount) ==
    IF amount = 0
      THEN s
      ELSE With(s, u, UpdateQuoteAssetAmount(ForcedBook(s, u), amount))

Flagged(s, u) == With(s, u, FlagBankruptcyClaim(Book(s, u)))

\* Faulty: the AMM's side of the trade is not booked.
AmmTakesNothing(s, base) == s

\* apply_settlement_counterparty and commit_fill
AmmTakes(s, base) ==
    [s EXCEPT !.market.base_asset_amount_with_amm = @ + base]

\* record_amm_pnl
AmmEarns(s, amount) ==
    [s EXCEPT !.market.total_fee_minus_distributions = @ + amount]

\* settle_amm_house_fill: the account pays a fee or, resting, earns a rebate.
AmmFill(s, taker, filler, base, price, tier) ==
    LET traded == Traded(AmmTakes(s, base), taker, base, price)
        fees   == Charged(AmmEarns(traded, tier.toMarket), taker, tier.fee)
    IN  Credited(Charged(fees, taker, -tier.rebate), filler, tier.reward)

\* settle_dlob_match_fill: the maker's side first, its rebate last.
MatchFill(s, taker, maker, filler, base, price, tier) ==
    LET made  == Traded(s, maker, -base, price)
        taken == Traded(made, taker, base, price)
        fees  == Charged(AmmEarns(taken, tier.toMarket), taker, tier.fee)
    IN  Credited(Charged(fees, maker, -tier.rebate), filler, tier.reward)

\* update_position_and_market rejects a position with funding due.
CanTrade(s, u) == FundingSettled(s.position[u], s.market)

Becomes(s) == position' = s.position /\ market' = s.market

-----------------------------------------------------------------------------
(***************************************************************************)
(* Trading.                                                                *)
(***************************************************************************)
\* fill_perp_order against the AMM.  The filler's account is not checked for
\* bankruptcy; without one (filler = taker) there is no reward.
FillAgainstAmm(taker, filler, base, price, tier) ==
    LET s == AfterFunding(Now, taker)
    IN  /\ status = "Active" /\ ~bankrupt[taker]
        /\ filler = taker <=> tier.reward = 0
        /\ CanTrade(s, taker)
        /\ Becomes(AmmFill(s, taker, filler, base, price, tier))
        /\ UNCHANGED <<bankrupt, status>>

\* fill_perp_order against a resting order.
FillAgainstMaker(taker, maker, filler, base, price, tier) ==
    LET s == AfterFunding(AfterFunding(Now, taker), maker)
    IN  /\ status = "Active" /\ maker # taker
        /\ filler = taker <=> tier.reward = 0
        /\ filler # maker
        /\ ~bankrupt[taker] /\ ~bankrupt[maker]
        /\ CanTrade(s, taker) /\ CanTrade(s, maker)
        /\ Becomes(MatchFill(s, taker, maker, filler, base, price, tier))
        /\ UNCHANGED <<bankrupt, status>>

\* The amount a transfer may move: part of the position, in its direction.
PartOf(base, amount) ==
    Signum(amount) = Signum(base) /\ Abs(amount) <= Abs(base)

\* handle_transfer_perp_position
TransferPerpPosition(from, to, amount, price) ==
    LET s   == AfterFunding(AfterFunding(Now, from), to)
        end == Traded(Traded(s, from, -amount, price), to, amount, price)
    IN  /\ status = "Active" /\ from # to
        /\ ~bankrupt[from] /\ ~bankrupt[to]
        /\ PartOf(s.position[from].base_asset_amount, amount)
        /\ CanTrade(s, from) /\ CanTrade(s, to)
        /\ OpenInterest(end.market) <= OpenInterest(market)
        /\ Becomes(end)
        /\ UNCHANGED <<bankrupt, status>>

\* handle_special_transfer_perp_position_to_vamm: a hedger hands its position
\* back to the AMM it was taken from.
TransferToVamm(u, amount, price) ==
    LET s   == AfterFunding(Now, u)
        end == AmmTakes(Traded(s, u, -amount, price), -amount)
    IN  /\ ~bankrupt[u]
        /\ PartOf(s.position[u].base_asset_amount, amount)
        /\ PartOf(s.market.base_asset_amount_with_amm, amount)
        /\ CanTrade(s, u)
        /\ OpenInterest(end.market) <= OpenInterest(market)
        /\ Becomes(end)
        /\ UNCHANGED <<bankrupt, status>>

-----------------------------------------------------------------------------
(***************************************************************************)
(* Funding and pnl.                                                        *)
(***************************************************************************)
\* The rates of both sides advance; the AMM settles its own payment at the
\* new rates and is stamped with them.
AmmFundingSettled(m, rate) ==
    [m EXCEPT
       !.total_fee_minus_distributions = @
           + AmmFundingPayment(
               m.base_asset_amount["Long"], m.base_asset_amount["Short"],
               rate["Long"] - m.amm_last_cumulative_funding_rate["Long"],
               rate["Short"] - m.amm_last_cumulative_funding_rate["Short"]),
       !.amm_last_cumulative_funding_rate = rate]

\* update_funding_rate.  kCost is what the curve update that follows charges
\* the AMM; a cost it cannot pay is skipped.
UpdateFundingRate(rate, kCost) ==
    LET m     == market
        r     == RateLongShort(m.base_asset_amount_with_amm,
                               m.base_asset_amount["Long"],
                               m.base_asset_amount["Short"],
                               m.total_fee_minus_distributions, rate)
        new   == [x \in Sides |-> m.cumulative_funding_rate[x] + r[x]]
        paid  == AmmFundingSettled(m, new)
        after == paid.total_fee_minus_distributions - kCost
    IN  /\ status = "Active"
        /\ FundingProfitabilityOK(m.total_fee_minus_distributions, r.revenue)
        /\ market' = [paid EXCEPT
               !.cumulative_funding_rate = new,
               !.net_unsettled_funding_pnl = @ - r.revenue,
               !.total_fee_minus_distributions =
                   IF kCost > 0 /\ after < 0 THEN @ ELSE after]
        /\ UNCHANGED <<position, bankrupt, status>>

\* settle_funding_payment, cranked for an account
SettleFunding(u) ==
    /\ position[u].base_asset_amount # 0
    /\ Becomes(AfterFunding(Now, u))
    /\ UNCHANGED <<bankrupt, status>>

UnrealizedPnl(p, price) == p.quote_asset_amount + p.base_asset_amount * price

\* settle_pnl: the pools decide how much of the pnl is settled.
SettlePnl(u, amount, price) ==
    LET s == AfterFunding(Now, u)
    IN  /\ status = "Active" /\ ~bankrupt[u]
        /\ ~IsAvailable(s.position[u])
        /\ PartOf(UnrealizedPnl(s.position[u], price), amount)
        /\ Becomes(With(s, u, UpdateQuoteAssetAmount(Book(s, u), -amount)))
        /\ UNCHANGED <<bankrupt, status>>

-----------------------------------------------------------------------------
(***************************************************************************)
(* Liquidation.  latch says whether the account's other markets leave it   *)
(* bankrupt; no account with base is.                                      *)
(***************************************************************************)
\* Faulty: an account that still holds base may be latched.
ConcludedEarly(s, u, latch) ==
    /\ Becomes(IF latch THEN Flagged(s, u) ELSE s)
    /\ bankrupt' = [bankrupt EXCEPT ![u] = latch]
    /\ UNCHANGED status

\* The tail of every perp liquidation: the account enters bankruptcy and its
\* debt in this market is booked.
Concluded(s, u, latch) ==
    /\ latch => s.position[u].base_asset_amount = 0
    /\ Becomes(IF latch THEN Flagged(s, u) ELSE s)
    /\ bankrupt' = [bankrupt EXCEPT ![u] = latch]
    /\ UNCHANGED status

MayLiquidate(u, liquidator) ==
    u # liquidator /\ ~bankrupt[u] /\ ~bankrupt[liquidator]

\* liquidate_perp: the liquidator takes base over at the oracle price.
LiquidatePerp(u, liquidator, amount, price, tier, latch) ==
    LET s      == AfterFunding(AfterFunding(Now, u), liquidator)
        closed == Charged(Charged(Traded(s, u, -amount, price),
                                  u, tier.reward),
                          u, tier.toPools)
        taken  == Charged(Traded(closed, liquidator, amount, price),
                          liquidator, -tier.reward)
    IN  /\ MayLiquidate(u, liquidator)
        /\ PartOf(s.position[u].base_asset_amount, amount)
        /\ CanTrade(s, u) /\ CanTrade(s, liquidator)
        /\ Concluded(taken, u, latch)

\* liquidate_perp_with_fill: an order of the account is placed and filled by
\* the AMM (maker = u) or a maker; the liquidator is the filler.
LiquidatePerpWithFill(u, liquidator, maker, amount, price, tier, latch) ==
    LET s      == AfterFunding(AfterFunding(Now, u), liquidator)
        m      == AfterFunding(s, maker)
        filled == IF maker = u
                    THEN AmmFill(s, u, liquidator, -amount, price, tier)
                    ELSE MatchFill(m, u, maker, liquidator, -amount, price,
                                   tier)
    IN  /\ status = "Active" /\ MayLiquidate(u, liquidator)
        /\ maker # liquidator /\ ~bankrupt[maker]
        /\ PartOf(s.position[u].base_asset_amount, amount)
        /\ CanTrade(s, u) /\ (maker # u => CanTrade(m, maker))
        /\ ~IsAvailable(filled.position[u])
        /\ Concluded(Charged(filled, u, tier.toPools), u, latch)

\* liquidate_borrow_for_perp_pnl: the liquidator takes settled profit.
LiquidateBorrowForPerpPnl(u, liquidator, pnl, latch) ==
    LET s == AfterFunding(AfterFunding(Now, u), liquidator)
        c == Credited(s, liquidator, pnl)
    IN  /\ MayLiquidate(u, liquidator)
        /\ s.position[u].base_asset_amount = 0
        /\ pnl > 0 /\ pnl <= s.position[u].quote_asset_amount
        /\ Concluded(With(c, u, UpdateQuoteAssetAmount(Book(c, u), -pnl)),
                     u, latch)

\* liquidate_perp_pnl_for_deposit: the liquidator takes a settled loss.
LiquidatePerpPnlForDeposit(u, liquidator, pnl, latch) ==
    LET s == AfterFunding(AfterFunding(Now, u), liquidator)
        c == Credited(s, liquidator, -pnl)
    IN  /\ MayLiquidate(u, liquidator)
        /\ s.position[u].base_asset_amount = 0
        /\ pnl > 0 /\ pnl <= -s.position[u].quote_asset_amount
        /\ Concluded(With(c, u, UpdateQuoteAssetAmount(Book(c, u), pnl)),
                     u, latch)

\* A liquidation or a bankruptcy in another market sets or lifts the latch;
\* it does not hold this market writable and books nothing here.
LatchElsewhere(u) ==
    /\ position[u].base_asset_amount = 0
    /\ bankrupt' = [bankrupt EXCEPT ![u] = ~@]
    /\ UNCHANGED <<position, market, status>>

-----------------------------------------------------------------------------
(***************************************************************************)
(* Bankruptcy.                                                             *)
(***************************************************************************)
\* Faulty: the AMM keeps its old stamp and is paid at the next update.
SocializedWithoutStamp(m, loss) ==
    LET delta == SocialLossRate(loss, GrossInterest(m))
    IN  [AmmFundingSettled(m, m.cumulative_funding_rate) EXCEPT
           !.cumulative_funding_rate["Long"] = @ + delta,
           !.cumulative_funding_rate["Short"] = @ - delta,
           !.net_unsettled_funding_pnl = @ - loss]

\* The AMM settles what it has accrued, both sides' rates move against the
\* open positions, and the AMM's stamp is moved past the bump.
Socialized(m, loss) ==
    LET delta == SocialLossRate(loss, GrossInterest(m))
        rate  == [x \in Sides |-> IF x = "Long"
                                   THEN m.cumulative_funding_rate[x] + delta
                                   ELSE m.cumulative_funding_rate[x] - delta]
    IN  [AmmFundingSettled(m, m.cumulative_funding_rate) EXCEPT
           !.cumulative_funding_rate = rate,
           !.net_unsettled_funding_pnl = @ - loss,
           !.amm_last_cumulative_funding_rate = rate]

\* The estate's own quote deposit pays part of its debt.
SetOff(s, u, amount) ==
    With(s, u, UpdateQuoteAssetAmount(Book(s, u), amount))

\* resolve_perp_bankruptcy.  covered is what the fee tranche, the insurance
\* fund and the AMM's provision (clawed) absorb; the rest is socialised.
ResolvePerpBankruptcy(u, setoff, covered, clawed, assets, stillBankrupt) ==
    LET s    == SetOff(Now, u, setoff)
        loss == -s.position[u].quote_asset_amount
        left == loss - covered
        paid == AmmEarns(s, -clawed)
        m    == IF left > 0 THEN Socialized(paid.market, left)
                ELSE paid.market
    IN  /\ bankrupt[u] \/ position[u].base_asset_amount = 0
        /\ ~IsAvailable(position[u])
        /\ setoff <= Greater(0, -position[u].quote_asset_amount)
        /\ \/ \* a realizable asset is left: the latch is lifted, nothing drawn
              /\ assets /\ covered = 0 /\ clawed = 0
              /\ Becomes(s)
              /\ bankrupt' = [bankrupt EXCEPT ![u] = FALSE]
           \/ /\ ~assets /\ loss = 0 /\ covered = 0 /\ clawed = 0
              /\ Becomes(s)
              /\ bankrupt' = [bankrupt EXCEPT ![u] = stillBankrupt]
           \/ /\ ~assets /\ loss > 0 /\ clawed <= covered /\ covered <= loss
              /\ left > 0 => GrossInterest(market) > 0
              /\ Becomes(With([paid EXCEPT !.market = m], u,
                     UpdateQuoteAssetAmount([p |-> s.position[u], m |-> m],
                                            loss)))
              /\ bankrupt' = [bankrupt EXCEPT ![u] = stillBankrupt]
        /\ UNCHANGED status

\* recover_perp_claims_from_pnl_pools and extinguish_unfundable_perp_claims:
\* the profit a bankrupt estate has in this market pays for its debt in
\* another.
WindUpClaim(u, amount) ==
    /\ bankrupt[u]
    /\ position[u].base_asset_amount = 0
    /\ amount > 0 /\ amount <= position[u].quote_asset_amount
    /\ Becomes(SetOff(Now, u, -amount))
    /\ UNCHANGED <<bankrupt, status>>

-----------------------------------------------------------------------------
(***************************************************************************)
(* Expiry.                                                                 *)
(***************************************************************************)
\* settle_expired_market: the AMM's equity pays for a last curve update.  The
\* code tests the expiry and not the status, so it may run again.
SettleExpiredMarket(cost) ==
    /\ cost <= Greater(0, market.total_fee_minus_distributions)
    /\ status' = "Settlement"
    /\ Becomes(AmmEarns(Now, -cost))
    /\ UNCHANGED bankrupt

\* settle_expired_position: closed at the expiry price, charged a fee, and
\* settled in full with the pnl pool.
SettleExpiredPosition(u, price, fee) ==
    LET s      == AfterFunding(Now, u)
        base   == s.position[u].base_asset_amount
        closed == With(s, u, UpdatePositionAndMarket(Book(s, u),
                      [base |-> -base, quote |-> base * price]))
        fees   == IF base = 0 THEN closed ELSE Charged(closed, u, fee)
        pnl    == fees.position[u].quote_asset_amount
    IN  /\ status = "Settlement" /\ ~bankrupt[u]
        /\ ~IsAvailable(position[u])
        /\ CanTrade(s, u)
        /\ Becomes(AmmTakes(With(fees, u,
                       UpdateQuoteAssetAmount(Book(fees, u), -pnl)), -base))
        /\ UNCHANGED <<bankrupt, status>>

\* Faulty: only base is looked at.
BaseClear(m) ==
    /\ m.base_asset_amount["Long"] = 0 /\ m.base_asset_amount["Short"] = 0
    /\ m.number_of_users_with_base = 0
    /\ m.base_asset_amount_with_amm = 0

\* What handle_settle_expired_market_pools_to_revenue_pool demands of the
\* market's counters before it may be delisted, and of its cost basis.
CountersClear(m) ==
    /\ m.base_asset_amount["Long"] = 0 /\ m.base_asset_amount["Short"] = 0
    /\ m.number_of_users_with_base = 0
    /\ m.pending_bankruptcy_claims = 0
    /\ m.base_asset_amount_with_amm = 0

NetUserCostBasis(m) == m.quote_asset_amount + m.net_unsettled_funding_pnl

-----------------------------------------------------------------------------
Trade ==
    \/ \E taker, filler \in Users, base \in Deltas, price \in Prices,
          tier \in Tiers : FillAgainstAmm(taker, filler, base, price, tier)
    \/ \E taker, maker, filler \in Users, base \in Deltas, price \in Prices,
          tier \in Tiers :
          FillAgainstMaker(taker, maker, filler, base, price, tier)
    \/ \E from, to \in Users, amount \in Deltas, price \in Prices :
          TransferPerpPosition(from, to, amount, price)
    \/ \E u \in Users, amount \in Deltas, price \in Prices :
          TransferToVamm(u, amount, price)

Signed(S) == S \cup {-n : n \in S}

Settlement ==
    \/ \E rate \in Rates, kCost \in Signed(Costs) :
          UpdateFundingRate(rate, kCost)
    \/ \E u \in Users : SettleFunding(u)
    \/ \E u \in Users, amount \in Signed(Amounts), price \in Prices :
          SettlePnl(u, amount, price)
    \/ \E cost \in Costs : SettleExpiredMarket(cost)
    \/ \E u \in Users, price \in Prices, tier \in Tiers :
          SettleExpiredPosition(u, price, tier.fee)

Liquidation ==
    \/ \E u, liquidator \in Users, amount \in Deltas, price \in Prices,
          tier \in Tiers, latch \in BOOLEAN :
          LiquidatePerp(u, liquidator, amount, price, tier, latch)
    \/ \E u, liquidator, maker \in Users, amount \in Deltas, price \in Prices,
          tier \in Tiers, latch \in BOOLEAN :
          LiquidatePerpWithFill(u, liquidator, maker, amount, price, tier,
                                latch)
    \/ \E u, liquidator \in Users, pnl \in Amounts, latch \in BOOLEAN :
          LiquidateBorrowForPerpPnl(u, liquidator, pnl, latch)
    \/ \E u, liquidator \in Users, pnl \in Amounts, latch \in BOOLEAN :
          LiquidatePerpPnlForDeposit(u, liquidator, pnl, latch)

Bankruptcy ==
    \/ \E u \in Users : LatchElsewhere(u)
    \/ \E u \in Users, setoff, covered, clawed \in Amounts,
          assets, stillBankrupt \in BOOLEAN :
          ResolvePerpBankruptcy(u, setoff, covered, clawed, assets,
                                stillBankrupt)
    \/ \E u \in Users, amount \in Amounts : WindUpClaim(u, amount)

PerpNext == Trade \/ Settlement \/ Liquidation \/ Bankruptcy

PerpSpec == PerpInit /\ [][PerpNext]_perpVars

-----------------------------------------------------------------------------
(***************************************************************************)
(* Properties.                                                             *)
(***************************************************************************)
PositionType ==
    [base_asset_amount : Int, quote_asset_amount : Int,
     quote_entry_amount : Int, quote_break_even_amount : Int,
     last_cumulative_funding_rate : Int, bankruptcy_claim : BOOLEAN]

MarketType ==
    [base_asset_amount : [Sides -> Int],
     quote_entry_amount : [Sides -> Int],
     quote_break_even_amount : [Sides -> Int],
     cumulative_funding_rate : [Sides -> Int],
     quote_asset_amount : Int,
     number_of_users : Nat,
     number_of_users_with_base : Nat,
     net_unsettled_funding_pnl : Int,
     pending_bankruptcy_claims : Nat,
     base_asset_amount_with_amm : Int,
     total_fee_minus_distributions : Int,
     amm_last_cumulative_funding_rate : [Sides -> Int]]

PerpTypeOK ==
    /\ position \in [Users -> PositionType]
    /\ market \in MarketType
    /\ bankrupt \in [Users -> BOOLEAN]
    /\ status \in {"Active", "Settlement"}

\* Whatever users hold net of each other the AMM holds against them: the
\* equality AMM::validate asserts, through every path that moves base.
AmmIsCounterparty ==
    market.base_asset_amount_with_amm
      = market.base_asset_amount["Long"] + market.base_asset_amount["Short"]

\* Between instructions the AMM has settled its own funding at the market's
\* rates, also after a loss was socialised through them: otherwise its next
\* settlement would credit it with the bump.
AmmStampCurrent ==
    market.amm_last_cumulative_funding_rate = market.cumulative_funding_rate

\* A booked bankruptcy claim is always still a debt: whoever clears it
\* releases the booking in the same step, so no empty slot carries one.
ClaimsAreDebts ==
    \A u \in Users : position[u].bankruptcy_claim
                        => position[u].quote_asset_amount < 0

\* A latched account holds no base in this market: latching demands it, and no
\* instruction a latched account takes part in gives it any.
BankruptIsFlat ==
    \A u \in Users : bankrupt[u] => position[u].base_asset_amount = 0

\* A position without base has no cost basis left: closing, also in parts with
\* truncated shares and fees charged in between, clears it.
FlatHasNoBasis ==
    \A u \in Users : position[u].base_asset_amount = 0 =>
        /\ position[u].quote_entry_amount = 0
        /\ position[u].quote_break_even_amount = 0

\* The AMM is in step with the market: in base, and in the funding it settled.
AmmInStep == AmmIsCounterparty /\ AmmStampCurrent

\* What a position says of itself: no basis without base, no claim without a
\* debt, no base in bankruptcy.
PositionsSound == PerpTypeOK /\ FlatHasNoBasis /\ ClaimsAreDebts /\ BankruptIsFlat

\* A sum over the accounts.
Sum(f) == SumFunctionOnSet(f, Users)

\* The value of a position with that base, on the side it is on.
OnSide(base, side, value) ==
    IF base # 0 /\ Side(base) = side THEN value ELSE 0

\* The market's running totals are the sums over the positions, through opens,
\* flips, truncated partial closes, fees on emptied slots and recycled slots.
TotalsMatch ==
    /\ market.quote_asset_amount
         = Sum([u \in Users |-> position[u].quote_asset_amount])
    /\ \A x \in Sides :
         /\ market.base_asset_amount[x]
              = Sum([u \in Users |->
                       OnSide(position[u].base_asset_amount, x,
                              position[u].base_asset_amount)])
         /\ market.quote_entry_amount[x]
              = Sum([u \in Users |->
                       OnSide(position[u].base_asset_amount, x,
                              position[u].quote_entry_amount)])
         /\ market.quote_break_even_amount[x]
              = Sum([u \in Users |->
                       OnSide(position[u].base_asset_amount, x,
                              position[u].quote_break_even_amount)])

\* The counters that gate deletion, delisting and the fee sweep count exactly
\* the accounts with a position, with base, and with a booked claim.
CountsMatch ==
    /\ market.number_of_users
         = Cardinality({u \in Users : ~IsAvailable(position[u])})
    /\ market.number_of_users_with_base
         = Cardinality({u \in Users : position[u].base_asset_amount # 0})
    /\ market.pending_bankruptcy_claims
         = Cardinality({u \in Users : position[u].bankruptcy_claim})

\* The delisting gate opens on its counters exactly when no account holds base
\* and no booked bankruptcy is unresolved.
GateCountsPositions ==
    CountersClear(market)
      <=> \A u \in Users : position[u].base_asset_amount = 0
                             /\ ~position[u].bankruptcy_claim

\* The market's totals, counters and gate are those of its positions.
BooksMatch == TotalsMatch /\ CountsMatch /\ GateCountsPositions
=============================================================================
