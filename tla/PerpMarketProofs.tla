-------------------------- MODULE PerpMarketProofs --------------------------
(***************************************************************************)
(* Proofs about PerpMarket for any accounts, sizes, prices, fees, amounts  *)
(* and rates.  Every instruction is a composition of calls that rewrite    *)
(* one position and the market; each action is shown to be a Shift         *)
(* (PerpBookProofs) that leaves the AMM the counterparty of the net        *)
(* position and the totals those of the positions.                         *)
(***************************************************************************)
EXTENDS PerpBookProofs

-----------------------------------------------------------------------------
(* The inductive invariant *)

PerpInv ==
    /\ PerpTypeOK
    /\ AmmIsCounterparty
    /\ AmmStampCurrent
    /\ ClaimsAreDebts
    /\ FlatHasNoBasis
    /\ BankruptIsFlat
    /\ Matched(Now)

\* The current state is good and balanced.
LEMMA NowGood ==
    ASSUME PerpInv
    PROVE  /\ Good(Now) /\ Imbalance(market) = 0
           /\ Now.position = position /\ Now.market = market
<1>1. position \in [Users -> PositionType] /\ market \in MarketType
  BY DEF PerpInv, PerpTypeOK
<1>2. Now.position = position /\ Now.market = market /\ Now \in States
  BY <1>1 DEF Now, States
<1>3. \A u \in Users : Sound(position[u])
  BY DEF PerpInv, ClaimsAreDebts, FlatHasNoBasis, Sound
<1>4. Imbalance(market) = 0
  BY <1>1 DEF PerpInv, AmmIsCounterparty, Imbalance, Net, MarketType, Sides
<1> QED
  BY <1>2, <1>3, <1>4 DEF Good, PerpInv

\* A step into a good, balanced and stamped state keeps the invariant, if the
\* accounts it leaves latched hold no base.
LEMMA GoodKeepsInv ==
    ASSUME NEW t, Good(t), Imbalance(t.market) = 0, Becomes(t),
           t.market.amm_last_cumulative_funding_rate
             = t.market.cumulative_funding_rate,
           bankrupt' \in [Users -> BOOLEAN],
           status' \in {"Active", "Settlement"},
           \A u \in Users :
             bankrupt'[u] => t.position[u].base_asset_amount = 0
    PROVE  PerpInv'
<1>1. position' = t.position /\ market' = t.market
  BY DEF Becomes
<1>2. PerpTypeOK'
  BY <1>1 DEF PerpTypeOK, Good, States
<1>3. AmmIsCounterparty'
  <2>1. t.market \in MarketType
    BY GoodParts
  <2> QED
    BY <1>1, <2>1 DEF AmmIsCounterparty, Imbalance, Net, MarketType, Sides
<1>4. AmmStampCurrent'
  BY <1>1 DEF AmmStampCurrent
<1>5. ClaimsAreDebts' /\ FlatHasNoBasis'
  BY <1>1 DEF ClaimsAreDebts, FlatHasNoBasis, Good, Sound
<1>6. BankruptIsFlat'
  BY <1>1 DEF BankruptIsFlat
<1>7. Matched(Now')
  BY <1>1, MatchedSame DEF Good, Now, SameTotals
<1> QED
  BY <1>2, <1>3, <1>4, <1>5, <1>6, <1>7 DEF PerpInv

\* A step that is a balanced shift keeps the invariant, if it trades for no
\* latched account and latches none with base.
LEMMA ShiftKeepsInv ==
    ASSUME PerpInv, NEW t, NEW W, Shift(Now, t, W, 0), Becomes(t),
           bankrupt' \in [Users -> BOOLEAN],
           status' \in {"Active", "Settlement"},
           \A u \in Users :
             bankrupt'[u] => \/ bankrupt[u] /\ u \notin W
                             \/ t.position[u].base_asset_amount = 0
    PROVE  PerpInv'
<1>1. Good(t) /\ Imbalance(t.market) = 0
  BY NowGood DEF Shift
<1>2. t.market.amm_last_cumulative_funding_rate
        = t.market.cumulative_funding_rate
  BY NowGood DEF Shift, PerpInv, AmmStampCurrent
<1>3. \A u \in Users : bankrupt'[u] => t.position[u].base_asset_amount = 0
  BY NowGood DEF BankruptIsFlat, PerpInv, Shift
<1> QED
  BY <1>1, <1>2, <1>3, GoodKeepsInv

\* The inputs of the instructions are integers.
LEMMA Inputs ==
    /\ Deltas \subseteq Int /\ Prices \subseteq Int /\ Tiers \subseteq TierType
    /\ Amounts \subseteq Int /\ Signed(Amounts) \subseteq Int
    /\ Costs \subseteq Int /\ Signed(Costs) \subseteq Int /\ Rates \subseteq Int
<1>1. Prices \subseteq Int /\ Amounts \subseteq Int /\ Costs \subseteq Int
        /\ Rates \subseteq Int /\ Sizes \subseteq Int
  BY MarketAssumption
<1>2. Tiers \subseteq TierType
  BY MarketAssumption, Zenon DEF TierType
<1>3. ASSUME NEW S, S \subseteq Int PROVE Signed(S) \subseteq Int
  <2> SUFFICES ASSUME NEW x \in Signed(S) PROVE x \in Int
    OBVIOUS
  <2>1. x \in S \/ \E n \in S : x = -n
    BY Zenon DEF Signed
  <2>2. \A n \in S : n \in Int
    BY <1>3
  <2>3. \A n \in Int : -n \in Int
    OBVIOUS
  <2> QED
    BY <2>1, <2>2, <2>3, Zenon
<1>4. Deltas \subseteq Int
  <2>1. Deltas = Signed(Sizes)
    BY Zenon DEF Deltas, Signed
  <2> QED
    BY <1>1, <1>3, <2>1, Zenon
<1> QED
  BY <1>1, <1>2, <1>3, <1>4, Zenon

\* Settling two accounts' funding.
LEMMA TwoSettledShift ==
    ASSUME NEW s, Good(s), NEW u \in Users, NEW v \in Users
    PROVE  LET t == AfterFunding(AfterFunding(s, u), v) IN Shift(s, t, {}, 0) /\ Good(t)
<1> DEFINE a == AfterFunding(s, u)
           t == AfterFunding(a, v)
<1>1. Shift(s, a, {}, 0) /\ Good(a)
  BY SettledShift
<1> HIDE DEF a
<1>2. Shift(a, t, {}, 0) /\ Good(t)
  BY <1>1, SettledShift
<1>3. Shift(s, t, {}, 0)
  BY <1>1, <1>2, ShiftChain
<1> QED
  BY <1>2, <1>3 DEF a

\* A shift after settled funding.
LEMMA AfterSettled ==
    ASSUME NEW s, NEW t, NEW r, Good(s), NEW W, Shift(s, t, {}, 0),
           Shift(t, r, W, 0)
    PROVE  Shift(s, r, W, 0)
<1>1. Shift(s, r, {} \cup W, 0 + 0)
  BY ShiftCompose
<1> QED
  BY <1>1

\* Fills and transfers keep the invariant.
LEMMA TradeKeepsInv == ASSUME PerpInv, Trade PROVE PerpInv'
<1>0. Good(Now) /\ Imbalance(market) = 0
  BY NowGood
<1>t. bankrupt \in [Users -> BOOLEAN] /\ status \in {"Active", "Settlement"}
  BY DEF PerpInv, PerpTypeOK
<1>1. ASSUME NEW taker \in Users, NEW filler \in Users, NEW base \in Deltas,
             NEW price \in Prices, NEW tier \in Tiers,
             FillAgainstAmm(taker, filler, base, price, tier)
      PROVE  PerpInv'
  <2> DEFINE s == AfterFunding(Now, taker)
             t == AmmFill(s, taker, filler, base, price, tier)
  <2>1. base \in Int /\ price \in Int /\ tier \in TierType
    BY Inputs
  <2>2. Becomes(t) /\ ~bankrupt[taker] /\ UNCHANGED <<bankrupt, status>>
    BY <1>1 DEF FillAgainstAmm
  <2>3. Shift(Now, s, {}, 0) /\ Good(s)
    BY <1>0, SettledShift
  <2> HIDE DEF s
  <2>4. Shift(s, t, {taker}, 0)
    BY <2>1, <2>3, AmmFillShift
  <2> HIDE DEF t
  <2>5. Shift(Now, t, {taker}, 0)
    BY <1>0, <2>3, <2>4, AfterSettled
  <2> QED
    BY <1>t, <2>2, <2>5, ShiftKeepsInv
<1>2. ASSUME NEW taker \in Users, NEW maker \in Users, NEW filler \in Users,
             NEW base \in Deltas, NEW price \in Prices, NEW tier \in Tiers,
             FillAgainstMaker(taker, maker, filler, base, price, tier)
      PROVE  PerpInv'
  <2> DEFINE s == AfterFunding(AfterFunding(Now, taker), maker)
             t == MatchFill(s, taker, maker, filler, base, price, tier)
  <2>1. base \in Int /\ price \in Int /\ tier \in TierType
    BY Inputs
  <2>2. Becomes(t) /\ ~bankrupt[taker] /\ ~bankrupt[maker]
          /\ UNCHANGED <<bankrupt, status>>
    BY <1>2 DEF FillAgainstMaker
  <2>3. Shift(Now, s, {}, 0) /\ Good(s)
    BY <1>0, TwoSettledShift
  <2> HIDE DEF s
  <2>4. Shift(s, t, {maker, taker}, 0)
    BY <2>1, <2>3, MatchFillShift
  <2> HIDE DEF t
  <2>5. Shift(Now, t, {maker, taker}, 0)
    BY <1>0, <2>3, <2>4, AfterSettled
  <2> QED
    BY <1>t, <2>2, <2>5, ShiftKeepsInv
<1>3. ASSUME NEW from \in Users, NEW to \in Users, NEW amount \in Deltas,
             NEW price \in Prices, TransferPerpPosition(from, to, amount, price)
      PROVE  PerpInv'
  <2> DEFINE s == AfterFunding(AfterFunding(Now, from), to)
             t == Traded(Traded(s, from, -amount, price), to, amount, price)
  <2>1. amount \in Int /\ price \in Int
    BY Inputs
  <2>2. Becomes(t) /\ ~bankrupt[from] /\ ~bankrupt[to]
          /\ UNCHANGED <<bankrupt, status>>
    BY <1>3 DEF TransferPerpPosition
  <2>3. Shift(Now, s, {}, 0) /\ Good(s)
    BY <1>0, TwoSettledShift
  <2> HIDE DEF s
  <2>4. Shift(s, t, {from, to}, 0)
    BY <2>1, <2>3, TwoTradesShift
  <2> HIDE DEF t
  <2>5. Shift(Now, t, {from, to}, 0)
    BY <1>0, <2>3, <2>4, AfterSettled
  <2> QED
    BY <1>t, <2>2, <2>5, ShiftKeepsInv
<1>4. ASSUME NEW u \in Users, NEW amount \in Deltas, NEW price \in Prices,
             TransferToVamm(u, amount, price)
      PROVE  PerpInv'
  <2> DEFINE s == AfterFunding(Now, u)
             a == Traded(s, u, -amount, price)
             t == AmmTakes(a, -amount)
  <2>1. amount \in Int /\ -amount \in Int /\ price \in Int
    BY Inputs
  <2>2. Becomes(t) /\ ~bankrupt[u] /\ UNCHANGED <<bankrupt, status>>
    BY <1>4, Zenon DEF TransferToVamm
  <2>3. Shift(Now, s, {}, 0) /\ Good(s)
    BY <1>0, SettledShift
  <2> HIDE DEF s
  <2>4. Shift(s, a, {u}, -amount) /\ Good(a)
    BY <2>1, <2>3, TradedShift
  <2> HIDE DEF a
  <2>5. Shift(a, t, {}, -(-amount))
    BY <2>1, <2>4, AmmTakesShift
  <2> HIDE DEF t
  <2>6. Shift(s, t, {u}, 0)
    <3>1. Shift(s, t, {u} \cup {}, -amount + (-(-amount)))
      BY <2>1, <2>3, <2>4, <2>5, ShiftCompose
    <3>2. {u} \cup {} = {u} /\ -amount + (-(-amount)) = 0
      BY <2>1
    <3> QED
      BY <3>1, <3>2
  <2>7. Shift(Now, t, {u}, 0)
    BY <1>0, <2>3, <2>6, AfterSettled
  <2> QED
    BY <1>t, <2>2, <2>7, ShiftKeepsInv
<1> QED
  BY <1>1, <1>2, <1>3, <1>4 DEF Trade

\* The tail of a liquidation keeps the invariant when only the account and
\* unlatched ones traded.
LEMMA ConcludedKeepsInv ==
    ASSUME PerpInv, NEW s, NEW W, Shift(Now, s, W, 0), NEW u \in Users,
           NEW latch \in BOOLEAN, \A w \in W : ~bankrupt[w],
           Concluded(s, u, latch)
    PROVE  PerpInv'
<1> DEFINE t == IF latch THEN Flagged(s, u) ELSE s
<1>0. Good(Now) /\ Good(s)
  BY NowGood DEF Shift
<1>1. bankrupt \in [Users -> BOOLEAN] /\ status \in {"Active", "Settlement"}
  BY DEF PerpInv, PerpTypeOK
<1>2. /\ latch => s.position[u].base_asset_amount = 0
      /\ Becomes(t) /\ bankrupt' = [bankrupt EXCEPT ![u] = latch]
      /\ UNCHANGED status
  BY DEF Concluded
<1>3. Shift(s, t, {}, 0)
  <2>1. CASE latch
    BY <1>0, <2>1, FlaggedShift
  <2>2. CASE ~latch
    <3>1. Imbalance(s.market) \in Int
      BY <1>0, GoodParts
    <3> QED
      BY <1>0, <2>2, <3>1 DEF Shift
  <2> QED
    BY <2>1, <2>2
<1> HIDE DEF t
<1>4. Shift(Now, t, W, 0)
  BY <1>0, <1>3, ShiftChain
<1>5. latch => t.position[u].base_asset_amount = 0
  BY <1>2, <1>3 DEF Shift
<1>6. bankrupt' \in [Users -> BOOLEAN]
  BY <1>1, <1>2
<1>7. \A v \in Users :
        bankrupt'[v] => \/ bankrupt[v] /\ v \notin W
                        \/ t.position[v].base_asset_amount = 0
  BY <1>1, <1>2, <1>5
<1> QED
  BY <1>1, <1>2, <1>4, <1>6, <1>7, ShiftKeepsInv

\* liquidate_perp keeps the invariant.
LEMMA LiquidatePerpKeepsInv ==
    ASSUME PerpInv, NEW u \in Users, NEW liquidator \in Users,
           NEW amount \in Deltas, NEW price \in Prices, NEW tier \in Tiers,
           NEW latch \in BOOLEAN,
           LiquidatePerp(u, liquidator, amount, price, tier, latch)
    PROVE  PerpInv'
<1> DEFINE s == AfterFunding(AfterFunding(Now, u), liquidator)
           a == Traded(s, u, -amount, price)
           b == Charged(a, u, tier.reward)
           c == Charged(b, u, tier.toPools)
           d == Traded(c, liquidator, amount, price)
           e == Charged(d, liquidator, -tier.reward)
           W == {u, liquidator}
<1>0. Good(Now)
  BY NowGood
<1>1. amount \in Int /\ -amount \in Int /\ price \in Int /\ tier \in TierType
  BY Inputs
<1>2. tier.reward \in Int /\ tier.toPools \in Int /\ -tier.reward \in Int
  BY <1>1 DEF TierType
<1>3. Concluded(e, u, latch) /\ ~bankrupt[u] /\ ~bankrupt[liquidator]
  BY Zenon DEF LiquidatePerp, MayLiquidate
<1>4. Shift(Now, s, {}, 0) /\ Good(s)
  BY <1>0, TwoSettledShift
<1> HIDE DEF s
<1>5. Shift(s, a, {u}, -amount) /\ Good(a)
  BY <1>1, <1>4, TradedShift
<1> HIDE DEF a
<1>6. Shift(a, b, {}, 0) /\ Good(b)
  BY <1>2, <1>5, ChargedShift
<1> HIDE DEF b
<1>7. Shift(b, c, {}, 0) /\ Good(c)
  BY <1>2, <1>6, ChargedShift
<1> HIDE DEF c
<1>8. Shift(c, d, {liquidator}, amount) /\ Good(d)
  BY <1>1, <1>7, TradedShift
<1> HIDE DEF d
<1>9. Shift(d, e, {}, 0) /\ Good(e)
  BY <1>2, <1>8, ChargedShift
<1> HIDE DEF e
<1>10. Shift(s, b, {u}, -amount)
  BY <1>1, <1>4, <1>5, <1>6, ShiftChain
<1>11. Shift(s, c, {u}, -amount)
  BY <1>1, <1>4, <1>7, <1>10, ShiftChain
<1>12. Shift(s, d, W, 0)
  <2>1. Shift(s, d, {u} \cup {liquidator}, -amount + amount)
    BY <1>1, <1>4, <1>8, <1>11, ShiftCompose
  <2>2. {u} \cup {liquidator} = W /\ -amount + amount = 0
    BY <1>1
  <2> QED
    BY <2>1, <2>2
<1>13. \A w \in W : ~bankrupt[w]
  BY <1>3
<1> HIDE DEF W
<1>14. Shift(s, e, W, 0)
  BY <1>4, <1>9, <1>12, ShiftChain
<1>15. Shift(Now, e, W, 0)
  BY <1>0, <1>4, <1>14, AfterSettled
<1> QED
  BY <1>3, <1>13, <1>15, ConcludedKeepsInv

\* liquidate_perp_with_fill keeps the invariant.
LEMMA LiquidateWithFillKeepsInv ==
    ASSUME PerpInv, NEW u \in Users, NEW liquidator \in Users,
           NEW maker \in Users, NEW amount \in Deltas, NEW price \in Prices,
           NEW tier \in Tiers, NEW latch \in BOOLEAN,
           LiquidatePerpWithFill(u, liquidator, maker, amount, price, tier,
                                 latch)
    PROVE  PerpInv'
<1> DEFINE s == AfterFunding(AfterFunding(Now, u), liquidator)
           m == AfterFunding(s, maker)
           byAmm == AmmFill(s, u, liquidator, -amount, price, tier)
           byMaker == MatchFill(m, u, maker, liquidator, -amount, price, tier)
           filled == IF maker = u THEN byAmm ELSE byMaker
           e == Charged(filled, u, tier.toPools)
           W == {maker, u}
<1>0. Good(Now)
  BY NowGood
<1>1. -amount \in Int /\ price \in Int /\ tier \in TierType
  BY Inputs
<1>2. tier.toPools \in Int
  BY <1>1 DEF TierType
<1>3. Concluded(e, u, latch) /\ ~bankrupt[u] /\ ~bankrupt[maker]
  BY Zenon DEF LiquidatePerpWithFill, MayLiquidate
<1>4. Shift(Now, s, {}, 0) /\ Good(s)
  BY <1>0, TwoSettledShift
<1> HIDE DEF s
<1>5. Shift(s, m, {}, 0) /\ Good(m)
  BY <1>4, SettledShift
<1> HIDE DEF m
<1>6. Shift(s, byAmm, {u}, 0) /\ Good(byAmm)
  BY <1>1, <1>4, AmmFillShift
<1>7. Shift(m, byMaker, {maker, u}, 0) /\ Good(byMaker)
  BY <1>1, <1>5, MatchFillShift
<1> HIDE DEF byAmm, byMaker
<1>8. Shift(s, byMaker, {maker, u}, 0)
  BY <1>4, <1>5, <1>7, AfterSettled
<1>9. Shift(s, filled, W, 0) /\ Good(filled)
  BY <1>6, <1>7, <1>8, Zenon DEF Shift
<1> HIDE DEF filled
<1>10. Shift(filled, e, {}, 0)
  BY <1>2, <1>9, ChargedShift
<1> HIDE DEF e
<1>11. \A w \in W : ~bankrupt[w]
  BY <1>3
<1> HIDE DEF W
<1>12. Shift(s, e, W, 0)
  BY <1>4, <1>9, <1>10, ShiftChain
<1>13. Shift(Now, e, W, 0)
  BY <1>0, <1>4, <1>12, AfterSettled
<1> QED
  BY <1>3, <1>11, <1>13, ConcludedKeepsInv

\* The two liquidations that exchange settled pnl move no base.
LEMMA PnlExchangeKeepsInv ==
    ASSUME PerpInv, NEW u \in Users, NEW liquidator \in Users,
           NEW amount \in Int, NEW latch \in BOOLEAN,
           LET s == AfterFunding(AfterFunding(Now, u), liquidator)
               c == Credited(s, liquidator, amount)
           IN  Concluded(With(c, u, UpdateQuoteAssetAmount(Book(c, u), -amount)),
                         u, latch)
    PROVE  PerpInv'
<1> DEFINE s == AfterFunding(AfterFunding(Now, u), liquidator)
           c == Credited(s, liquidator, amount)
           e == With(c, u, UpdateQuoteAssetAmount(Book(c, u), -amount))
           W == {}
<1>0. Good(Now)
  BY NowGood
<1>1. Concluded(e, u, latch)
  OBVIOUS
<1>2. Shift(Now, s, {}, 0) /\ Good(s)
  BY <1>0, TwoSettledShift
<1> HIDE DEF s
<1>3. Shift(s, c, {}, 0) /\ Good(c)
  BY <1>2, CreditedShift
<1> HIDE DEF c
<1>4. Shift(c, e, {}, 0)
  BY <1>3, QuoteShift
<1> HIDE DEF e
<1>5. Shift(s, e, {}, 0)
  BY <1>2, <1>3, <1>4, ShiftChain
<1>6. Shift(Now, e, W, 0)
  BY <1>0, <1>2, <1>5, ShiftChain
<1>7. \A w \in W : ~bankrupt[w]
  OBVIOUS
<1> HIDE DEF W
<1> QED
  BY <1>1, <1>6, <1>7, ConcludedKeepsInv

\* Every liquidation keeps the invariant.
LEMMA LiquidationKeepsInv == ASSUME PerpInv, Liquidation PROVE PerpInv'
<1>1. ASSUME NEW u \in Users, NEW liquidator \in Users, NEW pnl \in Amounts,
             NEW latch \in BOOLEAN,
             LiquidateBorrowForPerpPnl(u, liquidator, pnl, latch)
      PROVE  PerpInv'
  <2>1. pnl \in Int
    BY Inputs
  <2> QED
    BY <1>1, <2>1, PnlExchangeKeepsInv, Zenon DEF LiquidateBorrowForPerpPnl
<1>2. ASSUME NEW u \in Users, NEW liquidator \in Users, NEW pnl \in Amounts,
             NEW latch \in BOOLEAN,
             LiquidatePerpPnlForDeposit(u, liquidator, pnl, latch)
      PROVE  PerpInv'
  <2> DEFINE loss == -pnl
  <2>1. loss \in Int /\ -loss = pnl
    BY Inputs
  <2>2. LET s == AfterFunding(AfterFunding(Now, u), liquidator)
            c == Credited(s, liquidator, loss)
        IN  Concluded(With(c, u, UpdateQuoteAssetAmount(Book(c, u), -loss)),
                      u, latch)
    BY <1>2, <2>1, Zenon DEF LiquidatePerpPnlForDeposit
  <2> HIDE DEF loss
  <2> QED
    BY <2>1, <2>2, PnlExchangeKeepsInv
<1> QED
  BY <1>1, <1>2, LiquidatePerpKeepsInv, LiquidateWithFillKeepsInv
     DEF Liquidation

-----------------------------------------------------------------------------
(* Steps that move the funding rates *)

\* The AMM's funding payment is an amount of quote.
LEMMA AmmFundingPaymentInt ==
    ASSUME NEW long \in Int, NEW short \in Int, NEW x \in Int, NEW y \in Int
    PROVE  AmmFundingPayment(long, short, x, y) \in Int
<1> DEFINE a == IF x # 0 /\ long # 0 THEN RawFundingPayment(x, -long) ELSE 0
           b == IF y # 0 /\ short # 0 THEN RawFundingPayment(y, -short) ELSE 0
<1>1. RawFundingPayment(x, -long) \in Int /\ RawFundingPayment(y, -short) \in Int
  BY RawFundingPaymentInt
<1>2. a \in Int /\ b \in Int
  BY <1>1
<1> HIDE DEF a, b
<1>3. a + b \in Int /\ AMM_TO_QUOTE_PRECISION_RATIO \in Int \ {0}
  BY <1>2, PrecisionAssumption
<1>4. TruncDiv(a + b, AMM_TO_QUOTE_PRECISION_RATIO) \in Int
  BY <1>3, TruncDivInt
<1> QED
  BY <1>4 DEF AmmFundingPayment, a, b

\* The AMM settles its funding: only its equity and its stamp change.
LEMMA AmmFundingSettledType ==
    ASSUME NEW m \in MarketType, NEW rate \in [Sides -> Int]
    PROVE  LET n == AmmFundingSettled(m, rate)
           IN  /\ n \in MarketType
               /\ Imbalance(n) = Imbalance(m)
               /\ n.total_fee_minus_distributions \in Int
               /\ n.net_unsettled_funding_pnl = m.net_unsettled_funding_pnl
               /\ SameTotals(m, n)
<1> DEFINE pay == AmmFundingPayment(
               m.base_asset_amount["Long"], m.base_asset_amount["Short"],
               rate["Long"] - m.amm_last_cumulative_funding_rate["Long"],
               rate["Short"] - m.amm_last_cumulative_funding_rate["Short"])
           fees == m.total_fee_minus_distributions + pay
           n == [m EXCEPT !.total_fee_minus_distributions = fees,
                          !.amm_last_cumulative_funding_rate = rate]
<1>1. /\ m.base_asset_amount["Long"] \in Int
      /\ m.base_asset_amount["Short"] \in Int
      /\ m.amm_last_cumulative_funding_rate["Long"] \in Int
      /\ m.amm_last_cumulative_funding_rate["Short"] \in Int
      /\ m.total_fee_minus_distributions \in Int
      /\ rate["Long"] \in Int /\ rate["Short"] \in Int
  BY DEF MarketType, Sides
<1>2. pay \in Int
  <2>1. /\ rate["Long"] - m.amm_last_cumulative_funding_rate["Long"] \in Int
        /\ rate["Short"] - m.amm_last_cumulative_funding_rate["Short"] \in Int
    BY <1>1
  <2> QED
    BY <1>1, <2>1, AmmFundingPaymentInt, Zenon
<1>3. AmmFundingSettled(m, rate) = n
  BY Zenon DEF AmmFundingSettled
<1> HIDE DEF pay
<1>4. fees \in Int
  BY <1>1, <1>2
<1> HIDE DEF fees
<1>5. n \in MarketType /\ Imbalance(n) = Imbalance(m)
        /\ n.total_fee_minus_distributions = fees
        /\ n.net_unsettled_funding_pnl = m.net_unsettled_funding_pnl
  BY <1>4, Zenon DEF MarketType, Imbalance, Net
<1>6. SameTotals(m, n)
  BY DEF MarketType, SameTotals
<1> HIDE DEF n
<1> QED
  BY <1>3, <1>4, <1>5, <1>6

\* The capped rates and the revenue of a period are integers.
LEMMA RateLongShortInt ==
    ASSUME NEW w \in Int, NEW long \in Int, NEW short \in Int,
           NEW tfmd \in Int, NEW rate \in Int
    PROVE  LET r == RateLongShort(w, long, short, tfmd, rate)
           IN  r["Long"] \in Int /\ r["Short"] \in Int /\ r.revenue \in Int
<1> DEFINE uncapped == -FundingPayment(rate, w)
           avail == AvailableFees(tfmd)
           users == Abs(FundingPayment(rate, IF rate > 0 THEN long ELSE short))
           side == IF rate < 0 THEN long ELSE short
           lim == -avail - users
           limited == RateFromPnlLimit(lim, side)
           capped == CappedRate(long, short, tfmd, uncapped, rate)
<1>1. FundingPayment(rate, w) \in Int
        /\ FundingPayment(rate, IF rate > 0 THEN long ELSE short) \in Int
  BY FundingPaymentInt
<1>2. uncapped \in Int /\ users \in Int
  BY <1>1 DEF Abs
<1>3. avail \in Int
  <2>1. Greater(tfmd, 0) \in Int
    BY DEF Greater
  <2> QED
    BY <2>1 DEF AvailableFees
<1>4. side \in Int
  OBVIOUS
<1>5. capped = IF uncapped < -avail THEN limited ELSE rate
  BY Zenon DEF CappedRate
<1>6. RateLongShort(w, long, short, tfmd, rate) =
        IF uncapped >= 0
          THEN [Long |-> rate, Short |-> rate, revenue |-> uncapped]
          ELSE [Long |-> IF rate < 0 THEN capped ELSE rate,
                Short |-> IF rate > 0 THEN capped ELSE rate,
                revenue |-> Greater(uncapped, -avail)]
  BY Zenon DEF RateLongShort
<1> HIDE DEF uncapped, avail, users, side
<1>7. lim \in Int
  BY <1>2, <1>3
<1> HIDE DEF lim
<1>8. limited \in Int
  <2> DEFINE a == IF lim < 0 THEN lim + 1 ELSE lim
             b == a * QUOTE_TO_BASE_AMT_FUNDING_PRECISION
  <2>1. QUOTE_TO_BASE_AMT_FUNDING_PRECISION \in Int
    BY PrecisionAssumption DEF QUOTE_TO_BASE_AMT_FUNDING_PRECISION
  <2>2. a \in Int
    BY <1>7
  <2> HIDE DEF a
  <2>3. b \in Int
    BY <2>1, <2>2
  <2> HIDE DEF b
  <2>4. limited = IF side = 0 THEN 0 ELSE TruncDiv(b, side)
    BY Zenon DEF RateFromPnlLimit, a, b
  <2>5. side # 0 => TruncDiv(b, side) \in Int
    BY <1>4, <2>3, TruncDivInt
  <2> HIDE DEF limited
  <2> QED
    BY <2>4, <2>5
<1> HIDE DEF limited
<1>9. capped \in Int
  BY <1>5, <1>8
<1> HIDE DEF capped
<1> QED
  BY <1>2, <1>3, <1>6, <1>9 DEF Greater

\* update_funding_rate keeps the invariant: the AMM is stamped with the rates
\* of the period.
LEMMA UpdateFundingRateKeepsInv ==
    ASSUME PerpInv, NEW rate \in Rates, NEW kCost \in Signed(Costs),
           UpdateFundingRate(rate, kCost)
    PROVE  PerpInv'
<1> DEFINE m == market
           r == RateLongShort(m.base_asset_amount_with_amm,
                              m.base_asset_amount["Long"],
                              m.base_asset_amount["Short"],
                              m.total_fee_minus_distributions, rate)
           new == [x \in Sides |-> m.cumulative_funding_rate[x] + r[x]]
           paid == AmmFundingSettled(m, new)
           after == paid.total_fee_minus_distributions - kCost
           fees == IF kCost > 0 /\ after < 0
                     THEN paid.total_fee_minus_distributions ELSE after
           unsettled == paid.net_unsettled_funding_pnl - r.revenue
           n == [paid EXCEPT !.cumulative_funding_rate = new,
                             !.net_unsettled_funding_pnl = unsettled,
                             !.total_fee_minus_distributions = fees]
           t == [position |-> position, market |-> n]
<1>0. Good(Now) /\ Imbalance(market) = 0 /\ Now.position = position
        /\ Now.market = market
  BY NowGood
<1>1. m \in MarketType /\ position \in [Users -> PositionType]
        /\ bankrupt \in [Users -> BOOLEAN] /\ status \in {"Active", "Settlement"}
  BY DEF PerpInv, PerpTypeOK
<1>2. rate \in Int /\ kCost \in Int
  BY Inputs
<1>3. /\ market' = n /\ UNCHANGED <<position, bankrupt, status>>
  <2>1. market' = [paid EXCEPT !.cumulative_funding_rate = new,
              !.net_unsettled_funding_pnl = @ - r.revenue,
              !.total_fee_minus_distributions =
                  IF kCost > 0 /\ after < 0 THEN @ ELSE after]
          /\ UNCHANGED <<position, bankrupt, status>>
    BY Zenon DEF UpdateFundingRate
  <2> HIDE DEF paid, after, new, r
  <2> QED
    BY <2>1
<1>4. r["Long"] \in Int /\ r["Short"] \in Int /\ r.revenue \in Int
  <2>1. /\ m.base_asset_amount_with_amm \in Int
        /\ m.base_asset_amount["Long"] \in Int
        /\ m.base_asset_amount["Short"] \in Int
        /\ m.total_fee_minus_distributions \in Int
    BY <1>1 DEF MarketType, Sides
  <2> QED
    BY <1>2, <2>1, RateLongShortInt, Zenon
<1> HIDE DEF r
<1>5. new \in [Sides -> Int]
  <2>1. \A x \in Sides : m.cumulative_funding_rate[x] \in Int /\ r[x] \in Int
    BY <1>1, <1>4 DEF MarketType, Sides
  <2> QED
    BY <2>1
<1>6. AmmFundingSettled(m, new).amm_last_cumulative_funding_rate = new
  BY <1>1 DEF AmmFundingSettled, MarketType
<1> HIDE DEF new, m
<1>7. /\ paid \in MarketType /\ Imbalance(paid) = Imbalance(m)
      /\ paid.total_fee_minus_distributions \in Int
      /\ paid.net_unsettled_funding_pnl \in Int
      /\ paid.amm_last_cumulative_funding_rate = new
      /\ SameTotals(m, paid)
  BY <1>1, <1>5, <1>6, AmmFundingSettledType DEF MarketType
<1> HIDE DEF paid
<1>8. fees \in Int /\ unsettled \in Int
  BY <1>2, <1>4, <1>7
<1> HIDE DEF fees, unsettled
<1>9. /\ n \in MarketType /\ Imbalance(n) = Imbalance(paid)
      /\ n.cumulative_funding_rate = new
      /\ n.amm_last_cumulative_funding_rate = new
  BY <1>5, <1>7, <1>8, Zenon DEF MarketType, Imbalance, Net
<1>14. SameTotals(paid, n)
  BY <1>7 DEF MarketType, SameTotals
<1> HIDE DEF n
<1>15. Matched(t)
  <2>1. SameTotals(market, n)
    BY <1>7, <1>14 DEF SameTotals, m
  <2> QED
    BY <1>0, <2>1, MatchedSame DEF Good
<1>10. Good(t) /\ Imbalance(t.market) = 0
  BY <1>0, <1>1, <1>7, <1>9, <1>15, Zenon DEF Good, States, m
<1>11. Becomes(t)
  BY <1>3, Zenon DEF Becomes
<1>12. \A u \in Users : bankrupt'[u] => t.position[u].base_asset_amount = 0
  BY <1>3, Zenon DEF PerpInv, BankruptIsFlat
<1>13. t.market.amm_last_cumulative_funding_rate
         = t.market.cumulative_funding_rate
  BY <1>9, Zenon
<1> HIDE DEF t
<1> QED
  BY <1>1, <1>3, <1>10, <1>11, <1>12, <1>13, GoodKeepsInv, Zenon

\* settle_expired_position hands the position to the AMM.
LEMMA SettleExpiredPositionKeepsInv ==
    ASSUME PerpInv, NEW u \in Users, NEW price \in Prices, NEW fee \in Int,
           SettleExpiredPosition(u, price, fee)
    PROVE  PerpInv'
<1> DEFINE s == AfterFunding(Now, u)
           base == s.position[u].base_asset_amount
           delta == [base |-> -base, quote |-> base * price]
           closed == With(s, u, UpdatePositionAndMarket(Book(s, u), delta))
           fees == IF base = 0 THEN closed ELSE Charged(closed, u, fee)
           pnl == fees.position[u].quote_asset_amount
           e == With(fees, u, UpdateQuoteAssetAmount(Book(fees, u), -pnl))
           t == AmmTakes(e, -base)
<1>0. Good(Now)
  BY NowGood
<1>1. bankrupt \in [Users -> BOOLEAN] /\ status \in {"Active", "Settlement"}
        /\ price \in Int
  BY Inputs DEF PerpInv, PerpTypeOK
<1>2. Becomes(t) /\ ~bankrupt[u] /\ UNCHANGED <<bankrupt, status>>
  BY Zenon DEF SettleExpiredPosition
<1>3. Shift(Now, s, {}, 0) /\ Good(s)
  BY <1>0, SettledShift, Zenon
<1> HIDE DEF s
<1>4. base \in Int
  BY <1>3, GoodParts
<1> HIDE DEF base
<1>5. delta \in [base : Int, quote : Int] /\ delta.base = -base /\ -base \in Int
  BY <1>1, <1>4
<1> HIDE DEF delta
<1>6. Shift(s, closed, {u}, -base) /\ Good(closed)
  <2> DEFINE book == Book(s, u)
             c == UpdatePositionAndMarket(book, delta)
             d == -base
  <2>0. /\ book \in Books /\ Sound(book.p) /\ book.m = s.market
        /\ book.p.base_asset_amount = s.position[u].base_asset_amount
        /\ Covered(book) /\ Rest(book) = Rest(Book(s, u))
    BY <1>3, BookParts, Zenon
  <2> HIDE DEF book
  <2>1. Moves(book, c, d) /\ d \in Int
    BY <1>5, <2>0, UpdatePositionMoves, Zenon
  <2> HIDE DEF c, d
  <2>2. Shift(s, With(s, u, c), {u}, d)
    BY <1>3, <2>0, <2>1, WithShift, Zenon
  <2>3. Shift(s, closed, {u}, -base)
    BY <2>2 DEF c, d, book
  <2> QED
    BY <2>3, Zenon DEF Shift
<1> HIDE DEF closed
<1>7. Shift(s, fees, {u}, -base) /\ Good(fees)
  <2>1. Shift(closed, Charged(closed, u, fee), {}, 0)
          /\ Good(Charged(closed, u, fee))
    BY <1>6, ChargedShift, Zenon
  <2>2. Shift(s, Charged(closed, u, fee), {u}, -base)
    BY <1>3, <1>5, <1>6, <2>1, ShiftChain
  <2> QED
    BY <1>6, <2>1, <2>2
<1> HIDE DEF fees
<1>8. Shift(fees, e, {}, 0) /\ Good(e)
  <2>1. pnl \in Int
    BY <1>7, GoodParts, Zenon
  <2> HIDE DEF pnl
  <2>2. -pnl \in Int
    BY <2>1
  <2> QED
    BY <1>7, <2>2, QuoteShift, Zenon
<1> HIDE DEF e
<1>9. Shift(s, e, {u}, -base)
  BY <1>3, <1>5, <1>7, <1>8, ShiftChain
<1>10. Shift(e, t, {}, -(-base))
  BY <1>5, <1>8, AmmTakesShift
<1> HIDE DEF t
<1>11. Shift(s, t, {u}, 0)
  <2>1. Shift(s, t, {u} \cup {}, -base + (-(-base)))
    BY <1>3, <1>4, <1>5, <1>9, <1>10, ShiftCompose
  <2>2. {u} \cup {} = {u} /\ -base + (-(-base)) = 0
    BY <1>4
  <2> QED
    BY <2>1, <2>2
<1>12. Shift(Now, t, {u}, 0)
  BY <1>0, <1>3, <1>11, AfterSettled
<1> QED
  BY <1>1, <1>2, <1>12, ShiftKeepsInv

\* Funding and pnl settlement and expiry keep the invariant.
LEMMA SettlementKeepsInv == ASSUME PerpInv, Settlement PROVE PerpInv'
<1>0. Good(Now) /\ bankrupt \in [Users -> BOOLEAN]
        /\ status \in {"Active", "Settlement"}
  BY NowGood DEF PerpInv, PerpTypeOK
<1>1. ASSUME NEW u \in Users, SettleFunding(u) PROVE PerpInv'
  <2>1. Becomes(AfterFunding(Now, u)) /\ UNCHANGED <<bankrupt, status>>
    BY <1>1 DEF SettleFunding
  <2>2. Shift(Now, AfterFunding(Now, u), {}, 0)
    BY <1>0, SettledShift
  <2> QED
    BY <1>0, <2>1, <2>2, ShiftKeepsInv
<1>2. ASSUME NEW u \in Users, NEW amount \in Signed(Amounts),
             NEW price \in Prices, SettlePnl(u, amount, price)
      PROVE  PerpInv'
  <2> DEFINE s == AfterFunding(Now, u)
             t == With(s, u, UpdateQuoteAssetAmount(Book(s, u), -amount))
  <2>1. Becomes(t) /\ UNCHANGED <<bankrupt, status>>
    BY <1>2, Zenon DEF SettlePnl
  <2>2. -amount \in Int
    BY Inputs
  <2>3. Shift(Now, s, {}, 0) /\ Good(s)
    BY <1>0, SettledShift
  <2> HIDE DEF s
  <2>4. Shift(s, t, {}, 0)
    BY <2>2, <2>3, QuoteShift
  <2> HIDE DEF t
  <2>5. Shift(Now, t, {}, 0)
    BY <1>0, <2>3, <2>4, ShiftChain
  <2> QED
    BY <1>0, <2>1, <2>5, ShiftKeepsInv
<1>3. ASSUME NEW cost \in Costs, SettleExpiredMarket(cost) PROVE PerpInv'
  <2>1. Becomes(AmmEarns(Now, -cost)) /\ status' = "Settlement"
          /\ UNCHANGED bankrupt
    BY <1>3 DEF SettleExpiredMarket
  <2>2. -cost \in Int
    BY Inputs
  <2>3. Shift(Now, AmmEarns(Now, -cost), {}, 0)
    BY <1>0, <2>2, AmmEarnsShift
  <2> QED
    BY <1>0, <2>1, <2>3, ShiftKeepsInv
<1>4. ASSUME NEW u \in Users, NEW price \in Prices, NEW tier \in Tiers,
             SettleExpiredPosition(u, price, tier.fee)
      PROVE  PerpInv'
  <2>1. tier.fee \in Int
    BY Inputs DEF TierType
  <2> QED
    BY <1>4, <2>1, SettleExpiredPositionKeepsInv
<1> QED
  BY <1>1, <1>2, <1>3, <1>4, UpdateFundingRateKeepsInv DEF Settlement

-----------------------------------------------------------------------------
(***************************************************************************)
(* Bankruptcy.                                                             *)
(***************************************************************************)
\* The rate that socialises a loss over some open interest is a number.
LEMMA SocialLossRateInt ==
    ASSUME NEW loss \in Int, NEW gross \in Int, gross > 0
    PROVE  SocialLossRate(loss, gross) \in Int
<1>1. FUNDING_RATE_TO_QUOTE_PRECISION_RATIO \in Int
  BY PrecisionAssumption DEF FUNDING_RATE_TO_QUOTE_PRECISION_RATIO,
                             QUOTE_TO_BASE_AMT_FUNDING_PRECISION
<1>2. loss * BASE_PRECISION \in Int
  BY PrecisionAssumption
<1>3. CeilDiv(loss * BASE_PRECISION, gross) \in Int
  BY <1>2 DEF CeilDiv
<1> QED
  BY <1>1, <1>3 DEF SocialLossRate

\* Booking quote leaves the open interest alone.
LEMMA UpdateQuoteKeepsInterest ==
    ASSUME NEW b, b.m \in MarketType, NEW delta \in Int
    PROVE  UpdateQuoteAssetAmount(b, delta).m.base_asset_amount
             = b.m.base_asset_amount
<1> DEFINE p == [b.p EXCEPT !.quote_asset_amount = @ + delta]
           users == b.m.number_of_users + (IF IsAvailable(b.p) THEN 1 ELSE 0)
           n == [b.m EXCEPT !.quote_asset_amount = @ + delta,
                            !.number_of_users =
                                IF IsAvailable(p) THEN SaturatingSub(users, 1)
                                ELSE users]
           c == [p |-> p, m |-> n]
<1>1. UpdateQuoteAssetAmount(b, delta)
        = IF delta = 0 THEN b ELSE ReleaseClaimIfSettled(c)
  BY Zenon DEF UpdateQuoteAssetAmount
<1>2. n.base_asset_amount = b.m.base_asset_amount
  BY DEF MarketType
<1>3. [n EXCEPT !.pending_bankruptcy_claims = SaturatingSub(@, 1)].base_asset_amount
        = n.base_asset_amount
  BY DEF MarketType
<1> HIDE DEF n
<1>4. ReleaseClaimIfSettled(c).m.base_asset_amount = n.base_asset_amount
  BY <1>3, Zenon DEF ReleaseClaimIfSettled
<1> HIDE DEF c
<1> QED
  BY <1>1, <1>2, <1>4

\* Socialising a loss moves the rates and the AMM's stamp together.
LEMMA SocializedType ==
    ASSUME NEW m \in MarketType, NEW loss \in Int, GrossInterest(m) > 0
    PROVE  LET n == Socialized(m, loss)
           IN  /\ n \in MarketType /\ Imbalance(n) = Imbalance(m)
               /\ n.amm_last_cumulative_funding_rate = n.cumulative_funding_rate
               /\ SameTotals(m, n)
<1> DEFINE delta == SocialLossRate(loss, GrossInterest(m))
           rate == [x \in Sides |-> IF x = "Long"
                                     THEN m.cumulative_funding_rate[x] + delta
                                     ELSE m.cumulative_funding_rate[x] - delta]
           paid == AmmFundingSettled(m, m.cumulative_funding_rate)
           unsettled == paid.net_unsettled_funding_pnl - loss
           n == [paid EXCEPT !.cumulative_funding_rate = rate,
                             !.net_unsettled_funding_pnl = unsettled,
                             !.amm_last_cumulative_funding_rate = rate]
<1>1. Socialized(m, loss) = n
  BY Zenon DEF Socialized
<1>2. m.cumulative_funding_rate \in [Sides -> Int]
        /\ m.net_unsettled_funding_pnl \in Int
  BY DEF MarketType
<1>3. delta \in Int
  <2>1. GrossInterest(m) \in Int
    BY DEF GrossInterest, MarketType, Sides, Abs
  <2> QED
    BY <2>1, SocialLossRateInt
<1> HIDE DEF delta
<1>4. rate \in [Sides -> Int]
  BY <1>2, <1>3
<1> HIDE DEF rate
<1>5. /\ paid \in MarketType /\ Imbalance(paid) = Imbalance(m)
      /\ paid.net_unsettled_funding_pnl = m.net_unsettled_funding_pnl
      /\ SameTotals(m, paid)
  BY <1>2, AmmFundingSettledType, Zenon
<1> HIDE DEF paid
<1>6. unsettled \in Int
  BY <1>2, <1>5
<1> HIDE DEF unsettled
<1>7. /\ n \in MarketType /\ Imbalance(n) = Imbalance(paid)
      /\ n.amm_last_cumulative_funding_rate = n.cumulative_funding_rate
  BY <1>4, <1>5, <1>6, Zenon DEF MarketType, Imbalance, Net
<1>8. SameTotals(paid, n)
  BY <1>5, Zenon DEF MarketType, SameTotals
<1> HIDE DEF n
<1>9. SameTotals(m, n)
  BY <1>5, <1>8 DEF SameTotals
<1> QED
  BY <1>1, <1>5, <1>7, <1>9

\* resolve_perp_bankruptcy keeps the invariant, whoever bears the loss.
LEMMA ResolveKeepsInv ==
    ASSUME PerpInv, NEW u \in Users, NEW setoff \in Amounts,
           NEW covered \in Amounts, NEW clawed \in Amounts,
           NEW assets \in BOOLEAN, NEW stillBankrupt \in BOOLEAN,
           ResolvePerpBankruptcy(u, setoff, covered, clawed, assets,
                                 stillBankrupt)
    PROVE  PerpInv'
<1> DEFINE s == SetOff(Now, u, setoff)
           loss == -s.position[u].quote_asset_amount
           left == loss - covered
           paid == AmmEarns(s, -clawed)
           m == IF left > 0 THEN Socialized(paid.market, left) ELSE paid.market
           mid == [paid EXCEPT !.market = m]
           b == [p |-> s.position[u], m |-> m]
           t == With(mid, u, UpdateQuoteAssetAmount(b, loss))
<1>0. /\ Good(Now) /\ Imbalance(market) = 0
      /\ Now.position = position /\ Now.market = market
  BY NowGood
<1>1. /\ bankrupt \in [Users -> BOOLEAN] /\ status \in {"Active", "Settlement"}
      /\ market \in MarketType
      /\ setoff \in Int /\ covered \in Int /\ clawed \in Int /\ -clawed \in Int
  BY Inputs DEF PerpInv, PerpTypeOK
<1>2. /\ bankrupt[u] \/ position[u].base_asset_amount = 0
      /\ UNCHANGED status
      /\ \/ Becomes(s) /\ bankrupt' = [bankrupt EXCEPT ![u] = FALSE]
         \/ Becomes(s) /\ bankrupt' = [bankrupt EXCEPT ![u] = stillBankrupt]
         \/ /\ left > 0 => GrossInterest(market) > 0
            /\ Becomes(t)
            /\ bankrupt' = [bankrupt EXCEPT ![u] = stillBankrupt]
  BY Zenon DEF ResolvePerpBankruptcy
<1>3. bankrupt' \in [Users -> BOOLEAN] /\ status' \in {"Active", "Settlement"}
  BY <1>1, <1>2, Zenon
<1>4. \A v \in Users :
        bankrupt'[v] => position[v].base_asset_amount = 0
  <2>1. position[u].base_asset_amount = 0
    BY <1>2, Zenon DEF PerpInv, BankruptIsFlat
  <2>2. \A v \in Users : v # u => bankrupt'[v] = bankrupt[v]
    BY <1>1, <1>2
  <2> QED
    BY <2>1, <2>2, Zenon DEF PerpInv, BankruptIsFlat
<1>5. Shift(Now, s, {}, 0) /\ Good(s)
  BY <1>0, <1>1, QuoteShift DEF SetOff
<1>6. s.market.base_asset_amount = market.base_asset_amount
  <2>1. Book(Now, u).m = market
    BY <1>0, Zenon DEF Book
  <2>2. UpdateQuoteAssetAmount(Book(Now, u), setoff).m.base_asset_amount
          = market.base_asset_amount
    BY <1>1, <2>1, UpdateQuoteKeepsInterest, Zenon
  <2> QED
    BY <2>2, Zenon DEF SetOff, With
<1> HIDE DEF s
<1>7. \A v \in Users : bankrupt'[v] => s.position[v].base_asset_amount = 0
  BY <1>0, <1>4, <1>5 DEF Shift
<1>8. CASE Becomes(s)
  BY <1>3, <1>5, <1>7, <1>8, ShiftKeepsInv, Zenon
<1>9. CASE (left > 0 => GrossInterest(market) > 0) /\ Becomes(t)
  <2>1. Shift(s, paid, {}, 0) /\ Good(paid)
    BY <1>1, <1>5, AmmEarnsShift
  <2>2. /\ paid.market.base_asset_amount = market.base_asset_amount
        /\ paid.position = s.position
    BY <1>5, <1>6 DEF AmmEarns, Good, States, MarketType
  <2>3. Shift(Now, paid, {}, 0)
    BY <1>0, <1>5, <2>1, ShiftChain, SMTT(20)
  <2> HIDE DEF paid
  <2>4. loss \in Int
    BY <1>5, GoodParts
  <2> HIDE DEF loss
  <2>5. left \in Int
    BY <1>1, <2>4
  <2> HIDE DEF left
  <2>6. /\ paid.market \in MarketType /\ Imbalance(paid.market) = 0
        /\ paid.market.amm_last_cumulative_funding_rate
             = paid.market.cumulative_funding_rate
    <3>1. paid.market \in MarketType
      BY <2>1, GoodParts, Zenon
    <3>2. Imbalance(paid.market) = 0
      BY <1>0, <2>3, GoodParts, SMTT(20) DEF Shift
    <3>3. paid.market.amm_last_cumulative_funding_rate
            = paid.market.cumulative_funding_rate
      BY <1>0, <2>3 DEF Shift, PerpInv, AmmStampCurrent
    <3> QED
      BY <3>1, <3>2, <3>3
  <2>7. /\ m \in MarketType /\ Imbalance(m) = 0
        /\ m.amm_last_cumulative_funding_rate = m.cumulative_funding_rate
        /\ SameTotals(paid.market, m)
    <3>1. CASE left > 0
      <4>1. GrossInterest(paid.market) > 0
        BY <1>9, <2>2, <3>1, Zenon DEF GrossInterest
      <4> DEFINE n == Socialized(paid.market, left)
      <4>2. /\ n \in MarketType /\ Imbalance(n) = Imbalance(paid.market)
            /\ n.amm_last_cumulative_funding_rate = n.cumulative_funding_rate
            /\ SameTotals(paid.market, n)
        BY <2>5, <2>6, <4>1, SocializedType
      <4> HIDE DEF n
      <4>3. m = n
        BY <3>1, Zenon DEF n
      <4> QED
        BY <2>6, <4>2, <4>3
    <3>2. CASE ~(left > 0)
      BY <2>6, <3>2 DEF SameTotals
    <3> QED
      BY <3>1, <3>2, Zenon
  <2> HIDE DEF m
  <2>8. /\ Good(mid) /\ mid.market = m /\ mid.position = s.position
    <3>1. /\ mid.market = m /\ mid.position = paid.position /\ mid \in States
      BY <2>1, <2>7 DEF Good, States
    <3>2. Matched(mid)
      BY <2>1, <2>7, <3>1, MatchedSame, Zenon DEF Good
    <3> QED
      BY <2>1, <2>2, <3>1, <3>2 DEF Good
  <2> HIDE DEF mid
  <2>9. Shift(mid, t, {}, 0)
    <3>1. /\ b \in Books /\ Sound(b.p) /\ b.m = mid.market
          /\ b.p.base_asset_amount = mid.position[u].base_asset_amount
          /\ Rest(b) = Rest(Book(mid, u)) /\ Covered(b)
      <4>1. Book(mid, u) = b
        BY <2>8, Zenon DEF Book
      <4> QED
        BY <2>8, <4>1, BookParts, Zenon
    <3> HIDE DEF b
    <3>2. Moves(b, UpdateQuoteAssetAmount(b, loss), 0)
      BY <2>4, <3>1, UpdateQuoteMoves, Zenon
    <3> QED
      BY <2>8, <3>1, <3>2, WithStill, Zenon
  <2> HIDE DEF t
  <2>10. /\ Good(t) /\ Imbalance(t.market) = 0
         /\ t.market.amm_last_cumulative_funding_rate
              = t.market.cumulative_funding_rate
         /\ \A v \in Users :
              bankrupt'[v] => t.position[v].base_asset_amount = 0
    BY <1>7, <2>7, <2>8, <2>9 DEF Shift
  <2> QED
    BY <1>3, <1>9, <2>10, GoodKeepsInv
<1> QED
  BY <1>2, <1>8, <1>9

\* A bankruptcy, here or in another market, keeps the invariant.
LEMMA BankruptcyKeepsInv == ASSUME PerpInv, Bankruptcy PROVE PerpInv'
<1>0. /\ Good(Now) /\ bankrupt \in [Users -> BOOLEAN]
      /\ status \in {"Active", "Settlement"}
  BY NowGood DEF PerpInv, PerpTypeOK
<1>1. ASSUME NEW u \in Users, LatchElsewhere(u) PROVE PerpInv'
  <2>1. /\ position[u].base_asset_amount = 0
        /\ bankrupt' = [bankrupt EXCEPT ![u] = ~@]
        /\ position' = position /\ market' = market /\ status' = status
    BY <1>1 DEF LatchElsewhere
  <2>2. bankrupt' \in [Users -> BOOLEAN]
    BY <1>0, <2>1
  <2>3. \A v \in Users : v # u => bankrupt'[v] = bankrupt[v]
    BY <1>0, <2>1
  <2>4. BankruptIsFlat'
    BY <2>1, <2>3 DEF PerpInv, BankruptIsFlat
  <2>5. Matched(Now')
    BY <2>1 DEF PerpInv, Now
  <2> QED
    BY <2>1, <2>2, <2>4, <2>5, Zenon DEF PerpInv, PerpTypeOK, AmmIsCounterparty,
       AmmStampCurrent, ClaimsAreDebts, FlatHasNoBasis
<1>2. ASSUME NEW u \in Users, NEW amount \in Amounts, WindUpClaim(u, amount)
      PROVE  PerpInv'
  <2>1. Becomes(SetOff(Now, u, -amount)) /\ UNCHANGED <<bankrupt, status>>
    BY <1>2 DEF WindUpClaim
  <2>2. -amount \in Int
    BY Inputs
  <2>3. Shift(Now, SetOff(Now, u, -amount), {}, 0)
    BY <1>0, <2>2, QuoteShift DEF SetOff
  <2> QED
    BY <1>0, <2>1, <2>3, ShiftKeepsInv
<1> QED
  BY <1>1, <1>2, ResolveKeepsInv DEF Bankruptcy

-----------------------------------------------------------------------------
(***************************************************************************)
(* The theorems.                                                           *)
(***************************************************************************)
\* A new market satisfies the invariant.
LEMMA InitInv == ASSUME PerpInit PROVE PerpInv
<1>1. EmptyPosition \in PositionType
  BY DEF EmptyPosition, PositionType
<1>2. NewMarket \in MarketType
  BY MarketAssumption DEF NewMarket, MarketType
<1>3. PerpTypeOK
  BY <1>1, <1>2, Zenon DEF PerpInit, PerpTypeOK
<1>4. AmmIsCounterparty /\ AmmStampCurrent
  BY DEF PerpInit, NewMarket, AmmIsCounterparty, AmmStampCurrent, Sides
<1>5. ClaimsAreDebts /\ FlatHasNoBasis /\ BankruptIsFlat
  BY DEF PerpInit, EmptyPosition, ClaimsAreDebts, FlatHasNoBasis, BankruptIsFlat
<1>6. Matched(Now)
  <2>1. /\ Now.market = NewMarket
        /\ \A u \in Users : Now.position[u] = EmptyPosition
    BY Zenon DEF PerpInit, Now
  <2>2. ASSUME NEW f, \A u \in Users : f[u] = 0 PROVE Sum(f) = 0
    BY <2>2, MarketAssumption, SumZero, Zenon DEF Sum
  <2>3. /\ NewMarket.quote_asset_amount = 0
        /\ NewMarket.number_of_users = 0
        /\ NewMarket.number_of_users_with_base = 0
        /\ NewMarket.pending_bankruptcy_claims = 0
        /\ \A x \in Sides : /\ NewMarket.base_asset_amount[x] = 0
                            /\ NewMarket.quote_entry_amount[x] = 0
                            /\ NewMarket.quote_break_even_amount[x] = 0
    BY Zenon DEF NewMarket
  <2>4. ASSUME NEW u \in Users
        PROVE  /\ Now.position[u].quote_asset_amount = 0
               /\ One(~IsAvailable(Now.position[u])) = 0
               /\ One(Now.position[u].base_asset_amount # 0) = 0
               /\ One(Now.position[u].bankruptcy_claim) = 0
               /\ Now.position[u].base_asset_amount = 0
    BY <2>1 DEF EmptyPosition, One, IsAvailable
  <2>5. ASSUME NEW x \in Sides, NEW u \in Users, NEW v
        PROVE  OnSide(Now.position[u].base_asset_amount, x, v) = 0
    BY <2>4 DEF OnSide
  <2>6. /\ Sum([u \in Users |-> Now.position[u].quote_asset_amount]) = 0
        /\ Sum([u \in Users |-> One(~IsAvailable(Now.position[u]))]) = 0
        /\ Sum([u \in Users |-> One(Now.position[u].base_asset_amount # 0)]) = 0
        /\ Sum([u \in Users |-> One(Now.position[u].bankruptcy_claim)]) = 0
    BY <2>2, <2>4, Zenon
  <2>7. ASSUME NEW x \in Sides
        PROVE  /\ Sum([u \in Users |-> OnSide(Now.position[u].base_asset_amount, x,
                                  Now.position[u].base_asset_amount)]) = 0
               /\ Sum([u \in Users |-> OnSide(Now.position[u].base_asset_amount, x,
                                  Now.position[u].quote_entry_amount)]) = 0
               /\ Sum([u \in Users |-> OnSide(Now.position[u].base_asset_amount, x,
                                  Now.position[u].quote_break_even_amount)]) = 0
    BY <2>2, <2>5, Zenon
  <2> QED
    BY <2>1, <2>3, <2>6, <2>7, Zenon DEF Matched
<1> QED
  BY <1>3, <1>4, <1>5, <1>6 DEF PerpInv

\* The inductive invariant of the market's books holds in every reachable
\* state: through every fill, transfer, funding update, settlement,
\* liquidation, expiry and bankruptcy, for any number of accounts and any
\* sizes, prices, fees and rates.
THEOREM PerpInvariant == PerpSpec => []PerpInv
<1>1. PerpInit => PerpInv
  BY InitInv
<1>2. PerpInv /\ [PerpNext]_perpVars => PerpInv'
  <2> SUFFICES ASSUME PerpInv, [PerpNext]_perpVars PROVE PerpInv'
    OBVIOUS
  <2>1. CASE PerpNext
    BY <2>1, TradeKeepsInv, SettlementKeepsInv, LiquidationKeepsInv,
       BankruptcyKeepsInv DEF PerpNext
  <2>2. CASE UNCHANGED perpVars
    <3>1. Matched(Now')
      BY <2>2 DEF perpVars, PerpInv, Now
    <3> QED
      BY <2>2, <3>1, Zenon DEF perpVars, PerpInv, PerpTypeOK, AmmIsCounterparty, AmmStampCurrent,
         ClaimsAreDebts, FlatHasNoBasis, BankruptIsFlat
  <2> QED
    BY <2>1, <2>2
<1> QED
  BY <1>1, <1>2, PTL DEF PerpSpec

\* base_asset_amount_with_amm is the users' net base after every instruction,
\* the equality AMM::validate asserts, and update_funding_rate and
\* resolve_perp_bankruptcy leave the AMM's funding stamp at the market's
\* rates, so a socialised loss is never paid to the AMM (AmmInStep).
THEOREM AmmAlwaysInStep == PerpSpec => []AmmInStep
<1>1. PerpInv => AmmInStep
  BY DEF PerpInv, AmmInStep
<1> QED
  BY <1>1, PerpInvariant, PTL

\* The books keep their types; a flat position never carries an entry or a
\* break-even amount, whatever fees and funding were booked after its close; a
\* booked bankruptcy claim stands for a debt until it is released; and no fill,
\* transfer or liquidation gives base to an account in bankruptcy
\* (PositionsSound).
THEOREM PositionsAlwaysSound == PerpSpec => []PositionsSound
<1>1. PerpInv => PositionsSound
  BY DEF PerpInv, PositionsSound
<1> QED
  BY <1>1, PerpInvariant, PTL

\* What the invariant says of the accounts the market counts.
LEMMA InvCounts == ASSUME PerpInv PROVE CountsMatch
<1>1. /\ market.number_of_users
           = Sum([u \in Users |-> One(~IsAvailable(position[u]))])
      /\ market.number_of_users_with_base
           = Sum([u \in Users |-> One(position[u].base_asset_amount # 0)])
      /\ market.pending_bankruptcy_claims
           = Sum([u \in Users |-> One(position[u].bankruptcy_claim)])
  BY NowGood, Zenon DEF PerpInv, Matched
<1> DEFINE f == [u \in Users |-> One(~IsAvailable(position[u]))]
           g == [u \in Users |-> One(position[u].base_asset_amount # 0)]
           h == [u \in Users |-> One(position[u].bankruptcy_claim)]
<1>2. /\ {u \in Users : f[u] = 1} = {u \in Users : ~IsAvailable(position[u])}
      /\ {u \in Users : g[u] = 1} = {u \in Users : position[u].base_asset_amount # 0}
      /\ {u \in Users : h[u] = 1} = {u \in Users : position[u].bankruptcy_claim}
  BY DEF One
<1>3. \A u \in Users : f[u] \in {0, 1} /\ g[u] \in {0, 1} /\ h[u] \in {0, 1}
  BY SMTT(20) DEF One
<1> HIDE DEF f, g, h
<1>4. /\ Cardinality({u \in Users : f[u] = 1}) = Sum(f)
      /\ Cardinality({u \in Users : g[u] = 1}) = Sum(g)
      /\ Cardinality({u \in Users : h[u] = 1}) = Sum(h)
  BY <1>3, MarketAssumption, CountIsSum DEF Sum
<1> QED
  BY <1>1, <1>2, <1>4, Zenon DEF CountsMatch, f, g, h

\* The gate's counters are clear exactly when no account holds base or has a
\* claim.
LEMMA InvGate == ASSUME PerpInv PROVE GateCountsPositions
<1> DEFINE H == {u \in Users : position[u].base_asset_amount # 0}
           C == {u \in Users : position[u].bankruptcy_claim}
<1>1. /\ market.number_of_users_with_base = Cardinality(H)
      /\ market.pending_bankruptcy_claims = Cardinality(C)
  BY InvCounts DEF CountsMatch
<1>2. IsFiniteSet(H) /\ IsFiniteSet(C)
  BY MarketAssumption, SubsetFinite
<1>3. (Cardinality(H) = 0 <=> H = {}) /\ (Cardinality(C) = 0 <=> C = {})
  <2> HIDE DEF H, C
  <2> QED
    BY <1>2, CountFacts, Zenon
<1>4. ASSUME \A u \in Users : position[u].base_asset_amount = 0
                                /\ ~position[u].bankruptcy_claim
      PROVE  CountersClear(market)
  <2>1. ASSUME NEW x \in Sides PROVE market.base_asset_amount[x] = 0
    <3> DEFINE f == [u \in Users |-> OnSide(position[u].base_asset_amount, x,
                                            position[u].base_asset_amount)]
    <3>1. market.base_asset_amount[x] = Sum(f)
      BY NowGood, Zenon DEF PerpInv, Matched
    <3>2. \A u \in Users : f[u] = 0
      BY <1>4 DEF OnSide
    <3> HIDE DEF f
    <3> QED
      BY <3>1, <3>2, MarketAssumption, SumZero DEF Sum
  <2>2. market.base_asset_amount["Long"] = 0 /\ market.base_asset_amount["Short"] = 0
    BY <2>1 DEF Sides
  <2>3. H = {} /\ C = {}
    BY <1>4
  <2> QED
    BY <1>1, <1>3, <2>2, <2>3 DEF CountersClear, PerpInv, AmmIsCounterparty
<1>5. ASSUME CountersClear(market)
      PROVE  \A u \in Users : position[u].base_asset_amount = 0
                                /\ ~position[u].bankruptcy_claim
  <2>1. H = {} /\ C = {}
    BY <1>1, <1>3, <1>5 DEF CountersClear
  <2> QED
    BY <2>1, Zenon
<1> QED
  BY <1>4, <1>5 DEF GateCountsPositions

\* After every instruction quote_asset_amount, the base, entry and break-even
\* totals of each side, number_of_users, number_of_users_with_base and
\* pending_bankruptcy_claims are exactly those of the positions, no saturating
\* decrement ever loses a count, and the counters that
\* handle_settle_expired_market_pools_to_revenue_pool reads are clear exactly
\* when no account holds base or a claim (BooksMatch).
THEOREM BooksAlwaysMatch == PerpSpec => []BooksMatch
<1>1. PerpInv => BooksMatch
  <2> SUFFICES ASSUME PerpInv PROVE BooksMatch
    OBVIOUS
  <2>1. TotalsMatch
    BY NowGood, Zenon DEF PerpInv, Matched, TotalsMatch
  <2> QED
    BY <2>1, InvCounts, InvGate DEF BooksMatch
<1> QED
  BY <1>1, PerpInvariant, PTL
=============================================================================
