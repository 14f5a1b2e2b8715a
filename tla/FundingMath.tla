---------------------------- MODULE FundingMath -----------------------------
(***************************************************************************)
(* The arithmetic of perp funding (math/funding.rs) and of the funding     *)
(* rate bump that socialises a bankruptcy (math/liquidation.rs).  Amounts  *)
(* are in quote atoms, positions in base atoms, rates in funding atoms; a  *)
(* long pays a positive rate and a short receives it.                      *)
(***************************************************************************)
EXTENDS ProtocolMath

CONSTANTS
    FUNDING_RATE_PRECISION,         \* PRICE_PRECISION * FUNDING_RATE_BUFFER
    AMM_TO_QUOTE_PRECISION_RATIO,
    BASE_PRECISION                  \* AMM_RESERVE_PRECISION

ASSUME PrecisionAssumption ==
    /\ FUNDING_RATE_PRECISION \in Nat \ {0}
    /\ AMM_TO_QUOTE_PRECISION_RATIO \in Nat \ {0}
    /\ BASE_PRECISION \in Nat \ {0}
    \* the rate that moves one quote atom per base atom is the same whether
    \* it is built from quote or from base precision
    /\ (FUNDING_RATE_PRECISION * AMM_TO_QUOTE_PRECISION_RATIO)
         % BASE_PRECISION = 0

QUOTE_TO_BASE_AMT_FUNDING_PRECISION ==
    FUNDING_RATE_PRECISION * AMM_TO_QUOTE_PRECISION_RATIO

FUNDING_RATE_TO_QUOTE_PRECISION_RATIO ==
    QUOTE_TO_BASE_AMT_FUNDING_PRECISION \div BASE_PRECISION

\* _calculate_funding_payment: what a position receives, in AMM precision.
RawFundingPayment(delta, base) ==
    (IF delta > 0 THEN -1 ELSE 1) * (IF base > 0 THEN 1 ELSE -1)
      * ((Abs(delta) * Abs(base)) \div FUNDING_RATE_PRECISION)

FundingPayment(delta, base) ==
    TruncDiv(RawFundingPayment(delta, base), AMM_TO_QUOTE_PRECISION_RATIO)

\* The AMM is the counterparty of the longs at the long rate and of the
\* shorts at the short rate; only the sum is rounded to quote precision.
AmmFundingPayment(long, short, delta_long, delta_short) ==
    TruncDiv((IF delta_long # 0 /\ long # 0
                THEN RawFundingPayment(delta_long, -long) ELSE 0)
               + (IF delta_short # 0 /\ short # 0
                    THEN RawFundingPayment(delta_short, -short) ELSE 0),
             AMM_TO_QUOTE_PRECISION_RATIO)

\* A third of the AMM's retained equity may be paid out per period.
AvailableFees(tfmd) == Greater(tfmd, 0) \div 3

\* calculate_funding_rate_from_pnl_limit
RateFromPnlLimit(limit, base) ==
    IF base = 0
      THEN 0
      ELSE TruncDiv((IF limit < 0 THEN limit + 1 ELSE limit)
                      * QUOTE_TO_BASE_AMT_FUNDING_PRECISION, base)

\* Faulty: the receiving side's own payment is taken for the paying side's.
CappedRateWrongSide(long, short, tfmd, uncapped, rate) ==
    LET limit == -AvailableFees(tfmd)
        fromUsers == Abs(FundingPayment(rate, IF rate > 0 THEN short ELSE long))
    IN  IF uncapped < limit
          THEN RateFromPnlLimit(limit - fromUsers,
                                IF rate < 0 THEN long ELSE short)
          ELSE rate

\* calculate_capped_funding_rate: the receiving side gets what the paying
\* side pays plus what the AMM can afford.
CappedRate(long, short, tfmd, uncapped, rate) ==
    LET limit == -AvailableFees(tfmd)
        fromUsers == Abs(FundingPayment(rate, IF rate > 0 THEN long ELSE short))
    IN  IF uncapped < limit
          THEN RateFromPnlLimit(limit - fromUsers,
                                IF rate < 0 THEN long ELSE short)
          ELSE rate

\* calculate_funding_rate_long_short: each side's rate and the revenue the
\* market books for the period.
RateLongShort(with_amm, long, short, tfmd, rate) ==
    LET uncapped == -FundingPayment(rate, with_amm)
        capped == CappedRate(long, short, tfmd, uncapped, rate)
    IN  IF uncapped >= 0
          THEN [Long |-> rate, Short |-> rate, revenue |-> uncapped]
          ELSE [Long |-> IF rate < 0 THEN capped ELSE rate,
                Short |-> IF rate > 0 THEN capped ELSE rate,
                revenue |-> Greater(uncapped, -AvailableFees(tfmd))]

\* validate_funding_pnl_profitability
FundingProfitabilityOK(tfmd, revenue) == revenue >= 0 \/ tfmd + revenue >= 0

\* calculate_funding_rate_deltas_to_resolve_bankruptcy, for a loss and a
\* positive gross open interest.
SocialLossRate(loss, gross) ==
    CeilDiv(loss * BASE_PRECISION, gross)
      * FUNDING_RATE_TO_QUOTE_PRECISION_RATIO
=============================================================================
