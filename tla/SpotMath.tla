------------------------------ MODULE SpotMath ------------------------------
(***************************************************************************)
(* The arithmetic of a spot market (math/spot_balance.rs,                  *)
(* controller/spot_balance.rs, math/liquidation.rs).                       *)
(*                                                                         *)
(* A position holds a scaled balance; its tokens are the scaled balance    *)
(* times a cumulative interest index.  Deposits convert to tokens rounding *)
(* down, borrows rounding up.  Indexes only move when interest is booked   *)
(* or a loss is socialised, so every balance earns or pays without being   *)
(* touched.                                                                *)
(***************************************************************************)
EXTENDS ProtocolMath

CONSTANTS
    BalancePrecision,       \* 10^(19 - decimals): scaled units * index per token
    InterestPrecision,      \* the indexes' initial value
    UtilizationPrecision,
    YearRate,               \* ONE_YEAR * SPOT_RATE_PRECISION
    FactorPrecision,        \* IF_FACTOR_PRECISION
    TwapWindow,             \* SPOT_MARKET_TOKEN_TWAP_WINDOW
    RateCurve               \* the market's borrow rate parameters

\* optimal_utilization, the three rates, and INTEREST_RATE_SEGMENT_AND_WEIGHTS
\* as six [end, weight], with weights in thousandths.  A curve is admitted by
\* validate_borrow_rate.
ValidBorrowRate(c) ==
    /\ c.optimal_utilization <= UtilizationPrecision
    /\ c.optimal_borrow_rate <= c.max_borrow_rate
    /\ c.optimal_borrow_rate >= c.min_borrow_rate

ASSUME SpotMathAssumption ==
    /\ BalancePrecision \in Nat \ {0}
    /\ InterestPrecision \in Nat \ {0}
    /\ UtilizationPrecision \in Nat \ {0}
    /\ YearRate \in Nat \ {0}
    /\ FactorPrecision \in Nat \ {0}
    /\ TwapWindow \in Nat \ {0}
    /\ ValidBorrowRate(RateCurve)
    /\ RateCurve.segments[1].end >= RateCurve.optimal_utilization

-----------------------------------------------------------------------------
(* Balances and tokens *)

Index(m, type) == IF type = "Deposit" THEN m.cumulative_deposit_interest
                                      ELSE m.cumulative_borrow_interest
Total(m, type) == IF type = "Deposit" THEN m.deposit_balance
                                      ELSE m.borrow_balance

GetSpotBalance(tokens, index, round_up) ==
    (tokens * BalancePrecision) \div index
        + (IF round_up /\ tokens # 0 THEN 1 ELSE 0)

GetTokenAmount(balance, index, type) ==
    IF type = "Deposit" THEN (balance * index) \div BalancePrecision
                        ELSE CeilDiv(balance * index, BalancePrecision)

\* The market's deposits and borrows in tokens.
Tokens(m, type) == GetTokenAmount(Total(m, type), Index(m, type), type)

\* A position's tokens.
PositionTokens(m, b) ==
    GetTokenAmount(b.scaled_balance, Index(m, b.balance_type), b.balance_type)

-----------------------------------------------------------------------------
(* Interest *)

CalculateUtilization(deposits, borrows) ==
    IF deposits > 0 THEN (borrows * UtilizationPrecision) \div deposits
    ELSE IF borrows = 0 THEN 0 ELSE UtilizationPrecision

Utilization(m) ==
    CalculateUtilization(Tokens(m, "Deposit"), Tokens(m, "Borrow"))

\* The subtraction segment_end - segment_start succeeds: above the optimal
\* utilization the rate exists only if the first segment ends at or above it.
RateDefined(c, utilization) ==
    utilization > c.optimal_utilization =>
        c.segments[1].end >= c.optimal_utilization

\* Segment i adds its weight's share of the rate between the optimal and the
\* maximal one: all of it once utilization has passed the segment.
SegmentStart(c, i) ==
    IF i = 1 THEN c.optimal_utilization ELSE c.segments[i - 1].end
SegmentRateTotal(c, i) ==
    ((c.max_borrow_rate - c.optimal_borrow_rate) * c.segments[i].weight) \div 1000
PartialSegmentRate(c, i, utilization) ==
    (SegmentRateTotal(c, i) * (utilization - SegmentStart(c, i)))
        \div (c.segments[i].end - SegmentStart(c, i))

\* Faulty: only the segment that holds the utilization counts.
SegmentRateOfOne(c, i, utilization) ==
    IF utilization > c.segments[i].end \/ utilization <= SegmentStart(c, i)
      THEN 0 ELSE PartialSegmentRate(c, i, utilization)

SegmentRate(c, i, utilization) ==
    IF utilization > c.segments[i].end THEN SegmentRateTotal(c, i)
    ELSE IF utilization <= SegmentStart(c, i) THEN 0
    ELSE PartialSegmentRate(c, i, utilization)

\* calculate_borrow_rate: linear up to the optimal utilization, then piecewise
\* linear over the six segments.
BorrowRate(c, utilization) ==
    LET slope == (c.optimal_borrow_rate * UtilizationPrecision)
                     \div c.optimal_utilization
        part(i) == SegmentRate(c, i, utilization)
        rate  ==
            IF utilization <= c.optimal_utilization
              THEN (utilization * slope) \div UtilizationPrecision
              ELSE c.optimal_borrow_rate + part(1) + part(2) + part(3)
                                         + part(4) + part(5) + part(6)
    IN  Greater(rate, c.min_borrow_rate)

\* What the indexes gain at a rate already multiplied by the time it applies to.
InterestAt(m, utilization, rate) ==
    [borrow  |-> (m.cumulative_borrow_interest * rate) \div YearRate + 1,
     deposit |-> (m.cumulative_deposit_interest
                    * ((rate * utilization) \div UtilizationPrecision))
                   \div YearRate]

\* calculate_accumulated_interest before its clamp: what the indexes would
\* gain over a time at a utilization.
UnclampedInterest(m, time, utilization) ==
    IF time <= 0 \/ utilization = 0
      THEN [borrow |-> 0, deposit |-> 0]
      ELSE InterestAt(m, utilization, BorrowRate(RateCurve, utilization) * time)

\* The conservation clamp: depositors are credited no more tokens than the
\* borrowers are charged.
ClampedInterest(m, i) ==
    LET earned == (m.deposit_balance * i.deposit) \div BalancePrecision
        paid   == (m.borrow_balance * i.borrow) \div BalancePrecision
    IN  IF earned > paid
          THEN [i EXCEPT !.deposit = (@ * paid) \div earned]
          ELSE i

AccumulatedInterest(m, now) ==
    ClampedInterest(m, UnclampedInterest(m, now - m.last_interest_ts, Utilization(m)))

\* Faulty: the carveouts come on top of the lenders' interest.
SplitOnTop(m, interest) ==
    LET combined == m.if_fee_factor + m.protocol_fee_factor
        withheld == (interest * combined) \div FactorPrecision
        for_if   == (withheld * m.if_fee_factor) \div Greater(combined, 1)
    IN  [for_lenders         |-> interest,
         for_insurance_fund  |-> for_if,
         for_protocol        |-> withheld - for_if,
         carveout_dust       |-> 0,
         insurance_fund_dust |-> 0]

CombinedFactor(m) == m.if_fee_factor + m.protocol_fee_factor

\* Faulty: a remainder stored under a larger divisor is used as it is.
CarriedWhole(m) == m.insurance_fund_dust

\* The insurance fund's remainder, reduced below the divisor in force.
CarriedIf(m) == Lesser(m.insurance_fund_dust, SaturatingSub(CombinedFactor(m), 1))

\* Faulty: the remainder of the first split is not carried over.
CarveoutNumeratorAlone(m, interest) == interest * CombinedFactor(m)

CarveoutNumerator(m, interest) == interest * CombinedFactor(m) + m.carveout_dust
Withheld(m, interest) == CarveoutNumerator(m, interest) \div FactorPrecision
IfNumerator(m, interest) == Withheld(m, interest) * m.if_fee_factor + CarriedIf(m)

\* split_deposit_interest: lenders against the two carveouts, then the
\* insurance fund against the protocol, each split carrying its remainder.
SplitDepositInterest(m, interest) ==
    LET combined == CombinedFactor(m)
        withheld == Withheld(m, interest)
        for_if   == IF combined = 0 THEN 0
                    ELSE IfNumerator(m, interest) \div combined
    IN  [for_lenders         |-> interest - withheld,
         for_insurance_fund  |-> for_if,
         for_protocol        |-> withheld - for_if,
         carveout_dust       |-> CarveoutNumerator(m, interest) % FactorPrecision,
         insurance_fund_dust |-> IF combined = 0 THEN 0
                                 ELSE IfNumerator(m, interest) % combined]

\* get_interest_token_amount_with_dust
InterestTokens(balance, interest, dust) ==
    (balance * interest + dust) \div BalancePrecision
InterestDust(balance, interest, dust) ==
    (balance * interest + dust) % BalancePrecision

\* calculate_cumulative_deposit_interest_delta_to_resolve_bankruptcy: the
\* haircut that makes depositors bear a loss, leaving an index of at least 1.
SocialLossDelta(m, loss) ==
    LET deposits == Tokens(m, "Deposit")
        index    == m.cumulative_deposit_interest
    IN  IF deposits = 0 THEN 0
        ELSE Lesser(CeilDiv(index * loss, deposits), SaturatingSub(index, 1))

-----------------------------------------------------------------------------
(* Time weighted averages: math/stats.rs *)

\* calculate_weighted_average: rounds down, then leans one unit towards the
\* heavier of the two weighted values.
WeightedAverage(latest, average, since_last, from_start) ==
    LET a    == latest * since_last
        b    == average * from_start
        twap == (a + b) \div (since_last + from_start)
        bias == IF from_start <= 1 \/ a = b THEN 0 ELSE IF b < a THEN -1 ELSE 1
    IN  IF since_last = 0 THEN average
        ELSE IF twap = 0 /\ bias < 0 THEN twap ELSE twap + bias

\* update_spot_market_twap_stats, without the oracle averages.
UpdateTwapStats(m, now) ==
    LET since   == Greater(0, now - m.last_twap_ts)
        from    == Greater(1, TwapWindow - since)
        avg(x, old) == WeightedAverage(x, old, since, from)
    IN  [m EXCEPT !.deposit_token_twap = avg(Tokens(m, "Deposit"), @),
                  !.borrow_token_twap  = avg(Tokens(m, "Borrow"), @),
                  !.utilization_twap   = avg(Utilization(m), @),
                  !.last_twap_ts       = now]
=============================================================================
