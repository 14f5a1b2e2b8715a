---------------------------- MODULE MCFundingCap ----------------------------
(***************************************************************************)
(* The funding a market charges and its AMM pays, period after period, for *)
(* every small open interest, rate and retained equity.                    *)
(***************************************************************************)
EXTENDS FundingMath

CONSTANTS MaxOpenInterest, MinFees, MaxFees, MaxRate

VARIABLES long, short, tfmd, last

capVars == <<long, short, tfmd, last>>

MCMinFees == -2

\* The AMM is the counterparty of the net position.
RatesOf(rate) == RateLongShort(long + short, long, short, tfmd, rate)

\* last: the period's rate, the rates of both sides, and what the AMM and the
\* market booked.
NoPeriod == [rate |-> 0, Long |-> 0, Short |-> 0, revenue |-> 0, paid |-> 0]

CapInit ==
    /\ long \in 0..MaxOpenInterest
    /\ short \in {-n : n \in 0..MaxOpenInterest}
    /\ tfmd \in 0..MaxFees
    /\ last = NoPeriod

\* update_funding_rate, as far as the AMM's equity goes
CapNext ==
    \E rate \in (-MaxRate)..MaxRate :
      LET r    == RatesOf(rate)
          paid == AmmFundingPayment(long, short, r.Long, r.Short)
      IN  /\ FundingProfitabilityOK(tfmd, r.revenue)
          /\ tfmd + paid \in MinFees..MaxFees
          /\ tfmd' = tfmd + paid
          /\ last' = [rate |-> rate, Long |-> r.Long, Short |-> r.Short,
                      revenue |-> r.revenue, paid |-> paid]
          /\ UNCHANGED <<long, short>>

CapSpec == CapInit /\ [][CapNext]_capVars

\* A cap only shrinks what the receiving side gets: it never turns a receipt
\* into a charge, never raises it above the uncapped rate, and leaves the
\* paying side alone.
CapKeepsDirection ==
    LET receives == IF last.rate > 0 THEN last.Short ELSE last.Long
        pays     == IF last.rate > 0 THEN last.Long ELSE last.Short
    IN  /\ pays = last.rate
        /\ Abs(receives) <= Abs(last.rate)
        /\ receives * last.rate >= 0

\* The AMM settles from the rates what the market books as its revenue,
\* capped or not, up to the rounding of the payments and to what one atom of
\* the rate is worth to the receiving side.
AmmSettlesRevenue ==
    Abs(last.paid - last.revenue)
      <= 2 + CeilDiv(Greater(long, -short),
                     QUOTE_TO_BASE_AMT_FUNDING_PRECISION)

\* One period spends at most a third of the AMM's equity (available_fees), and
\* the atom by which its own payment, summed over the sides, may round away
\* from the net position's payment that the cap is computed from.  With no
\* equity left the AMM can so end one atom below zero, although
\* validate_funding_pnl_profitability is to keep it from going underwater.
\* The rates that keep it so keep their direction and agree with the books.
FundingWithinBudget ==
    [][/\ tfmd' >= tfmd - AvailableFees(tfmd) - 1
       /\ CapKeepsDirection' /\ AmmSettlesRevenue']_capVars
=============================================================================
