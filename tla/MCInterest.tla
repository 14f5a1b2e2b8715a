----------------------------- MODULE MCInterest -----------------------------
(***************************************************************************)
(* Small instances of a market's interest for TLC: the bookings of         *)
(* InterestSplit, and the borrow rate of every small curve that            *)
(* update_spot_market_borrow_rate admits as utilization rises.  The two do *)
(* not depend on each other, so they are explored one beside the other:    *)
(* utilization rises only before the first booking, and bookings are made  *)
(* only at the first utilization of the first curve.                       *)
(***************************************************************************)
EXTENDS InterestSplit

CONSTANTS
    MaxOwed,            \* bound on the history
    Optima, CurveRates,     \* the parameters of the curves
    MaxUtilization

VARIABLES curve, utilization

rateVars == <<curve, utilization>>

MCPairs == {<<2, 1>>, <<0, 1>>, <<3, 4>>, <<0, 0>>, <<9, 0>>}

\* The code's segments with utilization in units of half a percent.
MCCurve == [optimal_utilization |-> 160, optimal_borrow_rate |-> 0,
            max_borrow_rate |-> 0, min_borrow_rate |-> 0,
            segments |-> <<[end |-> 170, weight |-> 50],
                           [end |-> 180, weight |-> 100],
                           [end |-> 190, weight |-> 150],
                           [end |-> 198, weight |-> 200],
                           [end |-> 199, weight |-> 250],
                           [end |-> 200, weight |-> 250]>>]

RateInit ==
    /\ utilization = 0
    /\ \E o \in Optima, r1, r2, r3 \in CurveRates :
          curve = [MCCurve EXCEPT !.optimal_utilization = o,
                                  !.optimal_borrow_rate = r1,
                                  !.max_borrow_rate = r2,
                                  !.min_borrow_rate = r3]
    /\ ValidBorrowRate(curve)

InterestInit == SplitInit /\ RateInit

Rise ==
    /\ owed = 0
    /\ utilization < MaxUtilization
    /\ utilization' = utilization + 1
    /\ UNCHANGED <<splitVars, curve>>

InterestNext ==
    \/ Rise
    \/ /\ utilization = 0 /\ curve = MCCurve
       /\ \/ \E interest \in Interests : owed < MaxOwed /\ BookInterest(interest)
          \/ \E f \in FactorPairs : ChangeFactors(f)
       /\ UNCHANGED rateVars

interestVars == <<splitVars, rateVars>>

InterestSpec == InterestInit /\ [][InterestNext]_interestVars

-----------------------------------------------------------------------------

\* The rate stays between the configured minimum and maximum, above 100%
\* utilization too.
RateWithinBounds ==
    /\ BorrowRate(curve, utilization) >= curve.min_borrow_rate
    /\ BorrowRate(curve, utilization) <= curve.max_borrow_rate

\* The rate never falls as utilization rises, across the kink at the optimal
\* utilization and across every segment, so borrowing more is never cheaper
\* (calculate_borrow_rate), and never leaves its bounds.
RateRisesWithinBounds ==
    [][/\ BorrowRate(curve, utilization') >= BorrowRate(curve, utilization)
       /\ RateWithinBounds /\ RateWithinBounds']_rateVars

\* Every curve that validate_borrow_rate accepts gives a rate.
AdmittedCurveHasRate == RateDefined(curve, utilization)
=============================================================================
