---------------------------- MODULE InterestSplit ---------------------------
(***************************************************************************)
(* The carveouts of the deposit interest over a market's life: anyone may  *)
(* book interest at any pace, and the admin may change the two factors     *)
(* between any two bookings.  The history variables add up, in exact       *)
(* units, what the carveouts were owed and what was withheld for them.     *)
(***************************************************************************)
EXTENDS SpotMath

CONSTANTS
    Interests,      \* index units that one booking may divide
    FactorPairs     \* pairs <<if_fee_factor, protocol_fee_factor>>

ASSUME InterestSplitAssumption ==
    /\ Interests \subseteq Nat
    /\ FactorPairs \subseteq Nat \X Nat

VARIABLES
    factors,    \* the factors and the two remainders kept in the market
    owed,       \* sum of interest * combined factor
    withheld,   \* sum of the index units withheld from lenders
    paid        \* sum of the units passed on, for each carveout

splitVars == <<factors, owed, withheld, paid>>

\* update_spot_market_if_factor keeps the pair below the whole.
FactorsOK(f) == f[1] + f[2] < FactorPrecision

SplitInit ==
    /\ \E f \in FactorPairs :
          /\ FactorsOK(f)
          /\ factors = [if_fee_factor |-> f[1], protocol_fee_factor |-> f[2],
                        carveout_dust |-> 0, insurance_fund_dust |-> 0]
    /\ owed = 0
    /\ withheld = 0
    /\ paid = [insurance_fund |-> 0, protocol |-> 0]

\* One booking of update_spot_market_cumulative_interest.
BookInterest(interest) ==
    LET s == SplitDepositInterest(factors, interest)
    IN  /\ factors' = [factors EXCEPT !.carveout_dust = s.carveout_dust,
                                      !.insurance_fund_dust = s.insurance_fund_dust]
        /\ owed' = owed + interest * CombinedFactor(factors)
        /\ withheld' = withheld + (interest - s.for_lenders)
        /\ paid' = [insurance_fund |-> paid.insurance_fund + s.for_insurance_fund,
                    protocol |-> paid.protocol + s.for_protocol]

\* handle_update_spot_market_if_factor
ChangeFactors(f) ==
    /\ FactorsOK(f)
    /\ factors' = [factors EXCEPT !.if_fee_factor = f[1],
                                  !.protocol_fee_factor = f[2]]
    /\ UNCHANGED <<owed, withheld, paid>>

SplitNext == \/ \E interest \in Interests : BookInterest(interest)
        \/ \E f \in FactorPairs : ChangeFactors(f)

SplitSpec == SplitInit /\ [][SplitNext]_splitVars

-----------------------------------------------------------------------------

\* Every history sum and every remainder is a natural number: a negative one
\* is a subtraction of split_deposit_interest that would have failed.
SplitTypeOK ==
    /\ factors \in [if_fee_factor : Nat, protocol_fee_factor : Nat,
                    carveout_dust : Nat, insurance_fund_dust : Nat]
    /\ owed \in Nat
    /\ withheld \in Nat
    /\ paid \in [insurance_fund : Nat, protocol : Nat]

\* Whatever was booked before and however the factors moved, the next booking
\* takes no more than the interest it divides and gives each side a share that
\* is not negative: no subtraction of split_deposit_interest underflows, so the
\* accrual at the head of nearly every spot instruction never fails here.
CarveoutsWithinInterest ==
    \A interest \in Interests :
        LET s == SplitDepositInterest(factors, interest)
        IN  /\ s.for_lenders >= 0
            /\ s.for_insurance_fund >= 0
            /\ s.for_protocol >= 0

\* Frequent cranks lose nothing: over any number of bookings, what was withheld
\* is what was owed, but for a remainder below one unit that the market still
\* carries.
NothingLostToRounding ==
    owed = withheld * FactorPrecision + factors.carveout_dust

\* The split of interest never fails and loses nothing, whenever it is booked.
CarveoutsExact == SplitTypeOK /\ CarveoutsWithinInterest /\ NothingLostToRounding
=============================================================================
