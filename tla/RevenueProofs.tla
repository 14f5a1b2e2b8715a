--------------------------- MODULE RevenueProofs ----------------------------
(***************************************************************************)
(* The interest that a spot market carves out for the insurance fund and   *)
(* the protocol, the insurance fund, and the revenue router.               *)
(*                                                                         *)
(* First what the arithmetic of SpotMath guarantees for every precision,   *)
(* index and balance: no conversion overdraws a balance, and no split of   *)
(* the interest takes more than there is.  Then the carveouts over a       *)
(* market's life, for every interest and sequence of factor changes.       *)
(*                                                                         *)
(* Then the insurance fund for any set of stakers and any amounts: each    *)
(* instruction is a composition of Seed, Rebase, SettleRevenue and Pay, so *)
(* the lemmas say what those preserve of a fund record and each action     *)
(* cites them.  Last the ladder of the router, for any number of tiers:    *)
(* what it pays of a day's revenue is a sum over the tiers.                *)
(***************************************************************************)
EXTENDS InterestSplit, InsuranceFund, Router, SumProofs

-----------------------------------------------------------------------------
(* The arithmetic of balances *)

\* Division with remainder.
LEMMA DivMod ==
    ASSUME NEW a \in Nat, NEW d \in Nat \ {0}
    PROVE  /\ a \div d \in Nat
           /\ a % d \in 0..(d - 1)
           /\ a = (a \div d) * d + (a % d)
OBVIOUS

\* A quotient is at most what the dividend is a multiple of.
LEMMA DivBound ==
    ASSUME NEW a \in Nat, NEW d \in Nat \ {0}, NEW q \in Nat, a < (q + 1) * d
    PROVE  a \div d <= q
<1> DEFINE k == a \div d
<1>1. k \in Nat /\ k * d <= a
  BY DivMod
<1> HIDE DEF k
<1>2. SUFFICES ASSUME k >= q + 1 PROVE FALSE
  BY <1>1 DEF k
<1>3. PICK r \in Nat : k = (q + 1) + r
  <2>1. k - (q + 1) \in Nat
    BY <1>1, <1>2
  <2> QED
    BY <1>1, <2>1
<1>4. k * d = (q + 1) * d + r * d
  BY <1>3
<1>5. r * d \in Nat
  BY <1>3
<1> QED
  BY <1>1, <1>4, <1>5

\* A product of naturals.
LEMMA MulNat == ASSUME NEW a \in Nat, NEW b \in Nat PROVE a * b \in Nat
OBVIOUS

\* Multiplication is monotone.
LEMMA MulMonotone ==
    ASSUME NEW a \in Nat, NEW b \in Nat, NEW c \in Nat, a <= b
    PROVE  a * c <= b * c
<1>1. PICK r \in Nat : b = a + r
  <2>1. b - a \in Nat /\ b = a + (b - a)
    OBVIOUS
  <2> QED
    BY <2>1
<1>2. b * c = a * c + r * c /\ r * c \in Nat /\ a * c \in Nat
  BY <1>1
<1> QED
  BY <1>2

-----------------------------------------------------------------------------
(* The carveouts of the interest *)

\* The fields of a market that split_deposit_interest reads.
FactorsBounded(m) ==
    /\ m.if_fee_factor \in Nat
    /\ m.protocol_fee_factor \in Nat
    /\ m.carveout_dust \in 0..(FactorPrecision - 1)
    /\ m.insurance_fund_dust \in Nat
    /\ CombinedFactor(m) < FactorPrecision

\* The first split withholds at most the interest, and keeps a remainder below
\* one unit.
LEMMA WithheldBounded ==
    ASSUME NEW m, FactorsBounded(m), NEW interest \in Nat
    PROVE  /\ CarveoutNumerator(m, interest) \in Nat
           /\ Withheld(m, interest) \in 0..interest
           /\ CarveoutNumerator(m, interest) % FactorPrecision
                \in 0..(FactorPrecision - 1)
           /\ interest * CombinedFactor(m) + m.carveout_dust
                = Withheld(m, interest) * FactorPrecision
                    + (CarveoutNumerator(m, interest) % FactorPrecision)
<1> DEFINE c == CombinedFactor(m)
           n == CarveoutNumerator(m, interest)
           f == FactorPrecision
<1>1. f \in Nat \ {0}
  BY SpotMathAssumption
<1>2. c \in Nat /\ c <= f - 1 /\ m.carveout_dust \in Nat /\ m.carveout_dust <= f - 1
  BY <1>1 DEF FactorsBounded, CombinedFactor
<1>3. n = interest * c + m.carveout_dust
  BY DEF CarveoutNumerator
<1> HIDE DEF c, n
<1>4. interest * c <= interest * (f - 1)
  <2>1. f - 1 \in Nat
    BY <1>1
  <2>2. c * interest <= (f - 1) * interest
    BY <1>2, <2>1, MulMonotone
  <2> QED
    BY <1>1, <1>2, <2>1, <2>2
<1>5. interest * c \in Nat
  BY <1>2, MulNat
<1>6. n \in Nat
  BY <1>2, <1>3, <1>5
<1>7. n < (interest + 1) * f
  <2>1. (interest + 1) * f = interest * (f - 1) + interest + f
    BY <1>1
  <2>2. interest * (f - 1) \in Nat
    BY <1>1, MulNat
  <2> QED
    BY <1>1, <1>2, <1>3, <1>4, <1>5, <2>1, <2>2
<1>8. n \div f <= interest
  BY <1>1, <1>6, <1>7, DivBound
<1>9. n \div f \in Nat /\ n % f \in 0..(f - 1) /\ n = (n \div f) * f + (n % f)
  BY <1>1, <1>6, DivMod, Zenon
<1> QED
  BY <1>3, <1>6, <1>8, <1>9 DEF Withheld, n, c

\* The second split gives the insurance fund at most what was withheld.
LEMMA InsuranceShareBounded ==
    ASSUME NEW m, FactorsBounded(m), NEW interest \in Nat, CombinedFactor(m) # 0
    PROVE  /\ IfNumerator(m, interest) \div CombinedFactor(m)
                \in 0..Withheld(m, interest)
           /\ IfNumerator(m, interest) % CombinedFactor(m)
                \in 0..(CombinedFactor(m) - 1)
<1> DEFINE c == CombinedFactor(m)
           w == Withheld(m, interest)
           k == CarriedIf(m)
           n == IfNumerator(m, interest)
<1>1. c \in Nat \ {0} /\ m.if_fee_factor \in Nat /\ m.if_fee_factor <= c
  BY DEF FactorsBounded, CombinedFactor
<1>2. w \in Nat
  BY WithheldBounded
<1>3. k \in Nat /\ k <= c - 1
  BY <1>1 DEF CarriedIf, Lesser, SaturatingSub, FactorsBounded
<1>4. n = w * m.if_fee_factor + k
  BY DEF IfNumerator
<1> HIDE DEF c, w, k, n
<1>5. m.if_fee_factor * w <= c * w
  BY <1>1, <1>2, MulMonotone
<1>6. m.if_fee_factor * w \in Nat /\ m.if_fee_factor * w = w * m.if_fee_factor
  BY <1>1, <1>2
<1>7. n \in Nat
  BY <1>3, <1>4, <1>6
<1>8. n < (w + 1) * c
  <2>1. (w + 1) * c = c * w + c /\ c * w \in Nat
    BY <1>1, <1>2
  <2> QED
    BY <1>1, <1>3, <1>4, <1>5, <1>6, <2>1
<1>9. n \div c <= w
  BY <1>1, <1>2, <1>7, <1>8, DivBound
<1>10. n \div c \in Nat /\ n % c \in 0..(c - 1)
  BY <1>1, <1>7, DivMod, Zenon
<1> QED
  BY <1>2, <1>9, <1>10 DEF c, w, n

\* Every share of a split is a natural number, the shares add up to the
\* interest, and the remainders stay below their divisors.
LEMMA SplitBounded ==
    ASSUME NEW m, FactorsBounded(m), NEW interest \in Nat
    PROVE  LET s == SplitDepositInterest(m, interest)
           IN  /\ s.for_lenders \in 0..interest
               /\ s.for_insurance_fund \in Nat
               /\ s.for_protocol \in Nat
               /\ s.carveout_dust \in 0..(FactorPrecision - 1)
               /\ s.insurance_fund_dust \in 0..(FactorPrecision - 1)
               /\ interest * CombinedFactor(m) + m.carveout_dust
                    = (interest - s.for_lenders) * FactorPrecision + s.carveout_dust
<1> DEFINE s == SplitDepositInterest(m, interest)
           w == Withheld(m, interest)
           c == CombinedFactor(m)
           if_share == IF c = 0 THEN 0 ELSE IfNumerator(m, interest) \div c
           if_dust  == IF c = 0 THEN 0 ELSE IfNumerator(m, interest) % c
           dust == CarveoutNumerator(m, interest) % FactorPrecision
<1>1. /\ s.for_lenders = interest - w
      /\ s.for_insurance_fund = if_share
      /\ s.for_protocol = w - if_share
      /\ s.carveout_dust = dust
      /\ s.insurance_fund_dust = if_dust
  BY DEF SplitDepositInterest
<1>2. c \in Nat /\ c < FactorPrecision /\ FactorPrecision \in Nat \ {0}
  BY SpotMathAssumption DEF FactorsBounded, CombinedFactor
<1>3. /\ w \in 0..interest
      /\ dust \in 0..(FactorPrecision - 1)
      /\ interest * c + m.carveout_dust = w * FactorPrecision + dust
  BY WithheldBounded
<1>4. if_share \in 0..w /\ if_dust \in 0..(FactorPrecision - 1)
  <2>1. CASE c = 0
    BY <2>1, <1>2, <1>3
  <2>2. CASE c # 0
    <3>1. if_share \in 0..w /\ if_dust \in 0..(c - 1)
      BY <2>2, InsuranceShareBounded
    <3> QED
      BY <3>1, <1>2
  <2> QED
    BY <2>1, <2>2
<1> HIDE DEF s, w, c, if_share, if_dust, dust
<1>5. interest - s.for_lenders = w
  BY <1>1, <1>3
<1>6. interest * c + m.carveout_dust
        = (interest - s.for_lenders) * FactorPrecision + s.carveout_dust
  BY <1>1, <1>3, <1>5
<1>7. s.for_lenders \in 0..interest /\ s.for_insurance_fund \in Nat
      /\ s.for_protocol \in Nat
  BY <1>1, <1>3, <1>4
<1>8. s.carveout_dust \in 0..(FactorPrecision - 1)
      /\ s.insurance_fund_dust \in 0..(FactorPrecision - 1)
  BY <1>1, <1>3, <1>4
<1> QED
  BY <1>6, <1>7, <1>8 DEF s, c

-----------------------------------------------------------------------------
\* The inductive invariant: the factors in force and both remainders are
\* within the bounds that SplitBounded needs.
SplitInv ==
    /\ SplitTypeOK
    /\ FactorsBounded(factors)
    /\ NothingLostToRounding

LEMMA SplitStarts == SplitInit => SplitInv
<1> SUFFICES ASSUME SplitInit PROVE SplitInv
  OBVIOUS
<1>1. PICK f \in FactorPairs :
        /\ FactorsOK(f)
        /\ factors = [if_fee_factor |-> f[1], protocol_fee_factor |-> f[2],
                      carveout_dust |-> 0, insurance_fund_dust |-> 0]
  BY DEF SplitInit
<1>2. f[1] \in Nat /\ f[2] \in Nat /\ FactorPrecision \in Nat \ {0}
  BY InterestSplitAssumption, SpotMathAssumption
<1>3. SplitTypeOK
  BY <1>1, <1>2 DEF SplitInit, SplitTypeOK
<1>4. FactorsBounded(factors)
  BY <1>1, <1>2 DEF FactorsBounded, CombinedFactor, FactorsOK
<1>5. NothingLostToRounding
  BY <1>1, <1>2 DEF SplitInit, NothingLostToRounding
<1> QED
  BY <1>3, <1>4, <1>5 DEF SplitInv

LEMMA BookKeepsSplitInv ==
    ASSUME SplitInv, NEW interest \in Interests, BookInterest(interest)
    PROVE  SplitInv'
<1> DEFINE s == SplitDepositInterest(factors, interest)
           c == CombinedFactor(factors)
<1>1. interest \in Nat /\ FactorPrecision \in Nat \ {0}
  BY InterestSplitAssumption, SpotMathAssumption
<1>2. /\ s.for_lenders \in 0..interest
      /\ s.for_insurance_fund \in Nat
      /\ s.for_protocol \in Nat
      /\ s.carveout_dust \in 0..(FactorPrecision - 1)
      /\ s.insurance_fund_dust \in 0..(FactorPrecision - 1)
      /\ interest * c + factors.carveout_dust
           = (interest - s.for_lenders) * FactorPrecision + s.carveout_dust
  BY <1>1, SplitBounded DEF SplitInv
<1>3. /\ factors' = [factors EXCEPT !.carveout_dust = s.carveout_dust,
                                    !.insurance_fund_dust = s.insurance_fund_dust]
      /\ owed' = owed + interest * c
      /\ withheld' = withheld + (interest - s.for_lenders)
      /\ paid' = [insurance_fund |-> paid.insurance_fund + s.for_insurance_fund,
                  protocol |-> paid.protocol + s.for_protocol]
  BY DEF BookInterest
<1>4. c \in Nat /\ interest * c \in Nat
  <2>1. c \in Nat
    BY DEF SplitInv, FactorsBounded, CombinedFactor
  <2> QED
    BY <1>1, <2>1, MulNat
<1> HIDE DEF s, c
<1>5. /\ factors'.if_fee_factor = factors.if_fee_factor
      /\ factors'.protocol_fee_factor = factors.protocol_fee_factor
      /\ factors'.carveout_dust = s.carveout_dust
      /\ factors'.insurance_fund_dust = s.insurance_fund_dust
      /\ factors' \in [if_fee_factor : Nat, protocol_fee_factor : Nat,
                       carveout_dust : Nat, insurance_fund_dust : Nat]
  <2>1. s.carveout_dust \in Nat /\ s.insurance_fund_dust \in Nat
    BY <1>1, <1>2
  <2>2. factors \in [if_fee_factor : Nat, protocol_fee_factor : Nat,
                     carveout_dust : Nat, insurance_fund_dust : Nat]
    BY DEF SplitInv, SplitTypeOK
  <2>3. factors' = [factors EXCEPT !.carveout_dust = s.carveout_dust,
                                   !.insurance_fund_dust = s.insurance_fund_dust]
    BY <1>3
  <2> QED
    BY <2>1, <2>2, <2>3, Zenon
<1>6. SplitTypeOK'
  <2>1. owed' \in Nat
    BY <1>3, <1>4 DEF SplitInv, SplitTypeOK
  <2>2. withheld' \in Nat
    BY <1>1, <1>2, <1>3 DEF SplitInv, SplitTypeOK
  <2>3. paid' \in [insurance_fund : Nat, protocol : Nat]
    BY <1>2, <1>3 DEF SplitInv, SplitTypeOK
  <2> QED
    BY <1>5, <2>1, <2>2, <2>3 DEF SplitTypeOK
<1>7. FactorsBounded(factors)'
  BY <1>1, <1>2, <1>5 DEF SplitInv, FactorsBounded, CombinedFactor
<1>8. NothingLostToRounding'
  <2> DEFINE taken == interest - s.for_lenders
             kept  == factors.carveout_dust
  <2>1. taken \in Nat /\ kept \in Nat /\ withheld \in Nat
    BY <1>1, <1>2 DEF SplitInv, SplitTypeOK
  <2>2. owed = withheld * FactorPrecision + kept
    BY DEF SplitInv, NothingLostToRounding
  <2>3. interest * c + kept = taken * FactorPrecision + s.carveout_dust
    BY <1>2
  <2> HIDE DEF taken, kept
  <2>4. (withheld + taken) * FactorPrecision
          = withheld * FactorPrecision + taken * FactorPrecision
    BY <1>1, <2>1
  <2>5. withheld * FactorPrecision \in Nat /\ taken * FactorPrecision \in Nat
    BY <1>1, <2>1, MulNat
  <2>6. owed + interest * c
          = (withheld + taken) * FactorPrecision + s.carveout_dust
    BY <1>2, <1>4, <2>1, <2>2, <2>3, <2>4, <2>5
  <2>7. withheld' = withheld + taken
    BY <1>3 DEF taken
  <2> QED
    BY <1>3, <1>5, <2>6, <2>7 DEF NothingLostToRounding
<1> QED
  BY <1>6, <1>7, <1>8 DEF SplitInv

LEMMA UpdateIfFactorKeepsSplitInv ==
    ASSUME SplitInv, NEW f \in FactorPairs, ChangeFactors(f)
    PROVE  SplitInv'
<1>1. f[1] \in Nat /\ f[2] \in Nat /\ FactorPrecision \in Nat \ {0}
  BY InterestSplitAssumption, SpotMathAssumption
<1>2. /\ factors'.if_fee_factor = f[1]
      /\ factors'.protocol_fee_factor = f[2]
      /\ factors'.carveout_dust = factors.carveout_dust
      /\ factors'.insurance_fund_dust = factors.insurance_fund_dust
      /\ factors' \in [if_fee_factor : Nat, protocol_fee_factor : Nat,
                       carveout_dust : Nat, insurance_fund_dust : Nat]
      /\ UNCHANGED <<owed, withheld, paid>>
  BY <1>1, Zenon DEF ChangeFactors, SplitInv, SplitTypeOK
<1>3. SplitTypeOK'
  BY <1>2 DEF SplitInv, SplitTypeOK
<1>4. FactorsBounded(factors)'
  BY <1>1, <1>2 DEF SplitInv, FactorsBounded, CombinedFactor, ChangeFactors, FactorsOK
<1>5. NothingLostToRounding'
  BY <1>2 DEF SplitInv, NothingLostToRounding
<1> QED
  BY <1>3, <1>4, <1>5 DEF SplitInv

\* The factors and remainders stay within bounds and the history adds up,
\* whatever the bookings and factor changes.
THEOREM SplitInvariant == SplitSpec => []SplitInv
<1>1. SplitInv /\ [SplitNext]_splitVars => SplitInv'
  <2> SUFFICES ASSUME SplitInv, [SplitNext]_splitVars PROVE SplitInv'
    OBVIOUS
  <2>1. ASSUME NEW interest \in Interests, BookInterest(interest) PROVE SplitInv'
    BY <2>1, BookKeepsSplitInv
  <2>2. ASSUME NEW f \in FactorPairs, ChangeFactors(f) PROVE SplitInv'
    BY <2>2, UpdateIfFactorKeepsSplitInv
  <2>3. CASE UNCHANGED splitVars
    BY <2>3 DEF SplitInv, SplitTypeOK, FactorsBounded, CombinedFactor,
                NothingLostToRounding, splitVars
  <2> QED
    BY <2>1, <2>2, <2>3 DEF SplitNext
<1> QED
  BY <1>1, SplitStarts, PTL DEF SplitSpec

\* split_deposit_interest never underflows, after any sequence of bookings and
\* factor changes: the accrual cannot be wedged by lowering the factors.
LEMMA CarveoutsFollow == SplitInv => CarveoutsWithinInterest
<1> SUFFICES ASSUME SplitInv, NEW interest \in Interests
             PROVE  LET s == SplitDepositInterest(factors, interest)
                    IN  /\ s.for_lenders >= 0
                        /\ s.for_insurance_fund >= 0
                        /\ s.for_protocol >= 0
  BY DEF CarveoutsWithinInterest
<1>1. interest \in Nat
  BY InterestSplitAssumption
<1> QED
  BY <1>1, SplitBounded DEF SplitInv

\* In every reachable state, for every precision, interest and history of
\* factors (CarveoutsExact), the next split succeeds and the carveouts have
\* received what the factors entitle them to, to within the remainder carried.
THEOREM CarveoutsAlwaysExact == SplitSpec => []CarveoutsExact
<1>1. SplitInv => CarveoutsExact
  BY CarveoutsFollow DEF SplitInv, CarveoutsExact
<1> QED
  BY <1>1, SplitInvariant, PTL

-----------------------------------------------------------------------------
(* The insurance fund *)

\* A fund record between the steps of an instruction: its base is not yet
\* checked against the bound.
FundRecords == [vault : Nat, total_shares : Nat, user_shares : Nat,
                shares_base : Nat, if_last_settle_vault_amount : Nat,
                last_revenue_settle_ts : Nat, revenue : Nat]

\* What every step of an instruction preserves of a fund record.
FundOK(f) ==
    /\ f \in FundRecords
    /\ f.user_shares <= f.total_shares
    /\ f.if_last_settle_vault_amount <= f.vault
    /\ f.total_shares > 0 => f.vault > 0

\* The inductive invariant.
FundInv ==
    /\ TypeOK
    /\ FundOK(fund)
    /\ \A s \in Stakers : stake[s].if_base <= fund.shares_base
    /\ RequestConsistent

-----------------------------------------------------------------------------
(* Arithmetic *)

\* A quotient of naturals is a natural, at most its dividend.
LEMMA DivNat == ASSUME NEW a \in Nat, NEW d \in Nat \ {0}
                PROVE  a \div d \in Nat /\ a \div d <= a
OBVIOUS

\* Truncating division is monotone.
LEMMA DivMonotone == ASSUME NEW a \in Nat, NEW b \in Nat, NEW d \in Nat \ {0}, a <= b
                     PROVE  a \div d <= b \div d
OBVIOUS

\* Every power of ten the rebases use is positive.
LEMMA Pow10Positive == ASSUME NEW e \in 0..9 PROVE Pow10(e) \in Nat \ {0}
BY DEF Pow10, PowersOfTen

\* log10_iter counts at most the nine powers of the table.
LEMMA Log10Range == ASSUME NEW n \in Nat PROVE Log10(n) \in 0..9
<1> DEFINE S == {e \in 1..9 : Pow10(e) <= n}
<1>1. IsFiniteSet(1..9) /\ Cardinality(1..9) = 9
  BY CountInterval
<1>2. S \in SUBSET (1..9)
  OBVIOUS
<1>3. Cardinality(S) \in Nat /\ Cardinality(S) <= 9
  <2> HIDE DEF S
  <2> QED
    BY <1>1, <1>2, CountSubset, Zenon
<1> QED
  BY <1>3 DEF Log10

\* A part of n shares out of total is worth at most the vault.
LEMMA ProportionBound ==
    ASSUME NEW v \in Nat, NEW n \in Nat, NEW t \in Nat \ {0}, n <= t
    PROVE  GetProportion(v, n, t) \in Nat /\ GetProportion(v, n, t) <= v
<1>1. v * n \in Nat /\ v * n <= v * t
  OBVIOUS
<1>2. (v * n) \div t \in Nat /\ t * ((v * n) \div t) <= v * n
  BY <1>1
<1>3. t * ((v * n) \div t) <= t * v
  BY <1>1, <1>2
<1> QED
  BY <1>2, <1>3 DEF GetProportion

-----------------------------------------------------------------------------
(* The steps of an instruction *)

\* Seeding keeps the fund in order and touches only the share total.
LEMMA SeedOK == ASSUME NEW f, FundOK(f)
                PROVE  /\ FundOK(Seed(f))
                       /\ Seed(f).vault = f.vault
                       /\ Seed(f).shares_base = f.shares_base
                       /\ f.vault > 0 => Seed(f).total_shares > 0
BY DEF FundOK, FundRecords, Seed

\* New share counts and a new base leave a fund with tokens in order.
LEMMA SharesReplacedOK ==
    ASSUME NEW f, FundOK(f), f.vault > 0,
           NEW t \in Nat, NEW u \in Nat, u <= t, NEW b \in Nat
    PROVE  FundOK([f EXCEPT !.total_shares = t, !.user_shares = u, !.shares_base = b])
BY Zenon DEF FundOK, FundRecords

\* A rebase keeps the fund in order, keeps the vault and never lowers the base.
LEMMA RebaseOK == ASSUME NEW f, FundOK(f)
                  PROVE  /\ FundOK(Rebase(f))
                         /\ Rebase(f).vault = f.vault
                         /\ Rebase(f).shares_base >= f.shares_base
                         /\ f.vault > 0 => Rebase(f).total_shares > 0
<1>1. CASE f.vault = 0
  BY <1>1 DEF FundOK, FundRecords, Rebase
<1>2. CASE f.vault # 0 /\ ~(f.vault < f.total_shares)
  BY <1>2, SeedOK DEF FundOK, FundRecords, Rebase
<1>3. CASE f.vault # 0 /\ f.vault < f.total_shares
  <2> DEFINE e == RebaseExpo(f)
             d == Pow10(e)
             g == [f EXCEPT !.total_shares = @ \div d,
                            !.user_shares  = @ \div d,
                            !.shares_base  = @ + e]
  <2>0. f \in FundRecords /\ f.total_shares \in Nat /\ f.user_shares \in Nat
        /\ f.vault \in Nat \ {0} /\ f.user_shares <= f.total_shares
    BY <1>3 DEF FundOK, FundRecords
  <2>1. (f.total_shares \div 10) \div f.vault \in Nat
    BY <2>0, DivNat
  <2>2. e \in 0..9
    BY <2>1, Log10Range DEF RebaseExpo
  <2>3. d \in Nat \ {0}
    BY <2>2, Pow10Positive
  <2> HIDE DEF e, d
  <2>4. /\ f.total_shares \div d \in Nat
        /\ f.user_shares \div d \in Nat
        /\ f.user_shares \div d <= f.total_shares \div d
    BY <2>0, <2>3, DivNat, DivMonotone, Zenon
  <2>5. FundOK(g) /\ g.vault = f.vault /\ g.shares_base >= f.shares_base
    <3>1. f.shares_base \in Nat /\ f.shares_base + e \in Nat
          /\ f.shares_base + e >= f.shares_base /\ f.vault > 0
      BY <2>0, <2>2 DEF FundRecords
    <3>2. FundOK(g)
      BY <2>4, <3>1, SharesReplacedOK, Zenon
    <3> QED
      BY <2>0, <3>1, <3>2 DEF FundRecords
  <2>6. Rebase(f) = Seed(g)
    BY <1>3 DEF Rebase, e, d
  <2> QED
    BY <2>5, <2>6, SeedOK, Zenon
<1> QED
  BY <1>1, <1>2, <1>3

\* A settle moves no more than the revenue pool holds.
LEMMA RevenueBound ==
    ASSUME NEW f, FundOK(f), NEW claim \in Int
    PROVE  RevenueToSettle(f, claim) \in Nat /\ RevenueToSettle(f, claim) <= f.revenue
<1> DEFINE available == IF claim < f.revenue THEN Greater(claim, 0) \div 2 ELSE f.revenue
           cap == (10 * Lesser(f.vault, f.if_last_settle_vault_amount)) \div SettlesPerYear
<1>1. f.revenue \in Nat /\ f.vault \in Nat /\ f.if_last_settle_vault_amount \in Nat
  BY DEF FundOK, FundRecords
<1>2. Greater(claim, 0) \in Nat /\ (claim < f.revenue => Greater(claim, 0) <= f.revenue)
  BY <1>1 DEF Greater
<1>3. available \in Nat /\ available <= f.revenue
  BY <1>1, <1>2
<1>4. cap \in Nat
  <2>1. 10 * Lesser(f.vault, f.if_last_settle_vault_amount) \in Nat
    BY <1>1 DEF Lesser
  <2> QED
    BY <2>1, DivNat, FundAssumption
<1> HIDE DEF available, cap
<1>5. Lesser(available \div 10, cap) \in Nat /\ Lesser(available \div 10, cap) <= available
  BY <1>3, <1>4, DivNat DEF Lesser
<1>6. RevenueToSettle(f, claim) = IF f.user_shares > 0 THEN Lesser(available \div 10, cap)
                                                       ELSE available
  BY DEF RevenueToSettle, available, cap
<1> QED
  BY <1>1, <1>3, <1>5, <1>6

\* A settle keeps the fund in order: the base of the cap becomes the balance
\* it leaves behind.
LEMMA SettleOK ==
    ASSUME NEW f, FundOK(f), NEW claim \in Int, now \in Nat
    PROVE  /\ FundOK(SettleRevenue(f, claim))
           /\ SettleRevenue(f, claim).shares_base = f.shares_base
<1> DEFINE a == RevenueToSettle(f, claim)
           g == [f EXCEPT !.vault = @ + a, !.revenue = @ - a,
                          !.if_last_settle_vault_amount = f.vault + a,
                          !.last_revenue_settle_ts = now]
<1>1. a \in Nat /\ a <= f.revenue
  BY RevenueBound
<1> HIDE DEF a
<1>2. FundOK(g) /\ g.shares_base = f.shares_base
  <2>1. f \in FundRecords /\ f.vault + a \in Nat /\ f.revenue - a \in Nat
    BY <1>1 DEF FundOK, FundRecords
  <2>2. /\ g \in FundRecords
        /\ g.vault = f.vault + a /\ g.if_last_settle_vault_amount = f.vault + a
        /\ g.total_shares = f.total_shares /\ g.user_shares = f.user_shares
        /\ g.shares_base = f.shares_base
    BY <2>1, Zenon DEF FundRecords
  <2> QED
    BY <1>1, <2>1, <2>2 DEF FundOK, FundRecords
<1>3. SettleRevenue(f, claim) = Seed(g)
  BY DEF SettleRevenue, a
<1> QED
  BY <1>2, <1>3, SeedOK, Zenon

\* So does the settle attempted by the other instructions, done or skipped.
LEMMA AttemptSettleOK ==
    ASSUME FundInv, NEW claim \in Int
    PROVE  FundOK(AttemptSettle(claim)) /\ AttemptSettle(claim).shares_base = fund.shares_base
BY SettleOK DEF AttemptSettle, FundInv, TypeOK

\* A payment that leaves tokens in the vault keeps the fund in order.
LEMMA PayOK ==
    ASSUME NEW f, FundOK(f), NEW a \in Nat, a < f.vault
    PROVE  FundOK(Pay(f, a)) /\ Pay(f, a).shares_base = f.shares_base
<1> DEFINE c == Lesser(f.if_last_settle_vault_amount, f.vault - a)
<1>1. f \in FundRecords /\ f.vault - a \in Nat /\ f.vault - a > 0
      /\ c \in Nat /\ c <= f.vault - a
  BY DEF FundOK, FundRecords, Lesser
<1> HIDE DEF c
<1>2. Pay(f, a) = [f EXCEPT !.vault = f.vault - a, !.if_last_settle_vault_amount = c]
  BY <1>1 DEF Pay, c, FundRecords
<1>3. /\ Pay(f, a) \in FundRecords
      /\ Pay(f, a).vault = f.vault - a /\ Pay(f, a).if_last_settle_vault_amount = c
      /\ Pay(f, a).total_shares = f.total_shares /\ Pay(f, a).user_shares = f.user_shares
      /\ Pay(f, a).shares_base = f.shares_base
  BY <1>1, <1>2, Zenon DEF FundRecords
<1> QED
  BY <1>1, <1>3 DEF FundOK

\* Rebasing a stake brings it to the fund's base and keeps a request within it.
LEMMA RebaseStakeOK ==
    ASSUME FundInv, NEW s \in Stakers, NEW f, FundOK(f),
           f.shares_base >= fund.shares_base, f.shares_base <= MaxExpo,
           NEW n \in Nat
    PROVE  LET st == RebaseStake([stake[s] EXCEPT !.last_withdraw_request_shares = n], f)
           IN  /\ st \in InsuranceFundStakes
               /\ st.if_base = f.shares_base
               /\ n <= stake[s].if_shares => st.last_withdraw_request_shares <= st.if_shares
               /\ st.last_withdraw_request_value = stake[s].last_withdraw_request_value
<1> DEFINE d == Pow10(f.shares_base - stake[s].if_base)
           in == [stake[s] EXCEPT !.last_withdraw_request_shares = n]
<1>1. /\ stake[s] \in InsuranceFundStakes
      /\ stake[s].if_base \in 0..MaxExpo /\ stake[s].if_base <= fund.shares_base
      /\ stake[s].if_shares \in Nat
      /\ f.shares_base \in 0..MaxExpo /\ fund.shares_base \in Nat
  BY FundAssumption DEF FundInv, TypeOK, FundOK, FundRecords, InsuranceFundStakes, Funds
<1>2. f.shares_base - stake[s].if_base \in 0..9
  BY <1>1, FundAssumption
<1>3. d \in Nat \ {0}
  BY <1>2, Pow10Positive
<1> HIDE DEF d
<1>4. /\ stake[s].if_shares \div d \in Nat
      /\ n \div d \in Nat
      /\ n <= stake[s].if_shares => n \div d <= stake[s].if_shares \div d
  BY <1>1, <1>3, DivNat, DivMonotone
<1>5. RebaseStake(in, f) = [stake[s] EXCEPT !.if_base = f.shares_base,
                                            !.if_shares = stake[s].if_shares \div d,
                                            !.last_withdraw_request_shares = n \div d]
  BY <1>1, Zenon DEF RebaseStake, d, InsuranceFundStakes
<1> QED
  BY <1>1, <1>4, <1>5, Zenon DEF InsuranceFundStakes

\* The same for a stake rebased as it is.
LEMMA RebaseOwnStakeOK ==
    ASSUME FundInv, NEW s \in Stakers, NEW f, FundOK(f),
           f.shares_base >= fund.shares_base, f.shares_base <= MaxExpo
    PROVE  LET st == RebaseStake(stake[s], f)
           IN  /\ st \in InsuranceFundStakes
               /\ st.if_base = f.shares_base
               /\ st.last_withdraw_request_shares <= st.if_shares
               /\ st.last_withdraw_request_value = stake[s].last_withdraw_request_value
<1> DEFINE n == stake[s].last_withdraw_request_shares
<1>1. stake[s] = [stake[s] EXCEPT !.last_withdraw_request_shares = n] /\ n \in Nat
  BY DEF FundInv, TypeOK, InsuranceFundStakes
<1>2. n <= stake[s].if_shares
  BY DEF FundInv, RequestConsistent
<1> HIDE DEF n
<1> DEFINE in == [stake[s] EXCEPT !.last_withdraw_request_shares = n]
           st == RebaseStake(in, f)
<1>3. /\ st \in InsuranceFundStakes
      /\ st.if_base = f.shares_base
      /\ n <= stake[s].if_shares => st.last_withdraw_request_shares <= st.if_shares
      /\ st.last_withdraw_request_value = stake[s].last_withdraw_request_value
  BY <1>1, RebaseStakeOK
<1> HIDE DEF in
<1>4. stake[s] = in
  BY <1>1 DEF in
<1> QED
  BY <1>2, <1>3, <1>4

\* Burning shares of users keeps the fund in order, down to a rest of zero.
LEMMA BurnOK ==
    ASSUME NEW f, FundOK(f), NEW n \in Nat, n <= f.user_shares
    PROVE  LET g == [f EXCEPT !.total_shares = @ - n, !.user_shares = @ - n]
           IN  FundOK(g) /\ g.vault = f.vault /\ g.shares_base = f.shares_base
<1> DEFINE g == [f EXCEPT !.total_shares = @ - n, !.user_shares = @ - n]
<1>1. f \in FundRecords /\ f.total_shares - n \in Nat /\ f.user_shares - n \in Nat
  BY DEF FundOK, FundRecords
<1>2. /\ g \in FundRecords
      /\ g.vault = f.vault /\ g.total_shares = f.total_shares - n
      /\ g.user_shares = f.user_shares - n
      /\ g.if_last_settle_vault_amount = f.if_last_settle_vault_amount
      /\ g.shares_base = f.shares_base
  BY <1>1, Zenon DEF FundRecords
<1> QED
  BY <1>1, <1>2 DEF FundOK, FundRecords

\* A deposit of n shares keeps the fund in order.
LEMMA MintOK ==
    ASSUME NEW f, FundOK(f), NEW n \in Nat, NEW a \in Nat,
           f.vault > 0 \/ a > 0
    PROVE  LET g == [f EXCEPT !.vault = @ + a, !.total_shares = @ + n, !.user_shares = @ + n]
           IN  FundOK(g) /\ g.shares_base = f.shares_base
<1> DEFINE g == [f EXCEPT !.vault = @ + a, !.total_shares = @ + n, !.user_shares = @ + n]
<1>1. f \in FundRecords /\ f.vault + a \in Nat /\ f.total_shares + n \in Nat
      /\ f.user_shares + n \in Nat
  BY DEF FundOK, FundRecords
<1>2. /\ g \in FundRecords
      /\ g.vault = f.vault + a /\ g.total_shares = f.total_shares + n
      /\ g.user_shares = f.user_shares + n
      /\ g.if_last_settle_vault_amount = f.if_last_settle_vault_amount
      /\ g.shares_base = f.shares_base
  BY <1>1, Zenon DEF FundRecords
<1> QED
  BY <1>1, <1>2 DEF FundOK, FundRecords

\* What is left to show of an instruction that replaces the fund by f and at
\* most one stake by st.
LEMMA InvFromParts ==
    ASSUME FundInv, NEW s \in Stakers, NEW f, NEW st,
           FundOK(f), f.shares_base >= fund.shares_base, f.shares_base <= MaxExpo,
           st \in InsuranceFundStakes, st.if_base <= f.shares_base,
           st.last_withdraw_request_shares <= st.if_shares,
           st.last_withdraw_request_value > 0 => st.last_withdraw_request_shares > 0,
           fund' = f, stake' = [stake EXCEPT ![s] = st],
           UNCHANGED <<opened, paused, now>>
    PROVE  FundInv'
<1>1. f \in Funds
  BY DEF FundOK, FundRecords, Funds
<1>2. TypeOK'
  BY <1>1 DEF FundInv, TypeOK
<1>3. FundOK(fund)'
  BY DEF FundOK, FundRecords
<1>4. \A q \in Stakers : stake'[q] = IF q = s THEN st ELSE stake[q]
  BY DEF FundInv, TypeOK
<1>5. /\ fund.shares_base \in Nat /\ f.shares_base \in Nat
      /\ \A q \in Stakers : stake[q].if_base \in Nat
  BY <1>1 DEF FundInv, TypeOK, FundOK, FundRecords, Funds, InsuranceFundStakes
<1>6. (\A q \in Stakers : stake[q].if_base <= fund.shares_base)'
  BY <1>4, <1>5 DEF FundInv
<1>7. RequestConsistent'
  BY <1>4 DEF FundInv, RequestConsistent
<1> QED
  BY <1>2, <1>3, <1>6, <1>7 DEF FundInv

\* The same for an instruction that leaves every stake alone.
LEMMA InvFromFund ==
    ASSUME FundInv, NEW f, FundOK(f),
           f.shares_base = fund.shares_base,
           fund' = f, UNCHANGED <<stake, opened, paused, now>>
    PROVE  FundInv'
<1>1. f \in Funds
  BY DEF FundInv, TypeOK, FundOK, FundRecords, Funds
<1>2. FundOK(fund)'
  BY DEF FundOK, FundRecords
<1> QED
  BY <1>1, <1>2 DEF FundInv, TypeOK, RequestConsistent

-----------------------------------------------------------------------------
(* The instructions *)

LEMMA AddInv == ASSUME FundInv, NEW s \in Stakers, NEW a \in StakeAmounts,
                       NEW c \in Claims, Add(s, a, c)
                PROVE  FundInv'
<1> DEFINE settled == AttemptSettle(c)
           f  == Rebase(Seed(settled))
           st == RebaseStake(stake[s], f)
           n  == SharesForDeposit(a, f.total_shares, f.vault)
           amount == DepositForShares(n, f.total_shares, f.vault)
<1>1. FundOK(f) /\ f.shares_base >= fund.shares_base
      /\ (f.vault > 0 => f.total_shares > 0)
  <2>1. c \in Int
    BY FundAssumption
  <2>2. FundOK(settled) /\ settled.shares_base = fund.shares_base
    BY <2>1, AttemptSettleOK, Zenon
  <2>3. FundOK(Seed(settled)) /\ Seed(settled).shares_base = fund.shares_base
        /\ Seed(settled).vault = settled.vault
    BY <2>2, SeedOK
  <2> QED
    BY <2>3, RebaseOK
<1>2. /\ f.shares_base <= MaxExpo /\ n > 0
      /\ fund' = [f EXCEPT !.vault = @ + amount, !.total_shares = @ + n,
                            !.user_shares = @ + n]
      /\ stake' = [stake EXCEPT ![s] = [st EXCEPT !.if_shares = @ + n]]
      /\ UNCHANGED <<opened, paused, now>>
      /\ stake[s].last_withdraw_request_shares = 0
      /\ stake[s].last_withdraw_request_value = 0
  BY DEF Add
<1>3. /\ st \in InsuranceFundStakes /\ st.if_base = f.shares_base
      /\ st.last_withdraw_request_shares <= st.if_shares
      /\ st.last_withdraw_request_value = 0
  <2> HIDE DEF f
  <2> QED
    BY <1>1, <1>2, RebaseOwnStakeOK
<1>4. n \in Nat /\ amount \in Nat /\ (f.vault > 0 \/ amount > 0)
  <2> HIDE DEF f
  <2>1. f.vault \in Nat /\ f.total_shares \in Nat /\ a \in Nat
    BY <1>1, FundAssumption DEF FundOK, FundRecords
  <2>2. n \in Nat
    <3>1. a * f.total_shares \in Nat
      BY <2>1
    <3> QED
      BY <2>1, <3>1, DivNat DEF SharesForDeposit
  <2> HIDE DEF n
  <2>3. CASE f.vault = 0
    BY <1>2, <2>2, <2>3 DEF DepositForShares
  <2>4. CASE f.vault > 0
    <3>1. n * f.vault + f.total_shares - 1 \in Nat /\ f.total_shares \in Nat \ {0}
      <4>1. n * f.vault \in Nat
        BY <2>1, <2>2
      <4> QED
        BY <1>1, <2>1, <2>4, <4>1
    <3> QED
      BY <2>2, <2>4, <3>1, DivNat DEF DepositForShares, CeilDiv
  <2> QED
    BY <2>1, <2>3, <2>4
<1> HIDE DEF f, n, amount, st
<1> DEFINE g == [f EXCEPT !.vault = @ + amount, !.total_shares = @ + n,
                          !.user_shares = @ + n]
           new == [st EXCEPT !.if_shares = @ + n]
<1>5. FundOK(g) /\ g.shares_base = f.shares_base
  BY <1>1, <1>4, MintOK, Zenon
<1>6. /\ new \in InsuranceFundStakes /\ new.if_base = f.shares_base
      /\ new.last_withdraw_request_shares <= new.if_shares
      /\ new.last_withdraw_request_value = 0
  BY <1>3, <1>4 DEF InsuranceFundStakes
<1>7. new.last_withdraw_request_shares \in Nat /\ g.shares_base \in Nat
  BY <1>5, <1>6 DEF InsuranceFundStakes, FundOK, FundRecords
<1> HIDE DEF g, new
<1>8. /\ fund' = g /\ stake' = [stake EXCEPT ![s] = new]
      /\ g.shares_base >= fund.shares_base /\ g.shares_base <= MaxExpo
      /\ new.if_base <= g.shares_base
      /\ new.last_withdraw_request_value > 0 => new.last_withdraw_request_shares > 0
  BY <1>1, <1>2, <1>5, <1>6, <1>7 DEF g, new
<1> QED
  BY <1>2, <1>5, <1>6, <1>8, InvFromParts, Zenon

LEMMA RequestRemoveInv ==
    ASSUME FundInv, NEW s \in Stakers, NEW a \in StakeAmounts, NEW c \in Claims,
           RequestRemove(s, a, c)
    PROVE  FundInv'
<1> DEFINE settled == AttemptSettle(c)
           n  == VaultAmountToIfShares(a, settled.total_shares, settled.vault)
           f  == Rebase(settled)
           in == [stake[s] EXCEPT !.last_withdraw_request_shares = n]
           st == RebaseStake(in, f)
           value == Lesser(IfSharesToVaultAmount(st.last_withdraw_request_shares,
                                                 f.total_shares, f.vault),
                           SaturatingSub(f.vault, 1))
           new == [st EXCEPT !.last_withdraw_request_value = value,
                             !.last_withdraw_request_ts = now]
<1>1. FundOK(settled) /\ settled.shares_base = fund.shares_base
  BY AttemptSettleOK, FundAssumption
<1>2. FundOK(f) /\ f.shares_base >= fund.shares_base
  BY <1>1, RebaseOK
<1>3. /\ f.shares_base <= MaxExpo /\ n <= stake[s].if_shares
      /\ StatsUpdatable(st.if_shares, f.total_shares)
      /\ fund' = f /\ stake' = [stake EXCEPT ![s] = new]
      /\ UNCHANGED <<opened, paused, now>>
  BY DEF RequestRemove
<1>4. n \in Nat
  <2> HIDE DEF settled
  <2>1. settled.vault \in Nat /\ settled.total_shares \in Nat /\ a \in Nat
    BY <1>1, FundAssumption DEF FundOK, FundRecords
  <2>2. a * settled.total_shares \in Nat
    BY <2>1
  <2> QED
    BY <2>1, <2>2, DivNat DEF VaultAmountToIfShares, GetProportion
<1> HIDE DEF f, n
<1>5. /\ st \in InsuranceFundStakes /\ st.if_base = f.shares_base
      /\ st.last_withdraw_request_shares <= st.if_shares
  BY <1>2, <1>3, <1>4, RebaseStakeOK
<1> HIDE DEF st
<1>6. value \in Nat /\ (value > 0 => st.last_withdraw_request_shares > 0)
  <2> DEFINE m == st.last_withdraw_request_shares
             worth == IfSharesToVaultAmount(m, f.total_shares, f.vault)
  <2>1. m \in Nat /\ f.vault \in Nat /\ f.total_shares \in Nat /\ m <= f.total_shares
    BY <1>2, <1>3, <1>5 DEF FundOK, FundRecords, InsuranceFundStakes, StatsUpdatable
  <2> HIDE DEF m
  <2>2. worth \in Nat
    <3>1. CASE f.total_shares = 0
      BY <3>1 DEF IfSharesToVaultAmount
    <3>2. CASE f.total_shares > 0
      <4>1. f.total_shares \in Nat \ {0}
        BY <2>1, <3>2
      <4>2. GetProportion(f.vault, m, f.total_shares) \in Nat
        BY <2>1, <4>1, ProportionBound
      <4> QED
        BY <3>2, <4>2 DEF IfSharesToVaultAmount
    <3> QED
      BY <2>1, <3>1, <3>2
  <2>3. m = 0 => worth = 0
    BY <2>1 DEF IfSharesToVaultAmount, GetProportion
  <2>4. SaturatingSub(f.vault, 1) \in Nat
    BY <2>1 DEF SaturatingSub
  <2>5. value = Lesser(worth, SaturatingSub(f.vault, 1))
    BY DEF m
  <2> HIDE DEF worth, value
  <2>6. value \in Nat /\ value <= worth
    BY <2>2, <2>4, <2>5 DEF Lesser
  <2> QED
    BY <2>1, <2>2, <2>3, <2>6 DEF m
<1> HIDE DEF value
<1>7. /\ new \in InsuranceFundStakes /\ new.if_base = f.shares_base
      /\ new.last_withdraw_request_shares = st.last_withdraw_request_shares
      /\ new.if_shares = st.if_shares /\ new.last_withdraw_request_value = value
  BY <1>5, <1>6, Zenon DEF InsuranceFundStakes, FundInv, TypeOK
<1>8. f.shares_base \in Nat
  BY <1>2 DEF FundOK, FundRecords
<1> HIDE DEF new
<1>9. /\ new.if_base <= f.shares_base
      /\ new.last_withdraw_request_shares <= new.if_shares
      /\ new.last_withdraw_request_value > 0 => new.last_withdraw_request_shares > 0
  BY <1>5, <1>6, <1>7, <1>8
<1> QED
  BY <1>2, <1>3, <1>7, <1>9, InvFromParts, Zenon

\* The shares a cancel burns are an integer.
LEMMA IfSharesLostInt ==
    ASSUME NEW st \in InsuranceFundStakes, NEW f \in FundRecords
    PROVE  IfSharesLost(st, f) \in Int
<1> DEFINE n == st.last_withdraw_request_shares
           v == st.last_withdraw_request_value
           rest == f.total_shares - n
           left == f.vault - v
<1>1. n \in Nat /\ v \in Nat /\ rest \in Int /\ left \in Int
      /\ f.total_shares \in Nat /\ f.vault \in Nat
  BY DEF InsuranceFundStakes, FundRecords
<1>2. VaultAmountToIfShares(v, rest, left) \in Int
  <2> HIDE DEF rest, left, v, n
  <2>1. v * rest \in Int
    BY <1>1
  <2> QED
    BY <1>1, <2>1 DEF VaultAmountToIfShares, GetProportion
<1> QED
  BY <1>1, <1>2 DEF IfSharesLost

\* Ending a request leaves a stake without one.
LEMMA EndRequestOK ==
    ASSUME NEW st \in InsuranceFundStakes, NEW n \in Nat, n <= st.if_shares, now \in Nat
    PROVE  LET new == EndRequest([st EXCEPT !.if_shares = @ - n])
           IN  /\ new \in InsuranceFundStakes /\ new.if_base = st.if_base
               /\ new.last_withdraw_request_shares = 0
               /\ new.last_withdraw_request_value = 0
<1>1. st.if_shares - n \in Nat
  BY DEF InsuranceFundStakes
<1> DEFINE mid == [st EXCEPT !.if_shares = st.if_shares - n]
<1>2. mid \in InsuranceFundStakes /\ mid.if_base = st.if_base
  BY <1>1 DEF InsuranceFundStakes
<1> HIDE DEF mid
<1>3. /\ EndRequest(mid) \in InsuranceFundStakes /\ EndRequest(mid).if_base = st.if_base
      /\ EndRequest(mid).last_withdraw_request_shares = 0
      /\ EndRequest(mid).last_withdraw_request_value = 0
  BY <1>2, Zenon DEF EndRequest, InsuranceFundStakes
<1> QED
  BY <1>3 DEF mid

LEMMA CancelInv ==
    ASSUME FundInv, NEW s \in Stakers, NEW c \in Claims, CancelRequestRemove(s, c)
    PROVE  FundInv'
<1> DEFINE f    == Rebase(AttemptSettle(c))
           st   == RebaseStake(stake[s], f)
           lost == IfSharesLost(st, f)
           g    == [f EXCEPT !.total_shares = @ - lost, !.user_shares = @ - lost]
           new  == EndRequest([st EXCEPT !.if_shares = @ - lost])
<1>1. FundOK(AttemptSettle(c)) /\ AttemptSettle(c).shares_base = fund.shares_base
  BY AttemptSettleOK, FundAssumption
<1>2. FundOK(f) /\ f.shares_base >= fund.shares_base
  BY <1>1, RebaseOK
<1>3. /\ f.shares_base <= MaxExpo /\ CancelChecks(st, f)
      /\ fund' = g /\ stake' = [stake EXCEPT ![s] = new]
      /\ UNCHANGED <<opened, paused, now>>
  BY DEF CancelRequestRemove
<1> HIDE DEF f
<1>4. st \in InsuranceFundStakes /\ st.if_base = f.shares_base
  BY <1>2, <1>3, RebaseOwnStakeOK
<1> HIDE DEF st
<1>5. 0 <= lost /\ lost <= st.if_shares /\ lost <= f.user_shares
  BY <1>3 DEF CancelChecks
<1>6. lost \in Nat
  BY <1>2, <1>4, <1>5, IfSharesLostInt DEF FundOK, FundRecords, InsuranceFundStakes
<1> HIDE DEF lost
<1>7. FundOK(g) /\ g.shares_base = f.shares_base
  BY <1>2, <1>5, <1>6, BurnOK, Zenon
<1>8. /\ new \in InsuranceFundStakes /\ new.if_base = st.if_base
      /\ new.last_withdraw_request_shares = 0 /\ new.last_withdraw_request_value = 0
  BY <1>4, <1>5, <1>6, EndRequestOK DEF FundInv, TypeOK
<1>9. g.shares_base \in Nat /\ new.if_shares \in Nat
  BY <1>7, <1>8, Zenon DEF FundOK, FundRecords, InsuranceFundStakes
<1> HIDE DEF g, new
<1>10. /\ g.shares_base >= fund.shares_base /\ g.shares_base <= MaxExpo
       /\ new.if_base <= g.shares_base
       /\ new.last_withdraw_request_shares <= new.if_shares
       /\ ~(new.last_withdraw_request_value > 0)
  BY <1>2, <1>3, <1>4, <1>7, <1>8, <1>9
<1> QED
  BY <1>3, <1>7, <1>8, <1>10, InvFromParts, Zenon

LEMMA RemoveInv == ASSUME FundInv, NEW s \in Stakers, Remove(s) PROVE FundInv'
<1> DEFINE f    == Rebase(fund)
           st   == RebaseStake(stake[s], f)
           n    == st.last_withdraw_request_shares
           amount == Lesser(IfSharesToVaultAmount(n, f.total_shares, f.vault),
                            st.last_withdraw_request_value)
           g    == [f EXCEPT !.total_shares = @ - n, !.user_shares = @ - n]
           new  == EndRequest([st EXCEPT !.if_shares = @ - n])
<1>1. FundOK(f) /\ f.shares_base >= fund.shares_base
  BY RebaseOK, Zenon DEF FundInv
<1>2. /\ f.shares_base <= MaxExpo
      /\ 0 < n /\ n <= st.if_shares /\ n <= f.total_shares /\ n <= f.user_shares
      /\ f.vault - amount > 0
      /\ fund' = Pay(g, amount) /\ stake' = [stake EXCEPT ![s] = new]
      /\ UNCHANGED <<opened, paused, now>>
  BY DEF Remove
<1> HIDE DEF f
<1>3. st \in InsuranceFundStakes /\ st.if_base = f.shares_base
  BY <1>1, <1>2, RebaseOwnStakeOK
<1> HIDE DEF st
<1>4. n \in Nat /\ st.last_withdraw_request_value \in Nat
      /\ f.vault \in Nat /\ f.total_shares \in Nat
  BY <1>1, <1>3 DEF InsuranceFundStakes, FundOK, FundRecords
<1> HIDE DEF n
<1>5. amount \in Nat /\ amount < f.vault
  <2>1. f.total_shares \in Nat \ {0} /\ f.total_shares > 0
    BY <1>2, <1>4
  <2>2. IfSharesToVaultAmount(n, f.total_shares, f.vault) \in Nat
    <3>1. GetProportion(f.vault, n, f.total_shares) \in Nat
      BY <1>2, <1>4, <2>1, ProportionBound
    <3> QED
      BY <2>1, <3>1 DEF IfSharesToVaultAmount
  <2>3. amount \in Nat
    BY <1>4, <2>2 DEF Lesser
  <2> HIDE DEF amount
  <2> QED
    BY <1>2, <1>4, <2>3
<1> HIDE DEF amount
<1>6. FundOK(g) /\ g.vault = f.vault /\ g.shares_base = f.shares_base
  BY <1>1, <1>2, <1>4, BurnOK, Zenon
<1> HIDE DEF g
<1>7. FundOK(Pay(g, amount)) /\ Pay(g, amount).shares_base = f.shares_base
  BY <1>5, <1>6, PayOK
<1>8. /\ new \in InsuranceFundStakes /\ new.if_base = st.if_base
      /\ new.last_withdraw_request_shares = 0 /\ new.last_withdraw_request_value = 0
  BY <1>2, <1>3, <1>4, EndRequestOK DEF FundInv, TypeOK
<1>9. f.shares_base \in Nat /\ new.if_shares \in Nat
  BY <1>1, <1>8 DEF FundOK, FundRecords, InsuranceFundStakes
<1> HIDE DEF new
<1>10. /\ Pay(g, amount).shares_base >= fund.shares_base
       /\ Pay(g, amount).shares_base <= MaxExpo
       /\ new.if_base <= Pay(g, amount).shares_base
       /\ new.last_withdraw_request_shares <= new.if_shares
       /\ ~(new.last_withdraw_request_value > 0)
  BY <1>1, <1>2, <1>3, <1>7, <1>8, <1>9
<1> QED
  BY <1>2, <1>7, <1>8, <1>10, InvFromParts, Zenon

LEMMA SettleInv == ASSUME FundInv, NEW c \in Claims, Settle(c) PROVE FundInv'
<1>1. c \in Int /\ FundOK(fund) /\ now \in Nat
  BY FundAssumption DEF FundInv, TypeOK
<1> QED
  BY <1>1, SettleOK, InvFromFund DEF Settle

LEMMA DrawInv == ASSUME FundInv, NEW l \in Losses, NEW c \in Claims, Draw(l, c)
                 PROVE  FundInv'
<1> DEFINE settled == AttemptSettle(c)
           amount  == Lesser(l, DrawLimit(settled))
<1>1. FundOK(settled) /\ settled.shares_base = fund.shares_base
  BY AttemptSettleOK, FundAssumption
<1>2. /\ fund' = IF amount > 0 THEN Pay(settled, amount) ELSE settled
      /\ UNCHANGED <<stake, opened, paused, now>>
  BY DEF Draw
<1> HIDE DEF settled
<1>3. settled.vault \in Nat /\ l \in Nat
  BY <1>1, FundAssumption DEF FundOK, FundRecords
<1>4. amount \in Nat /\ (amount > 0 => amount < settled.vault)
  BY <1>3 DEF Lesser, DrawLimit, SaturatingSub
<1> HIDE DEF amount
<1>5. CASE amount > 0
  BY <1>1, <1>2, <1>4, <1>5, PayOK, InvFromFund, Zenon
<1>6. CASE ~(amount > 0)
  BY <1>1, <1>2, <1>6, InvFromFund
<1> QED
  BY <1>5, <1>6, Zenon

\* Every step of the insurance fund preserves the invariant.
LEMMA FundInvStep == FundInv /\ [Next]_vars => FundInv'
<1> SUFFICES ASSUME FundInv, [Next]_vars PROVE FundInv'
  OBVIOUS
<1>1. CASE Instruction
  <2>1. ASSUME NEW s \in Stakers, Remove(s) PROVE FundInv'
    BY <2>1, RemoveInv
  <2>2. ASSUME NEW s \in Stakers, NEW c \in Claims, CancelRequestRemove(s, c) PROVE FundInv'
    BY <2>2, CancelInv
  <2>3. ASSUME NEW s \in Stakers, NEW a \in StakeAmounts, NEW c \in Claims, Add(s, a, c)
        PROVE  FundInv'
    BY <2>3, AddInv
  <2>4. ASSUME NEW s \in Stakers, NEW a \in StakeAmounts, NEW c \in Claims,
               RequestRemove(s, a, c)
        PROVE  FundInv'
    BY <2>4, RequestRemoveInv
  <2>5. ASSUME NEW c \in Claims, Settle(c) PROVE FundInv'
    BY <2>5, SettleInv
  <2>6. ASSUME NEW l \in Losses, NEW c \in Claims, Draw(l, c) PROVE FundInv'
    BY <2>6, DrawInv
  <2>7. ASSUME NEW a \in Revenues, RevenueArrives(a) PROVE FundInv'
    <3>1. a \in Nat
      BY FundAssumption
    <3>2. FundOK([fund EXCEPT !.revenue = @ + a])
      BY <3>1 DEF FundInv, FundOK, FundRecords
    <3>3. [fund EXCEPT !.revenue = @ + a].shares_base = fund.shares_base
      BY DEF FundInv, FundOK, FundRecords
    <3> QED
      BY <2>7, <3>2, <3>3, InvFromFund, Zenon DEF RevenueArrives
  <2>8. ASSUME NEW a \in Donations, Donate(a) PROVE FundInv'
    <3>1. a \in Nat
      BY FundAssumption
    <3>2. FundOK([fund EXCEPT !.vault = @ + a])
      BY <3>1 DEF FundInv, FundOK, FundRecords
    <3>3. [fund EXCEPT !.vault = @ + a].shares_base = fund.shares_base
      BY DEF FundInv, FundOK, FundRecords
    <3> QED
      BY <2>8, <3>2, <3>3, InvFromFund, Zenon DEF Donate
  <2>9. ASSUME NEW p \in Pausable, SetPaused(p) PROVE FundInv'
    <3>1. paused' \subseteq Pauses
      BY <2>9, FundAssumption DEF SetPaused, FundInv, TypeOK
    <3> QED
      BY <2>9, <3>1 DEF SetPaused, FundInv, TypeOK, RequestConsistent
  <2> QED
    BY <1>1, <2>1, <2>2, <2>3, <2>4, <2>5, <2>6, <2>7, <2>8, <2>9 DEF Instruction
<1>2. ASSUME NEW s \in Stakers, Initialize(s) PROVE FundInv'
  <2>1. /\ NewStake \in InsuranceFundStakes /\ NewStake.if_base <= fund.shares_base
        /\ NewStake.last_withdraw_request_shares <= NewStake.if_shares
        /\ ~(NewStake.last_withdraw_request_value > 0)
    BY FundAssumption DEF NewStake, InsuranceFundStakes, FundInv, FundOK, FundRecords
  <2>2. \A q \in Stakers : stake'[q] = IF q = s THEN NewStake ELSE stake[q]
    BY <1>2 DEF Initialize, FundInv, TypeOK
  <2>3. TypeOK'
    BY <1>2, <2>1, Zenon DEF Initialize, FundInv, TypeOK
  <2>4. FundOK(fund)' /\ (\A q \in Stakers : stake[q].if_base <= fund.shares_base)'
    BY <1>2, <2>1, <2>2, Zenon DEF Initialize, FundInv, FundOK
  <2>5. RequestConsistent'
    BY <2>1, <2>2, Zenon DEF FundInv, RequestConsistent
  <2> QED
    BY <2>3, <2>4, <2>5, Zenon DEF FundInv
<1>3. CASE Tick
  BY <1>3 DEF Tick, FundInv, TypeOK, FundOK, RequestConsistent
<1>4. CASE UNCHANGED vars
  BY <1>4 DEF vars, FundInv, TypeOK, FundOK, RequestConsistent
<1> QED
  BY <1>1, <1>2, <1>3, <1>4, Zenon DEF Next

\* FundInv holds in every reachable state.
THEOREM FundInvariant == Spec => []FundInv
<1>1. Init => FundInv
  BY FundAssumption DEF Init, FundInv, TypeOK, FundOK, FundRecords, Funds, NewStake,
     InsuranceFundStakes, RequestConsistent
<1> QED
  BY <1>1, FundInvStep, PTL DEF Spec

\* In every reachable state, for any number of stakers, draws, removals, donations
\* and rebases (FundSound): no field underflows, a pending request names shares
\* the stake has and no frozen value outlives it, if_last_settle_vault_amount
\* never exceeds the vault, and shares always have a token behind them.
THEOREM FundAlwaysSound == Spec => []FundSound
<1>1. FundInv => CapBaseNeverAboveVault
  BY DEF FundInv, FundOK, CapBaseNeverAboveVault
<1>2. FundInv => VaultNeverEmptied
  BY DEF FundInv, FundOK, VaultNeverEmptied
<1>3. FundInv => FundSound
  BY <1>1, <1>2 DEF FundInv, FundSound
<1> QED
  BY <1>3, FundInvariant, PTL

-----------------------------------------------------------------------------
(* The ladder of the revenue router *)

IsLadder(tiers) == tiers \in Seq([threshold : Nat, bps : Nat]) /\ LadderValid(tiers)

\* What tier i pays of x, rounded down.
TierPays(tiers, i, x) == (Slice(tiers, i, x) * tiers[i].bps) \div BpsDenominator

LEMMA BpsWhole == BpsDenominator \in Nat \ {0}
BY DEF BpsDenominator

\* The types of a ladder's tiers.
LEMMA LadderTypes ==
    ASSUME NEW tiers, IsLadder(tiers)
    PROVE  /\ Len(tiers) \in Nat \ {0} /\ DOMAIN tiers = 1..Len(tiers)
           /\ tiers[1].threshold = 0
           /\ \A i \in 1..Len(tiers) : tiers[i].threshold \in Nat /\ tiers[i].bps \in 0..BpsDenominator
           /\ \A i \in 1..(Len(tiers) - 1) : tiers[i].threshold <= tiers[i + 1].threshold
<1> DEFINE Tiers == [threshold : Nat, bps : Nat]
<1>0. tiers \in Seq(Tiers)
  BY DEF IsLadder
<1>a. \A t \in Tiers : t.threshold \in Nat /\ t.bps \in Nat
  OBVIOUS
<1> HIDE DEF Tiers
<1>1. /\ Len(tiers) \in Nat \ {0} /\ DOMAIN tiers = 1..Len(tiers)
      /\ \A i \in 1..Len(tiers) : tiers[i] \in Tiers
  <2>1. Len(tiers) \in Nat /\ DOMAIN tiers = 1..Len(tiers)
    BY <1>0
  <2>2. \A i \in 1..Len(tiers) : tiers[i] \in Tiers
    BY <1>0
  <2> DEFINE n == Len(tiers)
  <2>3. n \in 1..8
    BY Zenon DEF IsLadder, LadderValid, MaxTiers
  <2> HIDE DEF n
  <2>4. n # 0
    BY <2>3
  <2> QED
    BY <2>1, <2>2, <2>4 DEF n
<1>2. ASSUME NEW i \in 1..Len(tiers)
      PROVE  tiers[i].threshold \in Nat /\ tiers[i].bps \in 0..BpsDenominator
  <2>1. tiers[i].bps <= BpsDenominator
    BY <1>1, Zenon DEF IsLadder, LadderValid
  <2>2. tiers[i].threshold \in Nat /\ tiers[i].bps \in Nat
    BY <1>a, <1>1, Zenon
  <2> DEFINE b == tiers[i].bps
  <2> HIDE DEF b
  <2>3. b \in Nat /\ b <= BpsDenominator
    BY <2>1, <2>2, Zenon DEF b
  <2>4. b \in 0..BpsDenominator
    BY <2>3, BpsWhole
  <2> QED
    BY <2>2, <2>4, Zenon DEF b
<1>3. ASSUME NEW i \in 1..(Len(tiers) - 1)
      PROVE  tiers[i].threshold <= tiers[i + 1].threshold
  <2>1. i + 1 \in 2..Len(tiers) /\ i \in 1..Len(tiers) /\ i + 1 \in 1..Len(tiers)
    BY <1>1
  <2>2. tiers[i + 1].threshold > tiers[(i + 1) - 1].threshold
    BY <2>1, Zenon DEF IsLadder, LadderValid
  <2>3. (i + 1) - 1 = i
    BY <1>1
  <2> QED
    BY <1>2, <2>1, <2>2, <2>3
<1>4. tiers[1].threshold = 0
  BY Zenon DEF IsLadder, LadderValid
<1> QED
  BY <1>1, <1>2, <1>3, <1>4

\* Rounded down in units of d, a number that grows by at most e units grows by
\* at most e.
LEMMA DivGrows ==
    ASSUME NEW d \in Nat \ {0}, NEW p \in Nat, NEW q \in Nat, NEW e \in Nat, q <= e * d
    PROVE  /\ p \div d \in Nat
           /\ p \div d <= (p + q) \div d
           /\ (p + q) \div d <= p \div d + e
<1> DEFINE u == p \div d
           v == (p + q) \div d
           ud == u * d
           vd == v * d
           ed == e * d
<1>1. u \in Nat /\ ud <= p /\ p < ud + d
  BY DivMod
<1>2. v \in Nat /\ vd <= p + q /\ p + q < vd + d
  <2> DEFINE m == p + q
  <2>1. m \in Nat
    OBVIOUS
  <2> HIDE DEF m
  <2>2. m \div d \in Nat /\ (m \div d) * d <= m /\ m < (m \div d) * d + d
    BY <2>1, DivMod
  <2> QED
    BY <2>2 DEF m
<1>3. (v + 1) * d = vd + d /\ (u + e + 1) * d = ud + ed + d /\ vd \in Nat /\ ud \in Nat /\ ed \in Nat
  <2> HIDE DEF u, v
  <2> QED
    BY <1>1, <1>2
<1>4. p < (v + 1) * d /\ p + q < (u + e + 1) * d
  <2> HIDE DEF u, v, ud, vd
  <2>1. q <= ed
    OBVIOUS
  <2> HIDE DEF ed
  <2> QED
    BY <1>1, <1>2, <1>3, <2>1
<1> HIDE DEF ud, vd, ed
<1>5. u <= v
  <2> HIDE DEF v
  <2> QED
    BY <1>2, <1>4, DivBound
<1>6. v <= u + e
  <2> HIDE DEF u
  <2>1. u + e \in Nat /\ p + q \in Nat
    BY <1>1
  <2> QED
    BY <1>4, <2>1, DivBound
<1> QED
  BY <1>1, <1>5, <1>6

\* A rounded share of at most the whole grows with the amount, and by no more
\* than the amount.
LEMMA ShareGrows ==
    ASSUME NEW a \in Nat, NEW b \in Nat, a <= b, NEW k \in 0..BpsDenominator
    PROVE  /\ (a * k) \div BpsDenominator \in Nat
           /\ (a * k) \div BpsDenominator <= (b * k) \div BpsDenominator
           /\ (b * k) \div BpsDenominator - (a * k) \div BpsDenominator <= b - a
<1> DEFINE e == b - a
           p == a * k
           q == e * k
<1>1. e \in Nat /\ b = a + e /\ k \in Nat /\ k <= BpsDenominator
  BY BpsWhole
<1> HIDE DEF e
<1>2. (a + e) * k = p + q /\ p \in Nat /\ q \in Nat
  BY <1>1
<1>3. q <= e * BpsDenominator
  BY <1>1, BpsWhole
<1> HIDE DEF p, q
<1>4. /\ p \div BpsDenominator \in Nat
      /\ p \div BpsDenominator <= (p + q) \div BpsDenominator
      /\ (p + q) \div BpsDenominator <= p \div BpsDenominator + e
  BY <1>1, <1>2, <1>3, BpsWhole, DivGrows
<1>5. b * k = p + q
  BY <1>1, <1>2
<1>6. (p + q) \div BpsDenominator \in Nat
  BY <1>2, BpsWhole
<1>7. (p + q) \div BpsDenominator - p \div BpsDenominator <= e
  BY <1>1, <1>4, <1>6
<1> QED
  BY <1>4, <1>5, <1>7 DEF p, e

\* A tier's part of the fees grows with them.
LEMMA SliceGrows ==
    ASSUME NEW tiers, IsLadder(tiers), NEW i \in 1..Len(tiers), NEW x \in Nat, NEW y \in Nat, x <= y
    PROVE  /\ Slice(tiers, i, x) \in Nat /\ Slice(tiers, i, y) \in Nat
           /\ Slice(tiers, i, x) <= Slice(tiers, i, y)
<1>1. Len(tiers) \in Nat /\ tiers[i].threshold \in Nat
  BY LadderTypes, Zenon
<1>2. i < Len(tiers) => tiers[i + 1].threshold \in Nat
  BY <1>1, LadderTypes
<1> DEFINE t == tiers[i].threshold
           u == tiers[i + 1].threshold
           S(z) == SaturatingSub(IF i < Len(tiers) THEN Lesser(z, u) ELSE z, t)
<1>3. S(x) = Slice(tiers, i, x) /\ S(y) = Slice(tiers, i, y)
  BY Zenon DEF Slice
<1>4. t \in Nat /\ (i < Len(tiers) => u \in Nat)
  BY <1>1, <1>2, Zenon
<1> HIDE DEF t, u
<1>5. S(x) \in Nat /\ S(y) \in Nat /\ S(x) <= S(y)
  BY <1>4 DEF Lesser, SaturatingSub
<1> QED
  BY <1>3, <1>5, Zenon

\* The parts of the tiers make up the whole: each is the way from one
\* threshold to the next, as far as the fees go.
LEMMA SlicesMakeUpAll ==
    ASSUME NEW tiers, IsLadder(tiers), NEW x \in Nat
    PROVE  SumFunctionOnSet([i \in 1..Len(tiers) |-> Slice(tiers, i, x)], 1..Len(tiers)) = x
<1> DEFINE n == Len(tiers)
           d == [i \in 1..n |-> Slice(tiers, i, x)]
           c == [i \in 1..(n + 1) |-> IF i <= n THEN Lesser(x, tiers[i].threshold) ELSE x]
<1>1. n \in Nat \ {0} /\ \A i \in 1..n : tiers[i].threshold \in Nat
  BY LadderTypes
<1>2. \A i \in 1..(n + 1) : c[i] \in Int
  BY <1>1 DEF Lesser
<1>3. ASSUME NEW i \in 1..n PROVE d[i] = c[i + 1] - c[i]
  <2>1. i + 1 \in 1..(n + 1) /\ i \in 1..(n + 1) /\ tiers[i].threshold \in Nat
    BY <1>1
  <2>2. CASE i = n
    BY <1>1, <2>1, <2>2 DEF Slice, Lesser, SaturatingSub
  <2>3. CASE i < n
    <3>1. tiers[i + 1].threshold \in Nat /\ tiers[i].threshold <= tiers[i + 1].threshold
      BY <1>1, <2>1, <2>3, LadderTypes
    <3> QED
      BY <1>1, <2>1, <2>3, <3>1 DEF Slice, Lesser, SaturatingSub
  <2> QED
    BY <1>1, <2>2, <2>3
<1>4. c[n + 1] = x /\ c[1] = 0
  BY <1>1, LadderTypes DEF Lesser
<1> HIDE DEF c, d
<1>5. SumFunctionOnSet(d, 1..n) = c[n + 1] - c[1]
  BY <1>1, <1>2, <1>3, SumTelescope, Zenon
<1> QED
  BY <1>4, <1>5 DEF d

\* The entitlement as a sum over the tiers.
LEMMA EntitlementIsSum ==
    ASSUME NEW tiers, IsLadder(tiers), NEW x
    PROVE  PoolEntitlement(tiers, x)
             = SumFunctionOnSet([i \in 1..Len(tiers) |-> TierPays(tiers, i, x)], 1..Len(tiers))
<1>1. DOMAIN tiers = 1..Len(tiers)
  BY LadderTypes
<1> QED
  BY <1>1 DEF PoolEntitlement, SumFunction, TierPays

\* What the ladder entitles the pool to grows with the fees, by no more than
\* the fees, though every tier is rounded on its own.
LEMMA EntitlementGrows ==
    ASSUME NEW tiers, IsLadder(tiers), NEW x \in Nat, NEW y \in Nat, x <= y
    PROVE  /\ PoolEntitlement(tiers, x) \in Nat /\ PoolEntitlement(tiers, y) \in Nat
           /\ PoolEntitlement(tiers, x) <= PoolEntitlement(tiers, y)
           /\ PoolEntitlement(tiers, y) - PoolEntitlement(tiers, x) <= y - x
<1> DEFINE N == 1..Len(tiers)
           sx == [i \in N |-> Slice(tiers, i, x)]
           sy == [i \in N |-> Slice(tiers, i, y)]
           px == [i \in N |-> TierPays(tiers, i, x)]
           py == [i \in N |-> TierPays(tiers, i, y)]
           grows == [i \in N |-> py[i] - px[i]]
           kept == [i \in N |-> (sy[i] - sx[i]) - grows[i]]
           moved == [i \in N |-> sx[i] + grows[i]]
           Sum(f) == SumFunctionOnSet(f, N)
<1>1. IsFiniteSet(N)
  <2>1. 1 \in Int /\ Len(tiers) \in Int
    BY LadderTypes
  <2> QED
    BY <2>1, IntervalFinite, Zenon
<1>2. ASSUME NEW i \in N
      PROVE  /\ sx[i] \in Nat /\ sy[i] \in Nat /\ px[i] \in Nat
             /\ grows[i] \in Nat /\ kept[i] \in Nat
             /\ py[i] = px[i] + grows[i] /\ sy[i] = moved[i] + kept[i]
             /\ moved[i] = sx[i] + grows[i]
  <2> DEFINE a == Slice(tiers, i, x)
             b == Slice(tiers, i, y)
             k == tiers[i].bps
             p == (a * k) \div BpsDenominator
             q == (b * k) \div BpsDenominator
  <2>1. a \in Nat /\ b \in Nat /\ a <= b
    BY SliceGrows
  <2>2. k \in 0..BpsDenominator
    BY LadderTypes, Zenon
  <2>3. sx[i] = a /\ sy[i] = b /\ px[i] = p /\ py[i] = q
    BY Zenon DEF TierPays
  <2>4. /\ grows[i] = py[i] - px[i] /\ kept[i] = (sy[i] - sx[i]) - grows[i]
        /\ moved[i] = sx[i] + grows[i]
    OBVIOUS
  <2> HIDE DEF a, b, k, sx, sy, px, py, grows, kept, moved
  <2>5. p \in Nat /\ p <= q /\ q - p <= b - a
    BY <2>1, <2>2, ShareGrows, Zenon
  <2>6. q \in Nat
    <3>1. b <= b
      BY <2>1
    <3> QED
      BY <2>1, <2>2, <3>1, ShareGrows, Zenon
  <2> HIDE DEF p, q
  <2> QED
    BY <2>1, <2>3, <2>4, <2>5, <2>6
<1>3. Sum(sx) = x /\ Sum(sy) = y
  BY SlicesMakeUpAll
<1>4. Sum(px) = PoolEntitlement(tiers, x) /\ Sum(py) = PoolEntitlement(tiers, y)
  BY EntitlementIsSum, Zenon
<1> HIDE DEF N, sx, sy, px, py, grows, kept, moved
<1>5. Sum(py) = Sum(px) + Sum(grows)
  <2>1. \A i \in N : px[i] \in Int /\ grows[i] \in Int /\ py[i] = px[i] + grows[i]
    BY <1>2
  <2> QED
    BY <1>1, <2>1, SumAdd, Zenon
<1>6. Sum(sy) = Sum(moved) + Sum(kept) /\ Sum(moved) = Sum(sx) + Sum(grows)
  <2>1. \A i \in N : sx[i] \in Int /\ grows[i] \in Int /\ moved[i] = sx[i] + grows[i]
    BY <1>2
  <2>2. \A i \in N : moved[i] \in Int /\ kept[i] \in Int /\ sy[i] = moved[i] + kept[i]
    BY <1>2
  <2> QED
    BY <1>1, <2>1, <2>2, SumAdd
<1>7. Sum(px) \in Nat /\ Sum(grows) \in Nat /\ Sum(kept) \in Nat
  <2>1. \A i \in N : px[i] \in Nat /\ grows[i] \in Nat /\ kept[i] \in Nat
    BY <1>2, Zenon
  <2> QED
    BY <1>1, <2>1, SumBound, Zenon
<1> DEFINE ex == PoolEntitlement(tiers, x)
           ey == PoolEntitlement(tiers, y)
           g == Sum(grows)
           r == Sum(kept)
<1>8. ex \in Nat /\ g \in Nat /\ r \in Nat /\ ey = ex + g /\ y = (x + g) + r
  BY <1>3, <1>4, <1>5, <1>6, <1>7
<1> HIDE DEF ex, ey, g, r
<1>9. ey \in Nat /\ ex <= ey /\ ey - ex <= y - x
  BY <1>8
<1> QED
  BY <1>8, <1>9 DEF ex, ey

\* No fees, no entitlement.
LEMMA EntitlementOfNothing ==
    ASSUME NEW tiers, IsLadder(tiers)
    PROVE  PoolEntitlement(tiers, 0) = 0
<1> DEFINE N == 1..Len(tiers)
           p == [i \in N |-> TierPays(tiers, i, 0)]
<1>1. ASSUME NEW i \in N PROVE p[i] = 0
  <2>1. Slice(tiers, i, 0) = 0
    <3>1. tiers[i].threshold \in Nat
      BY LadderTypes, Zenon
    <3>2. i < Len(tiers) => tiers[i + 1].threshold \in Nat
      BY LadderTypes
    <3> QED
      BY <3>1, <3>2 DEF Slice, Lesser, SaturatingSub
  <2>2. tiers[i].bps \in Nat
    BY LadderTypes, BpsWhole
  <2> DEFINE k == tiers[i].bps
  <2>3. p[i] = (0 * k) \div BpsDenominator
    BY <2>1, Zenon DEF TierPays
  <2> HIDE DEF k, p
  <2> QED
    BY <2>2, <2>3, BpsWhole DEF k
<1>2. IsFiniteSet(N)
  BY LadderTypes, IntervalFinite
<1>3. PoolEntitlement(tiers, 0) = SumFunctionOnSet(p, N)
  BY EntitlementIsSum
<1> HIDE DEF N, p
<1> QED
  BY <1>1, <1>2, <1>3, SumZero, Zenon

-----------------------------------------------------------------------------
(* The router over its life *)

RouterTypes ==
    /\ routerDay \in 1..LastDay
    /\ period \in [day : 0..LastDay, fees : Nat]
    /\ ladder \in Ladders /\ LadderValid(ladder)
    /\ routerAta \in Nat /\ dayPool \in Nat /\ dayCapped \in BOOLEAN
    /\ lifetime \in [fees : Nat, pool : Nat, treasury : Nat]
    /\ redemption \in [vault : Nat, recognized : Nat, remaining : Nat]

\* What the running period has paid: never more than the ladder gives for its
\* fees, and exactly that unless the cap has bound.
DayIsTheLadder ==
    routerDay = period.day =>
        /\ dayPool <= PoolEntitlement(ladder, period.fees)
        /\ ~dayCapped => dayPool = PoolEntitlement(ladder, period.fees)

\* The inductive invariant: a period never lies in the future, and the pool
\* holds what it has recognised and not yet paid out.
RouterInv ==
    /\ RouterTypes
    /\ period.day <= routerDay
    /\ redemption.recognized <= Exploited /\ redemption.remaining <= redemption.vault
    /\ DayIsTheLadder

LEMMA LaddersAreLadders ==
    ASSUME NEW tiers \in Ladders, LadderValid(tiers) PROVE IsLadder(tiers)
BY RouterConstants DEF IsLadder

\* The router starts with an empty period that lies in the past.
LEMMA RouterStarts == RouterInit => RouterInv
<1> SUFFICES ASSUME RouterInit PROVE RouterInv
  OBVIOUS
<1>1. RouterTypes
  <2>1. /\ period = [day |-> 0, fees |-> 0] /\ routerDay = 1 /\ routerAta = 0 /\ dayPool = 0
        /\ lifetime = [fees |-> 0, pool |-> 0, treasury |-> 0]
        /\ redemption = [vault |-> 0, recognized |-> 0, remaining |-> 0]
    BY DEF RouterInit
  <2>2. dayCapped \in BOOLEAN /\ ladder \in Ladders /\ LadderValid(ladder)
    BY Zenon DEF RouterInit
  <2>3. /\ period \in [day : 0..LastDay, fees : Nat] /\ routerDay \in 1..LastDay
        /\ lifetime \in [fees : Nat, pool : Nat, treasury : Nat]
        /\ redemption \in [vault : Nat, recognized : Nat, remaining : Nat]
        /\ routerAta \in Nat /\ dayPool \in Nat
    BY <2>1, RouterConstants
  <2> QED
    BY <2>2, <2>3, Zenon DEF RouterTypes
<1>2. /\ period.day <= routerDay /\ routerDay # period.day
      /\ redemption.recognized <= Exploited /\ redemption.remaining <= redemption.vault
  BY RouterConstants DEF RouterInit
<1> QED
  BY <1>1, <1>2 DEF RouterInv, DayIsTheLadder

\* What a contribution of at most the room under the cap does to the pool.
LEMMA ContributeRecognises ==
    ASSUME NEW r \in [vault : Nat, recognized : Nat, remaining : Nat],
           r.recognized <= Exploited, r.remaining <= r.vault,
           NEW n \in Nat, n > 0, n <= CapRoom(r)
    PROVE  LET c == Contribute(r, n)
           IN  /\ c \in [vault : Nat, recognized : Nat, remaining : Nat]
               /\ c.recognized <= Exploited
               /\ c.remaining = c.vault
<1> DEFINE v == r.vault
           g == r.recognized
           m == r.remaining
           newly == Lesser((v + n) - m, Exploited - g)
<1>1. v \in Nat /\ g \in Nat /\ m \in Nat /\ g <= Exploited /\ m <= v /\ Exploited \in Nat
  BY RouterConstants, Zenon
<1>2. Contribute(r, n) = [vault |-> v + n, recognized |-> g + newly, remaining |-> m + newly]
  BY DEF Contribute
<1>3. n <= SaturatingSub(SaturatingSub(Exploited, g), SaturatingSub(v, m))
  BY Zenon DEF CapRoom, Unrecognized
<1> HIDE DEF v, g, m
<1>4. newly = (v + n) - m
  BY <1>1, <1>3 DEF SaturatingSub, Lesser
<1>5. newly <= Exploited - g
  BY <1>1, <1>3 DEF SaturatingSub, Lesser
<1>6. newly \in Nat
  BY <1>1, <1>4
<1> HIDE DEF newly
<1> QED
  BY <1>1, <1>2, <1>4, <1>5, <1>6

\* The parts of a distribution: the share is not negative and not more than
\* what arrived.
LEMMA ShareOfArrivals ==
    ASSUME NEW tiers, IsLadder(tiers), NEW fees \in Nat, NEW incoming \in Nat
    PROVE  /\ PoolShare(tiers, fees, incoming) \in Nat
           /\ PoolShare(tiers, fees, incoming) <= incoming
           /\ PoolEntitlement(tiers, fees) \in Nat
           /\ PoolEntitlement(tiers, fees + incoming)
                = PoolEntitlement(tiers, fees) + PoolShare(tiers, fees, incoming)
<1> DEFINE a == PoolEntitlement(tiers, fees)
           b == PoolEntitlement(tiers, fees + incoming)
<1>1. fees + incoming \in Nat /\ fees <= fees + incoming
  OBVIOUS
<1>2. a \in Nat /\ b \in Nat /\ a <= b /\ b - a <= (fees + incoming) - fees
  BY <1>1, EntitlementGrows
<1>3. PoolShare(tiers, fees, incoming) = b - a
  BY Zenon DEF PoolShare
<1> HIDE DEF a, b
<1> QED
  BY <1>2, <1>3 DEF a, b

\* The period a distribution counts in, and what it has paid before.
LEMMA RolledPeriod ==
    ASSUME RouterInv, NEW before, before = IF Rolled # period THEN 0 ELSE dayPool,
           NEW capped, capped = (dayCapped /\ ~(Rolled # period))
    PROVE  /\ Rolled \in [day : 0..LastDay, fees : Nat] /\ Rolled.day = routerDay
           /\ before \in Nat /\ capped \in BOOLEAN
           /\ before <= PoolEntitlement(ladder, Rolled.fees)
           /\ ~capped => before = PoolEntitlement(ladder, Rolled.fees)
<1>1. IsLadder(ladder)
  BY LaddersAreLadders, Zenon DEF RouterInv, RouterTypes
<1>2. routerDay \in 0..LastDay /\ period \in [day : 0..LastDay, fees : Nat]
  BY RouterConstants DEF RouterInv, RouterTypes
<1>3. dayPool \in Nat /\ dayCapped \in BOOLEAN
  BY Zenon DEF RouterInv, RouterTypes
<1>4. CASE routerDay > period.day
  <2>1. Rolled = [day |-> routerDay, fees |-> 0]
    BY <1>4 DEF Rolled
  <2>2. Rolled # period
    BY <1>2, <1>4, <2>1
  <2>3. PoolEntitlement(ladder, 0) = 0
    BY <1>1, EntitlementOfNothing
  <2>4. before = 0 /\ capped = FALSE
    BY <2>2, Zenon
  <2>5. Rolled \in [day : 0..LastDay, fees : Nat] /\ Rolled.day = routerDay /\ Rolled.fees = 0
    BY <1>2, <2>1
  <2> QED
    BY <2>3, <2>4, <2>5
<1>5. CASE ~(routerDay > period.day)
  <2>1. Rolled = period
    BY <1>5 DEF Rolled
  <2>2. period.day = routerDay
    BY <1>2, <1>5 DEF RouterInv
  <2>3. before = dayPool /\ (capped <=> dayCapped) /\ capped \in BOOLEAN
    BY <1>3, <2>1, Zenon
  <2>4. /\ dayPool <= PoolEntitlement(ladder, period.fees)
        /\ ~dayCapped => dayPool = PoolEntitlement(ladder, period.fees)
    BY <2>2, Zenon DEF RouterInv, DayIsTheLadder
  <2> QED
    BY <1>2, <1>3, <2>1, <2>2, <2>3, <2>4, Zenon
<1> QED
  BY <1>4, <1>5

\* distribute keeps the invariant, and what it brings to the pool is
\* recognised.
LEMMA DistributeKeeps ==
    ASSUME RouterInv, Distribute
    PROVE  /\ RouterInv'
           /\ lifetime'.pool > lifetime.pool => Unrecognized(redemption') = 0
<1> DEFINE fees == Rolled.fees
           before == IF Rolled # period THEN 0 ELSE dayPool
           capped == dayCapped /\ ~(Rolled # period)
           share == PoolShare(ladder, fees, routerAta)
           toPool == Lesser(share, CapRoom(redemption))
           E(x) == PoolEntitlement(ladder, x)
<1>1. /\ Rolled \in [day : 0..LastDay, fees : Nat] /\ Rolled.day = routerDay
      /\ before \in Nat /\ capped \in BOOLEAN
      /\ before <= E(fees)
      /\ ~capped => before = E(fees)
  BY RolledPeriod, Zenon
<1>2. IsLadder(ladder) /\ routerAta \in Nat /\ fees \in Nat /\ ladder \in Ladders /\ LadderValid(ladder)
  <2>1. ladder \in Ladders /\ LadderValid(ladder) /\ routerAta \in Nat
    BY Zenon DEF RouterInv, RouterTypes
  <2> QED
    BY <1>1, <2>1, LaddersAreLadders
<1>3. /\ redemption \in [vault : Nat, recognized : Nat, remaining : Nat]
      /\ lifetime \in [fees : Nat, pool : Nat, treasury : Nat]
      /\ redemption.recognized <= Exploited /\ redemption.remaining <= redemption.vault
      /\ routerDay \in 1..LastDay /\ Exploited \in Nat
  BY RouterConstants DEF RouterInv, RouterTypes
<1>4. UNCHANGED <<routerDay, ladder, arrivals>>
  BY DEF Distribute
<1>5. CASE routerAta = 0
  <2>1. period' = Rolled /\ dayPool' = before /\ UNCHANGED <<lifetime, routerAta, redemption>>
    BY <1>5, Zenon DEF Distribute
  <2>2. dayCapped' = capped
    BY <1>5, Zenon DEF Distribute
  <2>3. RouterTypes'
    BY <1>1, <1>2, <1>3, <1>4, <2>1, <2>2, Zenon DEF RouterTypes
  <2>4. DayIsTheLadder'
    BY <1>1, <1>4, <2>1, <2>2, Zenon DEF DayIsTheLadder
  <2>5. period'.day <= routerDay'
    BY <1>1, <1>3, <1>4, <2>1
  <2>6. /\ redemption'.recognized <= Exploited /\ redemption'.remaining <= redemption'.vault
        /\ ~(lifetime'.pool > lifetime.pool)
    BY <1>3, <2>1
  <2> QED
    BY <2>3, <2>4, <2>5, <2>6, Zenon DEF RouterInv
<1>6. CASE routerAta # 0
  <2>1. /\ period' = [Rolled EXCEPT !.fees = @ + routerAta]
        /\ lifetime' = [fees |-> lifetime.fees + routerAta, pool |-> lifetime.pool + toPool,
                        treasury |-> lifetime.treasury + (routerAta - toPool)]
        /\ routerAta' = 0
        /\ redemption' = IF toPool > 0 THEN Contribute(redemption, toPool) ELSE redemption
        /\ dayPool' = before + toPool
        /\ dayCapped' = (capped \/ toPool < share)
    BY <1>6, Zenon DEF Distribute
  <2>2. /\ share \in Nat /\ share <= routerAta /\ E(fees) \in Nat
        /\ E(fees + routerAta) = E(fees) + share
    BY <1>2, ShareOfArrivals, Zenon
  <2>3. toPool \in Nat /\ toPool <= share /\ toPool <= CapRoom(redemption)
    <3>1. CapRoom(redemption) \in Nat
      BY <1>3 DEF CapRoom, Unrecognized, SaturatingSub
    <3> DEFINE room == CapRoom(redemption)
    <3> HIDE DEF share, room
    <3> QED
      BY <2>2, <3>1 DEF Lesser, room
  <2> HIDE DEF fees, before, capped, share, toPool
  <2>4. /\ redemption' \in [vault : Nat, recognized : Nat, remaining : Nat]
        /\ redemption'.recognized <= Exploited /\ redemption'.remaining <= redemption'.vault
        /\ toPool > 0 => redemption'.remaining = redemption'.vault
    <3>1. CASE toPool > 0
      <4> DEFINE c == Contribute(redemption, toPool)
      <4>1. /\ c \in [vault : Nat, recognized : Nat, remaining : Nat]
            /\ c.recognized <= Exploited /\ c.remaining = c.vault
        BY <1>3, <2>3, <3>1, ContributeRecognises, Zenon
      <4>2. redemption' = c
        BY <2>1, <3>1, Zenon
      <4> HIDE DEF c
      <4>3. c.remaining <= c.vault
        BY <4>1
      <4> QED
        BY <4>1, <4>2, <4>3
    <3>2. CASE ~(toPool > 0)
      BY <1>3, <2>1, <3>2
    <3> QED
      BY <3>1, <3>2
  <2>5. /\ period'.day = routerDay /\ period'.fees = fees + routerAta
        /\ period' \in [day : 0..LastDay, fees : Nat]
    BY <1>1, <1>2, <2>1 DEF fees
  <2>6. lifetime' \in [fees : Nat, pool : Nat, treasury : Nat]
    BY <1>2, <1>3, <2>1, <2>2, <2>3
  <2>7. dayPool' \in Nat /\ dayCapped' \in BOOLEAN /\ routerAta' \in Nat
    <3>1. dayPool' \in Nat /\ routerAta' \in Nat
      BY <1>1, <2>1, <2>3
    <3>2. dayCapped' \in BOOLEAN
      BY <2>1, Zenon
    <3> QED
      BY <3>1, <3>2
  <2>8. RouterTypes'
    BY <1>2, <1>3, <1>4, <2>4, <2>5, <2>6, <2>7, Zenon DEF RouterTypes
  <2>9. DayIsTheLadder'
    <3> DEFINE e == E(fees)
               f == E(fees + routerAta)
    <3>1. e \in Nat /\ f = e + share /\ before \in Nat /\ before <= e /\ (~capped => before = e)
      BY <1>1, <2>2
    <3> HIDE DEF e, f, E
    <3>2. before + toPool <= f
      BY <2>2, <2>3, <3>1
    <3>3. ~capped /\ ~(toPool < share) => before + toPool = f
      BY <2>2, <2>3, <3>1
    <3>4. dayPool' <= f /\ (~dayCapped' => dayPool' = f)
      BY <2>1, <3>2, <3>3, Zenon
    <3>5. f = PoolEntitlement(ladder', period'.fees)
      BY <1>4, <2>5, Zenon DEF f, E
    <3> QED
      BY <3>4, <3>5, Zenon DEF DayIsTheLadder
  <2>10. period'.day <= routerDay'
    BY <1>3, <1>4, <2>5
  <2>11. lifetime'.pool > lifetime.pool => Unrecognized(redemption') = 0
    <3>1. lifetime'.pool > lifetime.pool => toPool > 0
      BY <1>3, <2>1, <2>3
    <3> QED
      BY <2>4, <3>1 DEF Unrecognized, SaturatingSub
  <2> QED
    BY <2>4, <2>8, <2>9, <2>10, <2>11, Zenon DEF RouterInv
<1> QED
  BY <1>5, <1>6

\* A new ladder is let in only while the running period has priced nothing.
LEMMA UpdateConfigKeeps ==
    ASSUME RouterInv, NEW tiers \in Ladders, UpdateConfig(tiers)
    PROVE  RouterInv' /\ lifetime' = lifetime
<1>1. /\ LadderValid(tiers) /\ ladder' = tiers /\ ~TiersLocked
      /\ UNCHANGED <<routerDay, period, lifetime, routerAta, redemption, dayPool, dayCapped>>
  BY DEF UpdateConfig
<1>2. RouterTypes'
  BY <1>1, Zenon DEF RouterInv, RouterTypes
<1>3. DayIsTheLadder'
  <2>1. SUFFICES ASSUME routerDay = period.day
                 PROVE  /\ dayPool <= PoolEntitlement(tiers, period.fees)
                        /\ dayPool = PoolEntitlement(tiers, period.fees)
    BY <1>1, <2>1, Zenon DEF DayIsTheLadder
  <2>2. period.fees \in Nat /\ routerDay \in Nat /\ dayPool \in Nat
    BY DEF RouterInv, RouterTypes
  <2>3. period.fees = 0
    BY <1>1, <2>1, <2>2 DEF TiersLocked
  <2>4. PoolEntitlement(ladder, 0) = 0 /\ PoolEntitlement(tiers, 0) = 0
    <3>1. ladder \in Ladders /\ LadderValid(ladder)
      BY Zenon DEF RouterInv, RouterTypes
    <3>2. IsLadder(ladder) /\ IsLadder(tiers)
      BY <1>1, <3>1, LaddersAreLadders, Zenon
    <3> QED
      BY <3>2, EntitlementOfNothing
  <2>5. dayPool <= 0
    BY <2>1, <2>3, <2>4, Zenon DEF RouterInv, DayIsTheLadder
  <2>6. dayPool = 0
    BY <2>2, <2>5
  <2> QED
    BY <2>3, <2>4, <2>6
<1> QED
  BY <1>1, <1>2, <1>3, Zenon DEF RouterInv

\* Tokens that arrive, redemptions and the passing of days keep the invariant.
LEMMA OutsideKeeps ==
    ASSUME RouterInv,
           \/ \E n \in FeeAmounts : FeesArrive(n)
           \/ \E n \in PoolDonations : Donated(n)
           \/ Redeemed
           \/ DayPasses
    PROVE  RouterInv' /\ lifetime' = lifetime
<1>1. ASSUME NEW n \in FeeAmounts, FeesArrive(n) PROVE RouterInv' /\ lifetime' = lifetime
  <2>1. /\ routerAta' = routerAta + n
        /\ UNCHANGED <<routerDay, ladder, period, lifetime, redemption, dayPool, dayCapped>>
    BY <1>1, Zenon DEF FeesArrive
  <2>2. routerAta' \in Nat
    BY <2>1, RouterConstants DEF RouterInv, RouterTypes
  <2> QED
    BY <2>1, <2>2, Zenon DEF RouterInv, RouterTypes, DayIsTheLadder
<1>2. ASSUME UNCHANGED <<routerDay, ladder, period, lifetime, routerAta, dayPool, dayCapped>>,
             \/ \E n \in PoolDonations : redemption' = [redemption EXCEPT !.vault = @ + n]
             \/ /\ redemption.remaining > 0
                /\ redemption' = [redemption EXCEPT !.vault = @ - 1, !.remaining = @ - 1]
      PROVE  RouterInv' /\ lifetime' = lifetime
  <2>1. /\ redemption' \in [vault : Nat, recognized : Nat, remaining : Nat]
        /\ redemption'.recognized <= Exploited /\ redemption'.remaining <= redemption'.vault
    <3>1. /\ redemption \in [vault : Nat, recognized : Nat, remaining : Nat]
          /\ redemption.recognized <= Exploited /\ redemption.remaining <= redemption.vault
      BY DEF RouterInv, RouterTypes
    <3>2. ASSUME NEW n \in PoolDonations, redemption' = [redemption EXCEPT !.vault = @ + n]
          PROVE  /\ redemption' \in [vault : Nat, recognized : Nat, remaining : Nat]
                 /\ redemption'.recognized <= Exploited
                 /\ redemption'.remaining <= redemption'.vault
      <4>1. n \in Nat
        BY RouterConstants, Zenon
      <4> QED
        BY <3>1, <3>2, <4>1
    <3>3. CASE /\ redemption.remaining > 0
               /\ redemption' = [redemption EXCEPT !.vault = @ - 1, !.remaining = @ - 1]
      <4> DEFINE v == redemption.vault
                 m == redemption.remaining
                 g == redemption.recognized
      <4>1. v \in Nat /\ m \in Nat /\ g \in Nat /\ m <= v /\ m > 0 /\ g <= Exploited
        BY <3>1, <3>3
      <4>2. redemption' = [vault |-> v - 1, recognized |-> g, remaining |-> m - 1]
        BY <3>1, <3>3, Zenon
      <4> HIDE DEF v, m, g
      <4>3. v - 1 \in Nat /\ m - 1 \in Nat /\ m - 1 <= v - 1
        BY <4>1
      <4> QED
        BY <4>1, <4>2, <4>3
    <3> QED
      BY <1>2, <3>2, <3>3
  <2> QED
    BY <1>2, <2>1, Zenon DEF RouterInv, RouterTypes, DayIsTheLadder
<1>3. CASE DayPasses
  <2>1. /\ routerDay < LastDay /\ routerDay' = routerDay + 1
        /\ UNCHANGED <<ladder, period, lifetime, routerAta, redemption, dayPool, dayCapped>>
    BY <1>3, Zenon DEF DayPasses
  <2>2. routerDay' \in 1..LastDay /\ period'.day <= routerDay' /\ routerDay' # period'.day
    BY <2>1, RouterConstants, SMTT(30) DEF RouterInv, RouterTypes
  <2> QED
    BY <2>1, <2>2, Zenon DEF RouterInv, RouterTypes, DayIsTheLadder
<1> QED
  BY <1>1, <1>2, <1>3 DEF Donated, Redeemed

\* Every step of the router keeps the invariant and recognises what it pays.
LEMMA RouterKept ==
    RouterInv /\ [RouterNext]_routerVars
        => /\ RouterInv'
           /\ lifetime'.pool > lifetime.pool => Unrecognized(redemption') = 0
<1> SUFFICES ASSUME RouterInv, [RouterNext]_routerVars
             PROVE  /\ RouterInv'
                    /\ lifetime'.pool > lifetime.pool => Unrecognized(redemption') = 0
  OBVIOUS
<1>1. lifetime' = lifetime => ~(lifetime'.pool > lifetime.pool)
  BY DEF RouterInv, RouterTypes
<1>2. CASE Distribute
  BY <1>2, DistributeKeeps
<1>3. ASSUME NEW tiers \in Ladders, UpdateConfig(tiers) PROVE RouterInv' /\ lifetime' = lifetime
  BY <1>3, UpdateConfigKeeps
<1>4. CASE UNCHANGED routerVars
  BY <1>1, <1>4, Zenon DEF routerVars, RouterInv, RouterTypes, DayIsTheLadder
<1> QED
  BY <1>1, <1>2, <1>3, <1>4, OutsideKeeps, Zenon DEF RouterNext

\* The inductive invariant holds throughout: the period, the pool's recognised
\* tokens and what the day has paid fit the ladder, for any ladders and fees.
THEOREM RouterInvariant == RouterSpec => []RouterInv
<1>1. RouterInv /\ [RouterNext]_routerVars => RouterInv'
  BY RouterKept
<1> QED
  BY <1>1, RouterStarts, PTL DEF RouterSpec

\* However the day's fees are cut into distributions, the pool gets what the
\* ladder gives it for the day's total, less only if its cap has bound
\* (distribute, for every valid ladder and every sequence of arrivals).
THEOREM DaySplitAlwaysTheLadder == RouterSpec => []DaySplitIsTheLadder
<1>1. RouterInv => DaySplitIsTheLadder
  <2> SUFFICES ASSUME RouterInv PROVE DaySplitIsTheLadder
    OBVIOUS
  <2>1. RouterTypeOK
    <3>1. /\ routerDay \in 1..LastDay /\ period.day \in 0..LastDay /\ LadderValid(ladder)
          /\ redemption.recognized <= Exploited
          /\ {period.fees, routerAta, dayPool} \subseteq Nat
      BY DEF RouterInv, RouterTypes
    <3>2. {lifetime[k] : k \in DOMAIN lifetime} \subseteq Nat
      BY Zenon DEF RouterInv, RouterTypes
    <3>3. {redemption[k] : k \in DOMAIN redemption} \subseteq Nat
      BY DEF RouterInv, RouterTypes
    <3> QED
      BY <3>1, <3>2, <3>3, Zenon DEF RouterTypeOK
  <2> QED
    BY <2>1, Zenon DEF DaySplitIsTheLadder, RouterInv, DayIsTheLadder
<1> QED
  BY <1>1, RouterInvariant, PTL

\* What the router brings to the pool is recognised at once and in full
\* (contribute, called by distribute).
THEOREM PoolShareAlwaysRecognised == RouterSpec => PoolShareIsRecognised
<1>1. RouterInv /\ [RouterNext]_routerVars
        => [lifetime'.pool > lifetime.pool => Unrecognized(redemption') = 0]_routerVars
  BY RouterKept
<1> QED
  BY <1>1, RouterInvariant, PTL DEF RouterSpec, PoolShareIsRecognised
=============================================================================
