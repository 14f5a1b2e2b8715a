----------------------------- MODULE SpotMarket -----------------------------
(***************************************************************************)
(* One spot market as a lending pool: users deposit, withdraw, borrow,     *)
(* repay and transfer; interest is booked lazily, by whichever instruction *)
(* touches the market first; two carveouts of the interest go to the       *)
(* revenue pool (on its way to the insurance fund) and to the protocol fee *)
(* pool; the debt of a bankrupt user is paid by the revenue pool, the      *)
(* insurance fund and the depositors, in that order.                       *)
(*                                                                         *)
(* Every action is one instruction.  Whether an account's margin admits a  *)
(* withdrawal, and which account is bankrupt, depends on positions outside *)
(* this market: both outcomes are allowed.                                 *)
(***************************************************************************)
EXTENDS SpotWithdraw, FiniteSets, Functions

CONSTANTS
    Users,
    Amounts,            \* token amounts an instruction may name
    FundBalances,       \* insurance vault balances a bankruptcy may meet
    Factors,            \* pairs <<if_fee_factor, protocol_fee_factor>>
    AdminSwitches,      \* the switches below that the admin may use
    MaxTime             \* bound on the clock

Switches == {"FundingPaused", "DepositPaused", "WithdrawPaused",  \* ExchangeStatus
             "UpdateCumulativeInterest", "Deposit", "Withdraw",   \* SpotOperation
             "ReduceOnly",                                        \* MarketStatus
             "Expired"}                               \* expiry_ts has passed

ASSUME SpotMarketAssumption ==
    /\ Amounts \subseteq Nat \ {0}
    /\ FundBalances \subseteq Nat
    /\ Factors # {} /\ \A f \in Factors : f[1] \in Nat /\ f[2] \in Nat
    /\ AdminSwitches \subseteq Switches
    /\ MaxTime \in Nat

VARIABLES
    market,     \* the fields of SpotMarket the ledger uses
    position,   \* each user's SpotPosition, and total_deposits - total_withdraws
    vault,      \* tokens in the market's vault
    gates,      \* switches that are on
    now         \* Clock::unix_timestamp

vars == <<market, position, vault, gates, now>>

NewPosition == [scaled_balance |-> 0, balance_type |-> "Deposit",
                cumulative_deposits |-> 0, net_deposits |-> 0]

Init ==
    \E f \in Factors :
    /\ f[1] + f[2] < FactorPrecision
    /\ market = [deposit_balance |-> 0, borrow_balance |-> 0,
                 cumulative_deposit_interest |-> InterestPrecision,
                 cumulative_borrow_interest |-> InterestPrecision,
                 last_interest_ts |-> 0,
                 revenue_pool |-> 0, protocol_fee_pool |-> 0,
                 carveout_dust |-> 0, insurance_fund_dust |-> 0,
                 if_token_dust |-> 0, protocol_token_dust |-> 0,
                 if_fee_factor |-> f[1], protocol_fee_factor |-> f[2],
                 deposit_token_twap |-> 0, borrow_token_twap |-> 0,
                 utilization_twap |-> 0, last_twap_ts |-> 0]
    /\ position = [u \in Users |-> NewPosition]
    /\ vault = 0
    /\ gates = {}
    /\ now = 0

-----------------------------------------------------------------------------
(* Moving a balance: controller/spot_balance.rs *)

Shift(m, type, delta) ==
    IF type = "Deposit" THEN [m EXCEPT !.deposit_balance = @ + delta]
                        ELSE [m EXCEPT !.borrow_balance = @ + delta]

Increase(m, b, tokens, type) ==
    LET delta == GetSpotBalance(tokens, Index(m, type), type = "Borrow")
    IN  [market  |-> Shift(m, type, delta),
         balance |-> [b EXCEPT !.scaled_balance = @ + delta,
                               !.balance_type = type]]

\* Faulty: tokens leave without rounding up.
ReductionRoundedDown(m, b, tokens, leaving) ==
    IF PositionTokens(m, b) > tokens
      THEN GetSpotBalance(tokens, Index(m, b.balance_type), FALSE)
      ELSE b.scaled_balance

\* Scaled units that pay off tokens: all of them when tokens reach the whole
\* balance, else rounded up when they leave the program or repay a debt.
Reduction(m, b, tokens, leaving) ==
    IF PositionTokens(m, b) > tokens
      THEN GetSpotBalance(tokens, Index(m, b.balance_type),
                          leaving \/ b.balance_type = "Borrow")
      ELSE b.scaled_balance

\* Faulty: dust is cleared from the position and stays in the total.
DecreaseClearingDust(m, b, tokens, leaving) ==
    LET delta == Reduction(m, b, tokens, leaving)
        rest  == [b EXCEPT !.scaled_balance = @ - delta]
    IN  [market  |-> Shift(m, b.balance_type, -delta),
         balance |-> IF PositionTokens(m, rest) = 0
                       THEN [rest EXCEPT !.scaled_balance = 0] ELSE rest]

Taken(m, b, delta) == [market  |-> Shift(m, b.balance_type, -delta),
                       balance |-> [b EXCEPT !.scaled_balance = @ - delta]]
Decrease(m, b, tokens, leaving) == Taken(m, b, Reduction(m, b, tokens, leaving))

\* update_spot_balances: what the existing balance does not cover opens a
\* balance of the other type.  A balance worth no token is left as it is.
Reduced(m, b, tokens, leaving) ==
    IF PositionTokens(m, b) = 0 THEN [market |-> m, balance |-> b]
                                ELSE Decrease(m, b, tokens, leaving)
Opened(r, rest, direction) ==
    IF rest = 0 THEN r ELSE Increase(r.market, r.balance, rest, direction)
UpdateSpotBalances(m, b, tokens, direction, leaving) ==
    IF direction = b.balance_type
      THEN Increase(m, b, tokens, direction)
      ELSE Opened(Reduced(m, b, tokens, leaving),
                  SaturatingSub(tokens, PositionTokens(m, b)), direction)

\* The checks of update_spot_balances on its result.
UpdateOK(r, direction, leaving) ==
    /\ r.market.deposit_balance >= 0 /\ r.market.borrow_balance >= 0
    /\ (leaving /\ direction = "Borrow") =>
           Tokens(r.market, "Deposit") >= Tokens(r.market, "Borrow")

\* update_spot_balances_and_cumulative_deposits
UpdatePosition(m, p, tokens, direction, leaving) ==
    LET r == UpdateSpotBalances(m, p, tokens, direction, leaving)
    IN  [r EXCEPT !.balance.cumulative_deposits =
                      IF direction = "Deposit" THEN @ + tokens ELSE @ - tokens]

\* increment_total_deposits, increment_total_withdraws at a price of one
Net(p, tokens) == [p EXCEPT !.net_deposits = @ + tokens]

PoolBalance(b) == [scaled_balance |-> b, balance_type |-> "Deposit"]

WithRevenuePool(r) == [r EXCEPT !.market.revenue_pool = r.balance.scaled_balance]
UpdateRevenuePool(m, tokens, direction, leaving) ==
    WithRevenuePool(UpdateSpotBalances(m, PoolBalance(m.revenue_pool), tokens,
                                       direction, leaving))

WithProtocolFeePool(r) ==
    [r EXCEPT !.market.protocol_fee_pool = r.balance.scaled_balance]
UpdateProtocolFeePool(m, tokens, direction, leaving) ==
    WithProtocolFeePool(UpdateSpotBalances(m, PoolBalance(m.protocol_fee_pool),
                                           tokens, direction, leaving))

-----------------------------------------------------------------------------
(* Booking interest: update_spot_market_cumulative_interest *)

Stamp(m) == [m EXCEPT !.last_interest_ts = Greater(@, now)]

\* Both indexes move by the lenders' and the borrowers' part of the interest.
MoveIndexes(m, s, borrow) ==
    [m EXCEPT !.cumulative_deposit_interest = @ + s.for_lenders,
              !.cumulative_borrow_interest  = @ + borrow,
              !.last_interest_ts    = now,
              !.carveout_dust       = s.carveout_dust,
              !.insurance_fund_dust = s.insurance_fund_dust,
              !.if_token_dust       = InterestDust(m.deposit_balance,
                                          s.for_insurance_fund, @),
              !.protocol_token_dust = InterestDust(m.deposit_balance,
                                          s.for_protocol, @)]

\* The carveouts are converted against the deposits of before, and credited at
\* the new index.
CreditCarveouts(m, s, moved) ==
    UpdateProtocolFeePool(
        UpdateRevenuePool(moved,
            InterestTokens(m.deposit_balance, s.for_insurance_fund, m.if_token_dust),
            "Deposit", FALSE).market,
        InterestTokens(m.deposit_balance, s.for_protocol, m.protocol_token_dust),
        "Deposit", FALSE).market

CommitSplit(m, s, borrow) == CreditCarveouts(m, s, MoveIndexes(m, s, borrow))
Commit(m, i) == CommitSplit(m, SplitDepositInterest(m, i.deposit), i.borrow)

InterestPaused == gates \cap {"FundingPaused", "UpdateCumulativeInterest"} # {}

\* Faulty: idle time is never stamped off.
NeverIdle(m) == FALSE

\* Nobody owes interest for the time since the last booking.
IsIdle(m) == m.borrow_balance = 0 \/ Utilization(m) = 0

Booked(m, i) ==
    IF InterestPaused THEN Stamp(m)
    ELSE IF i.deposit > 0 /\ i.borrow > 1 THEN Commit(m, i)
    ELSE IF IsIdle(m) THEN Stamp(m)
    ELSE m

Cranked(m) == UpdateTwapStats(Booked(m, AccumulatedInterest(m, now)), now)

-----------------------------------------------------------------------------
(* Instructions: \E x \in {e} names a value that is computed once, in the   *)
(* order of the code.                                                      *)

\* handle_update_spot_market_cumulative_interest
UpdateCumulativeInterest ==
    /\ market' = Cranked(market)
    /\ VaultAmountOK(market', vault)
    /\ UNCHANGED <<position, vault, gates, now>>

\* handle_refresh_spot_market_interest: no check of the vault
RefreshInterest ==
    /\ market' = Cranked(market)
    /\ UNCHANGED <<position, vault, gates, now>>

\* A deposit that leaves a dust position, or a deposit outside an active market,
\* is refused.
CreditOK(m, p) ==
    /\ PositionTokens(m, p) = 0 => p.scaled_balance = 0
    /\ (p.balance_type = "Deposit" /\ p.scaled_balance > 0) =>
           "ReduceOnly" \notin gates

\* What a deposit takes: in a reduce-only market, or on request, at most the
\* user's debt.
DepositAmount(m, p, amount, reduce_only) ==
    IF (reduce_only \/ "ReduceOnly" \in gates) /\ p.balance_type = "Borrow"
      THEN Lesser(PositionTokens(m, p), amount)
      ELSE amount
Credited(m, p, tokens) ==
    UpdatePosition(m, Net(p, tokens), tokens, "Deposit", FALSE)
DepositOK(m, r) ==
    /\ gates \cap {"DepositPaused", "Deposit"} = {}
    /\ UpdateOK(r, "Deposit", FALSE)
    /\ CreditOK(r.market, r.balance)
    /\ MaxTokensOK(r.market, FALSE)
    /\ DepositCapOK(r.market, Tokens(m, "Deposit"))

\* Faulty: the ledger is credited with the amount named, the vault with the
\* amount taken.
DepositCreditingAmount(u, amount, reduce_only) ==
    \E m \in {Cranked(market)} :
    \E tokens \in {DepositAmount(m, position[u], amount, reduce_only)} :
    \E r \in {Credited(m, position[u], amount)} :
    /\ DepositOK(m, r)
    /\ market' = r.market
    /\ position' = [position EXCEPT ![u] = r.balance]
    /\ vault' = vault + tokens
    /\ UNCHANGED <<gates, now>>

\* handle_deposit: also how a borrow is repaid
Deposit(u, amount, reduce_only) ==
    \E m \in {Cranked(market)} :
    \E tokens \in {DepositAmount(m, position[u], amount, reduce_only)} :
    \E r \in {Credited(m, position[u], tokens)} :
    /\ DepositOK(m, r)
    /\ market' = r.market
    /\ position' = [position EXCEPT ![u] = r.balance]
    /\ vault' = vault + tokens
    /\ UNCHANGED <<gates, now>>

\* update_spot_balances_and_cumulative_deposits_with_limits, for a debit
DebitOK(m, r, tokens) ==
    /\ UpdateOK(r, "Borrow", TRUE)
    /\ CheckWithdrawLimits(r.market, r.balance, tokens)
    /\ DepositCapOK(r.market, Tokens(m, "Deposit"))
    /\ "Withdraw" \notin gates

\* What a debit takes: in a reduce-only market, or on request, at most the
\* user's deposit.
DebitAmount(m, p, amount, reduce_only) ==
    IF reduce_only \/ "ReduceOnly" \in gates
      THEN Lesser(amount, PositionTokens(m, p))
      ELSE amount
DebitAdmitted(p, reduce_only) ==
    reduce_only \/ "ReduceOnly" \in gates => p.balance_type = "Deposit"

\* handle_withdraw: also how a borrow is opened
Withdraw(u, amount, reduce_only) ==
    \E m \in {Cranked(market)} :
    \E p \in {position[u]} :
    \E tokens \in {DebitAmount(m, p, amount, reduce_only)} :
    \E r \in {UpdatePosition(m, Net(p, -tokens), tokens, "Borrow", TRUE)} :
    /\ "WithdrawPaused" \notin gates
    /\ DebitAdmitted(p, reduce_only)
    /\ DebitOK(m, r, tokens)
    /\ vault >= tokens
    /\ VaultAmountOK(r.market, vault - tokens)
    /\ MaxTokensOK(r.market, r.balance.balance_type = "Borrow")
    /\ market' = r.market
    /\ position' = [position EXCEPT ![u] = r.balance]
    /\ vault' = vault - tokens
    /\ UNCHANGED <<gates, now>>

\* transfer_spot_deposit
TransferDeposit(u, v, amount) ==
    u # v /\
    \E m \in {Cranked(market)} :
    \E tokens \in {DebitAmount(m, position[u], amount, FALSE)} :
    \E from \in {UpdatePosition(m, Net(position[u], -tokens), tokens,
                                "Borrow", TRUE)} :
    \E to \in {UpdatePosition(from.market, Net(position[v], tokens), tokens,
                              "Deposit", FALSE)} :
    /\ gates \cap {"DepositPaused", "WithdrawPaused"} = {}
    /\ DebitAdmitted(position[u], FALSE)
    /\ DebitOK(m, from, tokens)
    /\ UpdateOK(to, "Deposit", FALSE)
    /\ CreditOK(to.market, to.balance)
    /\ VaultAmountOK(to.market, vault)
    /\ MaxTokensOK(to.market, FALSE)
    /\ market' = to.market
    /\ position' = [position EXCEPT ![u] = from.balance, ![v] = to.balance]
    /\ UNCHANGED <<vault, gates, now>>

\* handle_deposit_into_spot_market_revenue_pool
DepositIntoRevenuePool(amount) ==
    \E r \in {UpdateRevenuePool(Cranked(market), amount, "Deposit", FALSE)} :
    /\ gates \cap {"DepositPaused", "Deposit", "Expired"} = {}
    /\ MaxTokensOK(r.market, FALSE)
    /\ VaultAmountOK(r.market, vault + amount)
    /\ market' = r.market
    /\ vault' = vault + amount
    /\ UNCHANGED <<position, gates, now>>

\* settle_revenue_to_insurance_fund: how much may go, and the debit.  The caps
\* of the fund only lower the amount (see InsuranceFund): any amount up to the
\* limit may be settled.
RevenueLimit(m) ==
    LET pool == GetTokenAmount(m.revenue_pool, m.cumulative_deposit_interest,
                               "Deposit")
    IN  IF DepositorsClaim(m) < pool
          THEN Greater(DepositorsClaim(m), 0) \div 2 ELSE pool
SettleRevenue(m, amount) == UpdateRevenuePool(m, amount, "Borrow", TRUE)
SettleRevenueOK(m, amount) ==
    /\ VaultAmountOK(m, vault)
    /\ amount <= RevenueLimit(m)
    /\ UpdateOK(SettleRevenue(m, amount), "Borrow", TRUE)
    /\ vault >= amount
    /\ VaultAmountOK(SettleRevenue(m, amount).market, vault - amount)

\* handle_settle_revenue_to_insurance_fund
SettleRevenueToInsuranceFund(amount) ==
    \E m \in {Cranked(market)} :
    /\ gates \cap {"WithdrawPaused", "Withdraw"} = {}
    /\ SettleRevenueOK(m, amount)
    /\ market' = SettleRevenue(m, amount).market
    /\ vault' = vault - amount
    /\ UNCHANGED <<position, gates, now>>

\* handle_withdraw_protocol_fees_spot
WithdrawProtocolFees(amount) ==
    \E m \in {Cranked(market)} :
    \E tokens \in {Lesser(amount, GetTokenAmount(m.protocol_fee_pool,
                                  m.cumulative_deposit_interest, "Deposit"))} :
    \E r \in {UpdateProtocolFeePool(m, tokens, "Borrow", TRUE)} :
    /\ tokens > 0
    /\ UpdateOK(r, "Borrow", TRUE)
    /\ vault >= tokens
    /\ VaultAmountOK(r.market, vault - tokens)
    /\ market' = r.market
    /\ vault' = vault - tokens
    /\ UNCHANGED <<position, gates, now>>

\* The tranches of resolve_spot_bankruptcy: the revenue pool, then the
\* insurance vault down to one token, then the depositors.
RevenuePoolPayment(m, debt) ==
    Lesser(debt, GetTokenAmount(m.revenue_pool, m.cumulative_deposit_interest,
                                "Deposit"))
InsurancePayment(rest, fund) == Lesser(rest, SaturatingSub(fund, 1))

\* handle_resolve_spot_bankruptcy: revenue that is due is settled first.
ResolveSpotBankruptcy(u, settled, fund) ==
    position[u].balance_type = "Borrow" /\ position[u].scaled_balance > 0 /\
    \E m \in {Cranked(market)} :
    \E m1 \in {Cranked(SettleRevenue(m, settled).market)} :
    \E debt \in {PositionTokens(m1, position[u])} :
    \E pool \in {RevenuePoolPayment(m1, debt)} :
    \E m2 \in {UpdateRevenuePool(m1, pool, "Borrow", FALSE).market} :
    \E paid \in {InsurancePayment(debt - pool, fund)} :
    \E delta \in {SocialLossDelta(m2, debt - pool - paid)} :
    \E r \in {UpdatePosition(m2, position[u], debt, "Deposit", FALSE)} :
    \E m3 \in {[r.market EXCEPT !.cumulative_deposit_interest = @ - delta]} :
    /\ settled = 0 \/ gates \cap {"WithdrawPaused", "Withdraw"} = {}
    /\ IF settled = 0 THEN VaultAmountOK(market, vault) \/ VaultAmountOK(m, vault)
                      ELSE SettleRevenueOK(m, settled)
    /\ UpdateOK(r, "Deposit", FALSE)
    /\ VaultAmountOK(m3, vault - settled + paid)
    /\ market' = m3
    /\ position' = [position EXCEPT ![u] = r.balance]
    /\ vault' = vault - settled + paid
    /\ UNCHANGED <<gates, now>>

\* handle_update_spot_market_if_factor: books nothing
UpdateIfFactor(f) ==
    /\ f[1] + f[2] < FactorPrecision
    /\ market' = [market EXCEPT !.if_fee_factor = f[1],
                                !.protocol_fee_factor = f[2]]
    /\ UNCHANGED <<position, vault, gates, now>>

\* handle_update_spot_market_paused_operations, handle_update_exchange_status,
\* handle_update_spot_market_status, handle_update_spot_market_expiry and the
\* passing of the expiry: book nothing
UpdateGates(g) ==
    /\ gates' = (gates \cup {g}) \ (gates \cap {g})
    /\ UNCHANGED <<market, position, vault, now>>

Elapse == now < MaxTime /\ now' = now + 1
          /\ UNCHANGED <<market, position, vault, gates>>

UserInstruction ==
    \E u \in Users, a \in Amounts :
        \/ \E reduce_only \in BOOLEAN :
              Deposit(u, a, reduce_only) \/ Withdraw(u, a, reduce_only)
        \/ \E v \in Users : TransferDeposit(u, v, a)

KeeperInstruction ==
    \/ UpdateCumulativeInterest
    \/ RefreshInterest
    \/ \E a \in Amounts : \/ DepositIntoRevenuePool(a)
                          \/ SettleRevenueToInsuranceFund(a)
                          \/ WithdrawProtocolFees(a)
    \/ \E u \in Users, a \in Amounts \cup {0}, f \in FundBalances :
          ResolveSpotBankruptcy(u, a, f)

AdminInstruction ==
    (\E f \in Factors : UpdateIfFactor(f)) \/ (\E g \in AdminSwitches : UpdateGates(g))

Instruction == UserInstruction \/ KeeperInstruction \/ AdminInstruction

Next == Instruction \/ Elapse

Spec == Init /\ [][Next]_vars

-----------------------------------------------------------------------------
(* Properties *)

Balances == {"Deposit", "Borrow"}

\* Every field has its type.  Signed fields of the code are integers here;
\* an unsigned field below zero is a checked subtraction that failed.
TypeOK ==
    /\ market \in [deposit_balance : Nat, borrow_balance : Nat,
                   cumulative_deposit_interest : Nat \ {0},
                   cumulative_borrow_interest : Nat \ {0},
                   last_interest_ts : 0..now,
                   revenue_pool : Nat, protocol_fee_pool : Nat,
                   carveout_dust : 0..(FactorPrecision - 1),
                   insurance_fund_dust : 0..(FactorPrecision - 1),
                   if_token_dust : 0..(BalancePrecision - 1),
                   protocol_token_dust : 0..(BalancePrecision - 1),
                   if_fee_factor : Nat, protocol_fee_factor : Nat,
                   deposit_token_twap : Nat, borrow_token_twap : Nat,
                   utilization_twap : Nat, last_twap_ts : 0..now]
    /\ position \in [Users -> [scaled_balance : Nat, balance_type : Balances,
                               cumulative_deposits : Int, net_deposits : Int]]
    /\ vault \in Nat
    /\ gates \subseteq Switches
    /\ now \in Nat

SumScaled(type) ==
    LET scaled(u) == IF position[u].balance_type = type
                       THEN position[u].scaled_balance ELSE 0
    IN  FoldFunction(+, 0, [u \in Users |-> scaled(u)])

\* What the comments on SpotMarket::deposit_balance and borrow_balance say
\* (state/spot_market.rs): the market's totals are the sums of the scaled
\* balances of the users and pools.  Every instruction moves a position, a pool
\* and a total separately, so a missed or doubled half shows here.
LedgerBalanced ==
    /\ market.deposit_balance =
           SumScaled("Deposit") + market.revenue_pool + market.protocol_fee_pool
    /\ market.borrow_balance = SumScaled("Borrow")

\* The weaker fact that survives the dust a reduction leaves behind: no scaled
\* unit appears or disappears, and deposits in use never exceed the total, so
\* the last depositor's withdrawal cannot fail on the subtraction.
NoScaledUnitLost ==
    /\ SumScaled("Deposit") + SumScaled("Borrow")
         + market.revenue_pool + market.protocol_fee_pool
           = market.deposit_balance + market.borrow_balance
    /\ SumScaled("Deposit") + market.revenue_pool + market.protocol_fee_pool
           <= market.deposit_balance

\* What depositors could claim after borrowers repay, before any rounding and
\* with the carveouts' remainders, in units of 1/BalancePrecision of a token.
ExactClaim(m) ==
    m.deposit_balance * m.cumulative_deposit_interest
        + m.if_token_dust + m.protocol_token_dust
        - m.borrow_balance * m.cumulative_borrow_interest
Shortfall(m, v) == ExactClaim(m) - v * BalancePrecision

\* handle_refresh_spot_market_interest skips the vault check because booking
\* "can only lower the depositors' claim, never raise it"
\* (instructions/keeper.rs).  What the clamp guarantees is a little less: the
\* tokens credited, carveouts and remainders included, exceed those charged to
\* borrowers by less than one base unit.
BookingNearlyConserves ==
    ExactClaim(Cranked(market)) < ExactClaim(market) + BalancePrecision

\* Positions, pools and totals stay in step through every instruction, and a
\* booking of interest credits no more than it charges.
LedgerSound == TypeOK /\ NoScaledUnitLost /\ BookingNearlyConserves

\* No instruction, bankruptcy included, makes the vault fall short of the
\* claims by more than the rounding of one booking and of one scaled unit on
\* each side: every token that moves in the ledger moves in the vault, and a
\* loss is borne whole unless it leaves no depositor a token to bear it with.
RoundingBounded ==
    \E m \in {Cranked(market)} :
        \/ Shortfall(market', vault') < Shortfall(market, vault) + BalancePrecision
             + m.cumulative_deposit_interest + m.cumulative_borrow_interest
        \/ Tokens(market', "Deposit") = 0

\* An instruction that takes tokens out of the vault and writes off no debt (a
\* withdrawal or borrow, a revenue settlement, a protocol fee withdrawal) rounds
\* against whoever takes them: once interest is booked it leaves the others no
\* worse covered.
LeavingKeepsBacking ==
    vault' < vault /\ market'.borrow_balance >= market.borrow_balance
        => Shortfall(market', vault') <= Shortfall(Cranked(market), vault)

\* What the vault holds keeps up with what is claimed from it, step by step.
ClaimsStayBacked == [][RoundingBounded /\ LeavingKeepsBacking]_vars

\* The amounts a borrower may offer for the debt while deposits are not paused
\* and no dust has changed sides (a debt that took over a deposit's dust exceeds
\* the market's total, and the subtraction fails), and whether handle_deposit
\* takes them.
Repayments ==
    {r \in Users \X Amounts :
        /\ position[r[1]].balance_type = "Borrow"
        /\ r[2] <= PositionTokens(market, position[r[1]])
        /\ gates \cap {"DepositPaused", "Deposit"} = {}
        /\ LedgerBalanced}
RepayAccepted(r) ==
    \E m \in {Cranked(market)} :
        DepositOK(m, Credited(m, position[r[1]], r[2]))

\* Being above its daily deposit cap, by interest say, never makes a market
\* refuse a repayment of any part of a debt
\* (validate_deposit_cap_after_increase): the only cap that does is
\* max_token_deposits, once the market's deposits with the interest due have
\* passed it (validate_max_token_deposits_and_borrows).
OnlyAbsoluteCapRefusesRepayment ==
    \A r \in Repayments : RepayAccepted(r) \/ ~MaxTokensOK(Cranked(market), FALSE)

\* No cap on deposits stands in the way of a repayment: the comment of
\* handle_deposit (finding #118) calls it a defect that a level check "blocked a
\* borrow repayment through this instruction whenever the market already sat
\* above its cap".
NoCapRefusesRepayment == \A r \in Repayments : RepayAccepted(r)

\* However many small accounts use the exception to the withdrawal limits, they
\* share one budget: deposits never fall more than withdraw_guard_threshold
\* below the floor the circuit breaker sets from the 24h average.
ExceptionsShareOneBudget ==
    Tokens(market, "Deposit") >=
        SaturatingSub(CalculateMinDepositTokenAmount(market.deposit_token_twap),
                      Guard.withdraw_guard_threshold)
=============================================================================
