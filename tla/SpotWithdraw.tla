---------------------------- MODULE SpotWithdraw ----------------------------
(***************************************************************************)
(* The limits on what may leave or enter a spot market                     *)
(* (math/spot_withdraw.rs): the circuit breaker on withdrawals and borrows *)
(* sized by 24h averages, the exception for small accounts with its        *)
(* market-wide budget, the daily deposit cap, and the check that the vault *)
(* covers what depositors can claim.                                       *)
(***************************************************************************)
EXTENDS SpotMath

CONSTANTS
    BpsPrecision,
    Guard       \* the market's limits: withdraw_guard_threshold,
                \* withdraw_circuit_breaker_bps, deposit_guard_threshold,
                \* max_deposit_bps_per_day, max_token_deposits,
                \* max_token_borrows (the fraction of max_token_deposits, or
                \* NoLimit), pool_id

NoLimit == 2^30   \* u128::MAX: above every amount

ASSUME GuardAssumption ==
    /\ BpsPrecision \in Nat \ {0}
    /\ Guard.withdraw_guard_threshold \in Nat
    /\ Guard.withdraw_circuit_breaker_bps \in 0..BpsPrecision
    /\ Guard.deposit_guard_threshold \in Nat
    /\ Guard.max_deposit_bps_per_day \in Nat
    /\ Guard.max_token_deposits \in Nat
    /\ Guard.max_token_borrows \in Nat \ {0}
    /\ Guard.pool_id \in Nat

CalculateMinDepositTokenAmount(twap) ==
    LET bps      == IF Guard.withdraw_circuit_breaker_bps = 0
                      THEN BpsPrecision \div 4
                      ELSE Guard.withdraw_circuit_breaker_bps
        max_drop == (twap * bps) \div BpsPrecision
    IN  twap - Greater(max_drop, Lesser(Guard.withdraw_guard_threshold, twap))

CalculateMaxDepositTokenAmount(twap) ==
    Greater(twap + (twap * Guard.max_deposit_bps_per_day) \div BpsPrecision,
            Guard.deposit_guard_threshold)

CheckDepositLimits(m) ==
    \/ Guard.max_deposit_bps_per_day = 0
    \/ Tokens(m, "Deposit") <= CalculateMaxDepositTokenAmount(m.deposit_token_twap)

\* Faulty: every credit is held to the cap, a repayment too.
DepositCapOnEveryCredit(m, before) == CheckDepositLimits(m)

\* validate_deposit_cap_after_increase: binds only a step that raised deposits.
DepositCapOK(m, before) ==
    Tokens(m, "Deposit") > before => CheckDepositLimits(m)

CalculateMaxBorrowTokenAmount(m) ==
    LET deposits == Lesser(Tokens(m, "Deposit"), m.deposit_token_twap)
        main     == Guard.pool_id = 0
        base     == deposits \div (IF main THEN 3 ELSE 2)
        step     == deposits \div (IF main THEN 5 ELSE 3)
        reserve  == deposits \div (IF main THEN 14 ELSE 20)
    IN  Lesser(Greater(Guard.withdraw_guard_threshold,
                       Lesser(Greater(base, m.borrow_token_twap + step),
                              deposits - reserve)),
               Guard.max_token_borrows)

\* calculate_token_utilization_limits
MaxWithdrawUtilization(m) ==
    Greater(RateCurve.optimal_utilization,
            m.utilization_twap
              + SaturatingSub(UtilizationPrecision, m.utilization_twap) \div 2)
MinDepositForUtilization(m) ==
    Lesser((Tokens(m, "Borrow") * UtilizationPrecision)
               \div MaxWithdrawUtilization(m),
           SaturatingSub(Tokens(m, "Deposit"), Guard.withdraw_guard_threshold))
MaxBorrowForUtilization(m) ==
    Greater((MaxWithdrawUtilization(m) * Tokens(m, "Deposit"))
                \div UtilizationPrecision,
            Guard.withdraw_guard_threshold)

MinDepositToken(m) ==
    Greater(CalculateMinDepositTokenAmount(m.deposit_token_twap),
            MinDepositForUtilization(m))
MaxBorrowToken(m) ==
    Lesser(CalculateMaxBorrowTokenAmount(m), MaxBorrowForUtilization(m))

\* check_user_exception_to_withdraw_limits: p is the position after the
\* withdrawal of amount.
UserException(m, p, amount) ==
    /\ p.net_deposits >= 0
    /\ p.cumulative_deposits >= 0
    /\ p.balance_type = "Deposit"
    /\ PositionTokens(m, p) + amount < Guard.withdraw_guard_threshold \div 10

\* Faulty: each exception is checked alone.
NoExceptionFloor(m) == 0

\* The market-wide budget of all exceptions.
ExceptionFloor(m) ==
    SaturatingSub(MinDepositToken(m), Guard.withdraw_guard_threshold)

CheckWithdrawLimits(m, p, amount) ==
    \/ /\ p.balance_type = "Borrow" => Tokens(m, "Borrow") <= MaxBorrowToken(m)
       /\ Tokens(m, "Deposit") >= MinDepositToken(m)
    \/ /\ UserException(m, p, amount)
       /\ Tokens(m, "Deposit") >= ExceptionFloor(m)

\* validate_max_token_deposits_and_borrows
MaxTokensOK(m, borrow_check) ==
    /\ \/ Guard.max_token_deposits = 0
       \/ Tokens(m, "Deposit") <= Guard.max_token_deposits
    /\ (borrow_check /\ Guard.max_token_deposits > 0) =>
           Tokens(m, "Borrow") <= Guard.max_token_borrows

DepositorsClaim(m) == Tokens(m, "Deposit") - Tokens(m, "Borrow")

\* validate_spot_balances
SpotBalancesOK(m) ==
    LET tokens(b) == GetTokenAmount(b, m.cumulative_deposit_interest, "Deposit")
    IN  tokens(m.revenue_pool) + tokens(m.protocol_fee_pool)
            <= Tokens(m, "Deposit")

\* validate_spot_market_vault_amount
VaultAmountOK(m, vault) ==
    SpotBalancesOK(m) /\ vault >= DepositorsClaim(m)
=============================================================================
