------------------------ MODULE MCSpotSmallAccounts -------------------------
(***************************************************************************)
(* A market of one large depositor and many accounts small enough for the  *)
(* exception to the withdrawal limits.  The initial state is reached by    *)
(* their deposits and four hourly refreshes.                               *)
(***************************************************************************)
EXTENDS SpotMarket

CONSTANTS Small, Large, SmallDeposit, LargeDeposit

SmallMarketUsers == Small \cup {Large}

SmallMarketAmounts == {SmallDeposit, LargeDeposit \div 2 + 1}

FlatCurve == [optimal_utilization |-> 160, optimal_borrow_rate |-> 0,
            max_borrow_rate |-> 0, min_borrow_rate |-> 0,
            segments |-> [i \in 1..6 |-> [end |-> 160 + i, weight |-> 0]]]

SmallMarketGuard == [withdraw_guard_threshold |-> 100,
            withdraw_circuit_breaker_bps |-> 0,
            deposit_guard_threshold |-> 0, max_deposit_bps_per_day |-> 0,
            max_token_deposits |-> 0, max_token_borrows |-> NoLimit,
            pool_id |-> 0]

NoFactors == {<<0, 0>>}

Deposited(u) == IF u = Large THEN LargeDeposit ELSE SmallDeposit
AllDeposits == LargeDeposit + Cardinality(Small) * SmallDeposit

SmallAccountsInit ==
    /\ now = 4 * TwapWindow
    /\ vault = AllDeposits
    /\ gates = {}
    /\ position = [u \in Users |->
            [scaled_balance |-> GetSpotBalance(Deposited(u), InterestPrecision, FALSE),
             balance_type |-> "Deposit",
             cumulative_deposits |-> Deposited(u), net_deposits |-> Deposited(u)]]
    /\ LET start == [deposit_balance |-> GetSpotBalance(AllDeposits,
                                             InterestPrecision, FALSE),
                     borrow_balance |-> 0,
                     cumulative_deposit_interest |-> InterestPrecision,
                     cumulative_borrow_interest |-> InterestPrecision,
                     last_interest_ts |-> 4 * TwapWindow,
                     revenue_pool |-> 0, protocol_fee_pool |-> 0,
                     carveout_dust |-> 0, insurance_fund_dust |-> 0,
                     if_token_dust |-> 0, protocol_token_dust |-> 0,
                     if_fee_factor |-> 0, protocol_fee_factor |-> 0,
                     deposit_token_twap |-> 0, borrow_token_twap |-> 0,
                     utilization_twap |-> 0, last_twap_ts |-> 0]
           after(m, n) == UpdateTwapStats(m, n * TwapWindow)
       IN  market = after(after(after(after(start, 1), 2), 3), 4)

\* The small accounts are alike, so only one order of their withdrawals is
\* explored.
InTurn(u) ==
    u # Large => \A v \in Small : v < u => position[v].scaled_balance = 0

SmallAccountsNext ==
    \/ \E u \in Users, a \in Amounts : InTurn(u) /\ Withdraw(u, a, TRUE)
    \/ RefreshInterest
    \/ Elapse

SmallAccountsSpec == SmallAccountsInit /\ [][SmallAccountsNext]_vars
=============================================================================
