---------------------------- MODULE InsuranceFund ----------------------------
(***************************************************************************)
(* The insurance fund of one spot market: stakers own shares of a token    *)
(* vault, leave through a request / wait / remove protocol, revenue is     *)
(* settled into the vault once per period, and bankruptcies and pnl        *)
(* deficits draw on it.  Every action is one instruction, executed         *)
(* atomically (controller/insurance.rs, instructions/if_staker.rs).        *)
(*                                                                         *)
(* When draws leave the shares worth far less than a token the fund is     *)
(* rebased: its share counts are divided by a power of ten at once, those  *)
(* of a staker only at the staker's next instruction.                      *)
(***************************************************************************)
EXTENDS ShareMath, Functions

CONSTANTS
    Stakers,              \* authorities that may hold a stake
    StakeAmounts,         \* token amounts passed to add and request_remove
    Losses,               \* losses a draw may be asked to cover
    Revenues,             \* amounts of revenue that reach the revenue pool
    Donations,            \* token amounts sent to the vault from outside
    Claims,               \* depositors' claims on the spot vault met at a settle
    Pausable,             \* the pause switches the admin may use
    UnstakingPeriod,
    RevenueSettlePeriod,
    SettlesPerYear,       \* ONE_YEAR / revenue_settle_period
    MaxTime,              \* bound on the clock
    MaxExpo               \* bound on shares_base, and so on a rebase's exponent

Pauses == {"Init", "Add", "RequestRemove", "Remove",  \* InsuranceFundOperation
           "Withdraw",                \* SpotOperation::Withdraw, this market
           "WithdrawPaused"}          \* ExchangeStatus, every market

ASSUME FundAssumption ==
    /\ StakeAmounts \subseteq Nat \ {0}
    /\ Losses \subseteq Nat /\ Revenues \subseteq Nat /\ Donations \subseteq Nat
    /\ Claims \subseteq Int
    /\ Pausable \subseteq Pauses
    /\ UnstakingPeriod \in Nat
    /\ RevenueSettlePeriod \in Nat \ {0}
    /\ SettlesPerYear \in Nat \ {0}
    /\ MaxTime \in Nat
    /\ MaxExpo \in 0..9

VARIABLES
    fund,    \* the market's share counts, the vault's tokens, the revenue pool
    stake,   \* InsuranceFundStake of each staker
    opened,  \* stakers whose stake account is initialized
    paused,  \* pause switches that are on
    now      \* Clock::unix_timestamp

vars == <<fund, stake, opened, paused, now>>

-----------------------------------------------------------------------------
(* Share prices: math/insurance.rs *)

\* deposit_amount_and_shares_for_if_stake: whole shares only, and their exact
\* price rounded up.
SharesForDeposit(amount, total, vault) ==
    IF vault = 0 THEN amount ELSE (amount * total) \div vault
DepositForSharesFloored(n, total, vault) ==   \* faulty: rounds the price down
    IF vault = 0 THEN n ELSE (n * vault) \div total
DepositForShares(n, total, vault) ==
    IF vault = 0 THEN n ELSE CeilDiv(n * vault, total)

\* calculate_rebase_info: the power of ten the shares are divided by.
RebaseExpo(f) == Log10((f.total_shares \div 10) \div f.vault)

IfSharesLostAtCurrentPrice(st, f) ==   \* faulty: restakes into the whole pool
    LET n      == st.last_withdraw_request_shares
        frozen == st.last_withdraw_request_value
    IN  IF IfSharesToVaultAmount(n, f.total_shares, f.vault) <= frozen
          THEN 0
          ELSE n - VaultAmountToIfShares(frozen, f.total_shares, f.vault)

\* calculate_if_shares_lost: a cancelled request is priced as a withdrawal of
\* its frozen value restaked at the current price.
IfSharesLost(st, f) ==
    LET n      == st.last_withdraw_request_shares
        frozen == st.last_withdraw_request_value
    IN  IF \/ n >= f.total_shares
           \/ IfSharesToVaultAmount(n, f.total_shares, f.vault) <= frozen
          THEN 0
          ELSE n - VaultAmountToIfShares(frozen, f.total_shares - n,
                                         f.vault - frozen)

-----------------------------------------------------------------------------
(* Steps the instructions share: controller/insurance.rs *)

\* add_insurance_fund_stake's bootstrap guard: shares no staker owns, one per
\* token already in the vault.
Seed(f) == IF f.total_shares = 0 THEN [f EXCEPT !.total_shares = f.vault] ELSE f

RebaseTotalOnly(f) ==   \* faulty: leaves user_shares in the old base
    IF f.vault = 0 \/ f.vault >= f.total_shares THEN f
    ELSE [f EXCEPT !.total_shares = @ \div Pow10(RebaseExpo(f)),
                   !.shares_base = @ + RebaseExpo(f)]

\* apply_rebase_to_insurance_fund
Rebase(f) ==
    IF f.vault = 0 THEN f
    ELSE IF f.vault < f.total_shares
      THEN LET d == Pow10(RebaseExpo(f))
           IN  Seed([f EXCEPT !.total_shares = @ \div d,
                              !.user_shares  = @ \div d,
                              !.shares_base  = @ + RebaseExpo(f)])
      ELSE Seed(f)

\* apply_rebase_to_insurance_fund_stake
RebaseStake(st, f) ==
    LET d == Pow10(f.shares_base - st.if_base)
    IN  [st EXCEPT !.if_base = f.shares_base,
                   !.if_shares = @ \div d,
                   !.last_withdraw_request_shares = @ \div d]

PayUnrecorded(f, amount) ==   \* faulty: forgets record_insurance_fund_outflow
    [f EXCEPT !.vault = @ - amount]

\* record_insurance_fund_outflow, with the transfer out of the vault.
Pay(f, amount) ==
    [f EXCEPT !.vault = @ - amount,
              !.if_last_settle_vault_amount = Lesser(@, f.vault - amount)]

\* settle_revenue_to_insurance_fund: what the settle moves.
RevenueToSettle(f, claim) ==
    LET available == IF claim < f.revenue
                       THEN Greater(claim, 0) \div 2
                       ELSE f.revenue
        cap_vault == Lesser(f.vault, f.if_last_settle_vault_amount)
    IN  IF f.user_shares > 0
          THEN Lesser(available \div 10, (10 * cap_vault) \div SettlesPerYear)
          ELSE available

SettleRevenue(f, claim) ==
    LET amount == RevenueToSettle(f, claim)
    IN  Seed([f EXCEPT !.vault = @ + amount,
                       !.revenue = @ - amount,
                       !.if_last_settle_vault_amount = f.vault + amount,
                       !.last_revenue_settle_ts = now])

SettleDue(f) ==
    OnTheHourUpdate(now, f.last_revenue_settle_ts, RevenueSettlePeriod) = 0

NoSettle(claim) == fund   \* faulty: leaves due revenue unsettled

\* attempt_settle_revenue_to_insurance_fund: the settle folded into other
\* instructions, skipped while withdrawals are paused.
AttemptSettle(claim) ==
    IF paused \cap {"Withdraw", "WithdrawPaused"} = {} /\ SettleDue(fund)
      THEN SettleRevenue(fund, claim)
      ELSE fund

NewStake == [if_shares |-> 0, if_base |-> 0,
             last_withdraw_request_shares |-> 0,
             last_withdraw_request_value |-> 0,
             last_withdraw_request_ts |-> 0]

\* update_user_stats_if_stake_amount values the stake and refuses one above
\* the total.
StatsUpdatable(if_shares, total) == if_shares <= total

EndRequest(st) == [st EXCEPT !.last_withdraw_request_shares = 0,
                             !.last_withdraw_request_value = 0,
                             !.last_withdraw_request_ts = now]

-----------------------------------------------------------------------------
(* Instructions: instructions/if_staker.rs, instructions/keeper.rs *)

Init ==
    /\ fund = [vault |-> 0, total_shares |-> 0, user_shares |-> 0,
               shares_base |-> 0, if_last_settle_vault_amount |-> 0,
               last_revenue_settle_ts |-> 0, revenue |-> 0]
    /\ stake = [s \in Stakers |-> NewStake]
    /\ opened = {}
    /\ paused = {}
    /\ now = 0

Initialize(s) ==
    /\ s \notin opened
    /\ "Init" \notin paused
    /\ opened' = opened \cup {s}
    /\ stake' = [stake EXCEPT ![s] = NewStake]
    /\ UNCHANGED <<fund, paused, now>>

Add(s, requested, claim) ==
    LET settled == AttemptSettle(claim)
        f       == Rebase(Seed(settled))
        st      == RebaseStake(stake[s], f)
        n       == SharesForDeposit(requested, f.total_shares, f.vault)
        amount  == DepositForShares(n, f.total_shares, f.vault)
    IN  /\ s \in opened
        /\ "Add" \notin paused
        /\ stake[s].last_withdraw_request_shares = 0
        /\ stake[s].last_withdraw_request_value = 0
        /\ ~(settled.vault = 0 /\ settled.total_shares # 0)
        /\ f.shares_base <= MaxExpo
        /\ n > 0
        /\ StatsUpdatable(st.if_shares + n, f.total_shares + n)
        /\ fund' = [f EXCEPT !.vault = @ + amount,
                             !.total_shares = @ + n,
                             !.user_shares = @ + n]
        /\ stake' = [stake EXCEPT ![s] = [st EXCEPT !.if_shares = @ + n]]
        /\ UNCHANGED <<opened, paused, now>>

RequestRemove(s, amount, claim) ==
    LET settled == AttemptSettle(claim)
        n       == VaultAmountToIfShares(amount, settled.total_shares, settled.vault)
        f       == Rebase(settled)
        st      == RebaseStake([stake[s] EXCEPT !.last_withdraw_request_shares = n], f)
        value   == Lesser(IfSharesToVaultAmount(st.last_withdraw_request_shares,
                                                f.total_shares, f.vault),
                          SaturatingSub(f.vault, 1))
    IN  /\ s \in opened
        /\ paused \cap {"RequestRemove", "Withdraw", "WithdrawPaused"} = {}
        /\ stake[s].last_withdraw_request_shares = 0
        /\ settled.vault = 0 => settled.total_shares = 0
        /\ n > 0
        /\ stake[s].if_base = settled.shares_base       \* checked_if_shares
        /\ n <= stake[s].if_shares
        /\ f.shares_base <= MaxExpo
        /\ StatsUpdatable(st.if_shares, f.total_shares)
        /\ fund' = f
        /\ stake' = [stake EXCEPT ![s] =
                       [st EXCEPT !.last_withdraw_request_value = value,
                                  !.last_withdraw_request_ts = now]]
        /\ UNCHANGED <<opened, paused, now>>

CancelChecksRequest(st, f) ==   \* faulty: refuses a request rebased to zero
    st.last_withdraw_request_shares # 0

\* What cancel_request_remove_insurance_fund_stake checks on its way.
CancelChecks(st, f) ==
    LET lost == IfSharesLost(st, f)
    IN  /\ 0 <= lost
        /\ lost <= st.if_shares
        /\ lost <= f.user_shares
        /\ StatsUpdatable(st.if_shares - lost, f.total_shares - lost)

CancelRequestRemove(s, claim) ==
    LET f    == Rebase(AttemptSettle(claim))
        st   == RebaseStake(stake[s], f)
        lost == IfSharesLost(st, f)
    IN  /\ s \in opened
        /\ stake[s].last_withdraw_request_shares # 0
        /\ f.shares_base <= MaxExpo
        /\ CancelChecks(st, f)
        /\ fund' = [f EXCEPT !.total_shares = @ - lost, !.user_shares = @ - lost]
        /\ stake' = [stake EXCEPT ![s] =
                       EndRequest([st EXCEPT !.if_shares = @ - lost])]
        /\ UNCHANGED <<opened, paused, now>>

\* The spot market's utilization check is an input of this module: an
\* unhealthy market refuses the removal, which is the step not taken.
Remove(s) ==
    LET f      == Rebase(fund)
        st     == RebaseStake(stake[s], f)
        n      == st.last_withdraw_request_shares
        amount == Lesser(IfSharesToVaultAmount(n, f.total_shares, f.vault),
                         st.last_withdraw_request_value)
    IN  /\ s \in opened
        /\ paused \cap {"Remove", "WithdrawPaused"} = {}
        /\ now - stake[s].last_withdraw_request_ts >= UnstakingPeriod
        /\ f.shares_base <= MaxExpo
        /\ 0 < n /\ n <= st.if_shares
        /\ n <= f.total_shares /\ n <= f.user_shares
        /\ IfSharesLost(st, f) >= 0
        /\ StatsUpdatable(st.if_shares - n, f.total_shares - n)
        /\ f.vault - amount > 0
        /\ fund' = Pay([f EXCEPT !.total_shares = @ - n, !.user_shares = @ - n],
                       amount)
        /\ stake' = [stake EXCEPT ![s] =
                       EndRequest([st EXCEPT !.if_shares = @ - n])]
        /\ UNCHANGED <<opened, paused, now>>

\* handle_settle_revenue_to_insurance_fund: the keeper's own instruction, an
\* error when it would move nothing although the cap has a base.
Settle(claim) ==
    /\ paused \cap {"Withdraw", "WithdrawPaused"} = {}
    /\ SettleDue(fund)
    /\ \/ RevenueToSettle(fund, claim) # 0
       \/ fund.user_shares > 0 /\ fund.if_last_settle_vault_amount = 0
    /\ fund' = SettleRevenue(fund, claim)
    /\ UNCHANGED <<stake, opened, paused, now>>

WholeVault(f) == f.vault   \* faulty: a draw may empty the vault

\* The most a draw may take.
DrawLimit(f) == SaturatingSub(f.vault, 1)

\* handle_resolve_perp_pnl_deficit and the two bankruptcy resolutions: settle,
\* then cover a loss and leave at least one token in the vault.
Draw(loss, claim) ==
    LET settled == AttemptSettle(claim)
        amount  == Lesser(loss, DrawLimit(settled))
    IN  /\ fund' = IF amount > 0 THEN Pay(settled, amount) ELSE settled
        /\ UNCHANGED <<stake, opened, paused, now>>

-----------------------------------------------------------------------------
(* The environment *)

\* Fees reach the revenue pool (the perp markets' sweep, lending interest).
RevenueArrives(amount) ==
    /\ fund' = [fund EXCEPT !.revenue = @ + amount]
    /\ UNCHANGED <<stake, opened, paused, now>>

\* A token account accepts transfers from anyone.
Donate(amount) ==
    /\ fund' = [fund EXCEPT !.vault = @ + amount]
    /\ UNCHANGED <<stake, opened, paused, now>>

SetPaused(p) ==
    /\ paused' = IF p \in paused THEN paused \ {p} ELSE paused \cup {p}
    /\ UNCHANGED <<fund, stake, opened, now>>

Tick ==
    /\ now < MaxTime
    /\ now' = now + 1
    /\ UNCHANGED <<fund, stake, opened, paused>>

Instruction ==
    \/ \E s \in Stakers : Remove(s)
    \/ \E s \in Stakers, c \in Claims : CancelRequestRemove(s, c)
    \/ \E s \in Stakers, a \in StakeAmounts, c \in Claims :
         Add(s, a, c) \/ RequestRemove(s, a, c)
    \/ \E c \in Claims : Settle(c)
    \/ \E l \in Losses, c \in Claims : Draw(l, c)
    \/ \E a \in Revenues : RevenueArrives(a)
    \/ \E a \in Donations : Donate(a)
    \/ \E p \in Pausable : SetPaused(p)

Next == Instruction \/ (\E s \in Stakers : Initialize(s)) \/ Tick

Spec == Init /\ [][Next]_vars

-----------------------------------------------------------------------------
(* Properties *)

Funds == [vault : Nat, total_shares : Nat, user_shares : Nat,
          shares_base : 0..MaxExpo, if_last_settle_vault_amount : Nat,
          last_revenue_settle_ts : Nat, revenue : Nat]
InsuranceFundStakes ==
    [if_shares : Nat, if_base : 0..MaxExpo, last_withdraw_request_shares : Nat,
     last_withdraw_request_value : Nat, last_withdraw_request_ts : Nat]

\* Every field of the market and of the stakes keeps its unsigned type: no
\* subtraction of the instructions underflows.
TypeOK ==
    /\ fund \in Funds
    /\ stake \in [Stakers -> InsuranceFundStakes]
    /\ opened \subseteq Stakers
    /\ paused \subseteq Pauses
    /\ now \in Nat

\* What a stake is worth in the fund's current base.
EffectiveShares(s) ==
    stake[s].if_shares \div Pow10(fund.shares_base - stake[s].if_base)

\* Lazily rebased stakes never add up to more than the fund counts as owned by
\* users, which is never more than all the shares there are.
SharesBacked ==
    /\ \A s \in Stakers : stake[s].if_base <= fund.shares_base
    /\ FoldFunction(+, 0, [s \in Stakers |-> EffectiveShares(s)])
         <= fund.user_shares
    /\ fund.user_shares <= fund.total_shares

\* A pending request names shares the staker has, and a frozen value is never
\* left behind without them (it would block add for good).
RequestConsistent ==
    \A s \in Stakers :
      /\ stake[s].last_withdraw_request_shares <= stake[s].if_shares
      /\ stake[s].last_withdraw_request_value > 0 =>
           stake[s].last_withdraw_request_shares > 0

\* The base of the revenue cap never counts tokens the vault no longer holds,
\* whatever draws, removals and donations came since the last settle.
CapBaseNeverAboveVault == fund.if_last_settle_vault_amount <= fund.vault

\* As long as there are shares there is a token behind them, so that shares
\* always have a price and new stakers are never locked out
\* (InvalidIFForNewStakes).
VaultNeverEmptied == fund.total_shares > 0 => fund.vault > 0

\* The fund keeps its types, its requests name shares that exist, and what
\* prices shares and revenue stands for tokens in the vault.
FundSound ==
    TypeOK /\ RequestConsistent /\ CapBaseNeverAboveVault /\ VaultNeverEmptied

\* A pending request can always be cancelled, however the fund was drawn on or
\* rebased meanwhile: none of the checks on the way of cancel fails.
CancelAlwaysPossible ==
    \A s \in Stakers, c \in Claims :
      LET f == Rebase(AttemptSettle(c))
      IN  s \in opened /\ stake[s].last_withdraw_request_shares # 0
            /\ f.shares_base <= MaxExpo
          => CancelChecks(RebaseStake(stake[s], f), f)

\* A stake stays what the fund owes for, through rebases it has not taken part
\* in, and its owner can always take a request back.
StakesHonoured == SharesBacked /\ CancelAlwaysPossible

\* Only a draw lowers what a share is worth: deposits, removals, cancels,
\* settles and rebases never do, for all their rounding.
SharePriceNeverFalls ==
    [][ \/ \E l \in Losses, c \in Claims : Draw(l, c)
        \/ fund.total_shares = 0
        \/ fund'.vault * fund.total_shares >=
             fund.vault * fund'.total_shares
               * Pow10(fund'.shares_base - fund.shares_base) ]_vars

\* A cancel gives back what the request froze: the shares kept are worth no
\* more than the frozen value (unless they are the whole fund), and when any
\* are lost one share more would have been worth more than it.
ForfeitsAppreciation(s) ==
    LET d     == Pow10(fund'.shares_base - stake[s].if_base)
        n     == stake[s].last_withdraw_request_shares \div d
        value == stake[s].last_withdraw_request_value
        kept  == stake'[s].if_shares - (stake[s].if_shares \div d - n)
    IN  /\ 0 <= kept /\ kept <= n
        /\ kept = fund'.total_shares
             \/ kept * fund'.vault < (value + 1) * fund'.total_shares
        /\ kept < n =>
             (kept + 1) * fund'.vault > value * (fund'.total_shares + 1)

\* Exits are priced after revenue that is due: when a request or a cancel is
\* accepted no settle is outstanding, unless withdrawals are paused, which
\* only a cancel may be accepted under; and a cancel keeps no appreciation.
ExitsPricedFairly ==
    [][ \A s \in Stakers, c \in Claims :
          /\ (\E a \in StakeAmounts : RequestRemove(s, a, c)) => ~SettleDue(fund')
          /\ CancelRequestRemove(s, c) =>
               /\ SettleDue(fund') => paused \cap {"Withdraw", "WithdrawPaused"} # {}
               /\ ForfeitsAppreciation(s) ]_vars
=============================================================================
