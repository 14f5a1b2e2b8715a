------------------------------- MODULE Vault -------------------------------
(***************************************************************************)
(* A managed vault (programs/vaults): depositors own shares of the equity  *)
(* of one trading account that a manager runs.  A holder leaves through a  *)
(* request, a redeem period and a withdrawal; the manager and, in a        *)
(* protocol vault, the protocol earn a fee per time and a share of each    *)
(* depositor's profit, both taken in shares.  Shares may be pooled behind  *)
(* a fungible token.  When the equity falls far below the share count the  *)
(* vault is rebased, and each holder at the holder's next instruction.     *)
(*                                                                         *)
(* Every action is one instruction.  The equity is moved by trading, which *)
(* is an input; whether the account has the margin to pay a withdrawal is  *)
(* an input too.  Totals kept for reporting only are left out.             *)
(*                                                                         *)
(* The stages of an instruction (the settled vault, the charged holder)    *)
(* are named by a quantifier over a singleton or by a parameter.           *)
(***************************************************************************)
EXTENDS ShareMath, FiniteSetsExt

CONSTANTS
    Depositors,       \* authorities with a VaultDepositor
    Pool,             \* the TokenizedVaultDepositor
    Precision,        \* PERCENTAGE_PRECISION, and MAX_WITHDRAW_PERCENT
    Year,             \* ONE_YEAR, in units of the clock
    MinTimelock,      \* ONE_WEEK
    LiquidationTime,  \* TIME_FOR_LIQUIDATION
    MaxTokens         \* max_tokens of the vault, 0 for none

ASSUME VaultConstants ==
    /\ Pool \notin Depositors
    /\ {Precision, Year} \subseteq Nat \ {0}
    /\ {MinTimelock, LiquidationTime, MaxTokens} \subseteq Nat

VARIABLES
    vault,      \* Vault, its VaultProtocol and its FeeUpdate
    holder,     \* VaultDepositor of each depositor, TokenizedVaultDepositor
    mint,       \* the pool's token: [supply, issued, last]
    equity,     \* calculate_equity
    stuck,      \* the account lacks the margin to pay withdrawals
    vaultNow,   \* Clock::unix_timestamp
    installed   \* when the policy in force was installed by a fee update

vaultVars == <<vault, holder, mint, equity, stuck, vaultNow, installed>>

Holders == Depositors \cup {Pool}

NoRequest == [shares |-> 0, value |-> 0, ts |-> 0]
NoUpdate == [ts |-> 0, fee |-> 0, profit |-> 0, hurdle |-> 0]

NewVault(p, period) ==
    [total |-> 0, user |-> 0, base |-> 0, lastFee |-> 0, requested |-> 0,
     fee |-> p.fee, profit |-> p.profit, hurdle |-> p.hurdle, redeemPeriod |-> period,
     manager |-> NoRequest, liquidation |-> 0,
     hasProtocol |-> p.hasProtocol, prot |-> 0, protFee |-> p.protFee,
     protProfit |-> p.protProfit, protocol |-> NoRequest, queued |-> NoUpdate]

NewHolder(v) ==
    [shares |-> 0, base |-> v.base, request |-> NoRequest, net |-> 0, cum |-> 0,
     profitAt |-> v.profit, hurdleAt |-> v.hurdle]

\* validate_fee_policy
PolicyValid(p, hasProtocol, protFee, protProfit) ==
    /\ p.fee < Precision /\ p.profit < Precision
    /\ hasProtocol => /\ p.fee + protFee < Precision
                      /\ p.profit + protProfit < Precision
                      /\ p.hurdle = 0

-----------------------------------------------------------------------------
(* Rebase, fees, profit share *)

Divided(request, divisor) == [request EXCEPT !.shares = @ \div divisor]

\* Faulty: the protocol's shares keep the old base.
RebaseProtocolLeft(v, e) ==
    LET expo == IF e # 0 /\ e < v.total THEN Log10((v.total \div 10) \div e) ELSE 0
        w == [v EXCEPT !.total = @ \div Pow10(expo), !.user = @ \div Pow10(expo),
                       !.base = @ + expo, !.manager = Divided(@, Pow10(expo))]
    IN IF e # 0 /\ w.total = 0 THEN [w EXCEPT !.total = e] ELSE w

\* Vault::apply_rebase; equity without shares becomes the manager's.
RebaseVault(v, e) ==
    LET expo == IF e # 0 /\ e < v.total THEN Log10((v.total \div 10) \div e) ELSE 0
        w == [v EXCEPT !.total = @ \div Pow10(expo), !.user = @ \div Pow10(expo),
                       !.prot = @ \div Pow10(expo), !.base = @ + expo,
                       !.manager = Divided(@, Pow10(expo)),
                       !.protocol = Divided(@, Pow10(expo))]
    IN IF e # 0 /\ w.total = 0 THEN [w EXCEPT !.total = e] ELSE w

\* VaultDepositor::apply_rebase, once the vault is rebased.
RebaseHolder(h, v) ==
    [h EXCEPT !.base = v.base, !.shares = @ \div Pow10(v.base - h.base),
              !.request = Divided(@, Pow10(v.base - h.base))]

DepositorEquity(v, e) == IfSharesToVaultAmount(v.user, v.total, e)

Charging(v, e) == (v.fee # 0 \/ v.protFee # 0) /\ DepositorEquity(v, e) > 0

\* The fee of the interval since the last one, and the protocol's part of it;
\* the manager's is rounded towards zero.
FeePayment(v, e, t) ==
    LET de == DepositorEquity(v, e)
        rate == v.fee + v.protFee
        paid == Lesser(TruncDiv(TruncDiv(de * rate, Precision) * (t - v.lastFee), Year), de - 1)
    IN [total |-> paid, protocol |-> paid - Lesser(TruncDiv(paid * v.fee, rate), paid)]

\* The share count that leaves the old shares worth the equity less the payment.
Inflated(v, e, payment) ==
    LET de == DepositorEquity(v, e)
    IN Greater((v.total * ((de * Precision) \div (de - payment))) \div Precision, v.user)

\* A fee update that this instruction is given and whose time has come.
Matured(v, t, given) == given /\ v.queued.ts > 0 /\ t >= v.queued.ts

InstallUpdate(v) ==
    [v EXCEPT !.fee = v.queued.fee, !.profit = v.queued.profit, !.hurdle = v.queued.hurdle,
              !.queued = NoUpdate]

FeeMovesShares(v, e, t) == Inflated(v, e, FeePayment(v, e, t).total) # v.total

\* Faulty: an interval whose fee moves no share stays open under the new rate.
StampsIfMoved(v, e, t, given) == ~Charging(v, e) \/ FeeMovesShares(v, e, t)

\* The interval is closed, unless its fee is too small to move a share and no
\* update is about to change the rate.
Stamps(v, e, t, given) ==
    ~Charging(v, e) \/ FeeMovesShares(v, e, t) \/ Matured(v, t, given)

\* The fee is paid in new shares, and the vault rebased if they are too many.
FeeCharged(v, e, pay) ==
    RebaseVault([v EXCEPT !.total = Inflated(v, e, pay.total),
                          !.prot = @ + Inflated(v, e, pay.protocol) - v.total], e)

Closed(v, t, stamps) == IF stamps THEN [v EXCEPT !.lastFee = t] ELSE v
WithUpdate(v, matured) == IF matured THEN InstallUpdate(v) ELSE v

\* Vault::apply_fee
ApplyFee(v, e, t, given) ==
    WithUpdate(Closed(IF Charging(v, e) THEN FeeCharged(v, e, FeePayment(v, e, t)) ELSE v,
                      t, Stamps(v, e, t, given)),
               Matured(v, t, given))

Payable(v, e, pay) ==
    /\ pay.protocol >= 0 /\ pay.protocol < DepositorEquity(v, e)
    /\ pay.total - pay.protocol < DepositorEquity(v, e)
    /\ Inflated(v, e, pay.protocol) >= v.total

ManagerShares(v) == v.total - v.user - v.prot

\* apply_fee does not abort: a matured policy is within its bounds, the
\* payments are defined (a negative management fee may not outweigh the
\* protocol's) and the manager's shares are not negative.
FeeApplies(v, e, t, given) ==
    /\ Matured(v, t, given) => PolicyValid(v.queued, v.hasProtocol, v.protFee, v.protProfit)
    /\ Charging(v, e) => v.fee + v.protFee # 0 /\ Payable(v, e, FeePayment(v, e, t))
    /\ ManagerShares(ApplyFee(v, e, t, given)) >= 0

\* Rebase and fee, the start of nearly every instruction.  The rebase after the
\* fee finds the vault rebased already.
Settled(v, given) == ApplyFee(RebaseVault(v, equity), equity, vaultNow, given)
Settles(v, given) == FeeApplies(RebaseVault(v, equity), equity, vaultNow, given)

\* vault_amount_to_if_shares refuses to price shares of nothing.
Priced(v, e) == e > 0 \/ v.total = 0

\* The part of a depositor's profit above the hurdle's reach, at the better of
\* the vault's policy and the one the depositor's mark was set under.
Profit(h, v, e) == IfSharesToVaultAmount(h.shares, v.total, e) - (h.net + h.cum)

HurdlePassed(h, v, e) ==
    Profit(h, v, e) > TruncDiv((h.net + h.cum) * Greater(v.hurdle, h.hurdleAt), Precision)

Cut(profit, rate) == (profit * rate) \div Precision

\* Faulty: a profit share worth less than a share takes a whole one.
ProfitSharesUp(amount, v, e) ==
    IF amount > 0 THEN Greater(VaultAmountToIfShares(amount, v.total, e), 1) ELSE 0

ProfitShares(amount, v, e) == VaultAmountToIfShares(amount, v.total, e)

\* The fee leaves the depositor in shares and the mark rises to what remains; a
\* fee worth less than one share is deferred.  The instruction aborts if the fee
\* is worth more than the depositor's shares, as it is for one who has left with
\* an uncharged profit.
TakeFee(h, v, e, profit, fee, protFee) ==
    LET moved == ProfitShares(fee, v, e)
        paid == [h EXCEPT !.shares = @ - moved, !.cum = @ + (profit - fee)]
        atMark == IfSharesToVaultAmount(h.shares, v.total, e) - fee <= paid.net + paid.cum
    IN IF fee > 0 /\ moved = 0 THEN [h |-> h, v |-> v]
       ELSE [h |-> IF atMark THEN [paid EXCEPT !.profitAt = v.profit, !.hurdleAt = v.hurdle]
                   ELSE paid,
             v |-> [v EXCEPT !.user = @ - moved,
                             !.prot = @ + VaultAmountToIfShares(protFee, v.total, e)]]

ChargeProfit(h, v, e, profit) ==
    TakeFee(h, v, e, profit,
            Cut(profit, Lesser(v.profit, h.profitAt)) + Cut(profit, v.protProfit),
            Cut(profit, v.protProfit))

\* apply_profit_share
ApplyProfitShare(h, v, e) ==
    ChargeProfit(h, v, e, IF HurdlePassed(h, v, e) THEN Profit(h, v, e) ELSE 0)

-----------------------------------------------------------------------------
(* Withdraw requests *)

Pending(request) == request.shares # 0 \/ request.value # 0
Due(request, v, t) == t - request.ts >= v.redeemPeriod

\* get_withdraw_value_and_shares; a share count is in the base the holder knew.
Asked(r, shares, v, e, divisor) ==
    CASE r.unit = "Token"  -> [value |-> r.amount,
                               shares |-> VaultAmountToIfShares(r.amount, v.total, e)]
      [] r.unit = "Shares" ->
           LET n == r.amount \div divisor
           IN [value |-> Lesser(IfSharesToVaultAmount(n, v.total, e), e), shares |-> n]
      [] r.unit = "Percent" ->
           LET n == (shares * r.amount) \div Precision
           IN [value |-> Lesser(IfSharesToVaultAmount(n, v.total, e), e), shares |-> n]

\* The guards of a request; a new one may replace one that is worth nothing.
Requestable(old, asked, shares, v, e) ==
    /\ Priced(v, e)
    /\ asked.shares \in 1..shares
    /\ old.value = 0 /\ asked.value <= e

Requested(asked, t) == [shares |-> asked.shares, value |-> asked.value, ts |-> t]

\* Faulty: a request for the whole supply is restaked into an empty pool.
NeverSole(request, v) == FALSE

SoleRequest(request, v) == request.shares >= v.total

\* What the request's value buys back among those who stay.
Restaked(request, v, e) ==
    VaultAmountToIfShares(request.value, v.total - request.shares, e - request.value)

Appreciated(request, v, e) ==
    ~SoleRequest(request, v)
      /\ IfSharesToVaultAmount(request.shares, v.total, e) > request.value

\* calculate_shares_lost, and whether it refuses to burn a whole claim.
SharesLost(request, v, e) ==
    IF Appreciated(request, v, e) THEN request.shares - Restaked(request, v, e) ELSE 0
LossAccepted(request, v, e) ==
    Appreciated(request, v, e) =>
        /\ Restaked(request, v, e) <= request.shares
        /\ Restaked(request, v, e) > 0 \/ request.value = 0

\* Faulty: pays the value frozen at the request though the vault has lost since.
FrozenPayout(request, v, e) == request.value

Payout(request, v, e) ==
    Lesser(IfSharesToVaultAmount(request.shares, v.total, e), request.value)

\* Faulty: takes off what is paid instead of what was asked.
ReleasePaid(v, request, paid) == [v EXCEPT !.requested = @ - paid]

\* total_withdraw_requested no longer holds the request.
Release(v, request, paid) == [v EXCEPT !.requested = @ - request.value]

-----------------------------------------------------------------------------
(* Depositors: instructions/deposit.rs, request_withdraw.rs, ... *)

NoteInstall(v) ==
    installed' = IF vault.queued # NoUpdate /\ v.queued = NoUpdate THEN vaultNow ELSE installed

Become(v, d, h) ==
    /\ vault' = v
    /\ holder' = [holder EXCEPT ![d] = h]
    /\ NoteInstall(v)

\* WithdrawRequest::reset
NoRequestSince == [NoRequest EXCEPT !.ts = vaultNow]

Unmoved == UNCHANGED <<mint, equity, stuck, vaultNow>>

\* The holder in the base of the settled vault.
Synced(d, v) == RebaseHolder(holder[d], v)
Divisor(d, v) == Pow10(v.base - holder[d].base)

\* What a deposit is cut down to.
Accepted(amount) ==
    IF MaxTokens = 0 THEN amount ELSE Lesser(amount, SaturatingSub(MaxTokens, equity))

DepositAt(d, p, amount, n) ==
    /\ p.h.shares >= 0
    /\ amount > 0 /\ n > 0
    /\ Become([p.v EXCEPT !.total = @ + n, !.user = @ + n], d,
              [p.h EXCEPT !.shares = @ + n, !.net = @ + amount])
    /\ equity' = equity + amount
    /\ UNCHANGED <<mint, stuck, vaultNow>>

Deposit(d, wanted) ==
    /\ vault.liquidation = 0
    /\ Priced(vault, equity)
    /\ ~Pending(holder[d].request)
    /\ Settles(vault, TRUE)
    /\ \E v \in {Settled(vault, TRUE)} :
       \E p \in {ApplyProfitShare(Synced(d, v), v, equity)}, amount \in {Accepted(wanted)} :
          DepositAt(d, p, amount, VaultAmountToIfShares(amount, p.v.total, equity))

RequestWithdraw(d, r) ==
    /\ Settles(vault, TRUE) /\ ~Pending(holder[d].request)
    /\ \E v \in {Settled(vault, TRUE)} :
       \E p \in {ApplyProfitShare(Synced(d, v), v, equity)} :
       \E asked \in {Asked(r, p.h.shares, p.v, equity, Divisor(d, v))} :
          /\ Requestable(p.h.request, asked, p.h.shares, p.v, equity)
          /\ Become([p.v EXCEPT !.requested = @ + asked.value], d,
                    [p.h EXCEPT !.request = Requested(asked, vaultNow)])
    /\ Unmoved

CancelAcceptedAt(request, v) == Settles(vault, TRUE) /\ LossAccepted(request, v, equity)

\* A cancelled request forfeits the gain since it was made to those who stay,
\* unless its owner was alone before the fee.
CancelWithdrawRequest(d) ==
    /\ \E v \in {Settled(vault, TRUE)}, before \in {RebaseVault(vault, equity)} :
       \E h \in {Synced(d, v)} :
       \E lost \in {IF before.total = Synced(d, before).shares THEN 0
                    ELSE SharesLost(h.request, v, equity)} :
          /\ CancelAcceptedAt(h.request, v)
          /\ Become(Release([v EXCEPT !.total = @ - lost, !.user = @ - lost], h.request, 0), d,
                    [h EXCEPT !.shares = @ - lost, !.request = NoRequestSince])
    /\ Unmoved

WithdrawAcceptedAt(d, h) ==
    /\ Due(holder[d].request, vault, vaultNow)
    /\ Settles(vault, TRUE)
    /\ h.request.shares \in 1..h.shares

\* By the depositor, or by the manager (force_withdraw).
Withdraw(d) ==
    /\ ~stuck
    /\ \E v \in {Settled(vault, TRUE)} :
       \E h \in {Synced(d, v)} :
       \E n \in {h.request.shares}, paid \in {Payout(h.request, v, equity)} :
          /\ WithdrawAcceptedAt(d, h)
          /\ Become(Release([v EXCEPT !.total = @ - n, !.user = @ - n], h.request, paid), d,
                    [h EXCEPT !.shares = @ - n, !.net = @ - paid, !.request = NoRequestSince])
          /\ equity' = equity - paid
    /\ UNCHANGED <<mint, stuck, vaultNow>>

\* apply_profit_share, by the manager: the depositor must be in the vault's base.
RealizeProfits(d) ==
    /\ FeeApplies(vault, equity, vaultNow, TRUE)
    /\ ~Pending(holder[d].request)
    /\ \E v \in {ApplyFee(vault, equity, vaultNow, TRUE)} :
       \E p \in {ApplyProfitShare(holder[d], v, equity)} :
          /\ Priced(v, equity)
          /\ v.base = holder[d].base /\ p.h.shares >= 0
          /\ Become(p.v, d, p.h)
    /\ Unmoved

\* apply_rebase, by anyone: it may not floor a claim away.
ApplyRebase(d) ==
    /\ \E v \in {RebaseVault(vault, equity)} :
       \E h \in {Synced(d, v)} :
          /\ holder[d].shares > 0 => h.shares > 0
          /\ (holder[d].request.value > 0 /\ holder[d].request.shares > 0)
                => h.request.shares > 0
          /\ Become(v, d, h)
    /\ Unmoved

-----------------------------------------------------------------------------
(* The manager and the protocol: their shares are what the depositors' leave *)
(* of the total, and a count of the protocol's own.                          *)

BecomeVault(v) ==
    /\ vault' = v
    /\ NoteInstall(v)
    /\ UNCHANGED holder

Own(v, who) == IF who = "manager" THEN ManagerShares(v) ELSE v.prot

Taken(v, who, n) ==
    [v EXCEPT !.total = @ - n, !.prot = IF who = "protocol" THEN @ - n ELSE @]

ManagerDeposit(amount) ==
    /\ Settles(vault, FALSE)
    /\ \E v \in {Settled(vault, FALSE)} :
          /\ Priced(v, equity)
          /\ BecomeVault([v EXCEPT !.total = @ + VaultAmountToIfShares(amount, v.total, equity)])
    /\ equity' = equity + amount
    /\ UNCHANGED <<mint, stuck, vaultNow>>

\* A share count is converted by the rebase before the fee only.
RequestOf(who, r) ==
    /\ Settles(vault, FALSE)
    /\ \E v \in {Settled(vault, FALSE)} :
       \E asked \in {Asked(r, Own(v, who), v, equity,
                           Pow10(RebaseVault(vault, equity).base - vault.base))} :
          /\ Requestable(v[who], asked, Own(v, who), v, equity)
          /\ BecomeVault([v EXCEPT ![who] = Requested(asked, vaultNow),
                                  !.requested = @ + asked.value])
    /\ Unmoved

CancelOf(who) ==
    /\ Settles(vault, FALSE)
    /\ \E v \in {Settled(vault, FALSE)}, before \in {RebaseVault(vault, equity)} :
       \E lost \in {IF before.total = Own(before, who) THEN 0 ELSE SharesLost(v[who], v, equity)} :
          /\ LossAccepted(v[who], v, equity)
          /\ BecomeVault([Release(Taken(v, who, lost), v[who], 0) EXCEPT ![who] = NoRequestSince])
    /\ Unmoved

WithdrawOf(who, given) ==
    /\ Due(vault[who], vault, vaultNow) /\ ~stuck
    /\ Settles(vault, given)
    /\ \E v \in {Settled(vault, given)} :
       \E n \in {v[who].shares}, paid \in {Payout(v[who], v, equity)} :
          /\ n \in 1..Own(v, who)
          /\ BecomeVault([Release(Taken(v, who, n), v[who], paid) EXCEPT ![who] = NoRequestSince])
          /\ equity' = equity - paid
    /\ UNCHANGED <<mint, stuck, vaultNow>>

ManagerRequestWithdraw(r) == RequestOf("manager", r)
ManagerCancelWithdrawRequest == CancelOf("manager")
ManagerWithdraw == WithdrawOf("manager", TRUE)

ProtocolRequestWithdraw(r) == vault.hasProtocol /\ RequestOf("protocol", r)
ProtocolCancelWithdrawRequest == vault.hasProtocol /\ CancelOf("protocol")
ProtocolWithdraw == vault.hasProtocol /\ WithdrawOf("protocol", FALSE)

-----------------------------------------------------------------------------
(* Fee policy *)

\* manager_update_fees with no update pending.
QueueFeeUpdate(p, timelock) ==
    /\ vault.liquidation = 0
    /\ vault.queued = NoUpdate
    /\ timelock >= Greater(2 * vault.redeemPeriod, MinTimelock)
    /\ PolicyValid(p, vault.hasProtocol, 0, 0)
    /\ BecomeVault([vault EXCEPT !.queued = [ts |-> vaultNow + timelock, fee |-> p.fee,
                                            profit |-> p.profit, hurdle |-> p.hurdle]])
    /\ Unmoved

\* manager_update_fees with one pending: the fee is settled, and the update
\* installed if its time has come.
InstallFeeUpdate ==
    /\ vault.liquidation = 0
    /\ vault.queued # NoUpdate
    /\ FeeApplies(vault, equity, vaultNow, TRUE)
    /\ BecomeVault(ApplyFee(vault, equity, vaultNow, TRUE))
    /\ Unmoved

\* By the manager, or by the admin who deletes the account.
CancelFeeUpdate ==
    /\ vault.queued # NoUpdate
    /\ vault' = [vault EXCEPT !.queued = NoUpdate]
    /\ UNCHANGED <<holder, installed>>
    /\ Unmoved

\* update_vault: at once, but only for the better of the depositors.
UpdateVault(p, period) ==
    /\ vault.liquidation = 0
    /\ p.fee <= vault.fee /\ p.profit <= vault.profit /\ p.hurdle >= vault.hurdle
    /\ period <= vault.redeemPeriod
    /\ vault' = [vault EXCEPT !.fee = p.fee, !.profit = p.profit, !.hurdle = p.hurdle,
                              !.redeemPeriod = period]
    /\ UNCHANGED <<holder, installed>>
    /\ Unmoved

UpdateVaultProtocol(fee, profit) ==
    /\ vault.hasProtocol /\ vault.liquidation = 0
    /\ fee <= vault.protFee /\ profit <= vault.protProfit
    /\ vault' = [vault EXCEPT !.protFee = fee, !.protProfit = profit]
    /\ UNCHANGED <<holder, installed>>
    /\ Unmoved

-----------------------------------------------------------------------------
(* Liquidation: a depositor who has waited and cannot be paid lets the admin *)
(* close positions for a while.                                             *)

Liquidate(d) ==
    /\ Due(holder[d].request, vault, vaultNow) /\ stuck
    /\ vault.liquidation = 0
    /\ vault' = [vault EXCEPT !.liquidation = vaultNow]
    /\ UNCHANGED <<holder, installed>>
    /\ Unmoved

ResetDelegate ==
    /\ vault.liquidation # 0
    /\ vaultNow - vault.liquidation > LiquidationTime
    /\ vault' = [vault EXCEPT !.liquidation = 0]
    /\ UNCHANGED <<holder, installed>>
    /\ Unmoved

-----------------------------------------------------------------------------
(* Transfers and the tokenized pool *)

\* n shares change hands, and the cost basis with their value.
HandOver(p, q, n, value) ==
    [v |-> q.v, n |-> n, enough |-> n \in 1..p.h.shares /\ q.h.shares >= 0,
     from |-> [p.h EXCEPT !.shares = @ - n, !.net = @ - value],
     to |-> [q.h EXCEPT !.shares = @ + n, !.net = @ + value]]

HandOverShares(p, q, n) ==
    HandOver(p, q, n, Lesser(IfSharesToVaultAmount(n, q.v.total, equity), equity))

HandOverAsked(p, q, r, divisor) ==
    HandOverShares(p, q, Asked(r, p.h.shares, q.v, equity, divisor).shares)

TransferCharged(p, to, r, divisor) ==
    HandOverAsked(p, ApplyProfitShare(to, p.v, equity), r, divisor)

\* transfer_shares in a settled vault: both sides pay their profit share first.
Transfer(v, from, to, r, divisor) ==
    TransferCharged(ApplyProfitShare(from, v, equity), to, r, divisor)

\* The transfers that a signer may ask for, between holders in one base.
Moves(from, to, r) ==
    {Transfer(v, Synced(from, v), Synced(to, v), r, Divisor(from, v)) :
        v \in {Settled(vault, TRUE)}}

CanMove(from, to, m) ==
    /\ vault.liquidation = 0
    /\ ~Pending(holder[from].request) /\ ~Pending(holder[to].request)
    /\ holder[from].base = holder[to].base
    /\ Settles(vault, TRUE) /\ Priced(m.v, equity)
    /\ m.enough

BecomeBoth(v, d, h, c, g) ==
    /\ vault' = v
    /\ holder' = [holder EXCEPT ![d] = h, ![c] = g]
    /\ NoteInstall(v)
    /\ UNCHANGED <<equity, stuck, vaultNow>>

\* Refused if either side's shares shrink by a rebase or a profit share.
TransferShares(from, to, r) ==
    /\ from # to
    /\ \E m \in Moves(from, to, r) :
          /\ CanMove(from, to, m)
          /\ m.from.shares + m.to.shares = holder[from].shares + holder[to].shares
          /\ BecomeBoth(m.v, from, m.from, to, m.to)
    /\ UNCHANGED mint

TokensFor(n, issued, last) == VaultAmountToIfShares(n, issued, last)

\* The pool must be worth its basis, at its checkpoint and owe no profit share:
\* the second charge finds what rounding left of the first.
TokenizeAt(d, m, a, tokens) ==
    /\ CanMove(d, Pool, m)
    /\ Settles(m.v, FALSE) /\ a.v.base = m.to.base
    /\ vault.base = holder[Pool].base
    /\ IfSharesToVaultAmount(a.h.shares, a.v.total, equity) >= a.h.net + a.h.cum
    /\ mint.last + m.n = a.h.shares
    /\ mint.last > 0 \/ mint.issued = 0
    /\ m.from.shares + a.h.shares = holder[d].shares + holder[Pool].shares
    /\ tokens > 0
    /\ mint' = [supply |-> mint.supply + tokens, issued |-> mint.issued + tokens,
                last |-> a.h.shares]
    /\ BecomeBoth(a.v, d, m.from, Pool, a.h)

TokenizeShares(d, r) ==
    \E m \in Moves(d, Pool, r) :
    \E v \in {Settled(m.v, FALSE)} :
        TokenizeAt(d, m, ApplyProfitShare(m.to, v, equity),
                   TokensFor(m.n, mint.issued, mint.last))

\* Faulty: priced at the checkpoint, before the pool has paid its profit share.
SharesAtCheckpoint(tokens, issued, shares) == IfSharesToVaultAmount(tokens, issued, mint.last)

SharesFor(tokens, issued, shares) == IfSharesToVaultAmount(tokens, issued, shares)

\* release_unredeemable_shares: the last live token closes the pool, and what
\* backs tokens burned elsewhere falls to all, unless it is the whole vault.
Released(v, h, next) ==
    IF h.shares > 0 /\ h.shares = v.total THEN [v |-> v, h |-> h, mint |-> next]
    ELSE [v |-> [v EXCEPT !.total = @ - h.shares, !.user = @ - h.shares],
          h |-> [h EXCEPT !.shares = 0, !.net = 0, !.cum = 0],
          mint |-> [supply |-> 0, issued |-> 0, last |-> 0]]

AfterRedeem(m, tokens, next) ==
    IF tokens = mint.supply THEN Released(m.v, m.from, next)
    ELSE [v |-> m.v, h |-> m.from, mint |-> next]

\* All the shares but those of the other depositors.
Domain(v, h, g) == h.shares + g.shares + (v.total - v.user)

\* The receiver must be in the base the vault is in after the pool's settling,
\* and the second settling, by the transfer, may not move a share.
RedeemTokens(d, tokens) ==
    /\ vault.liquidation = 0
    /\ ~Pending(holder[d].request)
    /\ tokens \in 1..mint.supply
    /\ Settles(vault, TRUE)
    /\ \E v \in {Settled(vault, TRUE)} :
       \E a \in {ApplyProfitShare(Synced(Pool, v), v, equity)} :
       \E w \in {Settled(a.v, FALSE)}, n \in {SharesFor(tokens, mint.issued, a.h.shares)} :
       \E m \in {Transfer(w, RebaseHolder(a.h, w), Synced(d, w),
                          [unit |-> "Shares", amount |-> n], Pow10(w.base - v.base))} :
       \E end \in {AfterRedeem(m, tokens, [supply |-> mint.supply - tokens,
                                           issued |-> mint.issued - tokens,
                                           last |-> m.from.shares])} :
          /\ Priced(v, equity)
          /\ Settles(a.v, FALSE)
          /\ holder[d].base = v.base
          /\ m.enough /\ m.n = n
          /\ Domain(m.v, m.from, m.to) = Domain(a.v, a.h, holder[d])
          /\ mint' = end.mint
          /\ BecomeBoth(end.v, d, m.to, Pool, end.h)

\* By anyone; the checkpoint stays in the old base.
ApplyRebaseTokenized ==
    /\ \E v \in {RebaseVault(vault, equity)} :
       \E h \in {Synced(Pool, v)} :
          /\ holder[Pool].shares > 0 => h.shares > 0
          /\ Become(v, Pool, h)
    /\ Unmoved

-----------------------------------------------------------------------------
(* Outside the program *)

\* A holder burns tokens through the token program.
BurnTokens(n) ==
    /\ n <= mint.supply
    /\ mint' = [mint EXCEPT !.supply = @ - n]
    /\ UNCHANGED <<vault, holder, equity, stuck, vaultNow, installed>>

\* Trading moves the equity, and positions take or free the margin.
Trades(e, s) ==
    /\ equity' = e /\ stuck' = s
    /\ UNCHANGED <<vault, holder, mint, vaultNow, installed>>

TimePasses(n) ==
    /\ vaultNow' = vaultNow + n
    /\ UNCHANGED <<vault, holder, mint, equity, stuck, installed>>

-----------------------------------------------------------------------------
(* Properties *)

RequestType(r) == {r.shares, r.value, r.ts} \subseteq Nat

VaultTypeOK ==
    /\ {vault.total, vault.user, vault.prot, vault.base, vault.requested} \subseteq Nat
    /\ RequestType(vault.manager) /\ RequestType(vault.protocol)
    /\ \A d \in Holders :
         /\ {holder[d].shares, holder[d].base} \subseteq Nat
         /\ RequestType(holder[d].request)
    /\ {mint.supply, mint.issued, mint.last, equity} \subseteq Nat
    /\ mint.supply <= mint.issued

\* No claim exceeds what backs it, in whatever base the holders were left by
\* rebases they have not taken part in: the holders' shares fit into the
\* depositors' total, that and the protocol's shares into the vault's, and every
\* pending request into its owner's shares.
SharesCovered ==
    /\ MapThenSumSet(LAMBDA d : RebaseHolder(holder[d], vault).shares, Holders) <= vault.user
    /\ vault.user + vault.prot <= vault.total
    /\ vault.protocol.shares <= vault.prot
    /\ \A d \in Holders : holder[d].request.shares <= holder[d].shares

\* total_withdraw_requested is the sum of the pending requests' values, through
\* cancels, partial payouts after losses and rebases that floor shares away.
RequestedIsPending ==
    vault.requested = vault.manager.value + vault.protocol.value
                        + MapThenSumSet(LAMBDA d : holder[d].request.value, Depositors)

\* A raise of the fee never prices time before it was installed.
RaiseOpensInterval == vault.lastFee >= installed

\* The vault's ledger: claims are backed, the requests counted are the ones
\* pending, and a fee is charged only for time since it was agreed.
VaultSound == VaultTypeOK /\ SharesCovered /\ RequestedIsPending /\ RaiseOpensInterval

\* The queued policy breaks the protocol's bounds: apply_fee refuses it until
\* the manager cancels the update.
UpdateBlocks ==
    Matured(vault, vaultNow, TRUE)
      /\ ~PolicyValid(vault.queued, vault.hasProtocol, vault.protFee, vault.protProfit)

\* A negative management fee in a protocol vault may make apply_fee abort.
FeeOutweighed == vault.hasProtocol /\ vault.fee < 0

\* No depositor is locked in: a pending request can be paid once its period is
\* over, and where there is nothing left to pay for (a rebase has floored its
\* shares away) or nobody who stays (it asks for the whole supply) it can be
\* cancelled.
DepositorCanLeave ==
    (~UpdateBlocks /\ ~FeeOutweighed) =>
        \A d \in Depositors, v \in {Settled(vault, TRUE)} : \A h \in {Synced(d, v)} :
            Pending(holder[d].request) =>
                 /\ (h.request.shares > 0 /\ Due(holder[d].request, vault, vaultNow))
                       => WithdrawAcceptedAt(d, h)
                 /\ h.request.shares \in {0, v.total} => CancelAcceptedAt(h.request, v)

\* A profit share is paid out of profit: what the depositor keeps is worth the
\* mark the profit was measured from, however the fee is rounded to shares.
ProfitShareLeavesMark(d) ==
    (vault'.total > 0 /\ vault'.base = holder[d].base
       /\ holder'[d].cum > holder[d].cum /\ holder'[d].net = holder[d].net) =>
        IfSharesToVaultAmount(holder'[d].shares, vault'.total, equity)
          >= holder[d].net + holder[d].cum

\* What leaves the vault never takes more than its shares were worth, and what
\* enters never buys more than it brings: once fees are settled, no instruction
\* lowers the equity behind a share, nor a profit share the mark it is taken over.
StayersKeepPrice ==
    [][ /\ LET v == Settled(vault, FALSE)
           IN (vault' # vault /\ vault'.total # vault.total
                 /\ vault'.total > 0 /\ vault'.base = v.base)
                => equity' * v.total >= equity * vault'.total
        /\ \A d \in Depositors : ProfitShareLeavesMark(d) ]_vaultVars

\* Tokens keep their backing when others enter or leave the pool: shares per
\* token issued do not fall by a mint or a redemption.
TokensKeepBacking ==
    [][ (mint'.issued # mint.issued /\ mint'.issued > 0 /\ mint.issued > 0
           /\ vault'.base = holder[Pool].base) =>
          holder'[Pool].shares * mint.issued
            >= (IF mint'.issued > mint.issued THEN holder[Pool].shares
                ELSE ApplyProfitShare(holder[Pool], Settled(vault, TRUE), equity).h.shares)
               * mint'.issued ]_vaultVars
=============================================================================
