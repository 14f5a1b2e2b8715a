------------------------------ MODULE PerpPools ------------------------------
(***************************************************************************)
(* The token pools of one perp market, its fee ledger and the revenue      *)
(* share its fills accrue (velocity controller/perp_pools.rs,              *)
(* controller/revenue_share.rs, state/revenue_share.rs, the tranches of    *)
(* controller/liquidation.rs and the wind-down in admin.rs).               *)
(*                                                                         *)
(* A position is what it is worth to the pool: claim[u] is its unrealised  *)
(* and unsettled pnl, pools.net their sum (calculate_net_user_pnl).        *)
(* Open base is pools.holder, the trader whose position stands against the *)
(* AMM, if there is one: a price move is then the AMM's gain or loss       *)
(* (pools.inventory).  Whether an account meets its maintenance margin     *)
(* depends on collateral outside this market: below is the set of those    *)
(* that do not.                                                            *)
(***************************************************************************)
EXTENDS ProtocolMath, FiniteSets

CONSTANTS
    Traders,              \* accounts with a position in the market
    Owner,              \* the one whose authority holds the escrow
    RowCount,           \* rows of the escrow
    Moves,              \* pnl of one price move
    Cuts,               \* fee splits of a fill
    BuilderFees,        \* builder fees of a fill
    LiquidationCuts,    \* insurance, protocol and liquidator fees of a liquidation
    CloseoutFees,       \* insurance and protocol cut of an expiry close-out
    BufferTarget,       \* fee_pool_buffer_target
    FloorTokens,        \* get_bankruptcy_if_floor with open interest
    VaultTokens,        \* what an insurance draw or a set-off may pay
    Payees,             \* payout accounts the beneficiaries start with
    PoolsAtStart,       \* tokens earlier losses left in the pnl pool
    MaxOrders,          \* bound on orders ever placed
    MaxInstructions     \* bound on instructions other than cranks

ASSUME PoolConstants ==
    /\ Owner \in Traders
    /\ RowCount \in Nat /\ BufferTarget \in Nat /\ FloorTokens \in Nat
    /\ Moves \subseteq Nat /\ BuilderFees \subseteq Nat
    /\ Cuts \subseteq [protocol : Nat, insurance : Nat, amm : Nat, referral : Nat]
    /\ LiquidationCuts \subseteq [protocol : Nat, insurance : Nat, liquidator : Nat]
    /\ CloseoutFees \subseteq [protocol : Nat, insurance : Nat]
    /\ VaultTokens \subseteq Nat /\ PoolsAtStart \subseteq Nat
    /\ Payees \subseteq [{"builder", "referrer"} ->
                            [user : {"none", "user", "vault"}, share : BOOLEAN]]
    /\ MaxOrders \in Nat /\ MaxInstructions \in Nat

VARIABLES
    pools,     \* pools, ledger and status of the perp market
    claim,      \* value of each user's position
    bankrupt,   \* users latched bankrupt
    booked,     \* users whose debt is a booked bankruptcy claim
    below,      \* users that do not meet their maintenance margin
    rows,       \* the escrow's revenue share orders
    open,       \* order id -> carries a builder, of the owner's open orders
    nextId,     \* next_order_id of the owner's sub-account
    present,    \* the owner's sub-account exists
    payee,      \* accounts of the two beneficiaries
    budget      \* instructions left

accountVars == <<claim, bankrupt, booked, below>>
poolsVars == <<pools, accountVars, rows, open, nextId, present, payee, budget>>

Nobody == "nobody"

Beneficiaries == {"builder", "referrer"}

RowIds == 1..RowCount

FreeRow == [kind |-> "free", id |-> 0, done |-> FALSE, fees |-> 0]

NewPools(tokens) ==
    [pnl |-> tokens, fee |-> 0, protocol |-> 0, revenue |-> 0,
     pendProtocol |-> 0, pendIf |-> 0, pendAmm |-> 0, ammReceived |-> 0,
     share |-> 0, tfmd |-> 0, net |-> 0, inventory |-> tokens,
     claims |-> 0, holder |-> Nobody,
     status |-> "Active", paused |-> FALSE, settlePaused |-> "no",
     settleOpen |-> FALSE, windowOver |-> FALSE]

\* base_asset_amount_with_amm # 0.
Exposed(m) == m.holder # Nobody

PoolsInit ==
    /\ \E tokens \in PoolsAtStart : pools = NewPools(tokens)
    /\ claim = [u \in Traders |-> 0]
    /\ bankrupt = {}
    /\ booked = {}
    /\ below \in SUBSET Traders
    /\ rows = [i \in RowIds |-> FreeRow]
    /\ open = <<>>
    /\ nextId = 1
    /\ present = TRUE
    /\ payee \in Payees
    /\ budget = MaxInstructions

(***************************************************************************)
(* Positions.  Every change of a position's quote also moves the market's  *)
(* total, and releases a booked bankruptcy claim once the debt is gone     *)
(* (update_quote_asset_amount).                                            *)
(***************************************************************************)

Owed(m, u, amount) ==
    [m EXCEPT !.net = @ + amount,
              !.claims = @ - (IF u \in booked /\ claim[u] + amount >= 0 THEN 1 ELSE 0)]

StillBooked(u, amount) ==
    IF claim[u] + amount >= 0 THEN booked \ {u} ELSE booked

(***************************************************************************)
(* Fee ledger and sweep (perp_pools.rs, state/perp_market.rs).             *)
(***************************************************************************)

AccrueFillFees(m, protocolFee, ifFee, ammFee) ==
    [m EXCEPT !.pendProtocol = @ + protocolFee,
              !.pendIf = @ + ifFee,
              !.ammReceived = @ + ammFee,
              !.pendAmm = @ + ammFee]

\* What the insurance drain leaves behind.
PendingIfFloor(m, force) ==
    IF force THEN 0
    ELSE IF m.claims > 0 THEN m.pendIf
    ELSE IF Exposed(m) THEN FloorTokens ELSE 0

TrancheReservation(m, force) == Lesser(m.pendIf, PendingIfFloor(m, force))

\* What every drain leaves in the pnl pool.
ReservedClaims(m, force) ==
    Greater(m.net, 0) + TrancheReservation(m, force) + m.share

\* Faulty: the tokens leave the pnl pool and stay queued in the ledger.
DrainProtocolTwice(m, amount) ==
    [m EXCEPT !.pnl = @ - amount, !.protocol = @ + amount]

DrainProtocol(m, amount) ==
    [m EXCEPT !.pnl = @ - amount, !.protocol = @ + amount,
              !.pendProtocol = @ - amount]

DrainInsurance(m, amount) ==
    [m EXCEPT !.pnl = @ - amount, !.revenue = @ + amount, !.pendIf = @ - amount]

DrainProvision(m, amount) ==
    [m EXCEPT !.pnl = @ - amount, !.fee = @ + amount, !.pendAmm = @ - amount]

\* Faulty: revenue share already owed is not kept back.
SurplusOverClaims(m, force) == Greater(m.pnl - ReservedClaims(m, force) + m.share, 0)

Surplus(m, force) == Greater(m.pnl - ReservedClaims(m, force), 0)

\* Faulty: the last sweep of a market respects a standing pause.
SweepStopped(m, force) == m.paused

SweepSkipped(m, force) == m.paused /\ ~force

SweepMarketFees(m, force) ==
    IF SweepSkipped(m, force) THEN m
    ELSE LET p == Lesser(m.pendProtocol, Surplus(m, force))
             available == Greater(Surplus(m, force) - p - BufferTarget, 0)
             i == Lesser(Greater(m.pendIf - PendingIfFloor(m, force), 0), available)
             a == Lesser(m.pendAmm, available - i)
         IN DrainProvision(DrainInsurance(DrainProtocol(m, p), i), a)

(***************************************************************************)
(* Escrow rows (state/revenue_share.rs).                                   *)
(***************************************************************************)

\* The first row that satisfies a condition, or 0.
FirstRow(S) == IF S = {} THEN 0 ELSE CHOOSE i \in S : \A j \in S : i <= j

FreeRows(r) == {i \in RowIds : r[i].kind = "free"}

FindBuilderRow(r, id) ==
    FirstRow({i \in RowIds : r[i].kind = "builder" /\ r[i].id = id /\ ~r[i].done})

FindReferralRow(r) == FirstRow({i \in RowIds : r[i].kind = "referral"})

\* The referral row, created in a free one if there is none.
WithReferralRow(r) ==
    IF FindReferralRow(r) = 0 /\ FreeRows(r) # {}
    THEN [r EXCEPT ![FirstRow(FreeRows(r))] = [FreeRow EXCEPT !.kind = "referral"]]
    ELSE r

\* Faulty: a row is completed by its place in the order list alone, whether or
\* not its order is still open.
RevokeEvery(r, ids) ==
    [i \in RowIds |->
        IF r[i].kind # "builder" \/ r[i].done THEN r[i]
        ELSE IF r[i].fees > 0 THEN [r[i] EXCEPT !.done = TRUE]
        ELSE FreeRow]

\* Rows whose order is closed become payable, or free when nothing accrued.
RevokeCompletedOrders(r, ids) ==
    [i \in RowIds |->
        IF r[i].kind # "builder" \/ r[i].done \/ r[i].id \in ids THEN r[i]
        ELSE IF r[i].fees > 0 THEN [r[i] EXCEPT !.done = TRUE]
        ELSE FreeRow]

Beneficiary(row) == IF row.kind = "referral" THEN "referrer" ELSE "builder"

\* A referral row keeps its slot when its fees are gone.
Cleared(row) == IF row.kind = "referral" THEN [row EXCEPT !.fees = 0] ELSE FreeRow

Payable(m, row) ==
    /\ row.fees > 0
    /\ row.kind = "referral" \/ row.done \/ m.status = "Settlement"

Reachable(row, given) ==
    LET p == payee[Beneficiary(row)]
    IN Beneficiary(row) \in given /\ p.user # "none" /\ p.share

\* One row of the sweep: paid in full, written off for a vault, or skipped.
SweepRow(s, i, reserve, given) ==
    LET row == s.rows[i]
        vault == payee[Beneficiary(row)].user = "vault"
    IN IF \/ ~Payable(s.m, row)
          \/ s.m.pnl - reserve < row.fees
          \/ ~Reachable(row, given)
       THEN s
       ELSE [m |-> [s.m EXCEPT !.pnl = @ - (IF vault THEN 0 ELSE row.fees),
                               !.share = @ - row.fees],
             rows |-> [s.rows EXCEPT ![i] = Cleared(row)]]

\* sweep_completed_revenue_share_for_market: rows in order, with one reserve.
SweepRevenueShare(m, r, given) ==
    IF m.paused THEN [m |-> m, rows |-> r]
    ELSE LET reserve == Greater(m.net, 0) + TrancheReservation(m, FALSE)
             step[i \in 0..RowCount] ==
                 IF i = 0 THEN [m |-> m, rows |-> r]
                 ELSE SweepRow(step[i - 1], i, reserve, given)
         IN step[RowCount]

(***************************************************************************)
(* Orders of the escrow owner.                                             *)
(***************************************************************************)

Spend == budget > 0 /\ budget' = budget - 1

Trades == pools.status = "Active"

\* clear_placed_builder_order: the reserved row is freed again.
SkippedFreesRow(r, i, id) == [r EXCEPT ![i] = FreeRow]

\* add_builder_order, then place_perp_order: a skipped placement consumes no id.
PlaceBuilderOrder(skipped) ==
    LET i == FirstRow(FreeRows(rows))
    IN /\ Trades /\ present /\ Spend
       /\ nextId <= MaxOrders
       /\ i # 0
       /\ IF skipped
          THEN /\ rows' = SkippedFreesRow(rows, i, nextId)
               /\ UNCHANGED <<open, nextId>>
          ELSE /\ rows' = [rows EXCEPT ![i] = [FreeRow EXCEPT !.kind = "builder",
                                                              !.id = nextId]]
               /\ open' = [id \in DOMAIN open \cup {nextId} |->
                              IF id = nextId THEN TRUE ELSE open[id]]
               /\ nextId' = nextId + 1
       /\ UNCHANGED <<pools, accountVars, present, payee>>

PlacePlainOrder ==
    /\ Trades /\ present /\ Spend
    /\ nextId <= MaxOrders
    /\ open' = [id \in DOMAIN open \cup {nextId} |->
                   IF id = nextId THEN FALSE ELSE open[id]]
    /\ nextId' = nextId + 1
    /\ UNCHANGED <<pools, accountVars, rows, present, payee>>

Without(id) == [o \in DOMAIN open \ {id} |-> open[o]]

CancelEscrowOrder(id) ==
    /\ Spend
    /\ open' = Without(id)
    /\ UNCHANGED <<pools, accountVars, rows, nextId, present, payee>>

\* A fill of the owner's order: the fee is split, the builder's and the
\* referrer's parts accrue on their rows and in the market's total.
FillFees(id, cut, builderFee) ==
    LET b == IF open[id] THEN FindBuilderRow(rows, id) ELSE 0
        withRef == WithReferralRow(rows)
        ref == FindReferralRow(withRef)
        bFee == IF b = 0 THEN 0 ELSE builderFee
        reward == IF ref = 0 THEN 0 ELSE cut.referral
        protocolFee == cut.protocol + cut.referral - reward
    IN [rows |-> [i \in RowIds |->
                    [withRef[i] EXCEPT !.fees = @ + (IF i = b THEN bFee ELSE 0)
                                                  + (IF i = ref THEN reward ELSE 0)]],
        paid |-> cut.protocol + cut.insurance + cut.amm + cut.referral + bFee,
        pools |-> [AccrueFillFees(pools, protocolFee, cut.insurance, cut.amm)
                        EXCEPT !.share = @ + bFee + reward,
                               !.tfmd = @ + cut.amm]]

Fill(id, whole, cut, builderFee, opens) ==
    LET f == FillFees(id, cut, builderFee)
    IN /\ Trades /\ Spend
       /\ Owner \notin bankrupt
       /\ opens => pools.holder \in {Nobody, Owner}
       /\ rows' = f.rows
       /\ pools' = [Owed(f.pools, Owner, -f.paid) EXCEPT !.holder = IF opens THEN Owner ELSE @]
       /\ claim' = [claim EXCEPT ![Owner] = @ - f.paid]
       /\ open' = IF whole THEN Without(id) ELSE open
       /\ UNCHANGED <<bankrupt, booked, below, nextId, present, payee>>

(***************************************************************************)
(* Prices and liquidations.                                                *)
(***************************************************************************)

\* A position gains or loses against another user's or against the AMM.
PriceMoves(d, u, counter) ==
    /\ Trades /\ Spend
    /\ {u, counter} \cap (bankrupt \cup booked) = {}
    /\ Owner \in {u, counter} => present
    /\ IF counter = Nobody
       THEN /\ pools.holder = u
            /\ pools' = [pools EXCEPT !.net = @ + d, !.inventory = @ - d]
            /\ claim' = [claim EXCEPT ![u] = @ + d]
       ELSE /\ u # counter
            /\ claim' = [claim EXCEPT ![u] = @ + d, ![counter] = @ - d]
            /\ UNCHANGED pools
    /\ UNCHANGED <<bankrupt, booked, below, rows, open, nextId, present, payee>>

\* Collateral elsewhere: deposits, withdrawals, other markets' prices.
MarginMoves(u) ==
    /\ Spend /\ u \notin bankrupt
    /\ below' = IF u \in below THEN below \ {u} ELSE below \cup {u}
    /\ UNCHANGED <<pools, claim, bankrupt, booked, rows, open, nextId, present, payee>>

\* liquidate_perp hands the base to a liquidator, in settlement too (at the
\* expiry price); liquidate_perp_with_fill sells it to the AMM while the market
\* trades (by = Nobody).  The account recovers, stays below its margin, or is
\* latched bankrupt with its debt booked (flag_perp_bankruptcy_claim).
Liquidate(u, cut, by, outcome) ==
    LET reward == IF by = Nobody THEN 0 ELSE cut.liquidator
        paid == cut.protocol + cut.insurance + reward
        rewarded == IF by = Nobody THEN pools ELSE Owed(pools, by, reward)
        charged == [Owed(rewarded, u, -paid) EXCEPT
                        !.pendIf = @ + cut.insurance,
                        !.pendProtocol = @ + cut.protocol,
                        !.holder = IF @ = u THEN by ELSE @]
        kept == IF by = Nobody THEN booked ELSE StillBooked(by, reward)
    IN /\ Spend
       /\ u \in below /\ u \notin bankrupt
       /\ claim[u] # 0 \/ pools.holder = u
       /\ IF by = Nobody THEN Trades ELSE by # u /\ by \notin bankrupt \cup below
       /\ claim' = [v \in Traders |-> IF v = u THEN claim[v] - paid
                                     ELSE IF v = by THEN claim[v] + reward
                                     ELSE claim[v]]
       /\ below' = IF outcome = "recovers" THEN below \ {u} ELSE below
       /\ IF outcome = "bankrupt"
          THEN /\ claim'[u] < 0
               /\ bankrupt' = bankrupt \cup {u}
               /\ booked' = kept \cup {u}
               /\ pools' = [charged EXCEPT !.claims = Cardinality(booked')]
          ELSE /\ pools' = charged
               /\ booked' = kept
               /\ UNCHANGED bankrupt
       /\ open' = IF u = Owner THEN <<>> ELSE open
       /\ nextId' = IF Owner \in {u, by} THEN nextId + 1 ELSE nextId
       /\ by = Owner => present
       /\ UNCHANGED <<rows, present, payee>>

(***************************************************************************)
(* The bankruptcy waterfall (resolve_perp_bankruptcy).                     *)
(***************************************************************************)

\* Faulty: the untokenised provision is clawed back without leaving the queue.
ClawedStillPending(m, pending) == m

ClawedPending(m, pending) == [m EXCEPT !.pendAmm = @ - pending]

\* The in-transit insurance fees, the insurance vault, then the AMM's provision:
\* what is not yet tokenised, and the rest out of its fee pool.
Waterfall(m, debt, draw) ==
    LET t1 == Lesser(debt, m.pendIf)
        t2 == Lesser(debt - t1, draw)
        clawback == Lesser(debt - t1 - t2, m.ammReceived)
        pending == Lesser(clawback, m.pendAmm)
        tokens == Lesser(clawback - pending, m.fee)
    IN [m |-> [ClawedPending(m, pending) EXCEPT
                    !.pendIf = @ - t1, !.pnl = @ + t2 + tokens, !.fee = @ - tokens,
                    !.ammReceived = @ - pending - tokens,
                    !.tfmd = @ - pending - tokens],
        left |-> debt - t1 - t2 - pending - tokens]

\* What is left is socialised over the open interest, here the holder's.
ResolveBankruptcy(u, setoff, draw) ==
    LET debt == -claim[u]
        own == Lesser(setoff, debt)
        w == Waterfall([pools EXCEPT !.pnl = @ + own], debt - own, draw)
    IN /\ u \in bankrupt
       /\ w.left > 0 => pools.holder \notin {Nobody, u}
       /\ pools' = [Owed(w.m, u, debt) EXCEPT !.net = @ - w.left]
       /\ claim' = [v \in Traders |-> IF v = u THEN 0
                                    ELSE IF v = pools.holder THEN claim[v] - w.left
                                    ELSE claim[v]]
       /\ bankrupt' = bankrupt \ {u}
       /\ booked' = booked \ {u}
       /\ below' = below \ {u}
       /\ UNCHANGED <<rows, open, nextId, present, payee, budget>>

\* A latch that is stale, because assets arrived since: set-off, then back to
\* ordinary liquidation with the claim still booked if a debt is left.
Unlatch(u, setoff) ==
    LET own == Lesser(setoff, -claim[u])
    IN /\ u \in bankrupt /\ Spend
       /\ claim' = [claim EXCEPT ![u] = @ + own]
       /\ pools' = [Owed(pools, u, own) EXCEPT !.pnl = @ + own]
       /\ booked' = StillBooked(u, own)
       /\ bankrupt' = bankrupt \ {u}
       /\ UNCHANGED <<below, rows, open, nextId, present, payee>>

\* The estate of a user bankrupt elsewhere: the pool pays what it holds of the
\* claim (recover_perp_claims_from_pnl_pools), and what it cannot pay goes to
\* the insurance tranche (extinguish_unfundable_perp_claims).
WindUpClaim(u, debt) ==
    LET recovered == Lesser(Lesser(claim[u], pools.pnl), debt)
        rest == claim[u] - recovered
        forfeited == Lesser(Greater(rest - (pools.pnl - recovered), 0), debt - recovered)
    IN /\ Spend /\ pools.status # "Delisted"
       /\ claim[u] > 0 /\ pools.holder # u
       /\ claim' = [claim EXCEPT ![u] = @ - recovered - forfeited]
       /\ pools' = [pools EXCEPT !.pnl = @ - recovered,
                                   !.net = @ - recovered - forfeited,
                                   !.pendIf = @ + forfeited]
       /\ UNCHANGED <<bankrupt, booked, below, rows, open, nextId, present, payee>>

(***************************************************************************)
(* Settling.                                                               *)
(***************************************************************************)

\* The owner's settle also reconciles and sweeps the escrow.
AfterSettle(u, m, ids) ==
    IF u = Owner
    THEN \E given \in SUBSET Beneficiaries :
            LET s == SweepRevenueShare(m, RevokeCompletedOrders(rows, ids), given)
            IN pools' = s.m /\ rows' = s.rows
    ELSE pools' = m /\ UNCHANGED rows

\* The market's SettlePnl and SettlePnlWithPosition pause bits.
SettleAllowed(u) ==
    pools.settlePaused = "no" \/ (pools.settlePaused = "position" /\ pools.holder # u)

\* update_pool_balances: pay or collect, then the inline fee sweep.
SettlePnl(u, amount) ==
    LET paid == Lesser(amount, pools.pnl)
    IN /\ Trades /\ u \notin bankrupt /\ SettleAllowed(u)
       /\ u \in below => claim[u] >= 0
       /\ paid # 0
       /\ amount \in (IF claim[u] > 0 THEN 1..claim[u] ELSE claim[u]..(-1))
       /\ claim[u] > 0 /\ amount < claim[u] => pools.holder = u
       /\ claim' = [claim EXCEPT ![u] = @ - paid]
       /\ booked' = StillBooked(u, -paid)
       /\ AfterSettle(u, SweepMarketFees([Owed(pools, u, -paid) EXCEPT !.pnl = @ - paid],
                                         FALSE),
                      DOMAIN open)
       /\ UNCHANGED <<bankrupt, below, open, nextId, present, payee, budget>>

\* settle_expired_position: the whole claim or nothing, less the close-out fee.
\* An account below its margin is left to liquidation, unless all it has here
\* is a claim on the pool.
SettleExpired(u, cut) ==
    LET fee == cut.protocol + cut.insurance
        pnl == claim[u] - fee
    IN /\ pools.status = "Settlement" /\ u \notin bankrupt
       /\ u \in below => pools.holder # u /\ claim[u] > 0
       /\ SettleAllowed(u) /\ pools.settleOpen
       /\ claim[u] # 0 \/ pools.holder = u \/ (u = Owner /\ open # <<>>)
       /\ pools.holder # u => fee = 0
       /\ pnl <= pools.pnl
       /\ claim' = [claim EXCEPT ![u] = 0]
       /\ open' = IF u = Owner THEN <<>> ELSE open
       /\ booked' = StillBooked(u, -claim[u])
       /\ AfterSettle(u, [AccrueFillFees(Owed(pools, u, -claim[u]), cut.protocol,
                                         cut.insurance, 0) EXCEPT
                             !.pnl = @ - pnl,
                             !.holder = IF @ = u THEN Nobody ELSE @],
                      DOMAIN open')
       /\ UNCHANGED <<bankrupt, below, nextId, present, payee, budget>>

SweepPerpMarketFees ==
    /\ pools.status # "Delisted"
    /\ pools' = SweepMarketFees(pools, FALSE)
    /\ UNCHANGED <<accountVars, rows, open, nextId, present, payee, budget>>

\* handle_settle_revenue_share, by anyone, with or without the owner's account.
SettleRevenueShare(given, withOwner) ==
    LET r == IF withOwner THEN RevokeCompletedOrders(rows, DOMAIN open) ELSE rows
        s == SweepRevenueShare(pools, r, given)
    IN /\ pools.status # "Delisted"
       /\ withOwner => present
       /\ pools' = s.m /\ rows' = s.rows
       /\ UNCHANGED <<accountVars, open, nextId, present, payee, budget>>

\* Faulty: a missing payout account is never a reason.
MayForfeitShortOnly(i) ==
    /\ pools.status \in {"Settlement", "Delisted"}
    /\ rows[i].fees > 0
    /\ ~Exposed(pools) /\ pools.net = 0 /\ pools.pnl < rows[i].fees

\* Faulty: an exhausted pool is never a reason.
MayForfeitUnclaimedOnly(i) ==
    /\ pools.status \in {"Settlement", "Delisted"}
    /\ rows[i].fees > 0
    /\ payee[Beneficiary(rows[i])].user = "none" /\ pools.windowOver

\* resolve_revenue_share_forfeit_reason.
MayForfeit(i) ==
    /\ pools.status \in {"Settlement", "Delisted"}
    /\ rows[i].fees > 0
    /\ IF payee[Beneficiary(rows[i])].user = "none"
       THEN pools.windowOver
       ELSE ~Exposed(pools) /\ pools.net = 0 /\ pools.pnl < rows[i].fees

ForfeitRevenueShareOrder(i) ==
    /\ MayForfeit(i)
    /\ rows' = [rows EXCEPT ![i] = Cleared(@)]
    /\ pools' = [pools EXCEPT !.share = @ - rows[i].fees]
    /\ UNCHANGED <<accountVars, open, nextId, present, payee, budget>>

(***************************************************************************)
(* Wind-down.                                                              *)
(***************************************************************************)

\* settle_expired_market: the AMM's own equity joins the pnl pool, then the
\* expiry price is the oracle's or the one at which the pool, net of revenue
\* share, just pays the net claim.  Only the expiry is tested: the administrator
\* may run it again.
SettleExpiredMarket(kCost) ==
    LET equity == Greater(pools.tfmd, 0)
        moved == Lesser(equity, pools.fee)
        backing == Greater(pools.pnl + moved - pools.share, 0)
        cut == IF Exposed(pools) THEN Greater(pools.net - backing, 0) ELSE 0
    IN /\ kCost <= equity
       /\ pools' = [pools EXCEPT !.fee = @ - moved, !.pnl = @ + moved,
                                   !.tfmd = @ - kCost,
                                   !.inventory = @ + kCost + cut,
                                   !.net = @ - cut,
                                   !.status = "Settlement"]
       /\ claim' = [v \in Traders |-> claim[v] - (IF v = pools.holder THEN cut ELSE 0)]
       /\ UNCHANGED <<bankrupt, booked, below, rows, open, nextId, present, payee, budget>>

\* settlement_duration after the expiry.
SettlementWaitEnds ==
    /\ pools.status = "Settlement" /\ ~pools.settleOpen
    /\ pools' = [pools EXCEPT !.settleOpen = TRUE]
    /\ UNCHANGED <<accountVars, rows, open, nextId, present, payee, budget>>

EscrowWindowEnds ==
    /\ pools.status = "Settlement" /\ pools.settleOpen /\ ~pools.windowOver
    /\ pools' = [pools EXCEPT !.windowOver = TRUE]
    /\ UNCHANGED <<accountVars, rows, open, nextId, present, payee, budget>>

\* handle_settle_expired_market_pools_to_revenue_pool.
Delist ==
    LET m == SweepMarketFees(pools, TRUE)
    IN /\ pools.status = "Settlement"
       /\ ~Exposed(pools) /\ pools.net = 0
       /\ pools.claims = 0
       /\ pools.windowOver
       /\ pools.share = 0
       /\ pools' = [m EXCEPT !.revenue = @ + m.pnl + m.fee, !.pnl = 0, !.fee = 0,
                              !.status = "Delisted"]
       /\ UNCHANGED <<accountVars, rows, open, nextId, present, payee, budget>>

(***************************************************************************)
(* Accounts and administration.                                            *)
(***************************************************************************)

CreatePayoutUser(b) ==
    /\ Spend
    /\ payee[b].user = "none"
    /\ payee' = [payee EXCEPT ![b].user = "user"]
    /\ UNCHANGED <<pools, accountVars, rows, open, nextId, present>>

\* handle_update_user_vault_owned: set-only.
MarkVaultOwned(b) ==
    /\ Spend
    /\ payee[b].user = "user"
    /\ payee' = [payee EXCEPT ![b].user = "vault"]
    /\ UNCHANGED <<pools, accountVars, rows, open, nextId, present>>

\* handle_initialize_revenue_share: only the payer signs.
InitializeRevenueShare(b) ==
    /\ ~payee[b].share
    /\ payee' = [payee EXCEPT ![b].share = TRUE]
    /\ UNCHANGED <<pools, accountVars, rows, open, nextId, present, budget>>

\* handle_delete_user: the sub-account's rows are completed on the way out.
DeleteSubAccount ==
    /\ Spend /\ present
    /\ open = <<>> /\ claim[Owner] = 0 /\ pools.holder # Owner
    /\ Owner \notin bankrupt
    /\ present' = FALSE
    /\ rows' = RevokeCompletedOrders(rows, DOMAIN open)
    /\ UNCHANGED <<pools, accountVars, open, nextId, payee>>

PauseSettleRevPool ==
    /\ Spend /\ pools.status # "Delisted"
    /\ pools' = [pools EXCEPT !.paused = ~@]
    /\ UNCHANGED <<accountVars, rows, open, nextId, present, payee>>

\* The same instruction sets the two pause bits of settling.
PauseSettlePnl(bits) ==
    /\ Spend /\ pools.status # "Delisted"
    /\ pools' = [pools EXCEPT !.settlePaused = bits]
    /\ UNCHANGED <<accountVars, rows, open, nextId, present, payee>>

WithdrawProtocolFeesPerp ==
    /\ Spend /\ pools.protocol > 0
    /\ pools' = [pools EXCEPT !.protocol = 0]
    /\ UNCHANGED <<accountVars, rows, open, nextId, present, payee>>

Trading ==
    \/ \E skipped \in BOOLEAN : PlaceBuilderOrder(skipped)
    \/ PlacePlainOrder
    \/ \E id \in DOMAIN open : CancelEscrowOrder(id)
    \/ \E id \in DOMAIN open, whole \in BOOLEAN, cut \in Cuts, b \in BuilderFees,
          opens \in BOOLEAN : Fill(id, whole, cut, b, opens)
    \/ \E d \in Moves, u \in Traders, counter \in Traders \cup {Nobody} :
          PriceMoves(d, u, counter) \/ PriceMoves(-d, u, counter)
    \/ \E u \in Traders : MarginMoves(u)

Estates ==
    \/ \E u \in Traders, cut \in LiquidationCuts, by \in Traders \cup {Nobody},
          outcome \in {"recovers", "short", "bankrupt"} : Liquidate(u, cut, by, outcome)
    \/ \E u \in Traders, s \in VaultTokens, d \in VaultTokens : ResolveBankruptcy(u, s, d)
    \/ \E u \in Traders, s \in VaultTokens : Unlatch(u, s)
    \/ \E u \in Traders, d \in Moves : WindUpClaim(u, d)

Cranks ==
    \/ \E u \in Traders : \E n \in Moves \cup {claim[u]} : SettlePnl(u, n) \/ SettlePnl(u, -n)
    \/ \E u \in Traders, cut \in CloseoutFees : SettleExpired(u, cut)
    \/ SweepPerpMarketFees
    \/ \E given \in SUBSET Beneficiaries, o \in BOOLEAN : SettleRevenueShare(given, o)
    \/ \E i \in RowIds : ForfeitRevenueShareOrder(i)
    \/ \E c \in {0, Greater(pools.tfmd, 0)} : SettleExpiredMarket(c)
    \/ SettlementWaitEnds \/ EscrowWindowEnds
    \/ Delist

Accounts ==
    \/ \E b \in Beneficiaries :
          CreatePayoutUser(b) \/ MarkVaultOwned(b) \/ InitializeRevenueShare(b)
    \/ DeleteSubAccount
    \/ PauseSettleRevPool
    \/ \E bits \in {"no", "position", "all"} : PauseSettlePnl(bits)
    \/ WithdrawProtocolFeesPerp

PoolsNext == Trading \/ Estates \/ Cranks \/ Accounts

\* The instructions anyone may send are sent once the market is in
\* settlement: keepers run them, and a beneficiary opens the account it is
\* paid through.  Nothing is assumed of liquidators, of the insurance vault or
\* of the administrator.
InSettlement == pools.status = "Settlement"

PoolsFairness ==
    /\ WF_poolsVars(InSettlement /\ SettleRevenueShare(Beneficiaries, FALSE))
    /\ \A i \in RowIds : WF_poolsVars(InSettlement /\ ForfeitRevenueShareOrder(i))
    /\ \A b \in Beneficiaries : WF_poolsVars(InSettlement /\ InitializeRevenueShare(b))
    /\ \A u \in Traders :
         WF_poolsVars(InSettlement /\ \E cut \in CloseoutFees : SettleExpired(u, cut))
    /\ WF_poolsVars(SettlementWaitEnds) /\ WF_poolsVars(EscrowWindowEnds)

PoolsSpec == PoolsInit /\ [][PoolsNext]_poolsVars /\ PoolsFairness

(***************************************************************************)
(* Properties.                                                             *)
(***************************************************************************)

\* The pools and the ledger hold amounts that the unsigned fields can hold; a
\* booked claim is counted once.
PoolsTypeOK ==
    /\ \A f \in {"pnl", "fee", "protocol", "revenue", "pendProtocol", "pendIf",
                 "pendAmm", "ammReceived", "share", "claims"} : pools[f] \in Nat
    /\ pools.net \in Int /\ pools.tfmd \in Int /\ pools.inventory \in Int
    /\ pools.status \in {"Active", "Settlement", "Delisted"}
    /\ claim \in [Traders -> Int]
    /\ \A u \in booked : u \in Traders /\ claim[u] < 0
    /\ pools.claims = Cardinality(booked)
    /\ rows \in [RowIds -> [kind : {"free", "builder", "referral"}, id : 0..MaxOrders,
                            done : BOOLEAN, fees : Nat]]

\* What the pools hold beyond everything booked against them: users' net claim,
\* fees in transit, revenue share, the AMM's equity and inventory.
Excess(m) ==
    m.pnl + m.fee - m.net - m.pendProtocol - m.pendIf - m.share - m.tfmd - m.inventory

\* Until the delisting no instruction pays anything twice or loses it: fills,
\* liquidations, sweeps, settles, draws and the expiry leave the excess as it
\* is, and only writing off a revenue share row adds to it, by at most the row.
BooksBalance ==
    [][pools'.status = "Delisted"
       \/ Excess(pools') = Excess(pools)
       \/ /\ Excess(pools') > Excess(pools)
          /\ Excess(pools') - Excess(pools) <= pools.share - pools'.share]_poolsVars

\* pending_revenue_share is the sum of what the escrow rows have accrued, however
\* fills, lazy completion, sweeps, write-offs and deletions interleave.
ShareCounterMatchesRows ==
    LET sum[i \in 0..RowCount] == IF i = 0 THEN 0 ELSE sum[i - 1] + rows[i].fees
    IN pools.share = sum[RowCount]

\* The provision waiting to be tokenised stays within what a bankruptcy may claw
\* back (the invariant the field's comment states).
ProvisionWithinCap == pools.pendAmm <= pools.ammReceived

\* A sweep leaves users' claims, the insurance tranche and owed revenue share in
\* the pool, and the buffer too when it pays insurance or the AMM.  The delisting
\* gives the revenue pool nothing of the pnl pool while protocol fees are still
\* owed, and writes off no revenue share.
DrainsLeaveReserves ==
    [][IF pools'.status # "Delisted"
       THEN /\ pools'.protocol > pools.protocol => pools'.pnl >= ReservedClaims(pools', FALSE)
            /\ pools'.revenue > pools.revenue \/ (pools'.fee > pools.fee)
                => pools'.pnl >= ReservedClaims(pools', FALSE) + BufferTarget
       ELSE pools.status # "Delisted" =>
            /\ pools'.pendProtocol > 0 => pools'.revenue = pools.revenue + pools.fee
            /\ \A i \in RowIds : rows[i].fees = 0]_poolsVars

\* While the market trades an open order that carries a builder has exactly one
\* row that still accrues for it, and nobody can take the row away.
BuilderOrderKeepsItsRow ==
    pools.status = "Active" =>
        \A id \in DOMAIN open : open[id] =>
            Cardinality({i \in RowIds : /\ rows[i].kind = "builder"
                                        /\ rows[i].id = id
                                        /\ ~rows[i].done}) = 1

\* The ledger of the fees agrees with the rows and the orders they come from.
RowsAccounted ==
    PoolsTypeOK /\ ShareCounterMatchesRows /\ ProvisionWithinCap /\ BuilderOrderKeepsItsRow

\* The administrator does not keep the market's settling paused.
Unpaused == <>[](~pools.paused /\ pools.settlePaused = "no")

\* A position that may not be settled: its account is bankrupt or below its
\* margin.
BadDebt ==
    \E u \in bankrupt \cup below : claim[u] < 0 \/ pools.holder = u

\* The pool holds less than the users' net claim, which ranks before the rows.
Unfunded == pools.pnl < pools.net

\* In settlement every revenue share row is paid, or written off when nobody can
\* be paid or the wound-down market's pool is too short for it, without the
\* escrow owner or the administrator.  The one excuse is lasting: from some time
\* on there is always bad debt, or a pool short of the users' own claims.
RowsEndOrMarketInsolvent ==
    Unpaused => \/ InSettlement ~> (pools.share = 0)
                \/ <>[](BadDebt \/ Unfunded)

\* "Every row has an end state" (admin.rs, of the delisting), whatever became of
\* the debts, provided that liquidators deal with the accounts below margin.
EveryRowHasAnEndState ==
    (Unpaused /\ []<>(below \subseteq bankrupt)) => (InSettlement ~> (pools.share = 0))
=============================================================================
