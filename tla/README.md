# Velocity: a TLA+ verification project

Velocity is a perpetual-futures and spot-lending protocol on Solana (a fork of
Drift v2), with programs for managed vaults and for routing protocol revenue
beside it, and servers and clients that mirror its accounts. This project models
the parts that keep state, checks them with TLC on small instances, and proves
part of the results with TLAPS for every value of the constants. `velocity/`
below is `src/programs/velocity/src/`; other paths are relative to the
repository's `src/` unless they start with `docs/`.

`PROJECT.json` has the machine-readable side: which definition models which
lines, the runs, the hazards, the findings and the theorems.

## 1. The system and its modules

The on-chain programs run one instruction at a time: Solana executes an
instruction atomically and rolls it back whole when it returns an error. So
concurrency there is the *order* of the instructions of many signers, each of
which finds the state the others left. An action of an on-chain module is one
whole instruction; a failed one is a step that is not taken. The off-chain
services do interleave inside their operations: there, every load, store and
`await` is a step of its own.

| Part | Module | State | What makes it hard |
|---|---|---|---|
| insurance fund (`velocity/controller/insurance.rs`) | `InsuranceFund` | share counts, rebase exponent, vault, cap base; stakes with a pending request | lazy rebase of stakes, prices frozen at a request, revenue due before an exit |
| spot ledger and interest (`velocity/controller/spot_balance.rs`, `velocity/math/spot_balance.rs`) | `SpotMath`, `SpotMarket` | scaled totals, two indexes, pools, positions, vault | lazy accrual, clamp, idle and paused time, dust |
| interest carveouts (`split_deposit_interest`) | `InterestSplit` | factors, carried remainders | factors change while remainders are carried |
| withdraw guard and caps (`velocity/math/spot_withdraw.rs`) | `SpotWithdraw` | TWAPs | an exception many small accounts share; caps on a level |
| perp positions, funding, liquidation, bankruptcy, expiry | `FundingMath`, `PerpPosition`, `PerpMarket` | positions, totals per side, counters, cumulative rates, AMM stamp | flips, truncated closes, a claim several paths can clear, a loss spread through funding |
| pools, fee ledger, revenue share (`velocity/controller/perp_pools.rs`, `revenue_share.rs`) | `PerpPools` | pnl, fee, protocol and revenue pools, pending fees, escrow rows | reserves while fees drain, rows completed lazily, wind-down |
| orders (`velocity/controller/orders.rs`) | `OrderSlots`, `Orders`, `OrderLife` | order slots, open bids and asks, counts | tallies clamped at zero, reduce-only, skipped orders |
| signed messages and slot clock (`velocity/state/signed_msg_user.rs`, `velocity/math/time.rs`) | `SignedMsg`, `SlotClock` | used ids, gates of the slot length | redelivery against eviction, a slot length that changes |
| equity floor and breaker (`velocity/controller/equity_floor.rs`) | `EquityFloor` | floors, buffers, breaker, oracle validity | many seats, siblings, invalid oracles |
| vaults program (`programs/vaults`) | `Vault` | shares, requests, fees, pool behind a token | rebases, frozen values, rounding |
| revenue router (`programs/protocol-revenue-router`) | `Router` | the day's totals, ladder | ladder changes during a day, an external cap |
| order book mirror of the Rust client | `DlobMirror` | chain history, stream position, account map, event queue, book | repeats, skips, a node that is behind |
| slot tracker of the swift servers | `SlotTracker` | an atomic slot, callbacks, poll | load and store interleave |
| user map server (`apps/usermap-server`) | `UsermapCache` | cache entry, key list, jobs, lock | get and set across awaits, overlapping jobs |

How the parts interact: interest carved out of a spot market reaches the
insurance fund through the revenue pool; the fund's vault pays perp and spot
bankruptcies; fills move positions (`PerpMarket`), order slots (`Orders`) and
fees (`PerpPools`) in one instruction. Each module keeps the part of such an
instruction that touches its own state and leaves the rest open: what a draw is
asked to cover, how much revenue arrives, which amount the pool admits, whether
margin is met are inputs from small sets or free choices. No module assumes
anything of another that its source does not check, so a property of a module
holds whatever the others do; what relates two modules' state in one instruction
is outside.

### How state and actions correspond to the code

`A -> B` means that B extends A.

- `ProtocolMath` (truncating and ceiling divisions, saturating subtraction,
  proportions) is under all on-chain modules; `ShareMath` (share prices, rebase
  exponents) is under `InsuranceFund` and `Vault`.
- `InsuranceFund -> MCInsuranceFund`. Each instruction is composed, in the code's
  order, of the steps it calls: settle due revenue, rebase the fund, rebase the
  stake, price, pay.
- `SpotMath -> SpotWithdraw -> SpotMarket -> MCSpotMarket`, `MCSpotSmallAccounts`.
  Every instruction cranks the interest first and then moves a position, a pool
  and a total. The oracle price is 1 where the code values net deposits.
- `SpotMath -> InterestSplit -> MCInterest`.
- `FundingMath -> PerpPosition -> PerpMarket -> MCPerpMarket`;
  `FundingMath -> MCFundingCap`. A *book* is the pair of a position and the market
  that one call rewrites; an instruction hands a record of all positions and the
  market from call to call.
- `PerpPools -> MCPerpPools`. A position is what it is worth to the pool (`claim`);
  open base is `pools.holder`, the account exposed to the AMM; `below` are the
  accounts short of maintenance margin, which collateral outside the market
  decides. Settlement, liquidation, close-outs, the tranches of a bankruptcy, the
  sweep with its reserves, the write-off of rows and the delisting are whole
  instructions, with the pause bits that stop them.
- `OrderSlots -> Orders -> MCOrders`. `OrderSlots` has the calls (place, cancel,
  expire, fill one slot), `Orders` the instructions made of them, `OrderLife` the
  abstract life of an order that `Orders` implements.
- `SlotClock -> SignedMsg -> MCSignedMsg`. Real milliseconds and slot units.
- `EquityFloor`: every seat that reads or moves a floor, one risky asset, an
  oracle that may be invalid.
- `Vault -> MCVault`, `Router`, `DlobMirror`, `SlotTracker`, `UsermapCache`.
- `MCLedgers`, `MCOrderFlow`, `MCSpotMessages`, `MCPoolsMirror` and `MCProgress`
  put several instances into one run (section 2).

Conventions. `\E x \in {e} : A(x)` binds a value that an action uses several
times. An operator whose comment starts with *Faulty* is a plausible mistake in
the definition after it; it is used by no specification, and shows that a
property would notice that mistake.

## 2. Runs

A run that has to pass holds several instances side by side: a behaviour picks
one (`ledger`, `which`) and the others stay in one of their initial states. This
is only a way of checking independent instances together; no interaction
between them is claimed.

**`ledgers`** (`MCLedgers`, `Ledgers.cfg`)
- Insurance fund. `FundSound`: types, requests name shares that exist, the revenue
  cap's base never counts tokens that left, shares never exist over an empty
  vault. `StakesHonoured`: stakes of any base add up to the user shares and a
  request stays cancellable. `SharePriceNeverFalls`: only a draw lowers what
  a share is worth. `ExitsPricedFairly`: exits are priced after the revenue that
  is due, and a cancel forfeits the appreciation.
- Vault. `VaultSound`: claims are backed through rebases, the requests counted are
  the ones pending, a fee is charged only for time since it was agreed.
  `DepositorCanLeave`: a pending request can be paid, or cancelled where there is
  nothing left to pay for or nobody who stays.
  `StayersKeepPrice`: a withdrawal, cancel, fee or profit share does not take from
  those who stay. `TokensKeepBacking`: minting and redeeming the pool's tokens never
  dilutes the other tokens.
- Router. `DaySplitIsTheLadder`: however a day's fees are cut into distributions,
  the pool gets what the ladder gives for the total. `PoolShareIsRecognised`: what a
  distribution brings to the pool is recognised in the same instruction.
- Perp market. `PositionsSound`, `BooksMatch`, `AmmInStep`, `FundingAccounted`: claims
  are debts and a bankrupt is flat; the market's totals and counters are those of
  its positions; the AMM holds the counterpart of the net position and its stamp
  is current; unsettled funding is what positions have yet to settle, up to the
  rounding of the instructions so far.

**`orders`** (`MCOrderFlow`, `OrderFlow.cfg`)
- Orders. `OrdersAccounted`: open bids, open asks and counts are exactly those of
  the open slots. `ReduceOnlyMarketOnlyReduces`: in a reduce-only market no
  instruction grows or flips a position. `FillsStayWithinWorstCase`: a fill never takes
  an account beyond the worst case its orders had booked. `ImplementsOrderLife`: the
  refinement (`OrderLife` through `INSTANCE ... WITH`).
- Interest. `CarveoutsExact`: no subtraction of the split underflows, and no carveout
  is lost to rounding. `RateRisesWithinBounds`: over all utilizations the rate of
  every admitted curve of a grid that has one is monotone and within its bounds.
- Funding cap. `FundingWithinBudget`: the cap limits what the AMM pays, only shrinks
  the receiving side's rate, and agrees with what the market books.

**`spot_and_messages`** (`MCSpotMessages`, `SpotMessages.cfg`)
- Spot market. `LedgerSound`: no scaled unit is lost and a booking does not raise
  the depositors' exact claim by a token. `ClaimsStayBacked`: backing changes only
  by bounded roundings. `OnlyAbsoluteCapRefusesRepayment`: in every state every
  repayment of every borrower is accepted, unless deposits already exceed the
  absolute cap (finding 3). `IdleTimeNeverBilled`: seconds in which nobody borrowed
  are not billed.
- Equity floor. `OnlyReductionsGoUngated`, `TripProvesBreach`, `BreachNotDefused`:
  exposure is taken on only through a gate or by a position that shrinks; the
  breaker is armed only over a subaccount below its floor at every price an invalid
  oracle may hide; a breach waiting for its trip cannot be moved away.
- Signed messages. `MessageTakesEffectOnce`: a message delivered any number of times
  places its orders at most once and sets its margin once, the record names the
  main order, and a bundle that is not post-only is placed whole. The exceptions
  are in the property and in section 4: the owner deleted or shrank the record, a
  gate was recorded so late that a deadline moved, or (for the margin) the message
  is past its `max_ts`.

**`pools_and_mirror`** (`MCPoolsMirror`, `PoolsMirror.cfg`)
- Pools. `BooksBalance`: no instruction makes or loses a token across pools, claims,
  pending fees, owed share and the AMM's equity. `RowsAccounted`: the counter of
  owed share is that of the rows, and an open builder order keeps its row.
  `DrainsLeaveReserves`: a sweep leaves what ranks before it.
- Mirror. `BookFollowsMap`: with the queued events applied the book holds exactly the
  orders of the account in the map.

**`progress`** (`MCProgress`, `Progress.cfg`): what must eventually happen.
- `RowsEnd`: in settlement every revenue share row is paid or written off, or the
  market is insolvent for good (from some time on there is always bad debt or a
  pool short of the users' claims). The hypothesis is only that pauses end.
- `AllGatesRecorded`, `ClockAgrees`: every gate of the slot length is recorded,
  whatever the staging fields said first; deadlines are the first slot at which
  the elapsed time is up.
- `ServersCatchUp`, `NotBehindTheSlowest`: the servers' slot reaches every slot of the
  cluster up to a node's lag, even with all subscriptions silent, and is never
  behind both the oldest poll answer and every subscription.
- `CacheConverges`: once the account stops changing, cache and key list come to
  agree with it and stay so.
- `ExceptionsShareOneBudget`: accounts under the small-account exception together
  stay within one guard threshold below the breaker floor.

The seven runs that have to fail are the findings of section 4.

### Bounds, and why they are enough

Precisions are scaled down (2, 10, 100 or 200 for the code's 10^6 and above) so
that rounding, which at the real precisions needs unusual amounts, happens in
most steps; signed messages keep the real milliseconds. Every division keeps the
code's direction, so a mistake of direction shows.

| Instance | Bounds |
|---|---|
| insurance fund | 2 stakers, stakes of 30 and 100, losses that empty the vault to a token, 5 instructions, 2 seconds, exponent up to 2: enter, draw, rebase, interfere, leave |
| vault | 2 depositors, manager, protocol and pool; five plans of 5 steps, each for one theme (leaving around losses, profit shares, fees, tokens, an account that cannot pay) |
| router | 3 ladders (one refused), 4 arrivals, 2 days |
| perp market | 3 users; three opened markets with 2 more instructions, a bankruptcy plan with 4. The openings are the model's own fills applied to the empty market |
| orders | a taker with 2 ids, a maker with 1, 2 slots, sizes to 2, 2 seconds |
| interest, funding cap | 5 optima, each of three rates out of 3 values, all utilizations to 205 of 200; open interest to 4 per side, rates to 9, equity from -2 to 9 |
| spot market | 2 users, amounts 3, 9, 10, 4 instructions, 2 seconds, an absolute cap of 13 that interest exceeds |
| equity floor | 2 subaccounts, prices 1 and 2, one unit, floors to 2 with a buffer; the state space is finite without a budget |
| signed messages | 3 messages, slots 75 to 240 in strides of 15 with a change of the slot length at 190, recorded at any time after it |
| pools | 2 accounts, 2 rows, 2 instructions after the first builder order or its first fill (1 for liveness) |
| mirror | one order of each of the five kinds, 3 writes, 1 reconnect, 2 queued events, 2 slots |
| clock, tracker, cache | 3 gates, 10 slots, 3 staging histories; 2 subscriptions, 2 slots, lag 1, one failed poll; one write, one failed synchronisation, two overlapping callbacks |

What a bound could hide: the budgets cut sequences, so a property that needs a
sixth instruction to break is beyond the runs; where it matters most the theorems
of section 3 have no such bound. The cache assumes that a callback ends before the second
interval after the one that started it (`InTime`). Stakers, users and subaccounts are symmetric where
the specification treats them alike; no run with liveness uses symmetry.
Deadlock is not checked: budgets and clocks end, and a market may simply rest.

### Fairness

Weak fairness only, and only of what the code's own timers or permissionless
instructions provide:

- `PoolsAreCranked`: in settlement the instructions anyone may send
  (`settle_revenue_share`, `forfeit_revenue_share_order`, `settle_expired_position`) are
  sent, beneficiaries open the account they are paid through, and the waiting
  times end. Nothing is assumed of liquidators, of the insurance vault or of the
  administrator. `pools_stuck` also assumes that bankruptcies are resolved
  whenever some payout allows it.
- `GatesAreTried`: slots pass and each gate is tried again until recorded
  (`sync_state_slot_duration` is permissionless).
- `MonitorRuns`: the cluster goes on, the monitor's timer fires, and a poll that is
  not one of the bounded failures is answered. Nothing of the subscriptions.
- `CacheServers`: the interval fires, and callbacks, handlers and the pruner go on
  once begun. That the stream delivers is not assumed.

## 3. Proofs

All theorems hold for every value of the constants the named assumptions admit
(non-zero precisions, amounts that are naturals, factors within their precision,
finite sets of accounts); TLC evaluates those assumptions in the runs.

| Module | Theorems |
|---|---|
| `SumProofs` | lemmas: induction over naturals, sums and counts over finite sets |
| `RevenueProofs` | `SplitInvariant`, `CarveoutsAlwaysExact`, `FundInvariant`, `FundAlwaysSound`, `RouterInvariant`, `DaySplitAlwaysTheLadder`, `PoolShareAlwaysRecognised` |
| `PerpBookProofs`, `PerpMarketProofs` | `PerpInvariant`, `AmmAlwaysInStep`, `PositionsAlwaysSound`, `BooksAlwaysMatch` |
| `OrderCallProofs`, `OrdersProofs` | `OrdersInvariant`, `OrdersAlwaysAccounted`, `ReduceOnlyAlwaysReduces`, `FillsAlwaysWithinWorstCase`, `OrdersImplementOrderLife` |
| `EquityFloorProofs` | `FloorTypeInvariant`, `ReductionsAloneGoUngated`, `EveryTripProvesBreach`, `BreachNeverDefused` |
| `ServiceProofs` | `NeverBehindTheSlowest`, `MirrorInvariant`, `BookAlwaysFollowsMap` |

- **Induction without operator parameters.** The provers cannot instantiate the
  library's induction theorems, which take a predicate. `NatInSet` states induction
  for a *set* of naturals and comes from the least element of its complement
  (`WellFoundedInduction`). From it `SumProofs` gets what a sum over any finite set
  does when one summand changes, which the totals of all positions, the tallies of
  all slots and the tiers of all ladders rest on.
- **Insurance fund.** `TypeOK` alone is not inductive: a subtraction from
  `total_shares` stays natural only because user shares are within it, a stake's
  rebase needs `if_base <= shares_base`, and a removal needs its request within the
  stake. `FundInv` adds these, with "shares imply tokens" and the cap base's bound.
- **Carveouts.** `SplitInv` bounds the factors in force and both remainders, also
  after the factors were lowered, and carries the exact sum of what was owed and
  withheld.
- **Router.** `RouterInv` says what the running period has paid (exactly the ladder's
  share unless the cap has bound) and that a period never lies in the future, which
  is what the lock on the ladder needs.
- **Perp market.** `PerpInv` conjoins types, the AMM as counterparty, its stamp, claims
  as debts, flat positions without basis, bankrupts flat, and the totals as sums
  (`Matched`). They need each other: a partial close keeps the basis of a flat
  position at zero only if it was zero before. `Moves` says what one call does to
  one book and leaves of the totals (`Rest`); `Shift` what a chain of calls does to
  the state; every action is a shift whose imbalance adds up to zero.
- **Orders.** `Good` says what an account is between two calls, `Evolves` what a
  sequence of calls may do to it; every instruction is such a sequence. Besides
  the tallies the invariant needs that a trigger order is unfilled until it is
  triggered, that no two open orders share an id, and that no slot before an open
  order carries its user order id. `OrdersImplementOrderLife` is the refinement:
  initial states map to initial states, every step to a step or a stutter.
- **Equity floor.** The type invariant is inductive by itself; the three action
  properties follow from it, one lemma per kind of step.
- **Slot tracker.** `TrackerInv`: the slot is not behind the oldest poll answer, or some
  subscription *vouches* for it (what it last handed over is not ahead, and a
  callback of it under way will store its own slot or brings none that is ahead). A
  store by another subscription passes the role on.
- **Mirror.** `MapInv` relates the map's entry to the history of writes; `BookInv` says
  that the queued events lead the book to the map's orders.

Only model-checked: everything about `SpotMarket`, `SpotWithdraw`, `PerpPools`,
`Vault`, `SignedMsg`, `SlotClock`; `StakesHonoured`, `SharePriceNeverFalls` and
`ExitsPricedFairly` of the fund and `FundingAccounted` (bounds on sums of rounded
products, nonlinear); `RateRisesWithinBounds` and `FundingWithinBudget` (nonlinear
as well). All liveness, and with it `UsermapCache`, stays with TLC: fairness and
`ENABLED` are out of the prover's reach.

## 4. Disagreements found

Each has a run that must find the violation, and quotes the line it disagrees
with in `PROJECT.json`.

1. **Dust changes sides** (`spot_dust_ledger`, `velocity/controller/spot_balance.rs:418`).
   A deposit worth less than one token is not reduced when its owner borrows, but its
   type is switched, so its dust counts as debt while it stays in `deposit_balance`.
   The totals are then not the sums their comments say.
2. **Unobserved pauses are billed** (`spot_pause`, `velocity/controller/spot_balance.rs:179`).
   Setting and clearing a pause do not crank, so a pause without any instruction is
   billed afterwards.
3. **The absolute cap refuses repayments** (`repay_capped`, `velocity/instructions/user.rs:765`).
   A comment calls it a defect that the daily cap, a predicate on the market's level,
   refused repayments, and that check now looks at growth only; the absolute cap
   checked one line above is still such a predicate. Interest that lifts deposits
   over `max_token_deposits` blocks every repayment by deposit.
4. **A curve without a rate** (`borrow_rate_defined`, `velocity/math/spot_balance.rs:410`).
   An optimal utilization above the first segment's end is admitted and makes the
   rate's subtraction fail beyond it.
5. **A late place-and-make uses the previous order** (`orders_late`,
   `velocity/instructions/user.rs:3410`). An order past its `max_ts` is skipped
   without an id, and the handler goes on with the last id: the maker's previous order
   is filled and cancelled.
6. **Sidecars without their order** (`signed_bundle`, `velocity/instructions/keeper.rs:805`).
   A signed main order that is `TryPostOnly` and would cross is skipped after its
   triggers were placed; the comment says that signed orders are never post-only,
   but nothing refuses one.
7. **A row without an end state** (`pools_stuck`, `velocity/controller/liquidation.rs:4453`).
   In settlement a loss beyond the tranches has no open interest left to be
   socialised over, so the resolution fails each time; what waits behind the booked
   claim, rows and delisting included, waits for ever. `RowsEnd` is what does hold.

Seen by reading or while modelling, without a run of their own:

- Perp wind-down. A socialised loss is rounded up (`velocity/math/liquidation.rs:391`)
  and settled truncated, so `net_unsettled_funding_pnl` may keep a few atoms and the
  cost basis that the delisting gate (`velocity/instructions/admin.rs:1336`) wants at
  zero is not. One test says that it drains to zero (`controller/pnl/delisting.rs:3045`),
  another knows of the dust (`controller/liquidation/tests.rs:10814`); only
  `vlp/amm/admin.rs:507` clears it. `settle_expired_market` tests only `expiry_ts`, so
  it may be run again, from `Delisted` too. The special transfer to the vAMM has no
  settlement gate. The AMM may lose one atom per funding period to rounding with no
  equity left.
- Slot tracker. `super_slot_subscriber.rs:14` says "Tracks the latest slot known by its
  constituents": a store after a stale comparison, or a poll answer of a node that is
  behind, takes the slot back below the latest known one. What holds is weaker
  (`NotBehindTheSlowest`).
- Signed messages. A gate recorded after its regime began moves deadlines that were
  computed before it, and a message may then be placed a second time
  (`docs/SLOT-DURATION.md:96-99` asks for recording in time). The margin settings of a
  message past its `max_ts` are applied again at each delivery, since its id is not
  noted.
- Equity floor. Withdrawals from isolated positions (behind a build feature) are not
  gated by the breaker, against `docs/EQUITY-FLOOR.md:143-147`; the same document
  (:20, :193, :223) excludes what reducing fills may do (`controller/orders.rs:2533`);
  deleting an empty subaccount drops its floor; in a fill with several makers of one
  authority an earlier one may pass before a later one trips.
- Orders. Triggered trigger orders never expire through `should_expire_order`;
  `update_user_open_orders_count` (`keeper.rs:523`) counts the auctions of slots that are
  not open as well, against `state/user.rs:145` ("number of open orders with auction").
- Revenue share. The shortage that `controller/revenue_share.rs:346-348` calls permanent
  ends when the administrator tops up the pnl pool (`handle_update_perp_market_pnl_pool`).
- Insurance fund. A stake of a stale base cannot request a removal until an add
  rebases it; a sole staker's removal after a draw reverts until it is cancelled and
  requested again.
- Spot. `keeper.rs:3391`, "never raise" the depositors' claim, is off by less than one
  base unit (hence `BookingNearlyConserves`); the bias of `calculate_weighted_average`
  lets TWAPs drift upwards.
- Vaults. The comment at `vault_depositor.rs:65` fails after `update_vault` lowered a
  rate and a raise is pending; with a negative management fee the comment at
  `vault.rs:264` fails, a fee equal to minus the protocol's divides by zero, and a
  protocol vault's `apply_fee` may abort; `realize_profits` does not re-sync the depositor
  after a rebase by the fee; a depositor who left with a deferred profit keeps a
  negative basis and cannot deposit again; `tokenize_shares` is refused while a profit
  share is due, although a comment says that it was just charged; a permissionless
  rebase of the pool leaves its checkpoint stale until a redeem; a cancel of nearly the
  whole supply may be refused; `update_delegate` after a liquidation leaves
  `reduce_only` set; fee payments in `VaultFee` are always 0.
- Router. A clock that goes back over a day after a ladder change prices with the new
  ladder.
- Clients. `is_same_logical_order` ignores the price; the filler synchronises before it subscribes; in `sync()` of the
  user map server a call that finds the lock taken releases it (its early return is
  inside the `try`), which is why `UsermapCache` lets jobs overlap.

## 5. What is not modelled

- The AMM's curve and repricing (192-bit products and square roots), auction and
  matching prices, oracle validity tiers, the margin engine: their results are free
  choices of the modules. A property here holds whatever they decide, and says
  nothing of whether they decide well.
- The LP pool's hedge, isolated positions (a build feature that is off), swaps beyond
  their floor gate, the setters of admin parameters that no modelled state depends on,
  `handle_update_perp_market_pnl_pool`, the vaults' pass-through of insurance stakes.
- Forks. The mirror of the order book sees one history of writes; a stream at the
  processed commitment may also show writes of a fork that is dropped, and what the
  book does then is outside the model.
- The clients' transport (pubsub client, heartbeats, reconnects of the websocket),
  transaction building, SDKs, keeper bots: they choose which instructions to send, and
  the on-chain modules allow every choice.
- Generated code, IDL types, layouts and loaders, fuzzers and tests hold no protocol
  state of their own, and are a large share of the repository's lines.
- Interactions of two modules within one instruction (a fill moves positions, slots and
  fees): each module has its own part, and no theorem relates the parts.
