---------------------------- MODULE EquityFloor ----------------------------
(***************************************************************************)
(* Equity floors and the breaker of an authority: the admin gives a        *)
(* subaccount a floor and a buffer under its net equity; whatever takes    *)
(* value or risk must end at or above the buffered floor, reductions are   *)
(* exempt, and a subaccount proved below its raw floor arms a breaker that *)
(* freezes every subaccount of the authority until the admin resets it.    *)
(*                                                                         *)
(* A subaccount holds quote (a deposit or a borrow) and units of one risky *)
(* asset, all of the authority's in a perp market or all in a spot market. *)
(* Margin requirements are left open: an instruction that passes the       *)
(* floor's gates may still be refused, and any position may be liquidated. *)
(* Executions are at any price of Prices, the oracle's or not; a fill has  *)
(* at most one maker among the siblings.  Only the risky asset's oracle    *)
(* may be invalid.                                                         *)
(***************************************************************************)
EXTENDS ProtocolMath

CONSTANTS
    Subaccounts,     \* subaccounts of the authority
    Outside,         \* every other user, and the AMM
    Prices,          \* oracle prices, all positive
    MaxUnits,        \* bound: units of the asset a subaccount is long or short
    MaxQuote,        \* bound: quote a subaccount holds
    MaxQuoteDebt,    \* bound: quote a subaccount owes
    MaxFloor,        \* bound: floor a subaccount carries
    QuoteAmounts,         \* quote amounts deposited, withdrawn and transferred
    FloorSettings,   \* pairs of a floor and a buffer the admin may set
    FloorDeltas      \* floor a delegate's transfer may carry

VARIABLES
    asset,     \* market of the risky asset: "perp" or "spot"
    sub,       \* the subaccounts: quote, units, floor and buffer of each
    price,     \* price the oracle reports
    oracleOk,  \* the oracle is valid for margin calculations
    tripped    \* the breaker's flag, in the authority's user stats

floorVars == <<asset, sub, price, oracleOk, tripped>>

ASSUME FloorAssumption ==
    /\ Outside \notin Subaccounts
    /\ Prices \subseteq Nat \ {0}
    /\ MaxUnits \in Nat /\ MaxQuote \in Nat /\ MaxQuoteDebt \in Nat /\ MaxFloor \in Nat
    /\ QuoteAmounts \subseteq Nat /\ FloorDeltas \subseteq Nat
    /\ FloorSettings \subseteq Nat \X Nat

Quotes == -MaxQuoteDebt .. MaxQuote
Units == -MaxUnits .. MaxUnits
Deals == -2 * MaxUnits .. 2 * MaxUnits     \* a deal may turn a position around
WithinBounds(subs) ==
    \A s \in Subaccounts : subs[s].quote \in Quotes /\ subs[s].units \in Units /\ subs[s].floor <= MaxFloor

---------------------------------------------------------------------------
(* Net equity and what it proves. *)

EquityAt(u, p) == u.quote + u.units * p
Equity(u) == EquityAt(u, price)
AllOraclesValid(u) == oracleOk \/ u.units = 0

BelowFloor(u) == u.floor > 0 /\ Equity(u) < u.floor
BelowBufferedFloor(u) == u.floor > 0 /\ Equity(u) < u.floor + u.buffer

\* What every path that takes value or risk must prove of a floored subaccount.
ClearsBufferedFloor(u) == u.floor = 0 \/ (AllOraclesValid(u) /\ ~BelowBufferedFloor(u))

\* The trip's upper bound: with an invalid oracle a short counts for nothing
\* and a long has no bound.
TripProvable(u) == AllOraclesValid(u) \/ u.units < 0
TripUpperBound(u) == IF AllOraclesValid(u) THEN Equity(u) ELSE u.quote

\* Faulty: the breach is judged at the reported price.
BreachAtReportedPrice(u) == BelowFloor(u)

ProvesBreach(u) == u.floor > 0 /\ TripProvable(u) /\ TripUpperBound(u) < u.floor

LazyTrip(flag, u) == flag \/ ProvesBreach(u)

---------------------------------------------------------------------------
(* Positions. *)

Adjusted(u, quote, units) == [u EXCEPT !.quote = @ + quote, !.units = @ + units]
Traded(u, units, p) == Adjusted(u, -(units * p), units)

\* Buyer and seller exchange units at p; either may be Outside.
Exchanged(buyer, seller, units, p) ==
    [s \in Subaccounts |-> CASE s = buyer -> Traded(sub[s], units, p)
                             [] s = seller -> Traded(sub[s], -units, p)
                             [] OTHER -> sub[s]]

\* An order reduces when it is opposite the position and no larger.
IsOrderPositionReducing(order, units) ==
    Signum(order) = -Signum(units) /\ units # 0 /\ Abs(order) <= Abs(units)

\* A maker's fill reduces when the position shrinks without changing side.
MakerRiskIncreasing(before, after) ==
    ~(after = 0 \/ (Signum(after) = Signum(before) /\ Abs(after) < Abs(before)))

---------------------------------------------------------------------------
FloorInit ==
    /\ asset \in {"perp", "spot"}
    /\ sub \in [Subaccounts -> {[quote |-> q, units |-> 0, floor |-> 0, buffer |-> 0] : q \in {0, MaxQuote}}]
    /\ price \in Prices
    /\ oracleOk = TRUE
    /\ tripped = FALSE

OracleMoves(p, valid) ==
    /\ price' = p
    /\ oracleOk' = valid
    /\ UNCHANGED <<asset, sub, tripped>>

DepositQuote(s, amount) ==
    /\ sub' = [sub EXCEPT ![s] = Adjusted(@, amount, 0)]
    /\ UNCHANGED <<asset, price, oracleOk, tripped>>

WithdrawQuote(s, amount) ==
    /\ ~tripped
    /\ sub' = [sub EXCEPT ![s] = Adjusted(@, -amount, 0)]
    /\ ClearsBufferedFloor(sub'[s])
    /\ UNCHANGED <<asset, price, oracleOk, tripped>>

\* transfer_spot_deposit: the debited side must clear its buffered floor.
Transferred(subs, from, to, amount) ==
    [subs EXCEPT ![from] = Adjusted(@, -amount, 0), ![to] = Adjusted(@, amount, 0)]

TransferDepositByOwner(from, to, amount) ==
    /\ ~tripped
    /\ from # to
    /\ sub' = Transferred(sub, from, to, amount)
    /\ ClearsBufferedFloor(sub'[from])
    /\ UNCHANGED <<asset, price, oracleOk, tripped>>

\* Floor and a share of the buffer, rounded up, move together.
Burdened(u, floor, buffer) == [u EXCEPT !.floor = @ + floor, !.buffer = @ + buffer]
BufferDelta(u, delta) == IF delta = 0 THEN 0 ELSE CeilDiv(u.buffer * delta, u.floor)

\* Faulty: the receiver is credited a share of the buffer rounded down.
FloorTransferredUnevenly(from, to, delta) ==
    [sub EXCEPT ![from] = Burdened(@, -delta, -BufferDelta(@, delta)),
                ![to] = Burdened(@, delta, IF delta = 0 THEN 0 ELSE (sub[from].buffer * delta) \div sub[from].floor)]

TransferEquityFloor(from, to, delta) ==
    [sub EXCEPT ![from] = Burdened(@, -delta, -BufferDelta(sub[from], delta)),
                ![to] = Burdened(@, delta, BufferDelta(sub[from], delta))]

\* With the breaker armed a delegate may only move funds into a breach.
CureAllowed(to, delta) ==
    delta = 0 /\ sub[to].floor > 0 /\ AllOraclesValid(sub[to]) /\ BelowBufferedFloor(sub[to])

\* Faulty: the sender is only held to the floor it is left with.
FloorMayMoveLate(from, delta) == delta > 0 => delta <= sub[from].floor

\* Floor leaves a subaccount only while that subaccount is not below it.
FloorMayMove(from, delta) ==
    delta > 0 => delta <= sub[from].floor /\ AllOraclesValid(sub[from]) /\ ~BelowFloor(sub[from])

TransferDepositByDelegate(from, to, amount, delta) ==
    /\ from # to
    /\ tripped => CureAllowed(to, delta)
    /\ FloorMayMove(from, delta)
    /\ sub' = Transferred(TransferEquityFloor(from, to, delta), from, to, amount)
    /\ ClearsBufferedFloor(sub'[from])
    /\ delta > 0 => AllOraclesValid(sub'[to]) /\ ~BelowBufferedFloor(sub'[to])
    /\ UNCHANGED <<asset, price, oracleOk, tripped>>

\* A deposit of quote and a borrow of the asset move together between pools.
TransferPools(from, to, amount, borrow) ==
    /\ asset = "spot"
    /\ ~tripped
    /\ from # to
    /\ amount <= Greater(sub[from].quote, 0)
    /\ borrow <= Greater(-sub[from].units, 0)
    /\ sub' = [sub EXCEPT ![from] = Adjusted(@, -amount, borrow), ![to] = Adjusted(@, amount, -borrow)]
    /\ ClearsBufferedFloor(sub'[from])
    /\ ClearsBufferedFloor(sub'[to])
    /\ UNCHANGED <<asset, price, oracleOk, tripped>>

\* Part of a perp position moves at the oracle price; units are signed.
TransferPerpPosition(from, to, units) ==
    /\ asset = "perp"
    /\ ~tripped
    /\ from # to
    /\ units # 0 /\ Signum(units) = Signum(sub[from].units) /\ Abs(units) <= Abs(sub[from].units)
    /\ oracleOk
    /\ sub' = Exchanged(to, from, units, price)
    /\ ClearsBufferedFloor(sub'[from])
    /\ ClearsBufferedFloor(sub'[to])
    /\ UNCHANGED <<asset, price, oracleOk, tripped>>

---------------------------------------------------------------------------
(* Fills: the taker's gate, then the maker's with the flag as the taker left it. *)

\* A floor that cannot be verified withholds the fill before it happens.
TakerWithheld(reducing, before) == before.floor > 0 /\ ~reducing /\ ~AllOraclesValid(before)

TakerGate(reducing, after) == reducing \/ (~tripped /\ ClearsBufferedFloor(after))

\* Faulty: the maker's gate does not look at the breaker.
MakerGateWithoutBreaker(flag, before, after) ==
    MakerRiskIncreasing(before.units, after.units) => ClearsBufferedFloor(after)

MakerGate(flag, before, after) ==
    MakerRiskIncreasing(before.units, after.units) => ~flag /\ ClearsBufferedFloor(after)

FlagAfterTaker(reducing, after) == IF reducing THEN LazyTrip(tripped, after) ELSE tripped

FlagAfterMaker(flag, before, after) ==
    IF MakerRiskIncreasing(before.units, after.units) THEN flag ELSE LazyTrip(flag, after)

\* The taker's order, signed, is filled for `filled` of its units at p, no more.  A fill
\* that liquidates the taker skips the taker's gate and its lazy trip.
FillPerpOrder(taker, maker, order, filled, p, liquidation) ==
    /\ asset = "perp"
    /\ taker # maker
    /\ Signum(filled) = Signum(order) /\ Abs(filled) <= Abs(order)
    /\ sub' = Exchanged(taker, maker, filled, p)
    /\ \E reducing \in {taker = Outside \/ IsOrderPositionReducing(order, sub[taker].units)} :
          /\ liquidation => reducing /\ taker # Outside
          /\ taker # Outside /\ ~liquidation =>
                ~TakerWithheld(reducing, sub[taker]) /\ TakerGate(reducing, sub'[taker])
          /\ \E flag \in {IF taker = Outside \/ liquidation THEN tripped
                                                           ELSE FlagAfterTaker(reducing, sub'[taker])} :
                /\ maker # Outside => MakerGate(flag, sub[maker], sub'[maker])
                /\ tripped' = IF maker = Outside THEN flag
                                                 ELSE FlagAfterMaker(flag, sub[maker], sub'[maker])
    /\ UNCHANGED <<asset, price, oracleOk>>

\* A trigger that would add risk to a subaccount that may not carry it cancels
\* the order and arms the breaker; an unverifiable floor refuses the trigger.
TriggerCancels(s) ==
    /\ asset = "perp"
    /\ sub[s].floor > 0 => AllOraclesValid(sub[s])
    /\ tripped' = LazyTrip(tripped, sub[s])
    /\ UNCHANGED <<asset, sub, price, oracleOk>>

---------------------------------------------------------------------------
(* Swaps. *)

ValueUnit == 100
SwapMaxLossBps == 100

\* The leg given up is consumed from a deposit, the leg received repays a borrow.
ConsumesDeposit(before, amount) == before > 0 /\ amount <= before
RepaysBorrow(before, amount) == before < 0 /\ amount <= -before

\* Value of the legs at the worse of the live price and the five-minute twap.
SwapLossBounded(quoteOut, unitsOut, twap) ==
    LET in  == IF quoteOut < 0 THEN -quoteOut ELSE -unitsOut * Greater(price, twap)
        out == IF quoteOut < 0 THEN unitsOut * Lesser(price, twap) ELSE quoteOut
    IN ValueUnit * out >= (ValueUnit * in * (10000 - SwapMaxLossBps)) \div 10000

\* Signed changes of quote and units, one given up and the other received.
EndSwap(s, quoteOut, unitsOut, twap) ==
    /\ asset = "spot"
    /\ Signum(quoteOut) * Signum(unitsOut) = -1
    /\ sub' = [sub EXCEPT ![s] = Adjusted(@, quoteOut, unitsOut)]
    /\ \E reducing \in {IF quoteOut < 0
                           THEN ConsumesDeposit(sub[s].quote, -quoteOut) /\ RepaysBorrow(sub[s].units, unitsOut)
                           ELSE ConsumesDeposit(sub[s].units, -unitsOut) /\ RepaysBorrow(sub[s].quote, quoteOut)} :
          /\ tripped => reducing
          /\ reducing /\ (tripped \/ sub[s].floor > 0) => oracleOk /\ SwapLossBounded(quoteOut, unitsOut, twap)
          /\ reducing \/ ClearsBufferedFloor(sub'[s])
          /\ tripped' = IF reducing THEN LazyTrip(tripped, sub'[s]) ELSE tripped
    /\ UNCHANGED <<asset, price, oracleOk>>

---------------------------------------------------------------------------
(* Liquidations, the breaker and the admin. *)

\* Faulty: the liquidator is only held to its own floor.
LiquidatorMayTakeOnRegardless(after) == ClearsBufferedFloor(after)

LiquidatorMayTakeOn(after) == ~tripped /\ ClearsBufferedFloor(after)

\* The liquidator takes over part of the user's position at p.
LiquidateUnits(user, liquidator, units, p) ==
    /\ user # liquidator
    /\ user # Outside => IsOrderPositionReducing(units, sub[user].units)
    /\ units # 0
    /\ sub' = Exchanged(user, liquidator, units, p)
    /\ liquidator # Outside => LiquidatorMayTakeOn(sub'[liquidator])
    /\ UNCHANGED <<asset, price, oracleOk, tripped>>

TripEquityFloorBreaker(s) ==
    /\ ProvesBreach(sub[s])
    /\ tripped' = TRUE
    /\ UNCHANGED <<asset, sub, price, oracleOk>>

ResetEquityFloorBreaker ==
    /\ \A s \in Subaccounts : sub[s].floor > 0 => AllOraclesValid(sub[s]) /\ ~BelowBufferedFloor(sub[s])
    /\ tripped' = FALSE
    /\ UNCHANGED <<asset, sub, price, oracleOk>>

UpdateUserEquityFloor(s, setting) ==
    /\ sub' = [sub EXCEPT ![s].floor = setting[1], ![s].buffer = setting[2]]
    /\ UNCHANGED <<asset, price, oracleOk, tripped>>

\* An empty subaccount is closed with its floor; the next one created has none.
DeleteUser(s) ==
    /\ sub[s].quote = 0 /\ sub[s].units = 0
    /\ sub' = [sub EXCEPT ![s].floor = 0, ![s].buffer = 0]
    /\ UNCHANGED <<asset, price, oracleOk, tripped>>

---------------------------------------------------------------------------
Parties == Subaccounts \cup {Outside}

FloorStep ==
    \/ \E p \in Prices, valid \in BOOLEAN : OracleMoves(p, valid)
    \/ \E s \in Subaccounts :
          \/ \E a \in QuoteAmounts : DepositQuote(s, a) \/ WithdrawQuote(s, a)
          \/ TriggerCancels(s)
          \/ TripEquityFloorBreaker(s)
          \/ DeleteUser(s)
          \/ \E setting \in FloorSettings : UpdateUserEquityFloor(s, setting)
          \/ \E q \in Quotes, n \in Deals \ {0}, twap \in Prices : EndSwap(s, q, n, twap)
    \/ \E from, to \in Subaccounts :
          \/ \E a \in QuoteAmounts : TransferDepositByOwner(from, to, a)
          \/ \E a \in QuoteAmounts \cup {0}, d \in FloorDeltas \cup {0} : TransferDepositByDelegate(from, to, a, d)
          \/ \E a \in QuoteAmounts \cup {0}, b \in 0 .. MaxUnits : TransferPools(from, to, a, b)
          \/ \E n \in Units : TransferPerpPosition(from, to, n)
    \/ \E one, other \in Parties, n \in Deals \ {0}, p \in Prices :
          \/ \E rest \in 0 .. MaxUnits, liquidation \in BOOLEAN :
                FillPerpOrder(one, other, n + Signum(n) * rest, n, p, liquidation)
          \/ LiquidateUnits(one, other, n, p)
    \/ ResetEquityFloorBreaker

FloorNext == FloorStep /\ WithinBounds(sub')

FloorSpec == FloorInit /\ [][FloorNext]_floorVars

---------------------------------------------------------------------------
(* Properties. *)

FloorTypeOK ==
    /\ asset \in {"perp", "spot"}
    /\ sub \in [Subaccounts -> [quote : Int, units : Int, floor : Nat, buffer : Nat]]
    /\ price \in Prices
    /\ oracleOk \in BOOLEAN
    /\ tripped \in BOOLEAN

Grows(s) == Abs(sub'[s].units) > Abs(sub[s].units)
Shrinks(s) == Abs(sub'[s].units) < Abs(sub[s].units)
LosesEquity(s) == Equity(sub'[s]) < Equity(sub[s])

\* Exposure is taken on, and equity lost, only through a gate or by a reduction.
Gated(s) ==
    /\ Grows(s) => ~tripped /\ ClearsBufferedFloor(sub'[s])
    /\ LosesEquity(s) => ClearsBufferedFloor(sub'[s]) \/ Shrinks(s)

\* What a subaccount loses in quote a sibling gains.
QuoteStays ==
    \A s \in Subaccounts :
       sub'[s].quote < sub[s].quote =>
          \E t \in Subaccounts : sub'[t].quote - sub[t].quote = sub[s].quote - sub'[s].quote

\* While prices stand still, a subaccount takes on exposure only with the breaker
\* down and its buffered floor proved, and loses equity only if its buffered floor
\* is proved or its exposure shrank; with the breaker armed, quote leaves the
\* authority only against exposure given up (the gates at the withdrawal, transfer,
\* swap, taker, maker and liquidator seats, and the lazy trips between them).
OnlyReductionsGoUngated ==
    [][(price' = price /\ oracleOk' = oracleOk) =>
         /\ \A s \in Subaccounts : Gated(s)
         /\ tripped => (\E s \in Subaccounts : Shrinks(s)) \/ QuoteStays]_floorVars

\* The breaker is armed only over a subaccount that is below its floor whatever the
\* true price of an asset whose oracle is invalid: no bad price freezes an authority.
TripProvesBreach ==
    [][~tripped /\ tripped' =>
         \E s \in Subaccounts :
            \A p \in (IF oracleOk THEN {price} ELSE Prices) :
               EquityAt(sub'[s], p) < sub'[s].floor]_floorVars

\* The floor of one subaccount changes alone: the admin's setting, or a deletion.
FloorSetAlone(s) ==
    sub'[s].floor # sub[s].floor /\ \A t \in Subaccounts \ {s} : sub'[t].floor = sub[t].floor

\* Floor that leaves s for t arrives there whole, its buffer with it, and a floor
\* given away to the last leaves no buffer behind.
FloorMovesWhole(s, t) ==
    /\ sub'[t].floor - sub[t].floor = sub[s].floor - sub'[s].floor
    /\ sub'[t].buffer - sub[t].buffer = sub[s].buffer - sub'[s].buffer
    /\ sub'[s].floor = 0 => sub'[s].buffer = 0
    /\ \A u \in Subaccounts \ {s, t} : sub'[u] = sub[u]

\* A subaccount below its floor leaves the breach only by gaining equity, unless the
\* price moves or the admin changes its floor: a delegate's transfer of floor cannot
\* defuse a pending trip; and floor moves whole (#55, transfer_equity_floor).
BreachNotDefused ==
    [][/\ \A s \in Subaccounts :
             BelowFloor(sub[s]) =>
                \/ BelowFloor(sub'[s])
                \/ Equity(sub'[s]) > Equity(sub[s])
                \/ price' # price
                \/ FloorSetAlone(s)
       /\ \A s, t \in Subaccounts :
             sub'[s].floor < sub[s].floor /\ sub'[t].floor > sub[t].floor => FloorMovesWhole(s, t)]_floorVars
=============================================================================
