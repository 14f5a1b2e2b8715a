----------------------------- MODULE OrderSlots -----------------------------
(***************************************************************************)
(* What the calls behind the order instructions of a perp market do to the *)
(* order slots of a user account and to the tallies kept beside them - the *)
(* open bids and asks of the position, which the margin checks read, and   *)
(* the counts of open orders and auctions, which keepers and the idle and  *)
(* deletion checks read.  The source is controller/orders.rs with the      *)
(* Order and User methods of state/user.rs; module Orders has the          *)
(* instructions that make these calls.                                     *)
(*                                                                         *)
(* Prices, margin and oracle conditions are the environment's choice: an   *)
(* instruction that fails one of them is reverted, so only the outcomes    *)
(* that leave a trace are modelled.  Sizes are in order steps.  The orders *)
(* here carry no builder code (PerpPools has those).                       *)
(***************************************************************************)
EXTENDS ProtocolMath, FiniteSets, FiniteSetsExt

CONSTANTS
    Users,
    Slots,        \* the number of order slots of an account (32)
    MaxAmount,    \* bound: size of an order
    MaxTime       \* bound: the clock

ASSUME SlotConstants == {Slots, MaxAmount, MaxTime} \subseteq Nat \ {0}

VARIABLES
    market,       \* MarketStatus, as far as orders tell it apart
    now

Indexes == 1..Slots
Directions == {"long", "short"}
Kinds == {"limit", "market", "triggerLimit", "triggerMarket"}

\* What a caller may ask for.
Params ==
    [kind : Kinds, dir : Directions, amount : 1..MaxAmount, reduceOnly : BOOLEAN,
     auction : BOOLEAN, maxTs : 0..MaxTime, uid : 0..1]

Opposite(d) == IF d = "long" THEN "short" ELSE "long"
Signed(d, amount) == IF d = "long" THEN amount ELSE -amount

\* A slot nothing was ever placed in.  A closed order leaves its slot like
\* this, except for the two fields that are still read afterwards.
Free == [open |-> FALSE, id |-> 0, uid |-> 0, kind |-> "limit", dir |-> "long",
         amount |-> 0, filled |-> 0, reduceOnly |-> FALSE,
         newTrigger |-> FALSE, triggered |-> FALSE, auction |-> FALSE,
         maxTs |-> 0]

Closed(o) == [Free EXCEPT !.uid = o.uid, !.auction = o.auction]

OrderType ==
    [open : BOOLEAN, id : Nat, uid : 0..1, kind : Kinds,
     dir : Directions, amount : 0..MaxAmount, filled : 0..MaxAmount,
     reduceOnly : BOOLEAN, newTrigger : BOOLEAN, triggered : BOOLEAN,
     auction : BOOLEAN, maxTs : 0..MaxTime]

-----------------------------------------------------------------------------
(* Reading an order. *)

MustBeTriggered(o) == o.kind \in {"triggerLimit", "triggerMarket"}

\* Faulty: keeps only the stored flag, which a fill in a reduce-only market
\* sets on orders that were booked when they were triggered.
CountedByReduceOnly(o) ==
    ~MustBeTriggered(o) \/ (o.triggered /\ ~o.reduceOnly)

\* Does the order stand in the open bids and asks of the position?  A trigger
\* order placed reduce-only never does.
UpdateOpenBidsAndAsks(o) ==
    \/ ~MustBeTriggered(o)
    \/ o.triggered /\ ~(o.reduceOnly /\ o.newTrigger)

Unfilled(o) == o.amount - o.filled

\* get_base_asset_amount_unfilled(Some(base)): a reduce-only order can take at
\* most what the position it reduces still holds.
UnfilledFor(o, base) ==
    IF ~o.reduceOnly THEN Unfilled(o)
    ELSE IF base = 0 \/ (o.dir = "long") = (base > 0) THEN 0
    ELSE Lesser(Unfilled(o), Abs(base))

ShouldExpire(o) ==
    o.open /\ o.maxTs # 0 /\ ~MustBeTriggered(o) /\ now > o.maxTs

ShouldCancelReduceOnly(o, base) ==
    o.open /\ o.reduceOnly /\ UnfilledFor(o, base) < 1

IsOrderPositionReducing(o, base) ==
    /\ base # 0
    /\ (o.dir = "long") = (base < 0)
    /\ UnfilledFor(o, base) <= Abs(base)

\* The larger of the two positions the open orders could leave behind.
WorstCase(U) == Greater(Abs(U.base + U.bids), Abs(U.base + U.asks))

OpenSlots(U) == {i \in Indexes : U.orders[i].open}

\* get_order_index: the open order with this id.
SlotsWithId(U, id) == {i \in Indexes : U.orders[i].open /\ U.orders[i].id = id}

-----------------------------------------------------------------------------
(* The tallies. *)

IncreaseOpen(U, o, amount) ==
    IF ~UpdateOpenBidsAndAsks(o) THEN U
    ELSE IF o.dir = "long" THEN [U EXCEPT !.bids = @ + amount]
    ELSE [U EXCEPT !.asks = @ - amount]

\* The decrease saturates, so a mismatch would go unnoticed.
DecreaseOpen(U, o, amount) ==
    IF ~UpdateOpenBidsAndAsks(o) THEN U
    ELSE IF o.dir = "long" THEN [U EXCEPT !.bids = Greater(@ - amount, 0)]
    ELSE [U EXCEPT !.asks = Lesser(@ + amount, 0)]

IncrementOpenOrders(U, auction) ==
    [U EXCEPT !.openOrders = @ + 1,
              !.openAuctions = IF auction THEN @ + 1 ELSE @]

DecrementOpenOrders(U, auction) ==
    [U EXCEPT !.openOrders = Greater(@ - 1, 0),
              !.openAuctions = IF auction THEN Greater(@ - 1, 0) ELSE @]

\* An order leaves its slot, filled or cancelled.
CloseOrder(U, i) ==
    [DecrementOpenOrders(U, U.orders[i].auction)
        EXCEPT !.orders[i] = Closed(U.orders[i]),
               !.posOrders = @ - 1]

\* cancel_order on a slot known to be open.
CancelOrder(U, i) ==
    CloseOrder(DecreaseOpen(U, U.orders[i], Unfilled(U.orders[i])), i)

CancelSlots(U, S) ==
    LET after[k \in 0..Slots] ==
            IF k = 0 THEN U
            ELSE IF k \in S THEN CancelOrder(after[k - 1], k) ELSE after[k - 1]
    IN  after[Slots]

ExpireOrders(U) == CancelSlots(U, {i \in Indexes : ShouldExpire(U.orders[i])})

CancelById(U, id) == CancelSlots(U, SlotsWithId(U, id))

\* An instruction refuses a user in liquidation unless margin has recovered,
\* in which case it takes the user out (validate_user_not_being_liquidated).
NotBeingLiquidated(U) == [U EXCEPT !.liquidated = FALSE]

-----------------------------------------------------------------------------
(* Placing. *)

FreeSlot(U) == Min(Indexes \ OpenSlots(U))

AddOrder(U, o) ==
    IncreaseOpen([IncrementOpenOrders(U, o.auction)
                    EXCEPT !.orders[FreeSlot(U)] = o,
                           !.posOrders = @ + 1,
                           !.nextId = @ + 1], o, o.amount)

\* A trigger order starts its auction when it is triggered; market orders
\* always have one.
NewOrder(U, p) ==
    LET reduceOnly == p.reduceOnly \/ market = "reduceOnly"
        trigger == MustBeTriggered(p)
    IN  [open |-> TRUE, id |-> U.nextId, uid |-> p.uid, kind |-> p.kind,
         dir |-> p.dir, amount |-> p.amount, filled |-> 0,
         reduceOnly |-> reduceOnly,
         newTrigger |-> trigger /\ reduceOnly,
         triggered |-> FALSE,
         auction |-> ~trigger /\ (p.auction \/ p.kind = "market"),
         maxTs |-> p.maxTs]

\* Faulty: lets a user order id be used twice.
UserIdNeverInUse(U, uid) == FALSE

UserIdInUse(U, uid) ==
    uid # 0 /\ \E i \in OpenSlots(U) : U.orders[i].uid = uid

\* validate_order_for_force_reduce_only
Reduces(U, p) == U.base # 0 /\ (p.dir = "long") = (U.base < 0)

OneIf(condition, x) == IF condition THEN {x} ELSE {}

\* The accounts place_perp_order may leave; none when it fails.  An order that
\* is already past its deadline is skipped without consuming an id, and a
\* TryPostOnly order that would cross consumes one and is not placed.
PlaceOutcomes(U, p, tryPostOnly) ==
    LET E == ExpireOrders(U)
    IN  IF \/ OpenSlots(E) = Indexes
           \/ UserIdInUse(E, p.uid)
           \/ market = "settlement"
        THEN {}
        ELSE IF p.maxTs # 0 /\ p.maxTs < now THEN {E}
        ELSE OneIf(tryPostOnly, [E EXCEPT !.nextId = @ + 1])
             \cup OneIf(market = "reduceOnly" => Reduces(E, p),
                        AddOrder(E, NewOrder(E, p)))

-----------------------------------------------------------------------------
(* Filling. *)

\* Faulty: fills trigger orders before they are triggered.
NothingWaits(o) == FALSE

WaitsForTrigger(o) == MustBeTriggered(o) /\ ~o.triggered

\* Faulty: trusts the flag the order was placed with.
StampNothing(o) == o

\* A reduce-only market forces the orders it fills, whenever placed.
Stamp(o) == IF market = "reduceOnly" THEN [o EXCEPT !.reduceOnly = TRUE] ELSE o

\* Faulty: the filled part stays in the open bids and asks.
FillSlotBooked(U, i, amount) ==
    LET o == U.orders[i]
        F == [U EXCEPT !.orders[i].filled = @ + amount,
                       !.base = @ + Signed(o.dir, amount)]
    IN  IF amount = Unfilled(o) THEN CloseOrder(F, i) ELSE F

\* One fill of an order against the AMM or another order: the order, the
\* position and the tallies, and the counts once nothing is left of it.
FillSlot(U, i, amount) ==
    LET o == U.orders[i]
        F == DecreaseOpen([U EXCEPT !.orders[i].filled = @ + amount,
                                    !.base = @ + Signed(o.dir, amount)],
                          o, amount)
    IN  IF amount = Unfilled(o) THEN CloseOrder(F, i) ELSE F

\* What a fill may still take from a slot.
Fillable(U, i) ==
    IF U.orders[i].open THEN UnfilledFor(U.orders[i], U.base) ELSE 0

AmmFills(acc, t, i) ==
    {[acc EXCEPT ![t] = FillSlot(@, i, a)] : a \in 1..Fillable(acc[t], i)}

MatchFills(acc, t, i, m, j) ==
    {[acc EXCEPT ![t] = FillSlot(@, i, a), ![m] = FillSlot(@, j, a)] :
        a \in 1..Lesser(Fillable(acc[t], i), Fillable(acc[m], j))}

\* One round of fulfilment: nothing, the AMM (on its own or as the just-in-time
\* share of a match), or one of the maker's orders.
FulfillStep(acc, t, i, m, slots) ==
    {acc} \cup AmmFills(acc, t, i)
          \cup UNION {MatchFills(acc, t, i, m, j) : j \in slots}

\* An order of two steps is filled in at most two rounds.
Fulfill(acc, t, i, m, slots) ==
    UNION {FulfillStep(x, t, i, m, slots) : x \in FulfillStep(acc, t, i, m, slots)}

\* find_maker_orders, and the one order a just-in-time maker brings.
MakerSlots(M, d, jit) ==
    {j \in OpenSlots(M) :
        /\ M.orders[j].dir = d
        /\ M.orders[j].kind \in {"limit", "triggerLimit"}
        /\ ~WaitsForTrigger(M.orders[j])
        /\ jit # 0 => M.orders[j].id = jit}

\* get_maker_orders_info: the orders among them that are ripe, no longer in
\* auction, are stamped; the expired, the reduce-only ones with
\* nothing to reduce and those outside the price bands are cancelled.
CleanMaker(M, ripe, breaching) ==
    LET S == [M EXCEPT !.orders = [j \in Indexes |->
                    IF j \in ripe THEN Stamp(M.orders[j]) ELSE M.orders[j]]]
    IN  CancelSlots(S, {j \in ripe : \/ j \in breaching
                                     \/ ShouldExpire(S.orders[j])
                                     \/ ShouldCancelReduceOnly(S.orders[j], S.base)})

\* cancel_reduce_only_trigger_orders, once the position is closed and nothing
\* is booked that could reopen it.
CancelIdleTriggers(U) ==
    IF U.base # 0 \/ U.bids # 0 \/ U.asks # 0 THEN U
    ELSE CancelSlots(U, {i \in OpenSlots(U) : WaitsForTrigger(U.orders[i])
                                              /\ U.orders[i].reduceOnly})

AfterFill(U, i) ==
    CancelIdleTriggers(IF ShouldCancelReduceOnly(U.orders[i], U.base)
                       THEN CancelOrder(U, i) ELSE U)

\* fill_perp_order from the point where the maker's orders are known.
FillTaker(acc, t, i, m, slots) ==
    LET U == acc[t]
    IN  IF ShouldExpire(U.orders[i]) \/ ShouldCancelReduceOnly(U.orders[i], U.base)
        THEN {[acc EXCEPT ![t] = CancelOrder(U, i)]}
        ELSE {[f EXCEPT ![t] = AfterFill(@, i)] : f \in Fulfill(acc, t, i, m, slots)}

\* The maker's orders are cleaned, and an oracle too far from its average may
\* stop the fill there.
CleanAndFill(acc, t, i, m, ripe, breaching) ==
    LET C == [acc EXCEPT ![m] = CleanMaker(@, ripe, breaching)]
    IN  {C} \cup FillTaker(C, t, i, m, ripe \cap OpenSlots(C[m]))

\* The states fill_perp_order may leave behind for the order in slot i of t,
\* with the orders of maker m (one of them, if jit names it).  A user still in
\* liquidation is left as stamped.
FillOutcomes(acc, t, i, m, jit, liquidation) ==
    LET S == [acc EXCEPT ![t].orders[i] = Stamp(@)]
        R == IF liquidation THEN S ELSE [S EXCEPT ![t] = NotBeingLiquidated(@)]
        d == Opposite(acc[t].orders[i].dir)
        candidates == IF acc[m].liquidated THEN {} ELSE MakerSlots(acc[m], d, jit)
    IN  IF \/ market = "settlement"
           \/ WaitsForTrigger(acc[t].orders[i])
        THEN {}
        ELSE OneIf(acc[t].liquidated /\ ~liquidation, S)
             \cup UNION {UNION {CleanAndFill(R, t, i, m, ripe, breaching) :
                                    breaching \in SUBSET ripe} :
                         ripe \in SUBSET candidates}

-----------------------------------------------------------------------------
(* What the tallies and the position are measured by. *)

\* What an order should add to the open bids (asks) of its account.
Part(o, d) ==
    IF o.open /\ o.dir = d /\ UpdateOpenBidsAndAsks(o) THEN Unfilled(o) ELSE 0

\* What the open bids (asks) of an account should be: the unfilled sizes of
\* its booked orders on that side.
Booked(U, d) == SumFunctionOnSet([i \in Indexes |-> Part(U.orders[i], d)], Indexes)

\* b shrinks to c: towards zero and not across it.
ShrinksTo(b, c) == c \in 0..b \/ c \in b..0
=============================================================================
