------------------------------- MODULE Orders -------------------------------
(***************************************************************************)
(* The orders of a perp market: each instruction as the calls of module    *)
(* OrderSlots that it makes on one account or on two, for any number of    *)
(* accounts and one market.                                                *)
(***************************************************************************)
EXTENDS OrderSlots

CONSTANTS
    Requests,     \* bound: Requests[u], the orders u may ask for
    Bases,        \* bound: Bases[u], the positions u may start with
    Distressed,   \* bound: the users that may fall below their margin
    MaxOrderId,   \* bound: MaxOrderId[u], the ids given out to u
    MaxBase       \* bound: size of a position

Statuses == {"active", "reduceOnly", "settlement"}

ASSUME OrderConstants ==
    /\ IsFiniteSet(Users) /\ Distressed \subseteq Users
    /\ MaxBase \in Nat \ {0}
    /\ Requests \in [Users -> SUBSET Params]
    /\ Bases \in [Users -> SUBSET (-MaxBase..MaxBase)]
    /\ MaxOrderId \in [Users -> Nat \ {0}]

VARIABLE account      \* account[u]: order slots, position and tallies of u

vars == <<account, market, now>>

AccountType ==
    [orders : [Indexes -> OrderType],
     nextId : Nat \ {0},
     openOrders : 0..Slots,            \* User.open_orders
     openAuctions : 0..(2 * Slots),    \* User.open_auctions
     base : -MaxBase..MaxBase,         \* PerpPosition.base_asset_amount
     bids : Nat, asks : Int,           \* PerpPosition.open_bids, open_asks
     posOrders : 0..Slots,             \* PerpPosition.open_orders
     liquidated : BOOLEAN]             \* UserStatus::BeingLiquidated

-----------------------------------------------------------------------------
(* Instructions. *)

Bounded(acc) ==
    \A u \in Users : /\ acc[u].base \in -MaxBase..MaxBase
                     /\ acc[u].nextId <= MaxOrderId[u] + 1

\* An instruction that leaves one of these states behind.
Becomes(outcomes) ==
    /\ \E acc \in outcomes : Bounded(acc) /\ account' = acc
    /\ UNCHANGED <<market, now>>

\* An instruction that touches one account only.
UserBecomes(u, outcomes) == Becomes({[account EXCEPT ![u] = U] : U \in outcomes})

\* place_perp_order
PlacePerpOrder(u, p) ==
    UserBecomes(u, PlaceOutcomes(NotBeingLiquidated(account[u]), p, TRUE))

\* cancel_order_by_order_id; an unknown id is not an error.
CancelOrderByOrderId(u, i) ==
    i \in OpenSlots(account[u]) /\ UserBecomes(u, {CancelOrder(account[u], i)})

\* cancel_order_by_user_order_id finds the first slot that carries the id,
\* open or not, and fails if it is closed.
SlotOfUserId(U, uid) == Min({i \in Indexes : U.orders[i].uid = uid})

CancelOrderByUserOrderId(u, uid) ==
    /\ \E i \in Indexes : account[u].orders[i].uid = uid
    /\ LET i == SlotOfUserId(account[u], uid)
       IN  account[u].orders[i].open /\ UserBecomes(u, {CancelOrder(account[u], i)})

\* cancel_orders, of one side or of both
CancelOrders(u, sides) ==
    UserBecomes(u, {CancelSlots(account[u],
                        {i \in OpenSlots(account[u]) : account[u].orders[i].dir \in sides})})

\* merge_modify_order_params_with_existing_order: the type and the user order
\* id stay; the rest is what the caller asks for, or stays as well.
Merged(o, p, size) == [p EXCEPT !.kind = o.kind, !.uid = o.uid, !.amount = size]

AsPlaced(o) ==
    [kind |-> o.kind, dir |-> o.dir, amount |-> Unfilled(o), reduceOnly |-> o.reduceOnly,
     auction |-> FALSE, maxTs |-> o.maxTs, uid |-> o.uid]

\* modify_order: cancel, then place again under a new id.  With the previous
\* fill excluded the new size may come to nothing, and only the cancel is left.
ModifyOrder(u, i, p, exclude) ==
    LET U == account[u]
        o == U.orders[i]
        C == CancelOrder(U, i)
        size == IF exclude THEN Greater(p.amount - o.filled, 0) ELSE p.amount
    IN  /\ o.open
        /\ UserBecomes(u, IF size = 0 THEN {C}
                          ELSE PlaceOutcomes(NotBeingLiquidated(C), Merged(o, p, size), TRUE))

\* update_trigger_order_params and the bookings that follow.
Triggered(U, i) ==
    LET o == [U.orders[i] EXCEPT !.triggered = TRUE, !.auction = TRUE]
    IN  IncreaseOpen([U EXCEPT !.orders[i] = o, !.openAuctions = @ + 1], o, o.amount)

\* trigger_order: one that adds risk the user cannot carry is cancelled.
TriggerOrder(u, i) ==
    LET U == NotBeingLiquidated(account[u])
        T == Triggered(U, i)
    IN  /\ U.orders[i].open /\ MustBeTriggered(U.orders[i])
        /\ ~U.orders[i].triggered
        /\ market # "settlement"
        /\ UserBecomes(u, {T} \cup OneIf(WorstCase(T) > WorstCase(U) /\ ~T.orders[i].reduceOnly,
                                         CancelOrder(T, i)))

\* fill_perp_order, called by a keeper
FillPerpOrder(t, i, m) ==
    /\ i \in OpenSlots(account[t]) /\ m # t
    /\ Becomes(FillOutcomes(account, t, i, m, 0, FALSE))

\* The id a caller of place_perp_order takes for the order it has just placed.
LastOrderId(U) == U.nextId - 1

\* handle_place_and_take_perp_order: place, fill what is then the last order,
\* and cancel what an immediate-or-cancel order leaves.
PlaceAndTakeOutcomes(t, p, m, ioc) ==
    UNION {LET id == LastOrderId(P)
           IN  UNION {{IF ioc THEN [f EXCEPT ![t] = CancelById(@, id)] ELSE f :
                        f \in FillOutcomes([account EXCEPT ![t] = P], t, i, m, 0, FALSE)} :
                      i \in SlotsWithId(P, id)} :
           P \in PlaceOutcomes(NotBeingLiquidated(account[t]), p, FALSE)}

PlaceAndTake(t, p, m, ioc) ==
    m # t /\ Becomes(PlaceAndTakeOutcomes(t, p, m, ioc))

\* handle_place_and_make_perp_order: the maker u answers the taker's order in
\* slot i and never leaves an order behind.
PlaceAndMakeOutcomes(u, p, t, i) ==
    UNION {{[f EXCEPT ![u] = CancelById(@, LastOrderId(P))] :
                f \in FillOutcomes([account EXCEPT ![u] = P], t, i, u, LastOrderId(P), FALSE)} :
           P \in PlaceOutcomes(NotBeingLiquidated(account[u]), p, TRUE)}

PlaceAndMake(u, p, t, i) ==
    /\ u # t /\ i \in OpenSlots(account[t]) /\ p.kind = "limit"
    /\ Becomes(PlaceAndMakeOutcomes(u, p, t, i))

\* liquidate_perp_with_fill: cancel everything, then close part of the
\* position with an order of its own, which must fill and never stays.
LiquidationFills(u, m) ==
    LET C == [CancelSlots(account[u], OpenSlots(account[u])) EXCEPT !.liquidated = TRUE]
        order(a) == [kind |-> "limit", dir |-> IF C.base > 0 THEN "short" ELSE "long",
                     amount |-> a, reduceOnly |-> TRUE, auction |-> FALSE,
                     maxTs |-> 0, uid |-> 0]
    IN  UNION {LET id == LastOrderId(P)
               IN  UNION {{[f EXCEPT ![u] = CancelById(@, id)] :
                            f \in FillOutcomes([account EXCEPT ![u] = P], u, i, m, 0, TRUE)} :
                          i \in SlotsWithId(P, id)} :
               P \in UNION {PlaceOutcomes(C, order(a), FALSE) :
                                a \in 1..Lesser(Abs(C.base), MaxAmount)}}

LiquidatePerpWithFill(u, m) ==
    LET U == account[u]
        C == [CancelSlots(U, OpenSlots(U)) EXCEPT !.liquidated = TRUE]
    IN  /\ m # u /\ u \in Distressed
        /\ U.base # 0 \/ OpenSlots(U) # {}
        /\ \/ UserBecomes(u, OneIf(U.liquidated, NotBeingLiquidated(U))
                             \cup OneIf(OpenSlots(U) # {}, NotBeingLiquidated(C))
                             \cup OneIf(U.base = 0, C))
           \/ Becomes(UNION {{f, [f EXCEPT ![u] = NotBeingLiquidated(@)]} :
                        f \in {x \in LiquidationFills(u, m) : x[u].base # U.base}})

\* force_cancel_orders, of a user below initial margin: what reduces stays.
ForceCancelOrders(u) ==
    LET U == account[u]
    IN  /\ u \in Distressed /\ ~U.liquidated
        /\ UserBecomes(u, {CancelSlots(U, {i \in OpenSlots(U) :
                                ~IsOrderPositionReducing(U.orders[i], U.base)})})

\* handle_update_user_open_orders_count: the auctions of closed slots count too.
UpdateUserOpenOrdersCount(u) ==
    LET U == account[u]
    IN  UserBecomes(u, {[U EXCEPT
            !.openOrders = Cardinality(OpenSlots(U)),
            !.openAuctions = Cardinality({i \in Indexes : U.orders[i].auction})]})

\* The administrator changes the market's status; settlement is final here.
UpdateMarketStatus(s) ==
    /\ market # "settlement" /\ market # s
    /\ market' = s
    /\ UNCHANGED <<account, now>>

Tick == now < MaxTime /\ now' = now + 1 /\ UNCHANGED <<account, market>>

-----------------------------------------------------------------------------
\* Positions can predate every order: they may be transferred or taken over.
NewAccount(base) ==
    [orders |-> [i \in Indexes |-> Free], nextId |-> 1, openOrders |-> 0,
     openAuctions |-> 0, base |-> base, bids |-> 0, asks |-> 0, posOrders |-> 0,
     liquidated |-> FALSE]

Init ==
    /\ account \in [Users -> {NewAccount(b) : b \in -MaxBase..MaxBase}]
    /\ \A u \in Users : account[u].base \in Bases[u]
    /\ market = "active"
    /\ now = 1

UserNext(u) ==
    \/ \E p \in Requests[u] : PlacePerpOrder(u, p)
    \/ \E i \in Indexes : CancelOrderByOrderId(u, i)
    \/ CancelOrderByUserOrderId(u, 1)
    \/ \E sides \in {{"long"}, {"short"}, Directions} : CancelOrders(u, sides)
    \/ \E i \in Indexes, exclude \in BOOLEAN :
            \E p \in {q \in Requests[u] : q.kind = account[u].orders[i].kind}
                   \cup {AsPlaced(account[u].orders[i])} : ModifyOrder(u, i, p, exclude)
    \/ \E p \in Requests[u], m \in Users, ioc \in BOOLEAN : PlaceAndTake(u, p, m, ioc)
    \/ \E p \in Requests[u], t \in Users, i \in Indexes : PlaceAndMake(u, p, t, i)

KeeperNext(u) ==
    \/ \E i \in Indexes : TriggerOrder(u, i)
    \/ \E i \in Indexes, m \in Users : FillPerpOrder(u, i, m)
    \/ \E m \in Users : LiquidatePerpWithFill(u, m)
    \/ ForceCancelOrders(u)
    \/ UpdateUserOpenOrdersCount(u)

Next ==
    \/ \E u \in Users : UserNext(u) \/ KeeperNext(u)
    \/ \E s \in Statuses : UpdateMarketStatus(s)
    \/ Tick

Spec == Init /\ [][Next]_vars

-----------------------------------------------------------------------------
(* Properties. *)

TypeOK ==
    /\ account \in [Users -> AccountType]
    /\ market \in Statuses
    /\ now \in 1..MaxTime

\* The open bids and asks that the margin checks read are exactly the unfilled
\* sizes of the orders booked in them, through triggers, partial fills, the
\* reduce-only stamp and every kind of cancel.  The decreases saturate, so a
\* drift would stay hidden and understate the risk of the account.
BidsAndAsksMatchOrders ==
    \A u \in Users : /\ account[u].bids = Booked(account[u], "long")
                     /\ account[u].asks = -Booked(account[u], "short")

\* The account and its position count the same orders, the open ones: the
\* position frees its slot, and the account can be deleted, when they reach 0.
OrderCountsMatch ==
    \A u \in Users : /\ account[u].openOrders = Cardinality(OpenSlots(account[u]))
                     /\ account[u].posOrders = Cardinality(OpenSlots(account[u]))

\* An account with an order in auction never shows none: fillers find auctions
\* through has_open_auction, and an idle account may not have one.
NoAuctionMissed ==
    \A u \in Users :
        account[u].openAuctions >= Cardinality({i \in OpenSlots(account[u]) :
                                                   account[u].orders[i].auction})

\* The first slot with a user order id is the open order with that id whenever
\* there is one, although closed slots keep theirs: a cancel by user order id
\* reaches the live order (cancel_order_by_user_order_id, get_order_index_by_
\* user_order_id).
UserIdReachesLiveOrder ==
    \A u \in Users, i \in Indexes :
        LET o == account[u].orders[i]
        IN  o.open /\ o.uid # 0 => i = SlotOfUserId(account[u], o.uid)

\* An account's tallies, and the ids it is reached by, are those of its orders.
OrdersAccounted ==
    TypeOK /\ BidsAndAsksMatchOrders /\ OrderCountsMatch /\ NoAuctionMissed
      /\ UserIdReachesLiveOrder

\* In a reduce-only market no instruction grows or flips a position, taker's or
\* maker's, whatever the orders were when they were placed.
ReduceOnlyMarketOnlyReduces ==
    [][market = "reduceOnly" =>
        \A u \in Users : ShrinksTo(account[u].base, account'[u].base)]_vars

\* Triggered orders that UpdateOpenBidsAndAsks leaves out of the books.
UnbookedTriggers(U) ==
    {i \in OpenSlots(U) : U.orders[i].triggered /\ ~UpdateOpenBidsAndAsks(U.orders[i])}

\* A fill moves the account inside the worst case the margin check has seen: a
\* step that neither places nor triggers an order leaves the worst case no
\* larger, unless a trigger order outside the books was there to be filled.
FillsStayWithinWorstCase ==
    [][\A u \in Users :
        LET U == account[u]
            V == account'[u]
        IN  /\ V.nextId = U.nextId
            /\ UnbookedTriggers(U) = {}
            /\ {i \in OpenSlots(V) : V.orders[i].triggered} \subseteq
               {i \in OpenSlots(U) : U.orders[i].triggered}
            => WorstCase(V) <= WorstCase(U)]_vars

\* "Any unfilled remainder of the just-placed maker order is auto-cancelled":
\* a place-and-make closes the order it has placed, never one that was open
\* before it and has not expired.
PlaceAndMakeClosesOnlyItsOrder ==
    [][\A u, t \in Users : \A p \in Requests[u], i \in Indexes :
        PlaceAndMake(u, p, t, i) =>
            \A j \in OpenSlots(account[u]) :
                \/ ShouldExpire(account[u].orders[j])
                \/ account'[u].orders[j].id = account[u].orders[j].id]_vars

\* The order an account knows by an id: the slot that holds it, or done when
\* the id was given out and no slot does.
LifeOf(U, id) ==
    LET holding == SlotsWithId(U, id)
        o == U.orders[CHOOSE i \in holding : TRUE]
    IN  IF id >= U.nextId THEN [phase |-> "unborn", left |-> 0, reduceOnly |-> FALSE]
        ELSE IF holding = {} THEN [phase |-> "done", left |-> 0, reduceOnly |-> FALSE]
        ELSE [phase |-> IF MustBeTriggered(o) /\ ~o.triggered THEN "dormant" ELSE "live",
              left |-> Unfilled(o), reduceOnly |-> o.reduceOnly]

OrderIds == UNION {1..MaxOrderId[u] : u \in Users}

\* What OrderLife sees of the accounts.
lifeBar == [u \in Users |-> [id \in OrderIds |-> LifeOf(account[u], id)]]

Life == INSTANCE OrderLife WITH
            Owners <- Users, Ids <- OrderIds, MaxOpen <- Slots, Sizes <- 1..MaxAmount,
            life <- lifeBar

\* The instructions implement the life of an order: no id is given out twice
\* or out of turn, an untriggered order is never filled, a closed one never
\* comes back, a live one only shrinks and never loses its reduce-only flag.
ImplementsOrderLife == Life!LifeSpec
=============================================================================
