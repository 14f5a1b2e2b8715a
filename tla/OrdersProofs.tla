---------------------------- MODULE OrdersProofs ----------------------------
(***************************************************************************)
(* Proofs about Orders for any accounts, number of order slots, requests   *)
(* and bounds.  Every instruction is a sequence of the calls of            *)
(* OrderCallProofs; OrdersInv is the inductive invariant, and the slots    *)
(* are shown to implement the life of an order (OrderLife).                *)
(***************************************************************************)
EXTENDS Orders, OrderCallProofs

-----------------------------------------------------------------------------
(* Instructions *)

\* What an instruction other than a trigger or a recount does.
Evolution ==
    /\ AllEvolve(account, account')
    /\ Bounded(account')
    /\ UNCHANGED <<market, now>>

LEMMA UserBecomesEvolves ==
    ASSUME AllGood(account), NEW u \in Users, NEW outcomes, UserBecomes(u, outcomes),
           \A U \in outcomes : Evolves(account[u], U)
    PROVE  Evolution
<1>1. PICK U \in outcomes : Bounded(account') /\ account' = [account EXCEPT ![u] = U]
  BY DEF UserBecomes, Becomes
<1>2. AllEvolve(account, account')
  BY <1>1, OneEvolves, Zenon
<1> QED
  BY <1>1, <1>2 DEF Evolution, UserBecomes, Becomes

LEMMA BecomesEvolves ==
    ASSUME NEW outcomes, Becomes(outcomes), \A f \in outcomes : AllEvolve(account, f)
    PROVE  Evolution
BY DEF Becomes, Evolution

\* An instruction first takes the user out of liquidation, then places.
LEMMA ReleaseAndPlaceEvolves ==
    ASSUME NEW U, Good(U), NEW p \in Params, NEW tryPostOnly \in BOOLEAN,
           NEW V \in PlaceOutcomes(NotBeingLiquidated(U), p, tryPostOnly)
    PROVE  Evolves(U, V)
<1> DEFINE W == NotBeingLiquidated(U)
<1>1. Evolves(U, W)
  BY FlagEvolves, Zenon DEF NotBeingLiquidated
<1> HIDE DEF W
<1>2. Good(W)
  BY <1>1 DEF Evolves
<1>3. Evolves(W, V)
  BY <1>2, PlaceEvolves DEF W
<1> QED
  BY <1>1, <1>3, EvolvesChain

LEMMA RequestsAreParams ==
    ASSUME NEW u \in Users, NEW p \in Requests[u] PROVE p \in Params
BY OrderConstants

LEMMA PlacePerpOrderStep ==
    ASSUME AllGood(account), NEW u \in Users, NEW p \in Requests[u], PlacePerpOrder(u, p)
    PROVE  Evolution
<1>1. Good(account[u]) /\ p \in Params /\ TRUE \in BOOLEAN
  BY RequestsAreParams DEF AllGood
<1> DEFINE outcomes == PlaceOutcomes(NotBeingLiquidated(account[u]), p, TRUE)
<1>2. UserBecomes(u, outcomes)
  BY Zenon DEF PlacePerpOrder
<1>3. \A U \in outcomes : Evolves(account[u], U)
  BY <1>1, ReleaseAndPlaceEvolves, Zenon
<1> HIDE DEF outcomes
<1> QED
  BY <1>2, <1>3, UserBecomesEvolves

LEMMA CancelOneStep ==
    ASSUME AllGood(account), NEW u \in Users, NEW i \in Indexes, account[u].orders[i].open,
           UserBecomes(u, {CancelOrder(account[u], i)})
    PROVE  Evolution
<1>1. Evolves(account[u], CancelOrder(account[u], i))
  BY CancelEvolves, Zenon DEF AllGood
<1> QED
  BY <1>1, UserBecomesEvolves

LEMMA CancelOrderByOrderIdStep ==
    ASSUME AllGood(account), NEW u \in Users, NEW i \in Indexes, CancelOrderByOrderId(u, i)
    PROVE  Evolution
BY CancelOneStep DEF CancelOrderByOrderId, OpenSlots

LEMMA CancelOrderByUserOrderIdStep ==
    ASSUME AllGood(account), NEW u \in Users, NEW uid, CancelOrderByUserOrderId(u, uid)
    PROVE  Evolution
<1> DEFINE S == {i \in Indexes : account[u].orders[i].uid = uid}
           i == SlotOfUserId(account[u], uid)
<1>1. S # {} /\ S \subseteq Nat /\ S \subseteq Indexes
  BY IndexesFinite DEF CancelOrderByUserOrderId
<1>2. i = Min(S)
  BY DEF SlotOfUserId
<1> HIDE DEF S
<1>3. i \in Indexes
  BY <1>1, <1>2, MinIsLeast, Zenon
<1>4. account[u].orders[i].open /\ UserBecomes(u, {CancelOrder(account[u], i)})
  BY DEF CancelOrderByUserOrderId
<1> QED
  BY <1>3, <1>4, CancelOneStep

LEMMA CancelSetStep ==
    ASSUME AllGood(account), NEW u \in Users, NEW S \in SUBSET OpenSlots(account[u]),
           UserBecomes(u, {CancelSlots(account[u], S)})
    PROVE  Evolution
<1>1. Evolves(account[u], CancelSlots(account[u], S))
  BY CancelSlotsEvolves DEF AllGood, Cancelled
<1> QED
  BY <1>1, UserBecomesEvolves

LEMMA CancelOrdersStep ==
    ASSUME AllGood(account), NEW u \in Users, NEW sides, CancelOrders(u, sides)
    PROVE  Evolution
<1> DEFINE S == {i \in OpenSlots(account[u]) : account[u].orders[i].dir \in sides}
<1>1. S \in SUBSET OpenSlots(account[u])
  OBVIOUS
<1>2. UserBecomes(u, {CancelSlots(account[u], S)})
  BY DEF CancelOrders
<1> HIDE DEF S
<1> QED
  BY <1>1, <1>2, CancelSetStep

LEMMA ForceCancelOrdersStep ==
    ASSUME AllGood(account), NEW u \in Users, ForceCancelOrders(u)
    PROVE  Evolution
<1> DEFINE S == {i \in OpenSlots(account[u]) :
                    ~IsOrderPositionReducing(account[u].orders[i], account[u].base)}
<1>1. S \in SUBSET OpenSlots(account[u])
  OBVIOUS
<1>2. UserBecomes(u, {CancelSlots(account[u], S)})
  BY DEF ForceCancelOrders
<1> HIDE DEF S
<1> QED
  BY <1>1, <1>2, CancelSetStep

\* The parameters a modified order is placed with.
LEMMA MergedIsParams ==
    ASSUME NEW o \in OrderType, NEW p \in Params, NEW exclude \in BOOLEAN,
           NEW size, size = IF exclude THEN Greater(p.amount - o.filled, 0) ELSE p.amount, size # 0
    PROVE  Merged(o, p, size) \in Params
<1>1. size \in 1..MaxAmount
  BY Bounds DEF OrderType, Params, Greater
<1> QED
  BY <1>1, Zenon DEF Merged, Params, OrderType

LEMMA AsPlacedIsParams ==
    ASSUME NEW o \in OrderType, NEW n, SlotOK(o, n), o.open PROVE AsPlaced(o) \in Params
<1>1. Unfilled(o) \in 1..MaxAmount
  BY Bounds DEF OrderType, SlotOK, Unfilled
<1> QED
  BY <1>1 DEF AsPlaced, Params, OrderType

LEMMA ModifyOrderStep ==
    ASSUME AllGood(account), NEW u \in Users, NEW i \in Indexes, NEW exclude \in BOOLEAN,
           NEW p \in {q \in Requests[u] : q.kind = account[u].orders[i].kind}
                        \cup {AsPlaced(account[u].orders[i])},
           ModifyOrder(u, i, p, exclude)
    PROVE  Evolution
<1> DEFINE U == account[u]
           o == U.orders[i]
           C == CancelOrder(U, i)
           size == IF exclude THEN Greater(p.amount - o.filled, 0) ELSE p.amount
           outcomes == IF size = 0 THEN {C}
                       ELSE PlaceOutcomes(NotBeingLiquidated(C), Merged(o, p, size), TRUE)
<1>1. o.open /\ UserBecomes(u, outcomes)
  BY Zenon DEF ModifyOrder
<1>2. Good(U) /\ o \in OrderType /\ SlotOK(o, U.nextId)
  BY GoodFields DEF AllGood
<1>3. p \in Params
  BY <1>1, <1>2, RequestsAreParams, AsPlacedIsParams, Zenon
<1>4. Evolves(U, C)
  BY <1>1, <1>2, CancelEvolves, Zenon
<1> HIDE DEF C, o
<1>5. size # 0 => Merged(o, p, size) \in Params
  BY <1>2, <1>3, MergedIsParams, Zenon
<1> HIDE DEF size
<1>6. ASSUME NEW V \in outcomes PROVE Evolves(U, V)
  <2>1. CASE size = 0
    BY <1>4, <1>6, <2>1
  <2>2. CASE size # 0
    <3>1. V \in PlaceOutcomes(NotBeingLiquidated(C), Merged(o, p, size), TRUE)
      BY <1>6, <2>2, Zenon
    <3>2. Good(C) /\ TRUE \in BOOLEAN
      BY <1>4, Zenon DEF Evolves
    <3>3. Evolves(C, V)
      BY <1>5, <2>2, <3>1, <3>2, ReleaseAndPlaceEvolves, Zenon
    <3> QED
      BY <1>2, <1>4, <3>3, EvolvesChain, Zenon
  <2> QED
    BY <2>1, <2>2, Zenon
<1> HIDE DEF outcomes
<1> QED
  BY <1>1, <1>6, UserBecomesEvolves

\* An instruction that places an order of u and then fills: what is left of
\* the order may be cancelled.
LEMMA PlaceAndFillEvolves ==
    ASSUME AllGood(account), NEW u \in Users, NEW P, Evolves(account[u], P),
           NEW t \in Users, NEW m \in Users, m # t, NEW i \in Indexes, NEW jit,
           NEW liquidation \in BOOLEAN,
           NEW f \in FillOutcomes([account EXCEPT ![u] = P], t, i, m, jit, liquidation)
    PROVE  /\ AllEvolve(account, f) /\ AllGood(f)
           /\ \A id : AllEvolve(account, [f EXCEPT ![u] = CancelById(@, id)])
<1> DEFINE acc == [account EXCEPT ![u] = P]
<1>1. acc = [account EXCEPT ![u] = P] /\ f \in FillOutcomes(acc, t, i, m, jit, liquidation)
  OBVIOUS
<1> HIDE DEF acc
<1>2. AllEvolve(account, acc)
  BY <1>1, OneEvolves, Zenon
<1>3. AllGood(acc)
  BY <1>2, AllEvolveChain
<1>4. AllEvolve(acc, f)
  BY <1>1, <1>3, FillOutcomesEvolve, AllSameEvolve
<1>5. AllGood(f) /\ AllEvolve(account, f)
  BY <1>2, <1>3, <1>4, AllEvolveChain
<1>6. ASSUME NEW id PROVE AllEvolve(account, [f EXCEPT ![u] = CancelById(@, id)])
  <2> DEFINE g == [f EXCEPT ![u] = CancelById(@, id)]
  <2>1. g = [f EXCEPT ![u] = CancelById(f[u], id)]
    OBVIOUS
  <2>2. Evolves(f[u], CancelById(f[u], id))
    BY <1>5, CancelByIdEvolves DEF AllGood
  <2> HIDE DEF g
  <2>3. AllEvolve(f, g)
    BY <1>5, <2>1, <2>2, OneEvolves, Zenon
  <2>4. AllEvolve(account, g)
    BY <1>5, <2>3, AllEvolveChain
  <2> QED
    BY <2>4 DEF g
<1> QED
  BY <1>5, <1>6

LEMMA PlaceAndTakeStep ==
    ASSUME AllGood(account), NEW t \in Users, NEW p \in Requests[t], NEW m \in Users,
           NEW ioc \in BOOLEAN, PlaceAndTake(t, p, m, ioc)
    PROVE  Evolution
<1> DEFINE outcomes == PlaceAndTakeOutcomes(t, p, m, ioc)
<1>1. m # t /\ Becomes(outcomes)
  BY DEF PlaceAndTake
<1>2. ASSUME NEW g \in outcomes PROVE AllEvolve(account, g)
  <2>1. PICK P \in PlaceOutcomes(NotBeingLiquidated(account[t]), p, FALSE) :
            g \in UNION {{IF ioc THEN [f EXCEPT ![t] = CancelById(@, LastOrderId(P))] ELSE f :
                            f \in FillOutcomes([account EXCEPT ![t] = P], t, i, m, 0, FALSE)} :
                         i \in SlotsWithId(P, LastOrderId(P))}
    BY <1>2, Zenon DEF PlaceAndTakeOutcomes
  <2>2. PICK i \in SlotsWithId(P, LastOrderId(P)) :
            g \in {IF ioc THEN [f EXCEPT ![t] = CancelById(@, LastOrderId(P))] ELSE f :
                     f \in FillOutcomes([account EXCEPT ![t] = P], t, i, m, 0, FALSE)}
    BY <2>1, Zenon
  <2>3. PICK f \in FillOutcomes([account EXCEPT ![t] = P], t, i, m, 0, FALSE) :
            g = IF ioc THEN [f EXCEPT ![t] = CancelById(@, LastOrderId(P))] ELSE f
    BY <2>2, Zenon
  <2>4. Evolves(account[t], P)
    BY RequestsAreParams, ReleaseAndPlaceEvolves, Zenon DEF AllGood
  <2>5. i \in Indexes
    BY DEF SlotsWithId
  <2>6. /\ AllEvolve(account, f)
        /\ AllEvolve(account, [f EXCEPT ![t] = CancelById(@, LastOrderId(P))])
    BY <1>1, <2>3, <2>4, <2>5, PlaceAndFillEvolves, Zenon
  <2> QED
    BY <2>3, <2>6, Zenon
<1> HIDE DEF outcomes
<1> QED
  BY <1>1, <1>2, BecomesEvolves

LEMMA PlaceAndMakeStep ==
    ASSUME AllGood(account), NEW u \in Users, NEW p \in Requests[u], NEW t \in Users,
           NEW i \in Indexes, PlaceAndMake(u, p, t, i)
    PROVE  Evolution
<1> DEFINE outcomes == PlaceAndMakeOutcomes(u, p, t, i)
<1>1. u # t /\ Becomes(outcomes)
  BY DEF PlaceAndMake
<1>2. ASSUME NEW g \in outcomes PROVE AllEvolve(account, g)
  <2>1. PICK P \in PlaceOutcomes(NotBeingLiquidated(account[u]), p, TRUE) :
            g \in {[f EXCEPT ![u] = CancelById(@, LastOrderId(P))] :
                     f \in FillOutcomes([account EXCEPT ![u] = P], t, i, u, LastOrderId(P), FALSE)}
    BY <1>2, Zenon DEF PlaceAndMakeOutcomes
  <2>2. PICK f \in FillOutcomes([account EXCEPT ![u] = P], t, i, u, LastOrderId(P), FALSE) :
            g = [f EXCEPT ![u] = CancelById(@, LastOrderId(P))]
    BY <2>1, Zenon
  <2>3. Evolves(account[u], P)
    BY RequestsAreParams, ReleaseAndPlaceEvolves, Zenon DEF AllGood
  <2>4. AllEvolve(account, [f EXCEPT ![u] = CancelById(@, LastOrderId(P))])
    BY <1>1, <2>2, <2>3, PlaceAndFillEvolves, Zenon
  <2> QED
    BY <2>2, <2>4, Zenon
<1> HIDE DEF outcomes
<1> QED
  BY <1>1, <1>2, BecomesEvolves

LEMMA FillPerpOrderStep ==
    ASSUME AllGood(account), NEW t \in Users, NEW i \in Indexes, NEW m \in Users,
           FillPerpOrder(t, i, m)
    PROVE  Evolution
<1> DEFINE outcomes == FillOutcomes(account, t, i, m, 0, FALSE)
<1>1. m # t /\ Becomes(outcomes)
  BY Zenon DEF FillPerpOrder
<1>2. \A f \in outcomes : AllEvolve(account, f)
  BY <1>1, FillOutcomesEvolve, AllSameEvolve, Zenon
<1> HIDE DEF outcomes
<1> QED
  BY <1>1, <1>2, BecomesEvolves

\* liquidate_perp_with_fill: all orders are cancelled, the user is marked, and
\* an order of the liquidation is placed and filled.
LEMMA LiquidatePerpWithFillStep ==
    ASSUME AllGood(account), NEW u \in Users, NEW m \in Users, LiquidatePerpWithFill(u, m)
    PROVE  Evolution
<1> DEFINE U == account[u]
           D == CancelSlots(U, OpenSlots(U))
           C == [D EXCEPT !.liquidated = TRUE]
           order(a) == [kind |-> "limit", dir |-> IF C.base > 0 THEN "short" ELSE "long",
                        amount |-> a, reduceOnly |-> TRUE, auction |-> FALSE,
                        maxTs |-> 0, uid |-> 0]
           now1 == OneIf(U.liquidated, NotBeingLiquidated(U))
                     \cup OneIf(OpenSlots(U) # {}, NotBeingLiquidated(C))
                     \cup OneIf(U.base = 0, C)
           fills == UNION {{f, [f EXCEPT ![u] = NotBeingLiquidated(@)]} :
                        f \in {x \in LiquidationFills(u, m) : x[u].base # U.base}}
<1>1. m # u /\ (UserBecomes(u, now1) \/ Becomes(fills))
  BY Zenon DEF LiquidatePerpWithFill
<1>2. Good(U)
  BY DEF AllGood
<1>3. Evolves(U, D) /\ Good(D)
  BY <1>2, CancelSlotsEvolves, Zenon DEF Cancelled, Evolves
<1> HIDE DEF D
<1>4. Evolves(U, C) /\ Good(C)
  <2>1. Evolves(D, C)
    BY <1>3, FlagEvolves, Zenon
  <2> HIDE DEF C
  <2>2. Evolves(U, C)
    BY <1>2, <1>3, <2>1, EvolvesChain
  <2> QED
    BY <2>1, <2>2, Zenon DEF Evolves
<1>5. ASSUME NEW V \in now1 PROVE Evolves(U, V)
  <2>1. Evolves(U, NotBeingLiquidated(U))
    BY <1>2, FlagEvolves, Zenon DEF NotBeingLiquidated
  <2> HIDE DEF C
  <2>2. Evolves(C, NotBeingLiquidated(C))
    BY <1>4, FlagEvolves, Zenon DEF NotBeingLiquidated
  <2>3. Evolves(U, NotBeingLiquidated(C))
    BY <1>2, <1>4, <2>2, EvolvesChain, Zenon
  <2> QED
    BY <1>4, <1>5, <2>1, <2>3, Zenon DEF OneIf
<1>6. ASSUME NEW f \in LiquidationFills(u, m) PROVE AllEvolve(account, f)
  <2> DEFINE places == UNION {PlaceOutcomes(C, order(a), FALSE) :
                                a \in 1..Lesser(Abs(C.base), MaxAmount)}
  <2>1. LiquidationFills(u, m) =
            UNION {UNION {{[x EXCEPT ![u] = CancelById(@, LastOrderId(P))] :
                             x \in FillOutcomes([account EXCEPT ![u] = P], u, i, m, 0, TRUE)} :
                          i \in SlotsWithId(P, LastOrderId(P))} : P \in places}
    BY Zenon DEF LiquidationFills, D
  <2> HIDE DEF places
  <2>2. PICK P \in places :
            f \in UNION {{[x EXCEPT ![u] = CancelById(@, LastOrderId(P))] :
                             x \in FillOutcomes([account EXCEPT ![u] = P], u, i, m, 0, TRUE)} :
                          i \in SlotsWithId(P, LastOrderId(P))}
    BY <1>6, <2>1, Zenon
  <2>3. PICK i \in SlotsWithId(P, LastOrderId(P)) :
            f \in {[x EXCEPT ![u] = CancelById(@, LastOrderId(P))] :
                       x \in FillOutcomes([account EXCEPT ![u] = P], u, i, m, 0, TRUE)}
    BY <2>2, Zenon
  <2>4. PICK x \in FillOutcomes([account EXCEPT ![u] = P], u, i, m, 0, TRUE) :
            f = [x EXCEPT ![u] = CancelById(@, LastOrderId(P))]
    BY <2>3, Zenon
  <2>5. Evolves(U, P)
    <3> HIDE DEF C
    <3>1. PICK a \in 1..Lesser(Abs(C.base), MaxAmount) : P \in PlaceOutcomes(C, order(a), FALSE)
      BY Zenon DEF places
    <3>2. C.base \in Int
      BY <1>4, GoodFields
    <3>3. a \in 1..MaxAmount
      BY <3>1, <3>2, Bounds DEF Lesser, Abs
    <3>4. order(a) \in Params
      BY <3>3, Bounds DEF Params, Kinds, Directions
    <3> HIDE DEF order
    <3>5. Evolves(C, P)
      BY <1>4, <3>1, <3>4, PlaceEvolves, Zenon
    <3> QED
      BY <1>2, <1>4, <3>5, EvolvesChain
  <2>6. i \in Indexes
    BY DEF SlotsWithId
  <2>7. AllEvolve(account, [x EXCEPT ![u] = CancelById(@, LastOrderId(P))])
    BY <1>1, <2>4, <2>5, <2>6, PlaceAndFillEvolves, Zenon
  <2> QED
    BY <2>4, <2>7
<1>7. ASSUME NEW g \in fills PROVE AllEvolve(account, g)
  <2>1. PICK f \in LiquidationFills(u, m) :
            g = f \/ g = [f EXCEPT ![u] = NotBeingLiquidated(f[u])]
    BY <1>7
  <2>2. AllEvolve(account, f) /\ AllGood(f) /\ Good(f[u])
    BY <1>6, AllEvolveChain DEF AllGood
  <2>3. Evolves(f[u], NotBeingLiquidated(f[u]))
    BY <2>2, FlagEvolves, Zenon DEF NotBeingLiquidated
  <2>4. ASSUME g = [f EXCEPT ![u] = NotBeingLiquidated(f[u])] PROVE AllEvolve(account, g)
    <3>1. AllEvolve(f, g)
      BY <2>2, <2>3, <2>4, OneEvolves, Zenon
    <3> QED
      BY <2>2, <3>1, AllEvolveChain
  <2> QED
    BY <2>1, <2>2, <2>4
<1> HIDE DEF now1, fills
<1> QED
  BY <1>1, <1>5, <1>7, UserBecomesEvolves, BecomesEvolves

-----------------------------------------------------------------------------
(* Triggering and recounting *)

\* The order after update_trigger_order_params.
Awake(o) == [o EXCEPT !.triggered = TRUE, !.auction = TRUE]

LEMMA AwakeFields ==
    ASSUME NEW o \in OrderType, NEW n, SlotOK(o, n), o.open, WaitsForTrigger(o)
    PROVE  LET q == Awake(o)
           IN  /\ q \in OrderType /\ SlotOK(q, n) /\ q.open /\ q.triggered /\ q.uid = o.uid
               /\ q.id = o.id /\ q.kind = o.kind /\ q.dir = o.dir /\ q.amount = o.amount
               /\ q.reduceOnly = o.reduceOnly /\ Unfilled(q) = o.amount /\ Unfilled(o) = o.amount
               /\ o.amount \in Nat /\ ~WaitsForTrigger(q)
               /\ Part(o, "long") = 0 /\ Part(o, "short") = 0
               /\ Opens(o) = 1 /\ Opens(q) = 1 /\ Auctions(o) = 0 /\ Auctions(q) = 1
<1> DEFINE q == Awake(o)
<1>1. /\ q \in OrderType /\ q.open = o.open /\ q.id = o.id /\ q.uid = o.uid
      /\ q.kind = o.kind /\ q.dir = o.dir /\ q.amount = o.amount /\ q.filled = o.filled
      /\ q.reduceOnly = o.reduceOnly /\ q.newTrigger = o.newTrigger
      /\ q.triggered = TRUE /\ q.auction = TRUE
  BY Zenon DEF Awake, OrderType
<1> HIDE DEF q
<1>2. o.amount \in Nat /\ o.filled = 0 /\ o.filled < o.amount /\ ~o.auction
  BY Bounds DEF OrderType, SlotOK
<1>3. Unfilled(q) = o.amount /\ Unfilled(o) = o.amount
  BY <1>1, <1>2 DEF Unfilled
<1>4. ~WaitsForTrigger(q) /\ ~UpdateOpenBidsAndAsks(o)
  BY <1>1 DEF WaitsForTrigger, UpdateOpenBidsAndAsks
<1>5. SlotOK(q, n)
  BY <1>1, <1>2, <1>4 DEF SlotOK
<1>6. /\ Part(o, "long") = 0 /\ Part(o, "short") = 0
      /\ Opens(o) = 1 /\ Opens(q) = 1 /\ Auctions(o) = 0 /\ Auctions(q) = 1
  BY <1>1, <1>2, <1>4 DEF Part, Opens, Auctions
<1> QED
  BY <1>1, <1>2, <1>3, <1>4, <1>5, <1>6, Zenon DEF q

LEMMA TriggeredFields ==
    ASSUME NEW U, Good(U), NEW i \in Indexes, U.orders[i].open, WaitsForTrigger(U.orders[i])
    PROVE  LET T == Triggered(U, i)
               q == Awake(U.orders[i])
           IN  /\ T \in Accounts /\ T.orders = [U.orders EXCEPT ![i] = q]
               /\ T.nextId = U.nextId /\ T.base = U.base
               /\ T.bids = U.bids + Part(q, "long") /\ T.asks = U.asks - Part(q, "short")
               /\ T.openOrders = U.openOrders /\ T.posOrders = U.posOrders
               /\ T.openAuctions = U.openAuctions + 1
<1> DEFINE o == U.orders[i]
           q == Awake(o)
           A == [U EXCEPT !.orders = [@ EXCEPT ![i] = q], !.openAuctions = @ + 1]
           T == Triggered(U, i)
<1>1. /\ U \in Accounts /\ o \in OrderType /\ SlotOK(o, U.nextId)
      /\ U.bids \in Nat /\ U.asks \in Int /\ U.openAuctions \in Nat
  BY GoodFields DEF Good
<1>2. /\ q \in OrderType /\ q.open /\ q.dir = o.dir /\ q.amount = o.amount
      /\ Unfilled(q) = q.amount /\ q.amount \in Nat
  BY <1>1, AwakeFields, Zenon
<1>3. T = IncreaseOpen(A, q, q.amount)
  BY <1>1, Zenon DEF Triggered, Awake, Accounts
<1> HIDE DEF q
<1>4. /\ A \in Accounts /\ A.orders = [U.orders EXCEPT ![i] = q] /\ A.base = U.base
      /\ A.nextId = U.nextId /\ A.bids = U.bids /\ A.asks = U.asks
      /\ A.openOrders = U.openOrders /\ A.posOrders = U.posOrders
      /\ A.openAuctions = U.openAuctions + 1
  <2>1. /\ U.openAuctions + 1 \in Int
        /\ [U.orders EXCEPT ![i] = q] \in [Indexes -> OrderType]
    BY <1>1, <1>2 DEF Accounts
  <2> QED
    BY <1>1, <2>1, Zenon DEF Accounts
<1> HIDE DEF A
<1>5. /\ Part(q, "long") = IF UpdateOpenBidsAndAsks(q) /\ q.dir = "long" THEN q.amount ELSE 0
      /\ Part(q, "short") = IF UpdateOpenBidsAndAsks(q) /\ q.dir = "short" THEN q.amount ELSE 0
  BY <1>2 DEF Part
<1>6. U.bids + q.amount \in Int /\ U.asks - q.amount \in Int
  BY <1>1, <1>2
<1> HIDE DEF T
<1>7. CASE ~UpdateOpenBidsAndAsks(q)
  BY <1>1, <1>3, <1>4, <1>5, <1>7 DEF IncreaseOpen, T, q
<1>8. CASE UpdateOpenBidsAndAsks(q) /\ q.dir = "long"
  <2>1. T = [A EXCEPT !.bids = U.bids + q.amount]
    BY <1>3, <1>4, <1>8 DEF IncreaseOpen
  <2> QED
    BY <1>1, <1>4, <1>5, <1>6, <1>8, <2>1 DEF Accounts, T, q
<1>9. CASE UpdateOpenBidsAndAsks(q) /\ q.dir = "short"
  <2>1. T = [A EXCEPT !.asks = U.asks - q.amount]
    BY <1>3, <1>4, <1>9 DEF IncreaseOpen
  <2> QED
    BY <1>1, <1>4, <1>5, <1>6, <1>9, <2>1 DEF Accounts, T, q
<1> QED
  BY <1>2, <1>7, <1>8, <1>9, Zenon DEF OrderType, Directions

LEMMA TriggeredGood ==
    ASSUME NEW U, Good(U), NEW i \in Indexes, U.orders[i].open, WaitsForTrigger(U.orders[i])
    PROVE  /\ Good(Triggered(U, i))
           /\ Triggered(U, i).orders[i] = Awake(U.orders[i])
           /\ \A j \in Indexes \ {i} : Triggered(U, i).orders[j] = U.orders[j]
<1> DEFINE o == U.orders[i]
           q == Awake(o)
           T == Triggered(U, i)
<1>1. /\ U \in Accounts /\ o \in OrderType /\ SlotOK(o, U.nextId)
      /\ U.bids \in Nat /\ U.asks \in Int /\ U.openOrders \in Nat /\ U.posOrders \in Nat
      /\ U.openAuctions \in Nat
  BY GoodFields DEF Good
<1>2. /\ q \in OrderType /\ SlotOK(q, U.nextId) /\ q.open /\ q.uid = o.uid /\ q.id = o.id
      /\ Part(o, "long") = 0 /\ Part(o, "short") = 0
      /\ Opens(o) = 1 /\ Opens(q) = 1 /\ Auctions(o) = 0 /\ Auctions(q) = 1
  BY <1>1, AwakeFields, Zenon
<1>3. /\ T \in Accounts /\ T.orders = [U.orders EXCEPT ![i] = q]
      /\ T.nextId = U.nextId
      /\ T.bids = U.bids + Part(q, "long") /\ T.asks = U.asks - Part(q, "short")
      /\ T.openOrders = U.openOrders /\ T.posOrders = U.posOrders
      /\ T.openAuctions = U.openAuctions + 1
  BY TriggeredFields, ZenonT(60)
<1> HIDE DEF q, T
<1>4. /\ T.orders[i] = q
      /\ \A j \in Indexes \ {i} : T.orders[j] = U.orders[j]
  BY <1>1, <1>3 DEF Accounts
<1>5. Part(q, "long") \in Nat /\ Part(q, "short") \in Nat
  BY <1>2, PartTypes DEF Directions
<1>6. Tallied(T)
  <2>1. /\ T.bids = U.bids + Part(q, "long") - Part(o, "long")
        /\ T.asks = U.asks - Part(q, "short") + Part(o, "short")
        /\ T.openOrders = U.openOrders + Opens(q) - Opens(o)
        /\ T.posOrders = U.posOrders + Opens(q) - Opens(o)
        /\ T.openAuctions = U.openAuctions + Auctions(q) - Auctions(o)
    BY <1>1, <1>2, <1>3, <1>5
  <2> QED
    BY <1>2, <1>3, <2>1, SlotChange, Zenon
<1>7. \A j \in Indexes : /\ T.orders[j].open <=> U.orders[j].open
                         /\ T.orders[j].id = U.orders[j].id /\ T.orders[j].uid = U.orders[j].uid
                         /\ SlotOK(T.orders[j], T.nextId)
  <2>1. \A j \in Indexes : SlotOK(U.orders[j], U.nextId)
    BY DEF Good
  <2> QED
    BY <1>2, <1>3, <1>4, <2>1, Zenon
<1>8. Distinct(T) /\ UidFirst(T)
  BY <1>7 DEF Good, Distinct, UidFirst
<1>9. Good(T)
  BY <1>3, <1>6, <1>7, <1>8, Zenon DEF Good
<1> QED
  BY <1>4, <1>9 DEF T, q

\* A trigger order cancelled at its trigger leaves the account as if it had
\* been cancelled before.
LEMMA TriggerCancelEvolves ==
    ASSUME NEW U, Good(U), NEW i \in Indexes, U.orders[i].open, WaitsForTrigger(U.orders[i])
    PROVE  Evolves(U, CancelOrder(Triggered(U, i), i))
<1> DEFINE o == U.orders[i]
           q == Awake(o)
           T == Triggered(U, i)
           V == CancelOrder(T, i)
           p == Closed(q)
<1>1. /\ U \in Accounts /\ o \in OrderType /\ SlotOK(o, U.nextId) /\ U.base \in Int
      /\ U.bids \in Nat /\ U.asks \in Int /\ U.openOrders \in Nat /\ U.posOrders \in Nat
      /\ U.openAuctions \in Nat
  BY GoodFields DEF Good
<1>2. /\ q \in OrderType /\ SlotOK(q, U.nextId) /\ q.open /\ q.uid = o.uid
      /\ Part(o, "long") = 0 /\ Part(o, "short") = 0
      /\ Opens(o) = 1 /\ Opens(q) = 1 /\ Auctions(o) = 0 /\ Auctions(q) = 1
  BY <1>1, AwakeFields, Zenon
<1>3. /\ T.orders = [U.orders EXCEPT ![i] = q]
      /\ T.nextId = U.nextId /\ T.base = U.base
      /\ T.bids = U.bids + Part(q, "long") /\ T.asks = U.asks - Part(q, "short")
      /\ T.openOrders = U.openOrders /\ T.posOrders = U.posOrders
      /\ T.openAuctions = U.openAuctions + 1
  BY TriggeredFields
<1>4. Good(T) /\ T.orders[i] = q
  BY TriggeredGood
<1> HIDE DEF q, T
<1>5. /\ V \in Accounts /\ V.orders = [T.orders EXCEPT ![i] = p]
      /\ V.nextId = T.nextId /\ V.base = T.base
      /\ V.bids = T.bids - Part(q, "long") /\ V.asks = T.asks + Part(q, "short")
      /\ V.openOrders = T.openOrders - 1 /\ V.posOrders = T.posOrders - 1
      /\ V.openAuctions = T.openAuctions - Auctions(q)
  BY <1>2, <1>4, CancelFields
<1>6. /\ p \in OrderType /\ SlotOK(p, U.nextId) /\ ~p.open
      /\ p.uid = o.uid /\ Part(p, "long") = 0 /\ Part(p, "short") = 0
      /\ Opens(p) = 0 /\ Auctions(p) = 0
  BY <1>2, ClosedOK
<1> HIDE DEF V, p
<1>7. V.orders = [U.orders EXCEPT ![i] = p]
  BY <1>1, <1>3, <1>5 DEF Accounts
<1>8. Part(q, "long") \in Nat /\ Part(q, "short") \in Nat
  BY <1>2, PartTypes DEF Directions
<1>9. /\ V.bids = U.bids + Part(p, "long") - Part(o, "long")
      /\ V.asks = U.asks - Part(p, "short") + Part(o, "short")
      /\ V.openOrders = U.openOrders + Opens(p) - Opens(o)
      /\ V.posOrders = U.posOrders + Opens(p) - Opens(o)
      /\ V.openAuctions = U.openAuctions + Auctions(p) - Auctions(o)
      /\ V.bids = U.bids /\ V.asks = U.asks
  BY <1>1, <1>2, <1>3, <1>5, <1>6, <1>8
<1>10. Within(U, V) /\ ShrinksTo(U.base, V.base)
  BY <1>1, <1>3, <1>5, <1>9 DEF Within, ShrinksTo
<1>11. Evolves(U, V)
  BY <1>3, <1>5, <1>6, <1>7, <1>9, <1>10, OneSlotEvolves
<1> QED
  BY <1>11 DEF V, T

\* The tallies as cardinalities.
LEMMA TalliesAreCounts ==
    ASSUME NEW U, Good(U)
    PROVE  /\ OpenCount(U) = Cardinality(OpenSlots(U))
           /\ AuctionCount(U) = Cardinality({i \in OpenSlots(U) : U.orders[i].auction})
           /\ Cardinality(OpenSlots(U)) \in 0..Slots
           /\ Cardinality({i \in Indexes : U.orders[i].auction}) \in AuctionCount(U)..Slots
<1> DEFINE f == [i \in Indexes |-> Opens(U.orders[i])]
           g == [i \in Indexes |-> Auctions(U.orders[i])]
           A == {i \in OpenSlots(U) : U.orders[i].auction}
           B == {i \in Indexes : U.orders[i].auction}
<1>1. /\ \A i \in Indexes : f[i] \in {0, 1} /\ g[i] \in {0, 1}
      /\ {i \in Indexes : f[i] = 1} = OpenSlots(U)
      /\ {i \in Indexes : g[i] = 1} = A
  BY DEF Opens, Auctions, OpenSlots
<1>2. OpenCount(U) = SumFunctionOnSet(f, Indexes) /\ AuctionCount(U) = SumFunctionOnSet(g, Indexes)
  BY Zenon DEF OpenCount, AuctionCount
<1>3. OpenSlots(U) \in SUBSET Indexes /\ A \in SUBSET B /\ B \in SUBSET Indexes
  BY DEF OpenSlots
<1> HIDE DEF f, g, A, B
<1>4. /\ Cardinality({i \in Indexes : f[i] = 1}) = SumFunctionOnSet(f, Indexes)
      /\ Cardinality({i \in Indexes : g[i] = 1}) = SumFunctionOnSet(g, Indexes)
  BY <1>1, IndexesFinite, CountIsSum
<1>5. OpenCount(U) = Cardinality(OpenSlots(U)) /\ AuctionCount(U) = Cardinality(A)
  BY <1>1, <1>2, <1>4
<1>6. /\ IsFiniteSet(OpenSlots(U)) /\ Cardinality(OpenSlots(U)) <= Slots
      /\ IsFiniteSet(B) /\ Cardinality(B) <= Slots
  BY <1>3, IndexesFinite, CountSubset
<1>7. IsFiniteSet(A) /\ Cardinality(A) <= Cardinality(B)
  BY <1>3, <1>6, CountSubset
<1>8. Cardinality(OpenSlots(U)) \in Nat /\ Cardinality(A) \in Nat /\ Cardinality(B) \in Nat
  BY <1>6, <1>7, CountFacts
<1>9. /\ Cardinality(OpenSlots(U)) \in 0..Slots
      /\ Cardinality(B) \in AuctionCount(U)..Slots
  BY <1>5, <1>6, <1>7, <1>8, Bounds
<1> QED
  BY <1>5, <1>9 DEF A, B

\* A recount changes nothing but the number of open auctions.
LEMMA RecountGood ==
    ASSUME NEW U, Good(U)
    PROVE  LET V == [U EXCEPT !.openOrders = Cardinality(OpenSlots(U)),
                              !.openAuctions = Cardinality({i \in Indexes : U.orders[i].auction})]
           IN  /\ Good(V) /\ V.orders = U.orders /\ V.nextId = U.nextId /\ V.base = U.base
               /\ V.bids = U.bids /\ V.asks = U.asks
<1> DEFINE n == Cardinality(OpenSlots(U))
           k == Cardinality({i \in Indexes : U.orders[i].auction})
           V == [U EXCEPT !.openOrders = n, !.openAuctions = k]
<1>1. /\ U \in Accounts /\ OpenCount(U) = n /\ n \in Int /\ k \in Int
      /\ AuctionCount(U) <= k /\ k <= Slots /\ AuctionCount(U) \in Nat
  <2>1. OpenCount(U) = n /\ n \in 0..Slots /\ k \in AuctionCount(U)..Slots
    BY TalliesAreCounts, Zenon
  <2>2. U \in Accounts /\ AuctionCount(U) \in Nat
    BY TalliesCover DEF Good
  <2> HIDE DEF n, k
  <2> QED
    BY <2>1, <2>2, Bounds
<1> HIDE DEF n, k
<1>2. /\ V \in Accounts /\ V.orders = U.orders /\ V.nextId = U.nextId /\ V.base = U.base
      /\ V.bids = U.bids /\ V.asks = U.asks /\ V.openOrders = n
      /\ V.posOrders = U.posOrders /\ V.openAuctions = k
  BY <1>1, Zenon DEF Accounts
<1> HIDE DEF V
<1>3. /\ Booked(V, "long") = Booked(U, "long") /\ Booked(V, "short") = Booked(U, "short")
      /\ OpenCount(V) = OpenCount(U) /\ AuctionCount(V) = AuctionCount(U)
  BY <1>2, Zenon DEF Booked, OpenCount, AuctionCount
<1>4. k <= Slots + AuctionCount(U)
  BY <1>1, Bounds
<1>5. Tallied(V)
  BY <1>1, <1>2, <1>3, <1>4 DEF Tallied, Good
<1>6. Good(V)
  BY <1>2, <1>5, ZenonT(60) DEF Good, Distinct, UidFirst
<1> QED
  BY <1>2, <1>6 DEF V, n, k

-----------------------------------------------------------------------------
(* Steps *)

\* An order that is open before and after a step.
Follows(o, p) ==
    /\ o.open /\ p.open /\ p.id = o.id
    /\ p.kind = o.kind /\ (o.triggered => p.triggered)
    /\ Unfilled(p) <= Unfilled(o)
    /\ WaitsForTrigger(o) => Unfilled(p) = Unfilled(o)
    /\ o.reduceOnly => p.reduceOnly

TriggeredSlots(U) == {i \in OpenSlots(U) : U.orders[i].triggered}

\* What a step may do to an account.
Steps(U, V) ==
    /\ Good(V)
    /\ U.nextId <= V.nextId
    /\ \A j \in Indexes : V.orders[j].open => \/ U.nextId <= V.orders[j].id
                                             \/ Follows(U.orders[j], V.orders[j])
    /\ market = "reduceOnly" => ShrinksTo(U.base, V.base)
    /\ V.nextId = U.nextId /\ AllBooked(U) /\ TriggeredSlots(V) \subseteq TriggeredSlots(U)
         => Within(U, V)

LEMMA EvolvesSteps ==
    ASSUME NEW U, NEW V, Evolves(U, V) PROVE Steps(U, V)
BY Zenon DEF Evolves, Steps, Continues, Follows

LEMMA TriggeredSteps ==
    ASSUME NEW U, Good(U), NEW i \in Indexes, U.orders[i].open, WaitsForTrigger(U.orders[i])
    PROVE  Steps(U, Triggered(U, i))
<1> DEFINE o == U.orders[i]
           q == Awake(o)
           T == Triggered(U, i)
<1>1. /\ Good(T) /\ T.orders[i] = q /\ \A j \in Indexes \ {i} : T.orders[j] = U.orders[j]
  BY TriggeredGood
<1>2. T.nextId = U.nextId /\ T.base = U.base
  BY TriggeredFields, Zenon
<1>3. /\ q.open /\ q.triggered /\ q.id = o.id /\ q.kind = o.kind /\ q.reduceOnly = o.reduceOnly
      /\ Unfilled(q) = o.amount /\ Unfilled(o) = o.amount /\ o.amount \in Nat
  BY GoodFields, AwakeFields, Zenon
<1> HIDE DEF q, T
<1>4. \A j \in Indexes : T.orders[j].open => Follows(U.orders[j], T.orders[j])
  <2>1. Follows(o, q)
    BY <1>3 DEF Follows
  <2>2. \A j \in Indexes : U.orders[j].open => Follows(U.orders[j], U.orders[j])
    BY GoodFields DEF Follows
  <2> QED
    BY <1>1, <2>1, <2>2
<1>5. i \in TriggeredSlots(T) /\ i \notin TriggeredSlots(U)
  BY <1>1, <1>3 DEF TriggeredSlots, OpenSlots, WaitsForTrigger
<1>6. ShrinksTo(U.base, T.base) /\ U.nextId <= T.nextId
  BY <1>2, GoodFields DEF ShrinksTo
<1>7. Steps(U, T)
  BY <1>1, <1>4, <1>5, <1>6, Zenon DEF Steps
<1> QED
  BY <1>7 DEF T

LEMMA ReleaseSteps ==
    ASSUME NEW U, Good(U), NEW b \in BOOLEAN,
           NEW V, Steps([U EXCEPT !.liquidated = b], V)
    PROVE  Steps(U, V)
<1> DEFINE W == [U EXCEPT !.liquidated = b]
<1>1. /\ W.orders = U.orders /\ W.nextId = U.nextId /\ W.base = U.base
      /\ W.bids = U.bids /\ W.asks = U.asks
  BY DEF Good, Accounts
<1>2. Steps(W, V)
  OBVIOUS
<1> HIDE DEF W
<1> QED
  BY <1>1, <1>2 DEF Steps, Within, AllBooked, TriggeredSlots, OpenSlots

\* Every account takes such a step.
AllStep == \A u \in Users : Steps(account[u], account'[u])

LEMMA EvolutionSteps ==
    ASSUME Evolution
    PROVE  AllStep /\ AllGood(account') /\ Bounded(account') /\ UNCHANGED <<market, now>>
<1>1. AllEvolve(account, account')
  BY DEF Evolution
<1>2. \A u \in Users : Evolves(account[u], account'[u])
  BY <1>1 DEF AllEvolve
<1>3. AllGood(account')
  BY <1>1 DEF AllEvolve, AllGood, Evolves
<1>4. AllStep
  BY <1>2, EvolvesSteps DEF AllStep
<1> QED
  BY <1>3, <1>4 DEF Evolution

LEMMA UserBecomesSteps ==
    ASSUME AllGood(account), NEW u \in Users, NEW outcomes, UserBecomes(u, outcomes),
           \A U \in outcomes : Steps(account[u], U)
    PROVE  AllStep /\ AllGood(account') /\ Bounded(account') /\ UNCHANGED <<market, now>>
<1>1. PICK U \in outcomes : Bounded(account') /\ account' = [account EXCEPT ![u] = U]
  BY DEF UserBecomes, Becomes
<1>2. /\ account' = [v \in Users |-> account'[v]] /\ account'[u] = U
      /\ \A v \in Users \ {u} : account'[v] = account[v]
  BY <1>1 DEF AllGood
<1>3. \A v \in Users : Steps(account[v], account'[v])
  BY <1>1, <1>2, EvolvesSelf, EvolvesSteps DEF AllGood
<1>4. AllGood(account')
  BY <1>2, <1>3 DEF AllGood, Steps
<1> QED
  BY <1>1, <1>3, <1>4 DEF AllStep, UserBecomes, Becomes

LEMMA TriggerOrderStep ==
    ASSUME AllGood(account), NEW u \in Users, NEW i \in Indexes, TriggerOrder(u, i)
    PROVE  AllStep /\ AllGood(account') /\ Bounded(account') /\ UNCHANGED <<market, now>>
<1> DEFINE U == NotBeingLiquidated(account[u])
           T == Triggered(U, i)
           outcomes == {T} \cup OneIf(WorstCase(T) > WorstCase(U) /\ ~T.orders[i].reduceOnly,
                                      CancelOrder(T, i))
<1>1. /\ U.orders[i].open /\ WaitsForTrigger(U.orders[i]) /\ UserBecomes(u, outcomes)
  BY Zenon DEF TriggerOrder, WaitsForTrigger
<1>2. outcomes \subseteq {T, CancelOrder(T, i)}
  BY DEF OneIf
<1> HIDE DEF outcomes
<1>3. U = [account[u] EXCEPT !.liquidated = FALSE] /\ Good(account[u])
  BY DEF NotBeingLiquidated, AllGood
<1>4. Good(U)
  BY <1>3, FlagEvolves, Zenon DEF Evolves
<1> HIDE DEF U
<1>5. Steps(U, T) /\ Steps(U, CancelOrder(T, i))
  BY <1>1, <1>4, TriggeredSteps, TriggerCancelEvolves, EvolvesSteps
<1> HIDE DEF T
<1>6. \A V : Steps(U, V) => Steps(account[u], V)
  BY <1>3, ReleaseSteps, Zenon
<1>7. \A V \in outcomes : Steps(account[u], V)
  BY <1>2, <1>5, <1>6
<1> QED
  BY <1>1, <1>7, UserBecomesSteps

LEMMA RecountStep ==
    ASSUME AllGood(account), NEW u \in Users, UpdateUserOpenOrdersCount(u)
    PROVE  AllStep /\ AllGood(account') /\ Bounded(account') /\ UNCHANGED <<market, now>>
<1> DEFINE U == account[u]
           V == [U EXCEPT !.openOrders = Cardinality(OpenSlots(U)),
                          !.openAuctions = Cardinality({i \in Indexes : U.orders[i].auction})]
<1>1. UserBecomes(u, {V}) /\ Good(U)
  BY Zenon DEF UpdateUserOpenOrdersCount, AllGood
<1>2. /\ Good(V) /\ V.orders = U.orders /\ V.nextId = U.nextId /\ V.base = U.base
      /\ V.bids = U.bids /\ V.asks = U.asks
  BY <1>1, RecountGood, Zenon
<1> HIDE DEF V
<1>3. Evolves(U, U)
  BY <1>1, EvolvesSelf
<1>4. Steps(U, V)
  BY <1>2, <1>3, EvolvesSteps, Zenon DEF Steps, Within
<1> QED
  BY <1>1, <1>4, UserBecomesSteps

\* The inductive invariant.  OrdersAccounted alone is not inductive: that a
\* trigger order is unfilled until it is triggered, that no two open orders
\* share an id, and that no slot before an open order carries its user order
\* id are what the steps need besides.
OrdersInv ==
    /\ AllGood(account)
    /\ Bounded(account)
    /\ market \in Statuses
    /\ now \in 1..MaxTime

LEMMA InitOrdersInv == Init => OrdersInv
<1> SUFFICES ASSUME Init PROVE OrdersInv
  OBVIOUS
<1>1. account = [u \in Users |-> account[u]]
  BY DEF Init
<1>2. ASSUME NEW u \in Users
      PROVE  /\ Good(account[u]) /\ account[u].base \in -MaxBase..MaxBase
             /\ account[u].nextId = 1
  <2> DEFINE U == account[u]
  <2>1. PICK b \in -MaxBase..MaxBase : U = NewAccount(b)
    BY DEF Init
  <2>2. b \in Int
    BY <2>1, Bounds
  <2> HIDE DEF U
  <2>3. /\ U.orders = [i \in Indexes |-> Free] /\ U.nextId = 1 /\ U.openOrders = 0
        /\ U.openAuctions = 0 /\ U.base = b /\ U.bids = 0 /\ U.asks = 0 /\ U.posOrders = 0
    BY <2>1 DEF NewAccount
  <2>4. Free \in OrderType /\ ~Free.open /\ ~Free.newTrigger /\ Free.filled = 0
    BY Bounds DEF Free, OrderType, Kinds, Directions
  <2>5. U \in Accounts
    BY <2>1, <2>2, <2>4 DEF NewAccount, Accounts
  <2>6. \A i \in Indexes : U.orders[i] = Free
    BY <2>3
  <2>7. \A i \in Indexes : SlotOK(U.orders[i], U.nextId)
    BY <2>4, <2>6 DEF SlotOK
  <2>8. Distinct(U) /\ UidFirst(U)
    BY <2>4, <2>6 DEF Distinct, UidFirst
  <2>9. /\ Booked(U, "long") = 0 /\ Booked(U, "short") = 0
        /\ OpenCount(U) = 0 /\ AuctionCount(U) = 0
    <3> DEFINE f1 == [i \in Indexes |-> Part(U.orders[i], "long")]
               f2 == [i \in Indexes |-> Part(U.orders[i], "short")]
               f3 == [i \in Indexes |-> Opens(U.orders[i])]
               f4 == [i \in Indexes |-> Auctions(U.orders[i])]
    <3>1. \A i \in Indexes : f1[i] = 0 /\ f2[i] = 0 /\ f3[i] = 0 /\ f4[i] = 0
      BY <2>4, <2>6 DEF Part, Opens, Auctions
    <3>2. /\ Booked(U, "long") = SumFunctionOnSet(f1, Indexes)
          /\ Booked(U, "short") = SumFunctionOnSet(f2, Indexes)
          /\ OpenCount(U) = SumFunctionOnSet(f3, Indexes)
          /\ AuctionCount(U) = SumFunctionOnSet(f4, Indexes)
      BY Zenon DEF Booked, OpenCount, AuctionCount
    <3> HIDE DEF f1, f2, f3, f4
    <3>3. /\ SumFunctionOnSet(f1, Indexes) = 0 /\ SumFunctionOnSet(f2, Indexes) = 0
          /\ SumFunctionOnSet(f3, Indexes) = 0 /\ SumFunctionOnSet(f4, Indexes) = 0
      BY <3>1, IndexesFinite, SumZero
    <3> QED
      BY <3>2, <3>3
  <2>10. Tallied(U)
    BY <2>3, <2>9, Bounds DEF Tallied
  <2>11. Good(U)
    BY <2>5, <2>7, <2>8, <2>10 DEF Good
  <2> QED
    BY <2>3, <2>11 DEF U
<1>3. AllGood(account)
  BY <1>1, <1>2 DEF AllGood
<1>4. Bounded(account)
  BY <1>2, OrderConstants DEF Bounded
<1>5. market \in Statuses /\ now \in 1..MaxTime
  BY Bounds DEF Init, Statuses
<1> QED
  BY <1>3, <1>4, <1>5 DEF OrdersInv

LEMMA UserNextSteps ==
    ASSUME AllGood(account), NEW u \in Users, UserNext(u)
    PROVE  AllStep /\ AllGood(account') /\ Bounded(account') /\ UNCHANGED <<market, now>>
<1>1. CASE \E p \in Requests[u] : PlacePerpOrder(u, p)
  BY <1>1, PlacePerpOrderStep, EvolutionSteps
<1>2. CASE \E i \in Indexes : CancelOrderByOrderId(u, i)
  BY <1>2, CancelOrderByOrderIdStep, EvolutionSteps
<1>3. CASE CancelOrderByUserOrderId(u, 1)
  BY <1>3, CancelOrderByUserOrderIdStep, EvolutionSteps
<1>4. CASE \E sides \in {{"long"}, {"short"}, Directions} : CancelOrders(u, sides)
  BY <1>4, CancelOrdersStep, EvolutionSteps
<1>5. CASE \E i \in Indexes, exclude \in BOOLEAN :
             \E p \in {q \in Requests[u] : q.kind = account[u].orders[i].kind}
                    \cup {AsPlaced(account[u].orders[i])} : ModifyOrder(u, i, p, exclude)
  BY <1>5, ModifyOrderStep, EvolutionSteps, Zenon
<1>6. CASE \E p \in Requests[u], m \in Users, ioc \in BOOLEAN : PlaceAndTake(u, p, m, ioc)
  BY <1>6, PlaceAndTakeStep, EvolutionSteps
<1>7. CASE \E p \in Requests[u], t \in Users, i \in Indexes : PlaceAndMake(u, p, t, i)
  BY <1>7, PlaceAndMakeStep, EvolutionSteps
<1> QED
  BY <1>1, <1>2, <1>3, <1>4, <1>5, <1>6, <1>7, Zenon DEF UserNext

LEMMA KeeperNextSteps ==
    ASSUME AllGood(account), NEW u \in Users, KeeperNext(u)
    PROVE  AllStep /\ AllGood(account') /\ Bounded(account') /\ UNCHANGED <<market, now>>
<1>1. CASE \E i \in Indexes : TriggerOrder(u, i)
  BY <1>1, TriggerOrderStep
<1>2. CASE \E i \in Indexes, m \in Users : FillPerpOrder(u, i, m)
  BY <1>2, FillPerpOrderStep, EvolutionSteps
<1>3. CASE \E m \in Users : LiquidatePerpWithFill(u, m)
  BY <1>3, LiquidatePerpWithFillStep, EvolutionSteps
<1>4. CASE ForceCancelOrders(u)
  BY <1>4, ForceCancelOrdersStep, EvolutionSteps
<1>5. CASE UpdateUserOpenOrdersCount(u)
  BY <1>5, RecountStep
<1> QED
  BY <1>1, <1>2, <1>3, <1>4, <1>5 DEF KeeperNext

LEMMA StandStill ==
    ASSUME AllGood(account), account' = account PROVE AllStep
BY EvolvesSelf, EvolvesSteps DEF AllStep, AllGood

\* Every step keeps the invariant, and is a step of every account.
LEMMA NextSteps ==
    OrdersInv /\ [Next]_vars => AllStep /\ OrdersInv'
<1> SUFFICES ASSUME OrdersInv, [Next]_vars PROVE AllStep /\ OrdersInv'
  OBVIOUS
<1>1. AllGood(account) /\ market \in Statuses /\ now \in 1..MaxTime /\ Bounded(account)
  BY DEF OrdersInv
<1>2. ASSUME NEW u \in Users, UserNext(u) \/ KeeperNext(u) PROVE AllStep /\ OrdersInv'
  BY <1>1, <1>2, UserNextSteps, KeeperNextSteps DEF OrdersInv, AllGood, Bounded
<1>3. ASSUME NEW s \in Statuses, UpdateMarketStatus(s) PROVE AllStep /\ OrdersInv'
  BY <1>1, <1>3, StandStill DEF UpdateMarketStatus, OrdersInv, AllGood, Bounded
<1>4. CASE Tick
  <2>1. now' \in 1..MaxTime
    BY <1>1, <1>4, Bounds DEF Tick
  <2> QED
    BY <1>1, <1>4, <2>1, StandStill DEF Tick, OrdersInv, AllGood, Bounded
<1>5. CASE UNCHANGED vars
  BY <1>1, <1>5, StandStill DEF vars, OrdersInv, AllGood, Bounded
<1> QED
  BY <1>2, <1>3, <1>4, <1>5 DEF Next

-----------------------------------------------------------------------------
(* Theorems *)

\* Through every instruction, fill, trigger and recount the accounts stay good.
THEOREM OrdersInvariant == Spec => []OrdersInv
BY InitOrdersInv, NextSteps, PTL DEF Spec

LEMMA InvAccounted == OrdersInv => OrdersAccounted
<1> SUFFICES ASSUME OrdersInv PROVE OrdersAccounted
  OBVIOUS
<1>1. ASSUME NEW u \in Users
      PROVE  /\ Good(account[u]) /\ account[u] \in AccountType
             /\ account[u].bids = Booked(account[u], "long")
             /\ account[u].asks = -Booked(account[u], "short")
             /\ account[u].openOrders = Cardinality(OpenSlots(account[u]))
             /\ account[u].posOrders = Cardinality(OpenSlots(account[u]))
             /\ account[u].openAuctions >= Cardinality({i \in OpenSlots(account[u]) :
                                                          account[u].orders[i].auction})
  <2> DEFINE U == account[u]
             A == {i \in OpenSlots(U) : U.orders[i].auction}
  <2>1. Good(U) /\ U.base \in -MaxBase..MaxBase
    BY DEF OrdersInv, AllGood, Bounded
  <2> HIDE DEF U
  <2>2. /\ OpenCount(U) = Cardinality(OpenSlots(U)) /\ AuctionCount(U) = Cardinality(A)
        /\ Cardinality(OpenSlots(U)) \in 0..Slots
        /\ Cardinality({i \in Indexes : U.orders[i].auction}) \in AuctionCount(U)..Slots
    BY <2>1, TalliesAreCounts
  <2> HIDE DEF A
  <2>3. /\ U.bids = Booked(U, "long") /\ U.asks = -Booked(U, "short")
        /\ U.openOrders = OpenCount(U) /\ U.posOrders = OpenCount(U)
        /\ AuctionCount(U) <= U.openAuctions /\ U.openAuctions <= Slots + AuctionCount(U)
    BY <2>1 DEF Good, Tallied
  <2>4. /\ U \in Accounts /\ U.openAuctions \in Nat /\ AuctionCount(U) \in Nat
        /\ U.bids \in Nat
    BY <2>1, GoodFields, TalliesCover DEF Good
  <2>5. AuctionCount(U) <= Slots
    <3> DEFINE k == Cardinality({i \in Indexes : U.orders[i].auction})
    <3>1. k \in AuctionCount(U)..Slots
      BY <2>2
    <3> HIDE DEF k
    <3> QED
      BY <2>4, <3>1, Bounds
  <2>6. U.openAuctions \in 0..(2 * Slots)
    BY <2>3, <2>4, <2>5, Bounds
  <2>7. U.openOrders \in 0..Slots /\ U.posOrders \in 0..Slots
    BY <2>2, <2>3
  <2>8. U \in AccountType
    BY <2>1, <2>4, <2>6, <2>7 DEF AccountType, Accounts
  <2>9. Cardinality(A) <= U.openAuctions
    BY <2>2, <2>3
  <2>10. U.openAuctions >= Cardinality(A)
    BY <2>2, <2>4, <2>9
  <2> QED
    BY <2>1, <2>2, <2>3, <2>8, <2>10, Zenon DEF U, A
<1>2. TypeOK
  <2>1. account = [u \in Users |-> account[u]]
    BY DEF OrdersInv, AllGood
  <2> QED
    BY <1>1, <2>1, Zenon DEF TypeOK, OrdersInv
<1>3. BidsAndAsksMatchOrders /\ OrderCountsMatch /\ NoAuctionMissed
  BY <1>1, Zenon DEF BidsAndAsksMatchOrders, OrderCountsMatch, NoAuctionMissed
<1>4. UserIdReachesLiveOrder
  <2> SUFFICES ASSUME NEW u \in Users, NEW i \in Indexes, account[u].orders[i].open,
                      account[u].orders[i].uid # 0
               PROVE  i = SlotOfUserId(account[u], account[u].orders[i].uid)
    BY DEF UserIdReachesLiveOrder
  <2> DEFINE S == {k \in Indexes : account[u].orders[k].uid = account[u].orders[i].uid}
  <2>1. S \subseteq Nat /\ i \in S /\ S \subseteq Indexes
    BY IndexesFinite
  <2>2. \A k \in S : account[u].orders[k].uid = account[u].orders[i].uid
    OBVIOUS
  <2>3. SlotOfUserId(account[u], account[u].orders[i].uid) = Min(S)
    BY DEF SlotOfUserId
  <2> HIDE DEF S
  <2>4. Min(S) \in S /\ Min(S) <= i
    BY <2>1, MinIsLeast, Zenon
  <2>5. UidFirst(account[u])
    BY <1>1, Zenon DEF Good
  <2>6. ~ (Min(S) < i)
    BY <2>1, <2>2, <2>4, <2>5, Zenon DEF UidFirst
  <2>7. Min(S) \in Nat /\ i \in Nat
    BY <2>1, <2>4, Zenon
  <2> QED
    BY <2>3, <2>4, <2>6, <2>7
<1> QED
  BY <1>2, <1>3, <1>4 DEF OrdersAccounted

\* The open bids and asks, the counts of orders and of auctions, and the user
\* order ids of every account are those of its orders.
THEOREM OrdersAlwaysAccounted == Spec => []OrdersAccounted
BY OrdersInvariant, InvAccounted, PTL

\* No instruction grows or flips a position in a reduce-only market, whatever
\* the orders it fills were placed with.
THEOREM ReduceOnlyAlwaysReduces == Spec => ReduceOnlyMarketOnlyReduces
<1>1. OrdersInv /\ [Next]_vars =>
        [market = "reduceOnly" =>
            \A u \in Users : ShrinksTo(account[u].base, account'[u].base)]_vars
  BY NextSteps, Zenon DEF AllStep, Steps
<1> QED
  BY <1>1, OrdersInvariant, PTL DEF Spec, ReduceOnlyMarketOnlyReduces

\* An account between the positions of another's worst cases has no larger one.
LEMMA WithinWorstCase ==
    ASSUME NEW U, Good(U), NEW V, Good(V), Within(U, V)
    PROVE  WorstCase(V) <= WorstCase(U)
<1>1. /\ U.base \in Int /\ U.bids \in Nat /\ U.asks \in Int /\ U.asks <= 0
      /\ V.base \in Int /\ V.bids \in Nat /\ V.asks \in Int /\ V.asks <= 0
  BY GoodFields
<1> DEFINE a == U.base + U.asks
           b == U.base + U.bids
           c == V.base + V.asks
           d == V.base + V.bids
<1>2. a \in Int /\ b \in Int /\ c \in Int /\ d \in Int /\ a <= c /\ c <= d /\ d <= b
  BY <1>1 DEF Within
<1>3. WorstCase(U) = Greater(Abs(b), Abs(a)) /\ WorstCase(V) = Greater(Abs(d), Abs(c))
  BY DEF WorstCase
<1> HIDE DEF a, b, c, d
<1> QED
  BY <1>2, <1>3 DEF Greater, Abs

\* A step that neither places nor triggers an order leaves the worst case that
\* the margin check has seen no larger, when every triggered order is booked.
THEOREM FillsAlwaysWithinWorstCase == Spec => FillsStayWithinWorstCase
<1>1. ASSUME OrdersInv, [Next]_vars, NEW u \in Users,
             account'[u].nextId = account[u].nextId,
             UnbookedTriggers(account[u]) = {},
             {i \in OpenSlots(account'[u]) : account'[u].orders[i].triggered} \subseteq
               {i \in OpenSlots(account[u]) : account[u].orders[i].triggered}
      PROVE  WorstCase(account'[u]) <= WorstCase(account[u])
  <2> DEFINE U == account[u]
             V == account'[u]
  <2>1. Steps(U, V) /\ Good(U) /\ Good(V)
    BY <1>1, NextSteps, Zenon DEF AllStep, Steps, OrdersInv, AllGood
  <2>2. AllBooked(U)
    BY <1>1, Zenon DEF UnbookedTriggers, AllBooked, OpenSlots, WaitsForTrigger, UpdateOpenBidsAndAsks
  <2>3. TriggeredSlots(V) \subseteq TriggeredSlots(U)
    BY <1>1 DEF TriggeredSlots
  <2>4. V.nextId = U.nextId
    BY <1>1
  <2> HIDE DEF U, V
  <2>5. WorstCase(V) <= WorstCase(U)
    BY <2>1, <2>2, <2>3, <2>4, WithinWorstCase, Zenon DEF Steps
  <2> QED
    BY <2>5 DEF U, V
<1>2. OrdersInv /\ [Next]_vars =>
        [\A u \in Users :
          LET U == account[u]
              V == account'[u]
          IN  /\ V.nextId = U.nextId
              /\ UnbookedTriggers(U) = {}
              /\ {i \in OpenSlots(V) : V.orders[i].triggered} \subseteq
                 {i \in OpenSlots(U) : U.orders[i].triggered}
              => WorstCase(V) <= WorstCase(U)]_vars
  BY <1>1, Zenon
<1> QED
  BY <1>2, OrdersInvariant, PTL DEF Spec, FillsStayWithinWorstCase

-----------------------------------------------------------------------------
(* The life of an order *)

LEMMA IdsAreNat == \A id \in OrderIds : id \in Nat /\ id >= 1
BY OrderConstants DEF OrderIds

\* What OrderLife sees of an open order.
LEMMA LifeOfOpen ==
    ASSUME NEW U, Good(U), NEW i \in Indexes, U.orders[i].open
    PROVE  LET l == LifeOf(U, U.orders[i].id)
           IN  /\ l.phase = IF WaitsForTrigger(U.orders[i]) THEN "dormant" ELSE "live"
               /\ l.left = Unfilled(U.orders[i]) /\ l.reduceOnly = U.orders[i].reduceOnly
               /\ l.left \in 1..MaxAmount
<1> DEFINE o == U.orders[i]
           H == SlotsWithId(U, o.id)
           l == LifeOf(U, o.id)
<1>1. o \in OrderType /\ o.id \in 1..(U.nextId - 1) /\ o.filled < o.amount /\ U.nextId \in Nat
  BY GoodFields, Zenon DEF SlotOK
<1>2. H = {i}
  BY DEF SlotsWithId, Good, Distinct
<1>3. (CHOOSE k \in H : TRUE) = i
  BY <1>2
<1>4. ~ (o.id >= U.nextId)
  BY <1>1
<1>5. l = [phase |-> IF MustBeTriggered(o) /\ ~o.triggered THEN "dormant" ELSE "live",
           left |-> Unfilled(o), reduceOnly |-> o.reduceOnly]
  <2> HIDE DEF o
  <2>1. H # {}
    BY <1>2
  <2>2. U.orders[CHOOSE k \in H : TRUE] = o
    BY <1>3, Zenon DEF o
  <2> QED
    BY <1>4, <2>1, <2>2, Zenon DEF LifeOf
<1>6. Unfilled(o) \in 1..MaxAmount
  BY <1>1, Bounds DEF Unfilled, OrderType
<1> HIDE DEF l
<1> QED
  BY <1>5, <1>6 DEF WaitsForTrigger, l

LEMMA LifeOfUnborn ==
    ASSUME NEW U, NEW id, id >= U.nextId
    PROVE  LifeOf(U, id) = [phase |-> "unborn", left |-> 0, reduceOnly |-> FALSE]
BY DEF LifeOf

LEMMA LifeOfDone ==
    ASSUME NEW U, NEW id, ~ (id >= U.nextId), SlotsWithId(U, id) = {}
    PROVE  LifeOf(U, id) = [phase |-> "done", left |-> 0, reduceOnly |-> FALSE]
BY DEF LifeOf

\* Only an open order waits.
LEMMA LifeOfWaiting ==
    ASSUME NEW U, Good(U), NEW id, Life!Waiting(LifeOf(U, id))
    PROVE  \E i \in Indexes : U.orders[i].open /\ U.orders[i].id = id
<1>1. ~ (id >= U.nextId)
  BY LifeOfUnborn DEF Life!Waiting
<1>2. SlotsWithId(U, id) # {}
  BY <1>1, LifeOfDone DEF Life!Waiting
<1> QED
  BY <1>2 DEF SlotsWithId

LEMMA LifeAdvances ==
    ASSUME NEW U, Good(U), NEW V, Steps(U, V), NEW id \in OrderIds
    PROVE  Life!Advances(LifeOf(U, id), LifeOf(V, id))
<1>1. /\ Good(V) /\ U.nextId \in Nat /\ V.nextId \in Nat /\ U.nextId <= V.nextId /\ id \in Nat
  BY GoodFields, IdsAreNat, Zenon DEF Steps
<1>2. ASSUME Life!Waiting(LifeOf(V, id))
      PROVE  \E j \in Indexes : /\ V.orders[j].open /\ V.orders[j].id = id
                                /\ LifeOf(V, id).left \in 1..MaxAmount
  <2>1. PICK j \in Indexes : V.orders[j].open /\ V.orders[j].id = id
    BY <1>1, <1>2, LifeOfWaiting
  <2>2. LifeOf(V, V.orders[j].id).left \in 1..MaxAmount
    BY <1>1, <2>1, LifeOfOpen, Zenon
  <2> QED
    BY <2>1, <2>2
<1>3. CASE id >= U.nextId
  <2>1. LifeOf(U, id).phase = "unborn"
    BY <1>3, LifeOfUnborn
  <2> QED
    BY <1>2, <2>1 DEF Life!Advances
<1>4. CASE ~ (id >= U.nextId)
  <2>1. ~ (id >= V.nextId)
    BY <1>1, <1>4
  <2>2. ASSUME NEW j \in Indexes, V.orders[j].open, V.orders[j].id = id
        PROVE  Follows(U.orders[j], V.orders[j]) /\ U.orders[j].open /\ U.orders[j].id = id
    <3>1. ~ (U.nextId <= V.orders[j].id)
      BY <1>1, <1>4, <2>2, Zenon
    <3> QED
      BY <2>2, <3>1, Zenon DEF Steps, Follows
  <2>3. CASE SlotsWithId(U, id) = {}
    <3>1. SlotsWithId(V, id) = {}
      BY <2>2, <2>3 DEF SlotsWithId
    <3>2. LifeOf(V, id) = LifeOf(U, id)
      BY <1>4, <2>1, <2>3, <3>1, LifeOfDone, Zenon
    <3> QED
      BY <3>2 DEF Life!Advances
  <2>4. CASE SlotsWithId(U, id) # {}
    <3>1. PICK i \in Indexes : U.orders[i].open /\ U.orders[i].id = id
      BY <2>4 DEF SlotsWithId
    <3> DEFINE o == U.orders[i]
               l == LifeOf(U, id)
               k == LifeOf(V, id)
    <3>2. /\ l.phase = IF WaitsForTrigger(o) THEN "dormant" ELSE "live"
          /\ l.left = Unfilled(o) /\ l.reduceOnly = o.reduceOnly
      BY <3>1, LifeOfOpen, Zenon
    <3>3. Life!Waiting(l)
      BY <3>2, Zenon DEF Life!Waiting
    <3>4. CASE SlotsWithId(V, id) = {}
      <4>1. k.phase = "done"
        BY <2>1, <3>4, LifeOfDone
      <4> QED
        BY <3>3, <4>1 DEF Life!Advances
    <3>5. CASE SlotsWithId(V, id) # {}
      <4>1. PICK j \in Indexes : V.orders[j].open /\ V.orders[j].id = id
        BY <3>5 DEF SlotsWithId
      <4>2. Follows(U.orders[j], V.orders[j]) /\ U.orders[j].open /\ U.orders[j].id = id
        BY <2>2, <4>1
      <4>3. j = i
        BY <3>1, <4>2 DEF Good, Distinct
      <4> DEFINE p == V.orders[j]
      <4>4. /\ k.phase = IF WaitsForTrigger(p) THEN "dormant" ELSE "live"
            /\ k.left = Unfilled(p) /\ k.reduceOnly = p.reduceOnly
            /\ k.left \in 1..MaxAmount
        BY <1>1, <4>1, LifeOfOpen, Zenon
      <4>5. Follows(o, p)
        BY <4>2, <4>3
      <4> HIDE DEF o, p, k, l
      <4>6. WaitsForTrigger(p) => WaitsForTrigger(o)
        BY <4>5 DEF Follows, WaitsForTrigger, MustBeTriggered
      <4>7. /\ Life!Waiting(k) /\ (k.phase = "dormant" => l.phase = "dormant")
            /\ k.left <= l.left /\ (l.phase = "dormant" => k.left = l.left)
            /\ (l.reduceOnly => k.reduceOnly)
        BY <3>2, <4>4, <4>5, <4>6 DEF Follows, Life!Waiting
      <4>8. Life!Advances(l, k)
        BY <3>3, <4>4, <4>7 DEF Life!Advances
      <4> QED
        BY <4>8 DEF l, k
    <3> QED
      BY <3>4, <3>5
  <2> QED
    BY <2>3, <2>4
<1> QED
  BY <1>3, <1>4

\* The orders that wait are as many as the open slots hold.
LEMMA WaitingFit ==
    ASSUME NEW V, Good(V)
    PROVE  Cardinality({id \in OrderIds : Life!Waiting(LifeOf(V, id))}) <= Slots
<1> DEFINE W == {id \in OrderIds : Life!Waiting(LifeOf(V, id))}
           slot(id) == CHOOSE i \in Indexes : V.orders[i].open /\ V.orders[i].id = id
           f == [id \in W |-> slot(id)]
<1>1. \A id \in W : slot(id) \in Indexes /\ V.orders[slot(id)].id = id
  BY LifeOfWaiting
<1> HIDE DEF W, slot
<1>2. /\ \A id \in W : f[id] \in Indexes
      /\ \A a, b \in W : f[a] = f[b] => a = b
  BY <1>1
<1> HIDE DEF f
<1>3. Cardinality(W) <= Cardinality(Indexes)
  BY <1>2, IndexesFinite, CountInjected
<1> QED
  BY <1>3, IndexesFinite DEF W

LEMMA OwnerStep ==
    ASSUME NEW U, Good(U), NEW V, Steps(U, V)
    PROVE  Life!OwnerAdvances([id \in OrderIds |-> LifeOf(U, id)],
                              [id \in OrderIds |-> LifeOf(V, id)])
<1> DEFINE b == [id \in OrderIds |-> LifeOf(U, id)]
           a == [id \in OrderIds |-> LifeOf(V, id)]
<1>1. Good(V) /\ V.nextId \in Nat
  BY GoodFields DEF Steps
<1>2. \A id \in OrderIds : a[id] = LifeOf(V, id) /\ b[id] = LifeOf(U, id)
  OBVIOUS
<1> HIDE DEF a, b
<1>3. \A id \in OrderIds : Life!Advances(b[id], a[id])
  BY <1>2, LifeAdvances
<1>4. Life!InOrder(a)
  <2> SUFFICES ASSUME NEW i \in OrderIds, NEW j \in OrderIds, i < j, a[j].phase # "unborn"
               PROVE  a[i].phase # "unborn"
    BY DEF Life!InOrder
  <2>1. ~ (j >= V.nextId)
    BY <1>2, LifeOfUnborn
  <2>2. ~ (i >= V.nextId)
    BY <1>1, <2>1, IdsAreNat
  <2>3. CASE SlotsWithId(V, i) = {}
    BY <1>2, <2>2, <2>3, LifeOfDone
  <2>4. CASE SlotsWithId(V, i) # {}
    <3>1. PICK k \in Indexes : V.orders[k].open /\ V.orders[k].id = i
      BY <2>4 DEF SlotsWithId
    <3>2. LifeOf(V, V.orders[k].id).phase = IF WaitsForTrigger(V.orders[k]) THEN "dormant" ELSE "live"
      BY <1>1, <3>1, LifeOfOpen, Zenon
    <3> QED
      BY <1>2, <3>1, <3>2
  <2> QED
    BY <2>3, <2>4
<1>5. Cardinality({id \in OrderIds : Life!Waiting(a[id])}) <= Slots
  <2>1. {id \in OrderIds : Life!Waiting(a[id])} = {id \in OrderIds : Life!Waiting(LifeOf(V, id))}
    BY <1>2
  <2> QED
    BY <1>1, <2>1, WaitingFit
<1>6. Life!OwnerAdvances(b, a)
  BY <1>3, <1>4, <1>5, Zenon DEF Life!OwnerAdvances, Life!Cardinality, Cardinality
<1> QED
  BY <1>6 DEF a, b

\* The instructions implement OrderLife: ids are given out once and in turn,
\* orders that wait for a trigger keep their size, live ones only shrink and
\* stay reduce-only, and what is closed never comes back.
THEOREM OrdersImplementOrderLife == Spec => ImplementsOrderLife
<1>1. Init => Life!LifeInit
  <2> SUFFICES ASSUME Init PROVE Life!LifeInit
    OBVIOUS
  <2>1. ASSUME NEW u \in Users, NEW id \in OrderIds
        PROVE  LifeOf(account[u], id) = Life!Unborn
    <3>1. PICK base \in -MaxBase..MaxBase : account[u] = NewAccount(base)
      BY DEF Init
    <3>2. account[u].nextId = 1
      BY <3>1 DEF NewAccount
    <3> QED
      BY <3>2, IdsAreNat, LifeOfUnborn, Zenon DEF Life!Unborn
  <2> QED
    BY <2>1 DEF Life!LifeInit, lifeBar
<1>2. OrdersInv /\ [Next]_vars => [Life!LifeNext]_lifeBar
  <2> SUFFICES ASSUME OrdersInv, [Next]_vars, NEW u \in Users
               PROVE  \E before \in {lifeBar[u]}, after \in {lifeBar'[u]} :
                            Life!OwnerAdvances(before, after)
    BY DEF Life!LifeNext
  <2>1. Good(account[u]) /\ Steps(account[u], account'[u])
    BY NextSteps DEF AllStep, OrdersInv, AllGood
  <2>2. /\ lifeBar[u] = [id \in OrderIds |-> LifeOf(account[u], id)]
        /\ lifeBar'[u] = [id \in OrderIds |-> LifeOf(account'[u], id)]
    BY DEF lifeBar
  <2> QED
    BY <2>1, <2>2, OwnerStep
<1> QED
  BY <1>1, <1>2, OrdersInvariant, PTL DEF Spec, ImplementsOrderLife, Life!LifeSpec
=============================================================================
