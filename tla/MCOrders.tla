------------------------------ MODULE MCOrders ------------------------------
(***************************************************************************)
(* Orders for TLC: a taker with two slots and two ids, a maker with one    *)
(* id, that fill each other's orders.                                      *)
(***************************************************************************)
EXTENDS Orders

CONSTANTS taker, maker

MCUsers == {taker, maker}
MCMaxOrderId == [u \in MCUsers |-> IF u = taker THEN 2 ELSE 1]

Request(kind, dir, amount, reduceOnly, auction, maxTs, uid) ==
    [kind |-> kind, dir |-> dir, amount |-> amount, reduceOnly |-> reduceOnly,
     auction |-> auction, maxTs |-> maxTs, uid |-> uid]

MCRequests ==
    [u \in MCUsers |->
        IF u = taker
        THEN {Request("limit", "long", 2, FALSE, FALSE, 1, 1),
              Request("triggerLimit", "short", 1, TRUE, FALSE, 0, 1),
              Request("triggerMarket", "short", 2, FALSE, FALSE, 0, 0)}
        ELSE {Request("limit", "long", 1, FALSE, TRUE, 1, 0)}]
\* A resting order, and one that reaches the chain after its deadline.
MCLateRequests ==
    [u \in MCUsers |-> {Request("limit", IF u = taker THEN "short" ELSE "long", 1, FALSE, FALSE, d, 0) :
                            d \in {0, 1}}]
\* Only placements and the clock, so that nothing else can close an order.
PlacingSpec ==
    /\ Init
    /\ [][\/ Tick
          \/ \E u \in Users : \E p \in Requests[u] :
                \/ PlacePerpOrder(u, p)
                \/ \E t \in Users, i \in Indexes : PlaceAndMake(u, p, t, i)]_vars

MCBases == [u \in MCUsers |-> IF u = taker THEN {1} ELSE {-1}]
=============================================================================
