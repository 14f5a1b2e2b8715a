--------------------------- MODULE OrderCallProofs -------------------------
(***************************************************************************)
(* The calls that an instruction on orders is made of, for any number of   *)
(* slots, requests and bounds.  Good says what an account is between two   *)
(* calls, Evolves what a sequence of calls may do to it.  First the        *)
(* changes of one slot (cancel, flag, fill, stamp), each shown to keep the *)
(* one and to be a case of the other; then the calls made of them:         *)
(* cancelling several slots, expiring, placing, filling, and a taker's     *)
(* whole fulfilment.                                                       *)
(***************************************************************************)
EXTENDS OrderSlots, SumProofs

\* An account in the middle of an instruction.
Accounts ==
    [orders : [Indexes -> OrderType], nextId : Nat \ {0}, openOrders : Int,
     openAuctions : Int, base : Int, bids : Int, asks : Int, posOrders : Int,
     liquidated : BOOLEAN]

\* What an order adds to the counts.
Opens(o) == IF o.open THEN 1 ELSE 0
Auctions(o) == IF o.open /\ o.auction THEN 1 ELSE 0

OpenCount(U) == SumFunctionOnSet([i \in Indexes |-> Opens(U.orders[i])], Indexes)
AuctionCount(U) == SumFunctionOnSet([i \in Indexes |-> Auctions(U.orders[i])], Indexes)

\* The tallies are those of the orders.  A recount may add the auctions of
\* closed slots, once.
Tallied(U) ==
    /\ U.bids = Booked(U, "long")
    /\ U.asks = -Booked(U, "short")
    /\ U.openOrders = OpenCount(U)
    /\ U.posOrders = OpenCount(U)
    /\ AuctionCount(U) <= U.openAuctions
    /\ U.openAuctions <= Slots + AuctionCount(U)

\* What holds of every slot of an account whose next id is n.
SlotOK(o, n) ==
    /\ o.open => o.id \in 1..(n - 1) /\ o.filled < o.amount
    /\ o.newTrigger => o.reduceOnly
    /\ WaitsForTrigger(o) => o.filled = 0
    /\ o.open /\ WaitsForTrigger(o) => ~o.auction

\* No two open orders share an id.
Distinct(U) ==
    \A i, j \in Indexes : U.orders[i].open /\ U.orders[j].open
                            /\ U.orders[i].id = U.orders[j].id => i = j

\* No slot before an open order carries its user order id.
UidFirst(U) ==
    \A i, k \in Indexes : U.orders[i].open /\ U.orders[i].uid # 0 /\ k < i
                            => U.orders[k].uid # U.orders[i].uid

Good(U) ==
    /\ U \in Accounts
    /\ \A i \in Indexes : SlotOK(U.orders[i], U.nextId)
    /\ Distinct(U)
    /\ UidFirst(U)
    /\ Tallied(U)

-----------------------------------------------------------------------------
(* Sums over the slots *)

LEMMA Bounds ==
    /\ Slots \in Nat \ {0} /\ MaxAmount \in Nat \ {0}
    /\ MaxTime \in Nat \ {0}
  BY SlotConstants

LEMMA IndexesFinite ==
    /\ IsFiniteSet(Indexes) /\ Cardinality(Indexes) = Slots
    /\ \A i \in Indexes : i \in Nat /\ i >= 1
<1>1. Slots \in Nat
  BY Bounds
<1>2. IsFiniteSet(1..Slots) /\ Cardinality(1..Slots) = Slots
  BY <1>1, CountInterval
<1> QED
  BY <1>1, <1>2 DEF Indexes

LEMMA PartTypes ==
    ASSUME NEW o \in OrderType, NEW n, SlotOK(o, n)
    PROVE  /\ \A d \in Directions : Part(o, d) \in Nat
           /\ Opens(o) \in {0, 1} /\ Auctions(o) \in {0, 1}
  BY SlotConstants DEF OrderType, SlotOK, Part, Unfilled, Opens, Auctions

\* The tallies of a good account are naturals that cover each of its orders.
LEMMA TalliesCover ==
    ASSUME NEW U, Good(U)
    PROVE  /\ \A d \in Directions : Booked(U, d) \in Nat
           /\ OpenCount(U) \in Nat /\ AuctionCount(U) \in Nat
           /\ \A i \in Indexes : /\ Part(U.orders[i], "long") <= U.bids
                                 /\ Part(U.orders[i], "short") <= -U.asks
                                 /\ Opens(U.orders[i]) <= U.openOrders
                                 /\ Auctions(U.orders[i]) <= U.openAuctions
<1>1. \A i \in Indexes : /\ \A d \in Directions : Part(U.orders[i], d) \in Nat
                         /\ Opens(U.orders[i]) \in Nat /\ Auctions(U.orders[i]) \in Nat
  <2> SUFFICES ASSUME NEW i \in Indexes
               PROVE  /\ \A d \in Directions : Part(U.orders[i], d) \in Nat
                      /\ Opens(U.orders[i]) \in Nat /\ Auctions(U.orders[i]) \in Nat
    OBVIOUS
  <2>1. U.orders[i] \in OrderType /\ SlotOK(U.orders[i], U.nextId)
    BY DEF Good, Accounts
  <2> QED
    BY <2>1, PartTypes
<1>2. ASSUME NEW d \in Directions
      PROVE  /\ Booked(U, d) \in Nat
             /\ \A i \in Indexes : Part(U.orders[i], d) <= Booked(U, d)
  <2> DEFINE f == [i \in Indexes |-> Part(U.orders[i], d)]
  <2>1. \A i \in Indexes : f[i] \in Nat /\ f[i] = Part(U.orders[i], d)
    BY <1>1
  <2> HIDE DEF f
  <2>2. SumFunctionOnSet(f, Indexes) \in Nat
          /\ \A i \in Indexes : f[i] <= SumFunctionOnSet(f, Indexes)
    BY <2>1, IndexesFinite, SumBound
  <2>3. Booked(U, d) = SumFunctionOnSet(f, Indexes)
    BY Zenon DEF Booked, f
  <2> QED
    BY <2>1, <2>2, <2>3
<1>3. OpenCount(U) \in Nat /\ \A i \in Indexes : Opens(U.orders[i]) <= OpenCount(U)
  <2> DEFINE f == [i \in Indexes |-> Opens(U.orders[i])]
  <2>1. \A i \in Indexes : f[i] \in Nat /\ f[i] = Opens(U.orders[i])
    BY <1>1
  <2> HIDE DEF f
  <2>2. SumFunctionOnSet(f, Indexes) \in Nat
          /\ \A i \in Indexes : f[i] <= SumFunctionOnSet(f, Indexes)
    BY <2>1, IndexesFinite, SumBound
  <2>3. OpenCount(U) = SumFunctionOnSet(f, Indexes)
    BY Zenon DEF OpenCount, f
  <2> QED
    BY <2>1, <2>2, <2>3
<1>4. AuctionCount(U) \in Nat /\ \A i \in Indexes : Auctions(U.orders[i]) <= AuctionCount(U)
  <2> DEFINE f == [i \in Indexes |-> Auctions(U.orders[i])]
  <2>1. \A i \in Indexes : f[i] \in Nat /\ f[i] = Auctions(U.orders[i])
    BY <1>1
  <2> HIDE DEF f
  <2>2. SumFunctionOnSet(f, Indexes) \in Nat
          /\ \A i \in Indexes : f[i] <= SumFunctionOnSet(f, Indexes)
    BY <2>1, IndexesFinite, SumBound
  <2>3. AuctionCount(U) = SumFunctionOnSet(f, Indexes)
    BY Zenon DEF AuctionCount, f
  <2> QED
    BY <2>1, <2>2, <2>3
<1>5. /\ U.bids = Booked(U, "long") /\ U.asks = -Booked(U, "short")
      /\ U.openOrders = OpenCount(U)
      /\ AuctionCount(U) <= U.openAuctions /\ U.openAuctions \in Int
  BY DEF Good, Tallied, Accounts
<1>6. "long" \in Directions /\ "short" \in Directions
  BY DEF Directions
<1>7. \A i \in Indexes : /\ Part(U.orders[i], "long") <= U.bids
                         /\ Part(U.orders[i], "short") <= -U.asks
  BY <1>1, <1>2, <1>5, <1>6
<1>8. \A i \in Indexes : /\ Opens(U.orders[i]) <= U.openOrders
                         /\ Auctions(U.orders[i]) <= U.openAuctions
  BY <1>1, <1>3, <1>4, <1>5
<1> QED
  BY <1>2, <1>3, <1>4, <1>7, <1>8

-----------------------------------------------------------------------------
(* One slot changes *)

\* The tallies follow the orders when one slot changes and each tally moves by
\* what the slot gives less or more.
LEMMA SlotChange ==
    ASSUME NEW U, Good(U), NEW i \in Indexes, NEW p \in OrderType, NEW n, SlotOK(p, n),
           NEW V \in Accounts, V.orders = [U.orders EXCEPT ![i] = p],
           V.bids = U.bids + Part(p, "long") - Part(U.orders[i], "long"),
           V.asks = U.asks - Part(p, "short") + Part(U.orders[i], "short"),
           V.openOrders = U.openOrders + Opens(p) - Opens(U.orders[i]),
           V.posOrders = U.posOrders + Opens(p) - Opens(U.orders[i]),
           V.openAuctions = U.openAuctions + Auctions(p) - Auctions(U.orders[i])
    PROVE  Tallied(V)
<1>1. /\ \A j \in Indexes : U.orders[j] \in OrderType /\ SlotOK(U.orders[j], U.nextId)
      /\ U \in Accounts
  BY DEF Good, Accounts
<1>2. /\ V.orders[i] = p
      /\ \A j \in Indexes \ {i} : V.orders[j] = U.orders[j]
  BY <1>1 DEF Accounts
<1>3. "long" \in Directions /\ "short" \in Directions
  BY DEF Directions
<1>4. ASSUME NEW d \in Directions
      PROVE  Booked(V, d) = Booked(U, d) + Part(p, d) - Part(U.orders[i], d)
  <2> DEFINE f == [j \in Indexes |-> Part(U.orders[j], d)]
             e == [j \in Indexes |-> Part(V.orders[j], d)]
  <2>1. /\ \A j \in Indexes : f[j] \in Int
        /\ e[i] \in Int /\ e[i] = Part(p, d) /\ f[i] = Part(U.orders[i], d)
        /\ \A j \in Indexes \ {i} : e[j] = f[j]
    BY <1>1, <1>2, PartTypes
  <2>2. Booked(V, d) = SumFunctionOnSet(e, Indexes) /\ Booked(U, d) = SumFunctionOnSet(f, Indexes)
    BY Zenon DEF Booked
  <2> HIDE DEF f, e
  <2>3. SumFunctionOnSet(e, Indexes) = SumFunctionOnSet(f, Indexes) + e[i] - f[i]
    BY <2>1, IndexesFinite, SumUpdate
  <2> QED
    BY <2>1, <2>2, <2>3
<1>5. OpenCount(V) = OpenCount(U) + Opens(p) - Opens(U.orders[i])
  <2> DEFINE f == [j \in Indexes |-> Opens(U.orders[j])]
             e == [j \in Indexes |-> Opens(V.orders[j])]
  <2>1. /\ \A j \in Indexes : f[j] \in Int
        /\ e[i] \in Int /\ e[i] = Opens(p) /\ f[i] = Opens(U.orders[i])
        /\ \A j \in Indexes \ {i} : e[j] = f[j]
    BY <1>1, <1>2 DEF Opens
  <2>2. OpenCount(V) = SumFunctionOnSet(e, Indexes) /\ OpenCount(U) = SumFunctionOnSet(f, Indexes)
    BY Zenon DEF OpenCount
  <2> HIDE DEF f, e
  <2>3. SumFunctionOnSet(e, Indexes) = SumFunctionOnSet(f, Indexes) + e[i] - f[i]
    BY <2>1, IndexesFinite, SumUpdate
  <2> QED
    BY <2>1, <2>2, <2>3
<1>6. AuctionCount(V) = AuctionCount(U) + Auctions(p) - Auctions(U.orders[i])
  <2> DEFINE f == [j \in Indexes |-> Auctions(U.orders[j])]
             e == [j \in Indexes |-> Auctions(V.orders[j])]
  <2>1. /\ \A j \in Indexes : f[j] \in Int
        /\ e[i] \in Int /\ e[i] = Auctions(p) /\ f[i] = Auctions(U.orders[i])
        /\ \A j \in Indexes \ {i} : e[j] = f[j]
    BY <1>1, <1>2 DEF Auctions
  <2>2. AuctionCount(V) = SumFunctionOnSet(e, Indexes) /\ AuctionCount(U) = SumFunctionOnSet(f, Indexes)
    BY Zenon DEF AuctionCount
  <2> HIDE DEF f, e
  <2>3. SumFunctionOnSet(e, Indexes) = SumFunctionOnSet(f, Indexes) + e[i] - f[i]
    BY <2>1, IndexesFinite, SumUpdate
  <2> QED
    BY <2>1, <2>2, <2>3
<1>7. /\ Booked(V, "long") = Booked(U, "long") + Part(p, "long") - Part(U.orders[i], "long")
      /\ Booked(V, "short") = Booked(U, "short") + Part(p, "short") - Part(U.orders[i], "short")
  BY <1>3, <1>4
<1>8. /\ Part(p, "long") \in Int /\ Part(U.orders[i], "long") \in Int
      /\ Part(p, "short") \in Int /\ Part(U.orders[i], "short") \in Int
      /\ Opens(p) \in Int /\ Opens(U.orders[i]) \in Int
      /\ Auctions(p) \in Int /\ Auctions(U.orders[i]) \in Int
  BY <1>1, <1>3, PartTypes
<1>9. /\ Booked(U, "long") \in Int /\ Booked(U, "short") \in Int
      /\ OpenCount(U) \in Int /\ AuctionCount(U) \in Int /\ U.openAuctions \in Int
      /\ Slots \in Int
  BY <1>1, <1>3, TalliesCover, Bounds DEF Accounts
<1>10. /\ U.bids = Booked(U, "long") /\ U.asks = -Booked(U, "short")
       /\ U.openOrders = OpenCount(U) /\ U.posOrders = OpenCount(U)
       /\ AuctionCount(U) <= U.openAuctions
       /\ U.openAuctions <= Slots + AuctionCount(U)
  BY DEF Good, Tallied
<1> QED
  BY <1>5, <1>6, <1>7, <1>8, <1>9, <1>10 DEF Tallied

-----------------------------------------------------------------------------
(* What a sequence of calls may do to an account *)

\* An order that is open before and after: only its fill and its flags move.
Continues(o, p) ==
    /\ o.open /\ p.open /\ p.id = o.id
    /\ p.kind = o.kind /\ p.triggered = o.triggered
    /\ Unfilled(p) <= Unfilled(o)
    /\ WaitsForTrigger(o) => Unfilled(p) = Unfilled(o)
    /\ o.reduceOnly => p.reduceOnly

\* Every order that can be filled stands in the open bids and asks.
AllBooked(U) ==
    \A i \in Indexes : U.orders[i].open /\ ~WaitsForTrigger(U.orders[i])
                         => UpdateOpenBidsAndAsks(U.orders[i])

\* The positions the open orders could lead to become fewer.
Within(U, V) == U.base + U.asks <= V.base + V.asks /\ V.base + V.bids <= U.base + U.bids

\* What an account may become, apart from triggering an order: open orders are
\* new or continue the order of their slot, a reduce-only market only reduces,
\* and an account that places nothing stays within its worst case.
Evolves(U, V) ==
    /\ Good(V)
    /\ U.nextId <= V.nextId
    /\ \A j \in Indexes : V.orders[j].open => \/ U.nextId <= V.orders[j].id
                                             \/ Continues(U.orders[j], V.orders[j])
    /\ market = "reduceOnly" => ShrinksTo(U.base, V.base)
    /\ V.nextId = U.nextId /\ AllBooked(U) => AllBooked(V) /\ Within(U, V)

LEMMA GoodFields ==
    ASSUME NEW U, Good(U)
    PROVE  /\ U.nextId \in Nat \ {0} /\ U.base \in Int /\ U.bids \in Nat /\ U.asks \in Int
           /\ U.asks <= 0 /\ U.openOrders \in Nat /\ U.posOrders \in Nat /\ U.openAuctions \in Nat
           /\ \A i \in Indexes : /\ U.orders[i] \in OrderType
                                 /\ SlotOK(U.orders[i], U.nextId)
                                 /\ Unfilled(U.orders[i]) \in Int
<1>1. U \in Accounts /\ \A i \in Indexes : SlotOK(U.orders[i], U.nextId)
  BY DEF Good
<1>2. \A i \in Indexes : U.orders[i] \in OrderType
  BY <1>1 DEF Accounts
<1>3. \A i \in Indexes : Unfilled(U.orders[i]) \in Int
  BY <1>2, Bounds DEF OrderType, Unfilled
<1>4. /\ Booked(U, "long") \in Nat /\ Booked(U, "short") \in Nat
      /\ OpenCount(U) \in Nat /\ AuctionCount(U) \in Nat
  BY TalliesCover DEF Directions
<1>5. /\ U.bids \in Nat /\ U.asks \in Int /\ U.asks <= 0
      /\ U.openOrders \in Nat /\ U.posOrders \in Nat
  BY <1>4 DEF Good, Tallied
<1>6. AuctionCount(U) <= U.openAuctions /\ U.openAuctions \in Int
  BY <1>1 DEF Good, Tallied, Accounts
<1>7. U.openAuctions \in Nat
  BY <1>4, <1>6
<1>8. U.nextId \in Nat \ {0} /\ U.base \in Int
  BY <1>1 DEF Accounts
<1> QED
  BY <1>1, <1>2, <1>3, <1>5, <1>7, <1>8

LEMMA ContinuesChain ==
    ASSUME NEW o, NEW p, NEW q, Unfilled(o) \in Int, Unfilled(p) \in Int, Unfilled(q) \in Int,
           Continues(o, p), Continues(p, q)
    PROVE  Continues(o, q)
BY DEF Continues, WaitsForTrigger, MustBeTriggered

LEMMA ShrinksChain ==
    ASSUME NEW a \in Int, NEW b \in Int, NEW c \in Int, ShrinksTo(a, b), ShrinksTo(b, c)
    PROVE  ShrinksTo(a, c)
BY DEF ShrinksTo

LEMMA EvolvesSelf ==
    ASSUME NEW U, Good(U) PROVE Evolves(U, U)
<1>1. \A j \in Indexes : U.orders[j].open => Continues(U.orders[j], U.orders[j])
  BY GoodFields DEF Continues
<1>2. ShrinksTo(U.base, U.base) /\ Within(U, U) /\ U.nextId <= U.nextId
  BY GoodFields DEF ShrinksTo, Within
<1> QED
  BY <1>1, <1>2 DEF Evolves

LEMMA EvolvesChain ==
    ASSUME NEW U, Good(U), NEW V, Evolves(U, V), NEW W, Evolves(V, W)
    PROVE  Evolves(U, W)
<1>1. Good(V) /\ Good(W)
  BY DEF Evolves
<1>2. /\ U.nextId \in Nat /\ V.nextId \in Nat /\ W.nextId \in Nat
      /\ U.nextId <= V.nextId /\ V.nextId <= W.nextId
  BY <1>1, GoodFields DEF Evolves
<1>3. ASSUME NEW j \in Indexes, W.orders[j].open
      PROVE  U.nextId <= W.orders[j].id \/ Continues(U.orders[j], W.orders[j])
  <2>1. /\ Unfilled(U.orders[j]) \in Int /\ Unfilled(V.orders[j]) \in Int
        /\ Unfilled(W.orders[j]) \in Int /\ W.orders[j].id \in Nat
    BY <1>1, GoodFields DEF OrderType
  <2>2. CASE V.nextId <= W.orders[j].id
    BY <1>2, <2>1, <2>2
  <2>3. CASE Continues(V.orders[j], W.orders[j])
    <3>1. V.orders[j].open /\ W.orders[j].id = V.orders[j].id
      BY <2>3 DEF Continues
    <3>2. U.nextId <= V.orders[j].id \/ Continues(U.orders[j], V.orders[j])
      BY <3>1 DEF Evolves
    <3> QED
      BY <2>1, <2>3, <3>1, <3>2, ContinuesChain
  <2> QED
    BY <1>3, <2>2, <2>3 DEF Evolves
<1>4. market = "reduceOnly" => ShrinksTo(U.base, W.base)
  <2>1. U.base \in Int /\ V.base \in Int /\ W.base \in Int
    BY <1>1, GoodFields
  <2> QED
    BY <2>1, ShrinksChain DEF Evolves
<1>5. ASSUME W.nextId = U.nextId, AllBooked(U) PROVE AllBooked(W) /\ Within(U, W)
  <2>1. V.nextId = U.nextId /\ W.nextId = V.nextId
    BY <1>2, <1>5
  <2>2. AllBooked(V) /\ Within(U, V)
    BY <1>5, <2>1 DEF Evolves
  <2>3. AllBooked(W) /\ Within(V, W)
    BY <2>1, <2>2 DEF Evolves
  <2>4. /\ U.base \in Int /\ U.bids \in Int /\ U.asks \in Int
        /\ V.base \in Int /\ V.bids \in Int /\ V.asks \in Int
        /\ W.base \in Int /\ W.bids \in Int /\ W.asks \in Int
    BY <1>1, GoodFields
  <2>5. Within(U, W)
    BY <2>2, <2>3, <2>4 DEF Within
  <2> QED
    BY <2>3, <2>5
<1>6. U.nextId <= W.nextId
  BY <1>2
<1> QED
  BY <1>1, <1>3, <1>4, <1>5, <1>6 DEF Evolves

-----------------------------------------------------------------------------
(* Calls on one slot that hand out no id *)

LEMMA OneSlotEvolves ==
    ASSUME NEW U, Good(U), NEW i \in Indexes, NEW p \in OrderType, SlotOK(p, U.nextId),
           NEW V \in Accounts, V.orders = [U.orders EXCEPT ![i] = p],
           V.bids = U.bids + Part(p, "long") - Part(U.orders[i], "long"),
           V.asks = U.asks - Part(p, "short") + Part(U.orders[i], "short"),
           V.openOrders = U.openOrders + Opens(p) - Opens(U.orders[i]),
           V.posOrders = U.posOrders + Opens(p) - Opens(U.orders[i]),
           V.openAuctions = U.openAuctions + Auctions(p) - Auctions(U.orders[i]),
           V.nextId = U.nextId,
           p.uid = U.orders[i].uid,
           p.open => Continues(U.orders[i], p),
           p.open /\ ~WaitsForTrigger(p) /\ UpdateOpenBidsAndAsks(U.orders[i])
             => UpdateOpenBidsAndAsks(p),
           market = "reduceOnly" => ShrinksTo(U.base, V.base),
           AllBooked(U) => Within(U, V)
    PROVE  Evolves(U, V)
<1>1. Tallied(V)
  BY SlotChange
<1>2. /\ V.orders[i] = p
      /\ \A j \in Indexes \ {i} : V.orders[j] = U.orders[j]
  BY DEF Good, Accounts
<1>3. \A j \in Indexes : SlotOK(V.orders[j], V.nextId)
  BY <1>2 DEF Good
<1>4. \A j \in Indexes : V.orders[j].open => U.orders[j].open /\ V.orders[j].id = U.orders[j].id
  BY <1>2 DEF Continues
<1>5. \A j \in Indexes : V.orders[j].uid = U.orders[j].uid
  BY <1>2
<1>6. Distinct(V) /\ UidFirst(V)
  BY <1>4, <1>5 DEF Distinct, UidFirst, Good
<1>7. Good(V)
  BY <1>1, <1>3, <1>6 DEF Good
<1>8. \A j \in Indexes : V.orders[j].open => Continues(U.orders[j], V.orders[j])
  BY <1>2, GoodFields DEF Continues
<1>9. ASSUME AllBooked(U) PROVE AllBooked(V)
  <2> SUFFICES ASSUME NEW j \in Indexes, V.orders[j].open, ~WaitsForTrigger(V.orders[j])
               PROVE  UpdateOpenBidsAndAsks(V.orders[j])
    BY DEF AllBooked
  <2>1. U.orders[j].open /\ ~WaitsForTrigger(U.orders[j])
    BY <1>8 DEF Continues, WaitsForTrigger, MustBeTriggered
  <2>2. UpdateOpenBidsAndAsks(U.orders[j])
    BY <1>9, <2>1 DEF AllBooked
  <2> QED
    BY <1>2, <2>2
<1>10. U.nextId <= V.nextId
  BY GoodFields
<1> QED
  BY <1>7, <1>8, <1>9, <1>10 DEF Evolves

LEMMA ClosedOK ==
    ASSUME NEW o \in OrderType, NEW n
    PROVE  /\ Closed(o) \in OrderType /\ SlotOK(Closed(o), n) /\ ~Closed(o).open
           /\ Closed(o).uid = o.uid /\ Part(Closed(o), "long") = 0 /\ Part(Closed(o), "short") = 0
           /\ Opens(Closed(o)) = 0 /\ Auctions(Closed(o)) = 0
<1> DEFINE c == Closed(o)
<1>1. /\ Free \in OrderType /\ ~Free.open /\ ~Free.newTrigger /\ Free.filled = 0
      /\ o.uid \in 0..1 /\ o.auction \in BOOLEAN
  BY Bounds DEF Free, OrderType, Kinds, Directions
<1>2. /\ c \in OrderType /\ c.uid = o.uid /\ c.open = Free.open
      /\ c.newTrigger = Free.newTrigger /\ c.filled = Free.filled
  BY <1>1, Zenon DEF Closed, OrderType
<1> HIDE DEF c
<1>4. /\ SlotOK(c, n) /\ Part(c, "long") = 0 /\ Part(c, "short") = 0
      /\ Opens(c) = 0 /\ Auctions(c) = 0
  BY <1>1, <1>2 DEF SlotOK, Part, Opens, Auctions
<1> QED
  BY <1>1, <1>2, <1>4 DEF c

\* The decrease of the open bids and asks does not saturate when the tally
\* covers it.
LEMMA DecreaseFields ==
    ASSUME NEW U \in Accounts, NEW o \in OrderType, NEW a \in Nat,
           UpdateOpenBidsAndAsks(o) /\ o.dir = "long" => a <= U.bids,
           UpdateOpenBidsAndAsks(o) /\ o.dir = "short" => a <= -U.asks
    PROVE  LET V == DecreaseOpen(U, o, a)
           IN  /\ V \in Accounts /\ V.orders = U.orders /\ V.nextId = U.nextId
               /\ V.base = U.base /\ V.openOrders = U.openOrders
               /\ V.posOrders = U.posOrders /\ V.openAuctions = U.openAuctions
               /\ V.bids = IF UpdateOpenBidsAndAsks(o) /\ o.dir = "long"
                           THEN U.bids - a ELSE U.bids
               /\ V.asks = IF UpdateOpenBidsAndAsks(o) /\ o.dir = "short"
                           THEN U.asks + a ELSE U.asks
               /\ V.liquidated = U.liquidated
<1> DEFINE V == DecreaseOpen(U, o, a)
<1>1. CASE ~UpdateOpenBidsAndAsks(o)
  BY <1>1 DEF DecreaseOpen
<1>2. CASE UpdateOpenBidsAndAsks(o) /\ o.dir = "long"
  <2>1. Greater(U.bids - a, 0) = U.bids - a /\ U.bids - a \in Int
    BY <1>2 DEF Greater, Accounts
  <2>2. V = [U EXCEPT !.bids = U.bids - a]
    BY <1>2, <2>1 DEF DecreaseOpen
  <2> HIDE DEF V
  <2> QED
    BY <1>2, <2>1, <2>2 DEF Accounts, V
<1>3. CASE UpdateOpenBidsAndAsks(o) /\ o.dir = "short"
  <2>1. Lesser(U.asks + a, 0) = U.asks + a /\ U.asks + a \in Int
    BY <1>3 DEF Lesser, Accounts
  <2>2. V = [U EXCEPT !.asks = U.asks + a]
    BY <1>3, <2>1 DEF DecreaseOpen
  <2> HIDE DEF V
  <2> QED
    BY <1>3, <2>1, <2>2 DEF Accounts, V
<1> QED
  BY <1>1, <1>2, <1>3 DEF OrderType, Directions

LEMMA CloseFields ==
    ASSUME NEW U \in Accounts, NEW i \in Indexes, U.openOrders >= 1, U.orders[i].open,
           U.orders[i].auction => U.openAuctions >= 1
    PROVE  LET V == CloseOrder(U, i)
           IN  /\ V \in Accounts /\ V.orders = [U.orders EXCEPT ![i] = Closed(U.orders[i])]
               /\ V.nextId = U.nextId /\ V.base = U.base /\ V.bids = U.bids /\ V.asks = U.asks
               /\ V.openOrders = U.openOrders - 1 /\ V.posOrders = U.posOrders - 1
               /\ V.openAuctions = U.openAuctions - Auctions(U.orders[i])
               /\ V.liquidated = U.liquidated
<1> DEFINE V == CloseOrder(U, i)
           c == Closed(U.orders[i])
           oo == U.openOrders - 1
           oa == U.openAuctions - Auctions(U.orders[i])
           po == U.posOrders - 1
<1>1. U.orders[i] \in OrderType /\ c \in OrderType
  BY ClosedOK DEF Accounts
<1>2. oo \in Int /\ oa \in Int /\ po \in Int /\ Greater(U.openOrders - 1, 0) = oo
      /\ (IF U.orders[i].auction THEN Greater(U.openAuctions - 1, 0) ELSE U.openAuctions) = oa
  BY DEF Accounts, Greater, Auctions
<1>3. V = [U EXCEPT !.openOrders = oo, !.openAuctions = oa, !.orders = [@ EXCEPT ![i] = c],
                    !.posOrders = po]
  BY <1>2, Zenon DEF CloseOrder, DecrementOpenOrders, Accounts
<1>4. [U.orders EXCEPT ![i] = c] \in [Indexes -> OrderType]
  BY <1>1 DEF Accounts
<1> HIDE DEF V, c, oo, oa, po
<1>5. /\ V \in Accounts /\ V.orders = [U.orders EXCEPT ![i] = c]
      /\ V.nextId = U.nextId /\ V.base = U.base /\ V.bids = U.bids /\ V.asks = U.asks
      /\ V.openOrders = oo /\ V.posOrders = po /\ V.openAuctions = oa
      /\ V.liquidated = U.liquidated
  BY <1>2, <1>3, <1>4, Zenon DEF Accounts
<1> QED
  BY <1>5 DEF V, c, oo, oa, po

\* Cancelling an open order.
LEMMA CancelFields ==
    ASSUME NEW U, Good(U), NEW i \in Indexes, U.orders[i].open
    PROVE  LET V == CancelOrder(U, i)
           IN  /\ Evolves(U, V) /\ V \in Accounts
               /\ V.orders = [U.orders EXCEPT ![i] = Closed(U.orders[i])]
               /\ V.nextId = U.nextId /\ V.base = U.base /\ V.liquidated = U.liquidated
               /\ V.bids = U.bids - Part(U.orders[i], "long")
               /\ V.asks = U.asks + Part(U.orders[i], "short")
               /\ V.openOrders = U.openOrders - 1 /\ V.posOrders = U.posOrders - 1
               /\ V.openAuctions = U.openAuctions - Auctions(U.orders[i])
<1> DEFINE o == U.orders[i]
           a == Unfilled(o)
           D == DecreaseOpen(U, o, a)
           V == CancelOrder(U, i)
           p == Closed(o)
<1>1. /\ U \in Accounts /\ o \in OrderType /\ SlotOK(o, U.nextId)
      /\ U.bids \in Nat /\ U.asks \in Int /\ U.openOrders \in Nat /\ U.posOrders \in Int
      /\ U.openAuctions \in Nat /\ U.base \in Int
  BY GoodFields DEF Good
<1>2. a \in Nat
  BY <1>1, Bounds DEF OrderType, SlotOK, Unfilled
<1>3. /\ Part(o, "long") = IF UpdateOpenBidsAndAsks(o) /\ o.dir = "long" THEN a ELSE 0
      /\ Part(o, "short") = IF UpdateOpenBidsAndAsks(o) /\ o.dir = "short" THEN a ELSE 0
      /\ Opens(o) = 1
  BY DEF Part, Opens
<1>4. /\ Part(o, "long") <= U.bids /\ Part(o, "short") <= -U.asks
      /\ Opens(o) <= U.openOrders /\ Auctions(o) <= U.openAuctions
  BY TalliesCover
<1> HIDE DEF a
<1>5. /\ D \in Accounts /\ D.orders = U.orders /\ D.nextId = U.nextId
      /\ D.base = U.base /\ D.openOrders = U.openOrders
      /\ D.posOrders = U.posOrders /\ D.openAuctions = U.openAuctions
      /\ D.bids = U.bids - Part(o, "long")
      /\ D.asks = U.asks + Part(o, "short")
      /\ D.liquidated = U.liquidated
  <2>1. /\ UpdateOpenBidsAndAsks(o) /\ o.dir = "long" => a <= U.bids
        /\ UpdateOpenBidsAndAsks(o) /\ o.dir = "short" => a <= -U.asks
    BY <1>3, <1>4
  <2> HIDE DEF o
  <2>2. /\ D \in Accounts /\ D.orders = U.orders /\ D.nextId = U.nextId
        /\ D.base = U.base /\ D.openOrders = U.openOrders
        /\ D.posOrders = U.posOrders /\ D.openAuctions = U.openAuctions
        /\ D.bids = IF UpdateOpenBidsAndAsks(o) /\ o.dir = "long" THEN U.bids - a ELSE U.bids
        /\ D.asks = IF UpdateOpenBidsAndAsks(o) /\ o.dir = "short" THEN U.asks + a ELSE U.asks
        /\ D.liquidated = U.liquidated
    BY <1>1, <1>2, <2>1, DecreaseFields, Zenon
  <2> HIDE DEF D
  <2> QED
    BY <1>1, <1>2, <1>3, <2>2
<1>6. D.openOrders >= 1 /\ D.orders[i] = o /\ (D.orders[i].auction => D.openAuctions >= 1)
  BY <1>1, <1>3, <1>4, <1>5 DEF Auctions
<1>7. V = CloseOrder(D, i)
  BY DEF CancelOrder, a
<1> HIDE DEF D, V
<1>8. /\ V \in Accounts /\ V.orders = [U.orders EXCEPT ![i] = p]
      /\ V.nextId = U.nextId /\ V.base = U.base
      /\ V.bids = U.bids - Part(o, "long")
      /\ V.asks = U.asks + Part(o, "short")
      /\ V.openOrders = U.openOrders - 1 /\ V.posOrders = U.posOrders - 1
      /\ V.openAuctions = U.openAuctions - Auctions(o)
      /\ V.liquidated = U.liquidated
  BY <1>5, <1>6, <1>7, CloseFields
<1>9. /\ p \in OrderType /\ SlotOK(p, U.nextId) /\ ~p.open
      /\ p.uid = o.uid /\ Part(p, "long") = 0 /\ Part(p, "short") = 0
      /\ Opens(p) = 0 /\ Auctions(p) = 0
  BY <1>1, ClosedOK
<1>10. /\ Part(o, "long") \in Nat /\ Part(o, "short") \in Nat /\ Auctions(o) \in Nat
  BY <1>1, PartTypes DEF Directions
<1> HIDE DEF p
<1>11. /\ V.bids = U.bids + Part(p, "long") - Part(o, "long")
       /\ V.asks = U.asks - Part(p, "short") + Part(o, "short")
       /\ V.openOrders = U.openOrders + Opens(p) - Opens(o)
       /\ V.posOrders = U.posOrders + Opens(p) - Opens(o)
       /\ V.openAuctions = U.openAuctions + Auctions(p) - Auctions(o)
  BY <1>1, <1>3, <1>8, <1>9, <1>10
<1>12. Within(U, V) /\ ShrinksTo(U.base, V.base)
  BY <1>1, <1>8, <1>10 DEF Within, ShrinksTo
<1>13. Evolves(U, V)
  BY <1>8, <1>9, <1>11, <1>12, OneSlotEvolves, Zenon
<1> QED
  BY <1>8, <1>13 DEF V, p

LEMMA CancelEvolves ==
    ASSUME NEW U, Good(U), NEW i \in Indexes, U.orders[i].open
    PROVE  LET V == CancelOrder(U, i)
           IN  /\ Evolves(U, V)
               /\ V.orders = [U.orders EXCEPT ![i] = Closed(U.orders[i])]
               /\ V.nextId = U.nextId /\ V.base = U.base /\ V.liquidated = U.liquidated
BY CancelFields, ZenonT(60)

\* A flag of the account changes nothing that is counted.
LEMMA FlagEvolves ==
    ASSUME NEW U, Good(U), NEW b \in BOOLEAN
    PROVE  LET V == [U EXCEPT !.liquidated = b]
           IN  /\ Evolves(U, V) /\ V.orders = U.orders
               /\ V.base = U.base /\ V.nextId = U.nextId
<1> DEFINE V == [U EXCEPT !.liquidated = b]
<1>1. /\ V \in Accounts /\ V.orders = U.orders /\ V.nextId = U.nextId /\ V.base = U.base
      /\ V.bids = U.bids /\ V.asks = U.asks /\ V.openOrders = U.openOrders
      /\ V.posOrders = U.posOrders /\ V.openAuctions = U.openAuctions
  BY DEF Good, Accounts
<1> HIDE DEF V
<1>2. Good(V)
  BY <1>1 DEF Good, Distinct, UidFirst, Tallied, Booked, OpenCount, AuctionCount
<1>3. Evolves(U, U)
  BY EvolvesSelf
<1>4. Evolves(U, V)
  BY <1>1, <1>2, <1>3 DEF Evolves, Within, AllBooked
<1> QED
  BY <1>1, <1>4 DEF V

\* What a fill may take is no more than the order has left, and no more than a
\* reduce-only order can reduce.
LEMMA UnfilledForBounds ==
    ASSUME NEW o \in OrderType, NEW n, SlotOK(o, n), o.open, NEW base \in Int
    PROVE  /\ UnfilledFor(o, base) \in Int /\ UnfilledFor(o, base) <= Unfilled(o)
           /\ \A a \in 1..UnfilledFor(o, base) :
                o.reduceOnly => ShrinksTo(base, base + Signed(o.dir, a))
<1>1. Unfilled(o) \in Nat /\ Unfilled(o) >= 1
  BY Bounds DEF OrderType, SlotOK, Unfilled
<1> HIDE DEF Unfilled
<1>2. CASE ~o.reduceOnly
  BY <1>1, <1>2 DEF UnfilledFor
<1>3. CASE o.reduceOnly /\ (base = 0 \/ (o.dir = "long") = (base > 0))
  BY <1>1, <1>3 DEF UnfilledFor
<1>4. CASE o.reduceOnly /\ base # 0 /\ (o.dir = "long") # (base > 0)
  <2>1. UnfilledFor(o, base) = Lesser(Unfilled(o), Abs(base))
    BY <1>4 DEF UnfilledFor
  <2>2. CASE base > 0
    BY <1>1, <1>4, <2>1, <2>2 DEF Lesser, Abs, Signed, ShrinksTo
  <2>3. CASE base < 0
    BY <1>1, <1>4, <2>1, <2>3 DEF Lesser, Abs, Signed, ShrinksTo
  <2> QED
    BY <1>4, <2>2, <2>3
<1> QED
  BY <1>2, <1>3, <1>4

\* The order after a fill of part or all of what is left of it.
LEMMA FilledOrder ==
    ASSUME NEW o \in OrderType, o.open, ~WaitsForTrigger(o), NEW n, SlotOK(o, n),
           NEW a \in Nat, a >= 1, a <= Unfilled(o), Unfilled(o) \in Nat,
           NEW q, q = [o EXCEPT !.filled = @ + a]
    PROVE  /\ q \in OrderType /\ q.open /\ q.uid = o.uid /\ ~WaitsForTrigger(q)
           /\ UpdateOpenBidsAndAsks(q) = UpdateOpenBidsAndAsks(o)
           /\ Opens(q) = 1 /\ Opens(o) = 1 /\ Auctions(q) = Auctions(o)
           /\ Part(o, "long") = IF UpdateOpenBidsAndAsks(o) /\ o.dir = "long"
                                THEN Unfilled(o) ELSE 0
           /\ Part(o, "short") = IF UpdateOpenBidsAndAsks(o) /\ o.dir = "short"
                                 THEN Unfilled(o) ELSE 0
           /\ Part(q, "long") = IF UpdateOpenBidsAndAsks(o) /\ o.dir = "long"
                                THEN Unfilled(o) - a ELSE 0
           /\ Part(q, "short") = IF UpdateOpenBidsAndAsks(o) /\ o.dir = "short"
                                 THEN Unfilled(o) - a ELSE 0
           /\ a # Unfilled(o) => SlotOK(q, n) /\ Continues(o, q)
<1>1. /\ o.filled + a <= o.amount /\ o.filled + a \in 0..MaxAmount
      /\ o.filled \in Int /\ o.amount \in Int
  BY Bounds DEF Unfilled, OrderType
<1>2. /\ q \in OrderType /\ q.filled = o.filled + a /\ q.amount = o.amount /\ q.open
      /\ q.id = o.id /\ q.uid = o.uid /\ q.kind = o.kind /\ q.dir = o.dir
      /\ q.reduceOnly = o.reduceOnly /\ q.newTrigger = o.newTrigger
      /\ q.triggered = o.triggered /\ q.auction = o.auction
  BY <1>1 DEF OrderType
<1>3. /\ UpdateOpenBidsAndAsks(q) = UpdateOpenBidsAndAsks(o)
      /\ WaitsForTrigger(q) = WaitsForTrigger(o)
      /\ Opens(q) = 1 /\ Opens(o) = 1 /\ Auctions(q) = Auctions(o)
  BY <1>2, Zenon DEF UpdateOpenBidsAndAsks, MustBeTriggered, WaitsForTrigger, Opens, Auctions
<1>4. Unfilled(q) = Unfilled(o) - a
  BY <1>1, <1>2 DEF Unfilled
<1>5. /\ Part(o, "long") = IF UpdateOpenBidsAndAsks(o) /\ o.dir = "long"
                           THEN Unfilled(o) ELSE 0
      /\ Part(o, "short") = IF UpdateOpenBidsAndAsks(o) /\ o.dir = "short"
                            THEN Unfilled(o) ELSE 0
      /\ Part(q, "long") = IF UpdateOpenBidsAndAsks(o) /\ o.dir = "long"
                           THEN Unfilled(o) - a ELSE 0
      /\ Part(q, "short") = IF UpdateOpenBidsAndAsks(o) /\ o.dir = "short"
                            THEN Unfilled(o) - a ELSE 0
  BY <1>2, <1>3, <1>4 DEF Part
<1>6. a # Unfilled(o) => SlotOK(q, n) /\ Continues(o, q)
  <2>1. Unfilled(q) <= Unfilled(o) /\ (a # Unfilled(o) => q.filled < q.amount)
    BY <1>1, <1>2, <1>4 DEF Unfilled
  <2> QED
    BY <1>2, <1>3, <2>1, Zenon DEF SlotOK, Continues
<1> QED
  BY <1>2, <1>3, <1>5, <1>6, Zenon

\* A fill of an order that does not wait for its trigger, and that has been
\* stamped if the market is reduce-only.
LEMMA FillEvolves ==
    ASSUME NEW U, Good(U), NEW i \in Indexes, U.orders[i].open,
           ~WaitsForTrigger(U.orders[i]),
           market = "reduceOnly" => U.orders[i].reduceOnly,
           NEW a \in 1..UnfilledFor(U.orders[i], U.base)
    PROVE  LET V == FillSlot(U, i, a)
           IN  /\ Evolves(U, V) /\ V.nextId = U.nextId
               /\ \A j \in Indexes \ {i} : V.orders[j] = U.orders[j]
<1> DEFINE o == U.orders[i]
           q == [o EXCEPT !.filled = @ + a]
           b == U.base + Signed(o.dir, a)
           G == [U EXCEPT !.orders = [@ EXCEPT ![i] = q], !.base = b]
           F == DecreaseOpen(G, o, a)
           V == FillSlot(U, i, a)
<1>1. /\ U \in Accounts /\ o \in OrderType /\ SlotOK(o, U.nextId)
      /\ U.bids \in Nat /\ U.asks \in Int /\ U.openOrders \in Nat /\ U.posOrders \in Int
      /\ U.openAuctions \in Nat /\ U.base \in Int
  BY GoodFields DEF Good
<1>2. a \in Nat /\ a >= 1 /\ a <= Unfilled(o) /\ Unfilled(o) \in Nat
  BY <1>1, UnfilledForBounds DEF Unfilled, OrderType
<1>3. b \in Int /\ (market = "reduceOnly" => ShrinksTo(U.base, b))
  BY <1>1, UnfilledForBounds DEF Signed, OrderType, Directions
<1>4. V = IF a = Unfilled(o) THEN CloseOrder(F, i) ELSE F
  BY <1>1 DEF FillSlot, Accounts
<1>5. /\ q \in OrderType /\ q.open /\ q.uid = o.uid /\ ~WaitsForTrigger(q)
      /\ UpdateOpenBidsAndAsks(q) = UpdateOpenBidsAndAsks(o)
      /\ Opens(q) = 1 /\ Opens(o) = 1 /\ Auctions(q) = Auctions(o)
      /\ Part(o, "long") = IF UpdateOpenBidsAndAsks(o) /\ o.dir = "long"
                           THEN Unfilled(o) ELSE 0
      /\ Part(o, "short") = IF UpdateOpenBidsAndAsks(o) /\ o.dir = "short"
                            THEN Unfilled(o) ELSE 0
      /\ Part(q, "long") = IF UpdateOpenBidsAndAsks(o) /\ o.dir = "long"
                           THEN Unfilled(o) - a ELSE 0
      /\ Part(q, "short") = IF UpdateOpenBidsAndAsks(o) /\ o.dir = "short"
                            THEN Unfilled(o) - a ELSE 0
      /\ a # Unfilled(o) => SlotOK(q, U.nextId) /\ Continues(o, q)
  BY <1>1, <1>2, FilledOrder
<1>6. /\ Part(o, "long") <= U.bids /\ Part(o, "short") <= -U.asks
      /\ Opens(o) <= U.openOrders /\ Auctions(o) <= U.openAuctions
  BY TalliesCover
<1> HIDE DEF q, b
<1>7. /\ G \in Accounts /\ G.orders = [U.orders EXCEPT ![i] = q] /\ G.base = b
      /\ G.nextId = U.nextId /\ G.bids = U.bids /\ G.asks = U.asks
      /\ G.openOrders = U.openOrders /\ G.posOrders = U.posOrders
      /\ G.openAuctions = U.openAuctions
  <2>1. [U.orders EXCEPT ![i] = q] \in [Indexes -> OrderType]
    BY <1>1, <1>5 DEF Accounts
  <2> QED
    BY <1>1, <1>3, <2>1, Zenon DEF Accounts
<1> HIDE DEF G
<1>8. /\ F \in Accounts /\ F.orders = [U.orders EXCEPT ![i] = q] /\ F.base = b
      /\ F.nextId = U.nextId /\ F.openOrders = U.openOrders
      /\ F.posOrders = U.posOrders /\ F.openAuctions = U.openAuctions
      /\ F.bids = IF UpdateOpenBidsAndAsks(o) /\ o.dir = "long" THEN U.bids - a ELSE U.bids
      /\ F.asks = IF UpdateOpenBidsAndAsks(o) /\ o.dir = "short" THEN U.asks + a ELSE U.asks
  <2>1. /\ UpdateOpenBidsAndAsks(o) /\ o.dir = "long" => a <= G.bids
        /\ UpdateOpenBidsAndAsks(o) /\ o.dir = "short" => a <= -G.asks
    BY <1>1, <1>2, <1>5, <1>6, <1>7
  <2>2. /\ F \in Accounts /\ F.orders = G.orders /\ F.nextId = G.nextId
        /\ F.base = G.base /\ F.openOrders = G.openOrders
        /\ F.posOrders = G.posOrders /\ F.openAuctions = G.openAuctions
        /\ F.bids = IF UpdateOpenBidsAndAsks(o) /\ o.dir = "long" THEN G.bids - a ELSE G.bids
        /\ F.asks = IF UpdateOpenBidsAndAsks(o) /\ o.dir = "short" THEN G.asks + a ELSE G.asks
    <3> HIDE DEF o
    <3> QED
      BY <1>1, <1>2, <1>7, <2>1, DecreaseFields, ZenonT(60)
  <2> HIDE DEF F
  <2> QED
    BY <1>7, <2>2, Zenon
<1> HIDE DEF F, V
<1>9. AllBooked(U) => U.base + U.asks <= b + F.asks /\ b + F.bids <= U.base + U.bids
  <2>1. AllBooked(U) => UpdateOpenBidsAndAsks(o)
    BY DEF AllBooked
  <2>2. o.dir = "long" \/ o.dir = "short"
    BY <1>1 DEF OrderType, Directions
  <2> QED
    BY <1>1, <1>2, <1>3, <1>8, <2>1, <2>2 DEF b, Signed
<1>10. CASE a # Unfilled(o)
  <2>1. V = F /\ SlotOK(q, U.nextId) /\ Continues(o, q)
    BY <1>4, <1>5, <1>10, Zenon
  <2>2. AllBooked(U) => Within(U, F)
    BY <1>8, <1>9 DEF Within
  <2>3. /\ F.openOrders = U.openOrders + Opens(q) - Opens(o)
        /\ F.posOrders = U.posOrders + Opens(q) - Opens(o)
        /\ F.openAuctions = U.openAuctions + Auctions(q) - Auctions(o)
    <3>1. Auctions(o) \in Int
      BY DEF Auctions
    <3> HIDE DEF o
    <3> QED
      BY <1>1, <1>5, <1>8, <3>1
  <2>4. /\ F.bids = U.bids + Part(q, "long") - Part(o, "long")
        /\ F.asks = U.asks - Part(q, "short") + Part(o, "short")
    <3> HIDE DEF o
    <3> QED
      BY <1>1, <1>2, <1>5, <1>8
  <2>5. Evolves(U, F)
    BY <1>3, <1>5, <1>8, <2>1, <2>2, <2>3, <2>4, OneSlotEvolves, ZenonT(60)
  <2>6. \A j \in Indexes \ {i} : F.orders[j] = U.orders[j]
    BY <1>8 DEF Accounts
  <2> QED
    BY <1>8, <2>1, <2>5, <2>6, Zenon DEF V
<1>11. CASE a = Unfilled(o)
  <2> DEFINE p == Closed(q)
  <2>1. /\ p \in OrderType /\ SlotOK(p, U.nextId) /\ ~p.open
        /\ p.uid = q.uid /\ Part(p, "long") = 0 /\ Part(p, "short") = 0
        /\ Opens(p) = 0 /\ Auctions(p) = 0
    BY <1>5, ClosedOK, Zenon
  <2>2. F.orders[i] = q
    BY <1>1, <1>8 DEF Accounts
  <2>3. F.openOrders >= 1 /\ F.orders[i].open /\ (F.orders[i].auction => F.openAuctions >= 1)
    BY <1>1, <1>5, <1>6, <1>8, <2>2 DEF Auctions
  <2>4. /\ V \in Accounts /\ V.orders = [F.orders EXCEPT ![i] = p]
        /\ V.nextId = F.nextId /\ V.base = F.base /\ V.bids = F.bids /\ V.asks = F.asks
        /\ V.openOrders = F.openOrders - 1 /\ V.posOrders = F.posOrders - 1
        /\ V.openAuctions = F.openAuctions - Auctions(q)
    BY <1>4, <1>8, <1>11, <2>2, <2>3, CloseFields, Zenon
  <2> HIDE DEF p
  <2>5. V.orders = [U.orders EXCEPT ![i] = p]
    BY <1>1, <1>8, <2>4 DEF Accounts
  <2>6. /\ V.bids = U.bids + Part(p, "long") - Part(o, "long")
        /\ V.asks = U.asks - Part(p, "short") + Part(o, "short")
    <3> HIDE DEF o
    <3> QED
      BY <1>1, <1>2, <1>5, <1>8, <1>11, <2>1, <2>4
  <2>7. /\ V.openOrders = U.openOrders + Opens(p) - Opens(o)
        /\ V.posOrders = U.posOrders + Opens(p) - Opens(o)
        /\ V.openAuctions = U.openAuctions + Auctions(p) - Auctions(o)
    <3>1. Auctions(o) \in Int
      BY DEF Auctions
    <3> HIDE DEF o
    <3> QED
      BY <1>1, <1>5, <1>8, <2>1, <2>4, <3>1
  <2>8. AllBooked(U) => Within(U, V)
    BY <1>8, <1>9, <2>4 DEF Within
  <2>9. /\ V.nextId = U.nextId /\ p.uid = o.uid
        /\ market = "reduceOnly" => ShrinksTo(U.base, V.base)
    BY <1>3, <1>5, <1>8, <2>1, <2>4, Zenon
  <2>10. Evolves(U, V)
    BY <2>1, <2>4, <2>5, <2>6, <2>7, <2>8, <2>9, OneSlotEvolves, Zenon
  <2>11. \A j \in Indexes \ {i} : V.orders[j] = U.orders[j]
    BY <1>1, <2>5 DEF Accounts
  <2> QED
    BY <2>9, <2>10, <2>11, Zenon DEF V
<1> QED
  BY <1>10, <1>11

-----------------------------------------------------------------------------
(* The reduce-only stamp *)

LEMMA StampFields ==
    ASSUME NEW o \in OrderType, NEW n, SlotOK(o, n)
    PROVE  /\ Stamp(o) \in OrderType /\ SlotOK(Stamp(o), n)
           /\ Stamp(o).open = o.open /\ Stamp(o).id = o.id /\ Stamp(o).uid = o.uid
           /\ Stamp(o).dir = o.dir /\ Stamp(o).kind = o.kind
           /\ WaitsForTrigger(Stamp(o)) = WaitsForTrigger(o)
           /\ UpdateOpenBidsAndAsks(Stamp(o)) = UpdateOpenBidsAndAsks(o)
           /\ Part(Stamp(o), "long") = Part(o, "long")
           /\ Part(Stamp(o), "short") = Part(o, "short")
           /\ Opens(Stamp(o)) = Opens(o) /\ Auctions(Stamp(o)) = Auctions(o)
           /\ o.open => Continues(o, Stamp(o))
           /\ market = "reduceOnly" => Stamp(o).reduceOnly
<1> DEFINE p == Stamp(o)
<1>1. /\ p \in OrderType /\ p.open = o.open /\ p.id = o.id /\ p.uid = o.uid
      /\ p.kind = o.kind /\ p.dir = o.dir /\ p.amount = o.amount /\ p.filled = o.filled
      /\ p.newTrigger = o.newTrigger /\ p.triggered = o.triggered /\ p.auction = o.auction
      /\ o.reduceOnly => p.reduceOnly
      /\ p.reduceOnly => o.reduceOnly \/ market = "reduceOnly"
      /\ market = "reduceOnly" => p.reduceOnly
  BY Zenon DEF Stamp, OrderType
<1> HIDE DEF p
<1>2. Unfilled(p) = Unfilled(o) /\ Unfilled(o) \in Int
  BY <1>1, Bounds DEF Unfilled, OrderType
<1>3. /\ WaitsForTrigger(p) = WaitsForTrigger(o)
      /\ UpdateOpenBidsAndAsks(p) = UpdateOpenBidsAndAsks(o)
  BY <1>1 DEF WaitsForTrigger, MustBeTriggered, UpdateOpenBidsAndAsks, SlotOK, OrderType
<1>4. /\ Part(p, "long") = Part(o, "long") /\ Part(p, "short") = Part(o, "short")
      /\ Opens(p) = Opens(o) /\ Auctions(p) = Auctions(o)
  BY <1>1, <1>2, <1>3 DEF Part, Opens, Auctions
<1>5. SlotOK(p, n)
  BY <1>1, <1>3, Zenon DEF SlotOK
<1>6. o.open => Continues(o, p)
  <2>1. Unfilled(p) <= Unfilled(o)
    BY <1>2
  <2> QED
    BY <1>1, <1>2, <2>1, Zenon DEF Continues
<1> QED
  BY <1>1, <1>3, <1>4, <1>5, <1>6, Zenon DEF p

\* Stamping some of the slots.
LEMMA StampedEvolves ==
    ASSUME NEW U, Good(U), NEW V \in Accounts,
           \A j \in Indexes : V.orders[j] = U.orders[j] \/ V.orders[j] = Stamp(U.orders[j]),
           V.nextId = U.nextId, V.base = U.base, V.bids = U.bids, V.asks = U.asks,
           V.openOrders = U.openOrders, V.posOrders = U.posOrders,
           V.openAuctions = U.openAuctions
    PROVE  Evolves(U, V)
<1>1. ASSUME NEW j \in Indexes
      PROVE  /\ SlotOK(V.orders[j], U.nextId)
             /\ V.orders[j].open = U.orders[j].open /\ V.orders[j].id = U.orders[j].id
             /\ V.orders[j].uid = U.orders[j].uid
             /\ WaitsForTrigger(V.orders[j]) = WaitsForTrigger(U.orders[j])
             /\ UpdateOpenBidsAndAsks(V.orders[j]) = UpdateOpenBidsAndAsks(U.orders[j])
             /\ Part(V.orders[j], "long") = Part(U.orders[j], "long")
             /\ Part(V.orders[j], "short") = Part(U.orders[j], "short")
             /\ Opens(V.orders[j]) = Opens(U.orders[j])
             /\ Auctions(V.orders[j]) = Auctions(U.orders[j])
             /\ U.orders[j].open => Continues(U.orders[j], V.orders[j])
  <2>1. U.orders[j] \in OrderType /\ SlotOK(U.orders[j], U.nextId)
    BY GoodFields
  <2>2. U.orders[j].open => Continues(U.orders[j], U.orders[j])
    BY GoodFields DEF Continues
  <2> QED
    BY <2>1, <2>2, StampFields, ZenonT(60)
<1>2. /\ Booked(V, "long") = Booked(U, "long") /\ Booked(V, "short") = Booked(U, "short")
      /\ OpenCount(V) = OpenCount(U) /\ AuctionCount(V) = AuctionCount(U)
  <2>1. /\ [j \in Indexes |-> Part(V.orders[j], "long")] = [j \in Indexes |-> Part(U.orders[j], "long")]
        /\ [j \in Indexes |-> Part(V.orders[j], "short")]
             = [j \in Indexes |-> Part(U.orders[j], "short")]
        /\ [j \in Indexes |-> Opens(V.orders[j])] = [j \in Indexes |-> Opens(U.orders[j])]
        /\ [j \in Indexes |-> Auctions(V.orders[j])] = [j \in Indexes |-> Auctions(U.orders[j])]
    BY <1>1, Zenon
  <2> QED
    BY <2>1, Zenon DEF Booked, OpenCount, AuctionCount
<1>3. Tallied(V)
  <2>1. Tallied(U)
    BY DEF Good
  <2> QED
    BY <1>1, <1>2, <2>1, Zenon DEF Tallied
<1>4. Distinct(V) /\ UidFirst(V)
  BY <1>1 DEF Distinct, UidFirst, Good
<1>5. Good(V)
  BY <1>1, <1>3, <1>4 DEF Good
<1>6. ShrinksTo(U.base, V.base) /\ Within(U, V) /\ U.nextId <= V.nextId
  BY GoodFields DEF ShrinksTo, Within
<1>7. AllBooked(U) => AllBooked(V)
  BY <1>1 DEF AllBooked
<1> QED
  BY <1>1, <1>5, <1>6, <1>7, Zenon DEF Evolves



-----------------------------------------------------------------------------
(* Cancelling several slots *)

\* CancelSlots works its way through the slots: the first k have been visited.
IsCancelRun(f, U, S, n) ==
    f = [k \in 0..n |-> IF k = 0 THEN U
                        ELSE IF k \in S THEN CancelOrder(f[k - 1], k) ELSE f[k - 1]]

LEMMA CancelRunExists ==
    ASSUME NEW U, NEW S
    PROVE  \A n \in Nat : \E f : IsCancelRun(f, U, S, n)
<1> DEFINE N == {n \in Nat : \E f : IsCancelRun(f, U, S, n)}
<1>1. 0 \in N
  <2> DEFINE f == [k \in 0..0 |-> U]
  <2>1. IsCancelRun(f, U, S, 0)
    BY DEF IsCancelRun
  <2> QED
    BY <2>1
<1>2. ASSUME NEW n \in Nat, n \in N PROVE n + 1 \in N
  <2>1. PICK f : IsCancelRun(f, U, S, n)
    BY <1>2
  <2> DEFINE last == IF n + 1 \in S THEN CancelOrder(f[n], n + 1) ELSE f[n]
             g == [k \in 0..(n + 1) |-> IF k = n + 1 THEN last ELSE f[k]]
  <2>2. \A k \in 0..n : f[k] = IF k = 0 THEN U
                               ELSE IF k \in S THEN CancelOrder(f[k - 1], k) ELSE f[k - 1]
    BY <2>1 DEF IsCancelRun
  <2>3. \A k \in 0..n : g[k] = f[k]
    OBVIOUS
  <2>4. g[n + 1] = last
    OBVIOUS
  <2>5. ASSUME NEW k \in 0..(n + 1)
        PROVE  g[k] = IF k = 0 THEN U
                      ELSE IF k \in S THEN CancelOrder(g[k - 1], k) ELSE g[k - 1]
    <3>1. CASE k = n + 1
      <4>1. g[n] = f[n] /\ k # 0 /\ k - 1 = n
        BY <2>3, <3>1
      <4> HIDE DEF g
      <4> QED
        BY <2>4, <3>1, <4>1
    <3>2. CASE k = 0
      <4> HIDE DEF g
      <4>1. g[0] = f[0] /\ f[0] = U
        BY <2>2, <2>3
      <4> QED
        BY <3>2, <4>1
    <3>3. CASE k \in 1..n
      <4> HIDE DEF g
      <4>1. g[k] = f[k] /\ g[k - 1] = f[k - 1] /\ k # 0 /\ k \in 0..n
        BY <2>3, <3>3
      <4> QED
        BY <2>2, <4>1
    <3> QED
      BY <3>1, <3>2, <3>3
  <2>6. IsCancelRun(g, U, S, n + 1)
    <3> DEFINE h == [k \in 0..(n + 1) |-> IF k = 0 THEN U
                        ELSE IF k \in S THEN CancelOrder(g[k - 1], k) ELSE g[k - 1]]
    <3>1. g = [k \in 0..(n + 1) |-> g[k]]
      OBVIOUS
    <3> HIDE DEF g
    <3>2. [k \in 0..(n + 1) |-> g[k]] = h
      BY <2>5
    <3> QED
      BY <3>1, <3>2, Zenon DEF IsCancelRun
  <2> QED
    BY <2>6
<1> HIDE DEF N
<1>3. \A n \in Nat : n \in N
  BY <1>1, <1>2, NatInSet
<1> QED
  BY <1>3 DEF N

\* V is U with the orders in the slots S cancelled.
Cancelled(U, V, S) ==
    /\ Evolves(U, V)
    /\ V.nextId = U.nextId /\ V.base = U.base /\ V.liquidated = U.liquidated
    /\ \A j \in Indexes : /\ j \in S => V.orders[j] = Closed(U.orders[j])
                          /\ j \notin S => V.orders[j] = U.orders[j]

LEMMA CancelOneMore ==
    ASSUME NEW U, Good(U), NEW S, NEW V, Cancelled(U, V, S),
           NEW i \in Indexes, U.orders[i].open, i \notin S
    PROVE  Cancelled(U, CancelOrder(V, i), S \cup {i})
<1> DEFINE W == CancelOrder(V, i)
<1>1. Good(V) /\ Evolves(U, V) /\ V.orders[i] = U.orders[i]
  BY DEF Cancelled, Evolves
<1>2. /\ Evolves(V, W)
      /\ W.orders = [V.orders EXCEPT ![i] = Closed(V.orders[i])]
      /\ W.nextId = V.nextId /\ W.base = V.base /\ W.liquidated = V.liquidated
  BY <1>1, CancelEvolves
<1> HIDE DEF W
<1>3. Evolves(U, W)
  BY <1>1, <1>2, EvolvesChain
<1>4. \A j \in Indexes : W.orders[j] = IF j = i THEN Closed(V.orders[i]) ELSE V.orders[j]
  BY <1>1, <1>2 DEF Good, Accounts
<1>5. \A j \in Indexes : /\ j \in S \cup {i} => W.orders[j] = Closed(U.orders[j])
                         /\ j \notin S \cup {i} => W.orders[j] = U.orders[j]
  BY <1>1, <1>4 DEF Cancelled
<1> QED
  BY <1>2, <1>3, <1>5 DEF Cancelled, W

LEMMA CancelSlotsEvolves ==
    ASSUME NEW U, Good(U), NEW S \in SUBSET OpenSlots(U)
    PROVE  Cancelled(U, CancelSlots(U, S), S)
<1>1. CancelSlots(U, S) = (CHOOSE f : IsCancelRun(f, U, S, Slots))[Slots]
  BY DEF CancelSlots, IsCancelRun
<1> DEFINE f == CHOOSE g : IsCancelRun(g, U, S, Slots)
           Upto(k) == {j \in S : j <= k}
           N == {k \in Nat : k <= Slots => Cancelled(U, f[k], Upto(k))}
<1>2. IsCancelRun(f, U, S, Slots)
  BY Bounds, CancelRunExists
<1> HIDE DEF f
<1>3. \A k \in 0..Slots : f[k] = IF k = 0 THEN U
                                 ELSE IF k \in S THEN CancelOrder(f[k - 1], k) ELSE f[k - 1]
  BY <1>2, Zenon DEF IsCancelRun
<1>4. S \subseteq Indexes /\ \A i \in S : U.orders[i].open
  BY DEF OpenSlots
<1>5. 0 \in N
  <2>1. f[0] = U
    BY <1>3, Bounds
  <2>2. Upto(0) = {}
    <3>1. \A j \in S : j \in Nat /\ j >= 1
      BY <1>4, IndexesFinite
    <3> QED
      BY <3>1
  <2>3. Cancelled(U, U, {})
    BY EvolvesSelf DEF Cancelled
  <2> QED
    BY <2>1, <2>2, <2>3
<1>6. ASSUME NEW k \in Nat, k \in N PROVE k + 1 \in N
  <2> SUFFICES ASSUME k + 1 <= Slots PROVE Cancelled(U, f[k + 1], Upto(k + 1))
    OBVIOUS
  <2>1. Cancelled(U, f[k], Upto(k))
    BY <1>6, Bounds
  <2>2. f[k + 1] = IF k + 1 \in S THEN CancelOrder(f[k], k + 1) ELSE f[k]
    <3>1. k + 1 \in 0..Slots /\ k + 1 # 0 /\ (k + 1) - 1 = k
      BY Bounds
    <3> QED
      BY <1>3, <3>1
  <2>3. CASE k + 1 \in S
    <3>1. /\ Upto(k + 1) = Upto(k) \cup {k + 1} /\ k + 1 \notin Upto(k)
          /\ k + 1 \in Indexes /\ U.orders[k + 1].open
      BY <1>4, <2>3 DEF Indexes
    <3> HIDE DEF Upto
    <3> QED
      BY <2>1, <2>2, <2>3, <3>1, CancelOneMore
  <2>4. CASE k + 1 \notin S
    <3>1. Upto(k + 1) = Upto(k)
      BY <1>4, <2>4 DEF Indexes
    <3> QED
      BY <2>1, <2>2, <2>4, <3>1
  <2> QED
    BY <2>3, <2>4
<1> HIDE DEF N
<1>7. \A k \in Nat : k \in N
  BY <1>5, <1>6, NatInSet
<1>8. Cancelled(U, f[Slots], Upto(Slots))
  BY <1>7, Bounds DEF N
<1>9. Upto(Slots) = S
  BY <1>4 DEF Indexes
<1> QED
  BY <1>1, <1>8, <1>9 DEF f

-----------------------------------------------------------------------------
(* Placing *)

LEMMA MinIsLeast ==
    ASSUME NEW S, S \subseteq Nat, S # {}
    PROVE  Min(S) \in S /\ \A y \in S : Min(S) <= y
BY LeastExists, Zenon DEF Min

LEMMA FreeSlotIsFirst ==
    ASSUME NEW U, OpenSlots(U) # Indexes
    PROVE  /\ FreeSlot(U) \in Indexes /\ ~U.orders[FreeSlot(U)].open
           /\ \A k \in Indexes : k < FreeSlot(U) => U.orders[k].open
<1> DEFINE S == Indexes \ OpenSlots(U)
<1>1. S \subseteq Nat /\ S # {}
  BY IndexesFinite DEF OpenSlots
<1>2. \A k \in Indexes : k \in S <=> ~U.orders[k].open
  BY DEF OpenSlots
<1> HIDE DEF S
<1>3. Min(S) \in S /\ \A y \in S : Min(S) <= y
  BY <1>1, MinIsLeast, Zenon
<1>4. S \subseteq Indexes
  BY DEF S
<1>5. FreeSlot(U) = Min(S)
  BY DEF FreeSlot, S
<1> QED
  BY <1>2, <1>3, <1>4, <1>5, IndexesFinite

\* A new order is open, unfilled and has the account's next id.
LEMMA NewOrderFields ==
    ASSUME NEW U, U.nextId \in Nat \ {0}, NEW p \in Params
    PROVE  LET o == NewOrder(U, p)
           IN  /\ o \in OrderType /\ SlotOK(o, U.nextId + 1)
               /\ o.open /\ o.id = U.nextId /\ o.uid = p.uid /\ o.filled = 0
               /\ o.amount = p.amount /\ o.dir = p.dir /\ ~o.triggered
               /\ Unfilled(o) = o.amount /\ o.amount \in Nat
<1> DEFINE o == NewOrder(U, p)
<1>1. /\ p.kind \in Kinds /\ p.dir \in Directions /\ p.amount \in 1..MaxAmount
      /\ p.reduceOnly \in BOOLEAN /\ p.auction \in BOOLEAN /\ p.maxTs \in 0..MaxTime
      /\ p.uid \in 0..1
  BY DEF Params
<1>2. /\ o.open = TRUE /\ o.id = U.nextId /\ o.uid = p.uid /\ o.filled = 0
      /\ o.amount = p.amount /\ o.dir = p.dir /\ o.triggered = FALSE
      /\ o.newTrigger => o.reduceOnly
      /\ WaitsForTrigger(o) => ~o.auction
  BY Zenon DEF NewOrder, WaitsForTrigger, MustBeTriggered
<1>3. o \in OrderType
  <2> DEFINE ro == p.reduceOnly \/ market = "reduceOnly"
             nt == MustBeTriggered(p) /\ ro
             au == ~MustBeTriggered(p) /\ (p.auction \/ p.kind = "market")
  <2>1. ro \in BOOLEAN /\ nt \in BOOLEAN /\ au \in BOOLEAN
    OBVIOUS
  <2>2. p.amount \in 0..MaxAmount /\ 0 \in 0..MaxAmount
    BY <1>1, Bounds
  <2>3. o = [open |-> TRUE, id |-> U.nextId, uid |-> p.uid, kind |-> p.kind,
             dir |-> p.dir, amount |-> p.amount, filled |-> 0,
             reduceOnly |-> ro, newTrigger |-> nt, triggered |-> FALSE,
             auction |-> au, maxTs |-> p.maxTs]
    BY Zenon DEF NewOrder
  <2> HIDE DEF ro, nt, au, o
  <2> QED
    BY <1>1, <2>1, <2>2, <2>3 DEF OrderType
<1> HIDE DEF o
<1>4. Unfilled(o) = o.amount /\ o.amount \in Nat /\ o.amount > 0
  BY <1>1, <1>2, Bounds DEF Unfilled
<1>5. SlotOK(o, U.nextId + 1)
  BY <1>2, <1>4 DEF SlotOK
<1> QED
  BY <1>2, <1>3, <1>4, <1>5 DEF o

\* Putting a new order in the first free slot keeps ids apart.
LEMMA NewIdsApart ==
    ASSUME NEW U, Good(U), NEW V, NEW o, NEW i \in Indexes,
           \A j \in Indexes : V.orders[j] = IF j = i THEN o ELSE U.orders[j],
           \A k \in Indexes : k < i => U.orders[k].open,
           o.id = U.nextId, ~UserIdInUse(U, o.uid)
    PROVE  Distinct(V) /\ UidFirst(V)
<1>1. Distinct(U) /\ UidFirst(U) /\ \A j \in Indexes : U.orders[j].open => U.orders[j].id # o.id
  <2>1. \A j \in Indexes : SlotOK(U.orders[j], U.nextId)
    BY GoodFields
  <2>2. U.nextId \in Nat
    BY GoodFields
  <2> QED
    BY <2>1, <2>2 DEF Good, SlotOK
<1>2. Distinct(V)
  BY <1>1, ZenonT(60) DEF Distinct
<1>3. \A j \in Indexes : U.orders[j].open /\ U.orders[j].uid # 0 => U.orders[j].uid # o.uid
  BY Zenon DEF UserIdInUse, OpenSlots
<1>4. ASSUME NEW j \in Indexes, NEW k \in Indexes, V.orders[j].open,
             V.orders[j].uid # 0, k < j
      PROVE  V.orders[k].uid # V.orders[j].uid
  <2>1. CASE j = i
    <3>1. U.orders[k].open /\ V.orders[k] = U.orders[k] /\ V.orders[j] = o
      BY <1>4, <2>1, IndexesFinite
    <3> QED
      BY <1>3, <1>4, <3>1, Zenon
  <2>2. CASE j # i /\ k = i
    BY <1>3, <1>4, <2>2, Zenon
  <2>3. CASE j # i /\ k # i
    BY <1>1, <1>4, <2>3, Zenon DEF UidFirst
  <2> QED
    BY <2>1, <2>2, <2>3
<1>5. UidFirst(V)
  BY <1>4, Zenon DEF UidFirst
<1> QED
  BY <1>2, <1>5

\* Adding an order whose user order id no open order carries.
LEMMA AddOrderEvolves ==
    ASSUME NEW U, Good(U), NEW p \in Params, OpenSlots(U) # Indexes, ~UserIdInUse(U, p.uid)
    PROVE  LET V == AddOrder(U, NewOrder(U, p))
           IN  Evolves(U, V) /\ V.nextId = U.nextId + 1 /\ V.base = U.base
<1> DEFINE o == NewOrder(U, p)
           i == FreeSlot(U)
           oa == IF o.auction THEN U.openAuctions + 1 ELSE U.openAuctions
           A == [U EXCEPT !.openOrders = @ + 1, !.openAuctions = oa,
                          !.orders = [@ EXCEPT ![i] = o], !.posOrders = @ + 1,
                          !.nextId = @ + 1]
           V == AddOrder(U, o)
<1>1. /\ U \in Accounts /\ U.nextId \in Nat \ {0}
      /\ U.bids \in Nat /\ U.asks \in Int /\ U.openOrders \in Nat /\ U.posOrders \in Int
      /\ U.openAuctions \in Nat /\ U.base \in Int
      /\ \A j \in Indexes : U.orders[j] \in OrderType /\ SlotOK(U.orders[j], U.nextId)
  BY GoodFields DEF Good
<1>2. /\ o \in OrderType /\ SlotOK(o, U.nextId + 1)
      /\ o.open /\ o.id = U.nextId /\ o.uid = p.uid /\ o.filled = 0
      /\ o.amount = p.amount /\ o.dir = p.dir /\ ~o.triggered
      /\ Unfilled(o) = o.amount /\ o.amount \in Nat
  BY <1>1, NewOrderFields
<1>3. /\ i \in Indexes /\ ~U.orders[i].open
      /\ \A k \in Indexes : k < i => U.orders[k].open
  BY FreeSlotIsFirst
<1>4. V = IncreaseOpen(A, o, o.amount)
  BY <1>1, Zenon DEF AddOrder, IncrementOpenOrders, Accounts
<1> HIDE DEF o, i
<1>5. /\ A \in Accounts /\ A.orders = [U.orders EXCEPT ![i] = o] /\ A.base = U.base
      /\ A.nextId = U.nextId + 1 /\ A.bids = U.bids /\ A.asks = U.asks
      /\ A.openOrders = U.openOrders + 1 /\ A.posOrders = U.posOrders + 1
      /\ A.openAuctions = oa
  <2>1. /\ oa \in Int /\ U.openOrders + 1 \in Int /\ U.posOrders + 1 \in Int
        /\ U.nextId + 1 \in Nat \ {0}
        /\ [U.orders EXCEPT ![i] = o] \in [Indexes -> OrderType]
    BY <1>1, <1>2, <1>3 DEF Accounts
  <2> HIDE DEF oa
  <2> QED
    BY <1>1, <2>1, Zenon DEF Accounts
<1> HIDE DEF A
<1>6. /\ Part(o, "long") = IF UpdateOpenBidsAndAsks(o) /\ o.dir = "long" THEN o.amount ELSE 0
      /\ Part(o, "short") = IF UpdateOpenBidsAndAsks(o) /\ o.dir = "short" THEN o.amount ELSE 0
      /\ Opens(o) = 1 /\ Auctions(o) = IF o.auction THEN 1 ELSE 0
      /\ Part(U.orders[i], "long") = 0 /\ Part(U.orders[i], "short") = 0
      /\ Opens(U.orders[i]) = 0 /\ Auctions(U.orders[i]) = 0
  BY <1>2, <1>3 DEF Part, Opens, Auctions
<1>7. /\ V \in Accounts /\ V.orders = [U.orders EXCEPT ![i] = o] /\ V.base = U.base
      /\ V.nextId = U.nextId + 1
      /\ V.bids = U.bids + Part(o, "long") /\ V.asks = U.asks - Part(o, "short")
      /\ V.openOrders = U.openOrders + 1 /\ V.posOrders = U.posOrders + 1
      /\ V.openAuctions = oa
  <2>1. U.bids + o.amount \in Int /\ U.asks - o.amount \in Int
    BY <1>1, <1>2
  <2> HIDE DEF oa, V
  <2>2. CASE ~UpdateOpenBidsAndAsks(o)
    BY <1>1, <1>4, <1>5, <1>6, <2>2 DEF IncreaseOpen
  <2>3. CASE UpdateOpenBidsAndAsks(o) /\ o.dir = "long"
    <3>1. V = [A EXCEPT !.bids = U.bids + o.amount]
      BY <1>4, <1>5, <2>3 DEF IncreaseOpen
    <3> QED
      BY <1>1, <1>5, <1>6, <2>1, <2>3, <3>1 DEF Accounts
  <2>4. CASE UpdateOpenBidsAndAsks(o) /\ o.dir = "short"
    <3>1. V = [A EXCEPT !.asks = U.asks - o.amount]
      BY <1>4, <1>5, <2>4 DEF IncreaseOpen
    <3> QED
      BY <1>1, <1>5, <1>6, <2>1, <2>4, <3>1 DEF Accounts
  <2> QED
    BY <1>2, <2>2, <2>3, <2>4 DEF OrderType, Directions
<1> HIDE DEF V
<1>8. Tallied(V)
  <2>1. /\ V.bids = U.bids + Part(o, "long") - Part(U.orders[i], "long")
        /\ V.asks = U.asks - Part(o, "short") + Part(U.orders[i], "short")
        /\ V.openOrders = U.openOrders + Opens(o) - Opens(U.orders[i])
        /\ V.posOrders = U.posOrders + Opens(o) - Opens(U.orders[i])
        /\ V.openAuctions = U.openAuctions + Auctions(o) - Auctions(U.orders[i])
    <3>1. oa = U.openAuctions + Auctions(o) /\ Auctions(o) \in Int
      BY <1>1, <1>6
    <3> HIDE DEF oa
    <3> QED
      BY <1>1, <1>2, <1>6, <1>7, <3>1
  <2> QED
    BY <1>2, <1>3, <1>7, <2>1, SlotChange, Zenon
<1>9. \A j \in Indexes : V.orders[j] = IF j = i THEN o ELSE U.orders[j]
  BY <1>1, <1>3, <1>7 DEF Accounts
<1>10. \A j \in Indexes : SlotOK(V.orders[j], V.nextId)
  <2> SUFFICES ASSUME NEW j \in Indexes, j # i PROVE SlotOK(U.orders[j], U.nextId + 1)
    BY <1>2, <1>7, <1>9
  <2> QED
    BY <1>1 DEF SlotOK
<1>11. Distinct(V) /\ UidFirst(V)
  BY <1>2, <1>3, <1>9, NewIdsApart
<1>13. Good(V)
  BY <1>7, <1>8, <1>10, <1>11, Zenon DEF Good
<1>14. \A j \in Indexes : V.orders[j].open => \/ U.nextId <= V.orders[j].id
                                              \/ Continues(U.orders[j], V.orders[j])
  <2>1. \A j \in Indexes : U.orders[j].open => Continues(U.orders[j], U.orders[j])
    BY GoodFields DEF Continues
  <2> QED
    BY <1>1, <1>2, <1>9, <2>1
<1>15. ShrinksTo(U.base, V.base) /\ U.nextId <= V.nextId /\ V.nextId # U.nextId
  BY <1>1, <1>7 DEF ShrinksTo
<1>16. Evolves(U, V)
  BY <1>13, <1>14, <1>15 DEF Evolves
<1> QED
  BY <1>7, <1>16 DEF V, o

LEMMA ExpireEvolves ==
    ASSUME NEW U, Good(U)
    PROVE  /\ Evolves(U, ExpireOrders(U)) /\ ExpireOrders(U).nextId = U.nextId
           /\ ExpireOrders(U).base = U.base
<1> DEFINE S == {i \in Indexes : ShouldExpire(U.orders[i])}
<1>1. S \in SUBSET OpenSlots(U)
  BY DEF OpenSlots, ShouldExpire
<1> HIDE DEF S
<1>2. Cancelled(U, CancelSlots(U, S), S)
  BY <1>1, CancelSlotsEvolves
<1>3. ExpireOrders(U) = CancelSlots(U, S)
  BY DEF ExpireOrders, S
<1> QED
  BY <1>2, <1>3 DEF Cancelled

\* A TryPostOnly order that would cross uses up an id.
LEMMA SkipIdEvolves ==
    ASSUME NEW U, Good(U)
    PROVE  LET V == [U EXCEPT !.nextId = @ + 1]
           IN  Evolves(U, V) /\ V.base = U.base
<1> DEFINE V == [U EXCEPT !.nextId = @ + 1]
<1>1. U \in Accounts /\ U.nextId \in Nat \ {0}
  BY DEF Good, Accounts
<1>2. /\ V \in Accounts /\ V.orders = U.orders /\ V.nextId = U.nextId + 1 /\ V.base = U.base
      /\ V.bids = U.bids /\ V.asks = U.asks /\ V.openOrders = U.openOrders
      /\ V.posOrders = U.posOrders /\ V.openAuctions = U.openAuctions
  <2>1. U.nextId + 1 \in Nat \ {0}
    BY <1>1
  <2> QED
    BY <1>1, <2>1 DEF Accounts
<1> HIDE DEF V
<1>3. \A j \in Indexes : SlotOK(V.orders[j], V.nextId)
  BY <1>1, <1>2 DEF Good, SlotOK
<1>4. Good(V)
  <2>1. Distinct(U) /\ UidFirst(U) /\ Tallied(U)
    BY DEF Good
  <2>2. Distinct(V) /\ UidFirst(V)
    BY <1>2, <2>1, ZenonT(60) DEF Distinct, UidFirst
  <2>3. Tallied(V)
    BY <1>2, <2>1, Zenon DEF Tallied, Booked, OpenCount, AuctionCount
  <2> QED
    BY <1>2, <1>3, <2>2, <2>3, Zenon DEF Good
<1>5. U.nextId <= V.nextId /\ V.nextId # U.nextId
  BY <1>1, <1>2
<1>6. Evolves(U, U)
  BY EvolvesSelf
<1>7. Evolves(U, V)
  BY <1>2, <1>4, <1>5, <1>6, Zenon DEF Evolves
<1> QED
  BY <1>2, <1>7 DEF V

LEMMA PlaceEvolves ==
    ASSUME NEW U, Good(U), NEW p \in Params, NEW tryPostOnly \in BOOLEAN,
           NEW V \in PlaceOutcomes(U, p, tryPostOnly)
    PROVE  Evolves(U, V) /\ V.base = U.base
<1> DEFINE E == ExpireOrders(U)
           W == [E EXCEPT !.nextId = @ + 1]
           A == AddOrder(E, NewOrder(E, p))
<1>1. Evolves(U, E) /\ Good(E) /\ E.base = U.base
  BY ExpireEvolves, Zenon DEF Evolves
<1>2. /\ OpenSlots(E) # Indexes /\ ~UserIdInUse(E, p.uid)
      /\ V = E \/ V = W \/ V = A
  BY Zenon DEF PlaceOutcomes, OneIf
<1> HIDE DEF E
<1>3. Evolves(E, W) /\ W.base = E.base
  BY <1>1, SkipIdEvolves
<1>4. Evolves(E, A) /\ A.base = E.base
  BY <1>1, <1>2, AddOrderEvolves
<1> HIDE DEF W, A
<1> QED
  BY <1>1, <1>2, <1>3, <1>4, EvolvesChain

\* cancel_order_by_order_id, when the order may be gone.
LEMMA CancelByIdEvolves ==
    ASSUME NEW U, Good(U), NEW id
    PROVE  Evolves(U, CancelById(U, id)) /\ CancelById(U, id).base = U.base
<1>1. SlotsWithId(U, id) \in SUBSET OpenSlots(U)
  BY DEF SlotsWithId, OpenSlots
<1>2. Cancelled(U, CancelById(U, id), SlotsWithId(U, id))
  BY <1>1, CancelSlotsEvolves DEF CancelById
<1> QED
  BY <1>2 DEF Cancelled

-----------------------------------------------------------------------------
(* Filling *)

\* An order may be filled: it is triggered, and in a reduce-only market it has
\* been stamped.
FillReady(o) ==
    /\ ~WaitsForTrigger(o)
    /\ market = "reduceOnly" => o.reduceOnly

\* The orders in these slots may be filled as long as they are open.
Ready(U, S) == \A j \in S : U.orders[j].open => FillReady(U.orders[j])

LEMMA ReadyStays ==
    ASSUME NEW U, NEW V, NEW S \in SUBSET Indexes, Ready(U, S), V.nextId = U.nextId, Evolves(U, V)
    PROVE  Ready(V, S)
<1> SUFFICES ASSUME NEW j \in S, V.orders[j].open PROVE FillReady(V.orders[j])
  BY Zenon DEF Ready
<1>1. Good(V) /\ V.orders[j] \in OrderType /\ V.orders[j].id \in 1..(V.nextId - 1)
  BY GoodFields DEF Evolves, SlotOK
<1>2. V.nextId \in Nat
  BY <1>1, GoodFields
<1>3. ~ (U.nextId <= V.orders[j].id)
  BY <1>1, <1>2
<1>4. Continues(U.orders[j], V.orders[j])
  BY <1>3 DEF Evolves
<1>5. FillReady(U.orders[j])
  BY <1>4 DEF Continues, Ready
<1> QED
  BY <1>4, <1>5 DEF Continues, FillReady, WaitsForTrigger, MustBeTriggered

\* One user's account evolves without using up an id, and the position shrinks
\* in a reduce-only market.
SameIds(U, V) == Evolves(U, V) /\ V.nextId = U.nextId

LEMMA SameIdsChain ==
    ASSUME NEW U, Good(U), NEW V, NEW W, SameIds(U, V), SameIds(V, W)
    PROVE  SameIds(U, W) /\ Good(V) /\ Good(W)
BY EvolvesChain, Zenon DEF SameIds, Evolves

LEMMA FillableEvolves ==
    ASSUME NEW U, Good(U), NEW S \in SUBSET Indexes, Ready(U, S), NEW i \in S,
           NEW a \in 1..Fillable(U, i)
    PROVE  SameIds(U, FillSlot(U, i, a))
<1>1. U.orders[i].open /\ Fillable(U, i) = UnfilledFor(U.orders[i], U.base)
  BY DEF Fillable
<1>2. FillReady(U.orders[i])
  BY <1>1 DEF Ready
<1> QED
  BY <1>1, <1>2, FillEvolves, Zenon DEF FillReady, SameIds

-----------------------------------------------------------------------------
(* All accounts *)

AllGood(acc) == acc = [u \in Users |-> acc[u]] /\ \A u \in Users : Good(acc[u])

\* Every account evolves; none uses up an id.
AllEvolve(acc, f) == f = [u \in Users |-> f[u]] /\ \A u \in Users : Evolves(acc[u], f[u])
AllSameIds(acc, f) == f = [u \in Users |-> f[u]] /\ \A u \in Users : SameIds(acc[u], f[u])

LEMMA AllSelf ==
    ASSUME NEW acc, AllGood(acc) PROVE AllSameIds(acc, acc)
BY EvolvesSelf DEF AllGood, AllSameIds, SameIds

LEMMA AllSameChain ==
    ASSUME NEW acc, AllGood(acc), NEW f, AllSameIds(acc, f)
    PROVE  AllGood(f) /\ \A g : AllSameIds(f, g) => AllSameIds(acc, g)
<1>1. AllGood(f)
  BY DEF AllGood, AllSameIds, SameIds, Evolves
<1>2. ASSUME NEW g, AllSameIds(f, g), NEW u \in Users PROVE SameIds(acc[u], g[u])
  <2>1. Good(acc[u]) /\ SameIds(acc[u], f[u]) /\ SameIds(f[u], g[u])
    BY <1>2 DEF AllGood, AllSameIds
  <2> QED
    BY <2>1, SameIdsChain
<1>3. \A g : AllSameIds(f, g) => g = [u \in Users |-> g[u]]
  BY Zenon DEF AllSameIds
<1> QED
  BY <1>1, <1>2, <1>3, Zenon DEF AllSameIds

LEMMA AllEvolveChain ==
    ASSUME NEW acc, AllGood(acc), NEW f, AllEvolve(acc, f)
    PROVE  AllGood(f) /\ \A g : AllEvolve(f, g) => AllEvolve(acc, g)
<1>1. AllGood(f)
  BY DEF AllGood, AllEvolve, Evolves
<1>2. ASSUME NEW g, AllEvolve(f, g), NEW u \in Users PROVE Evolves(acc[u], g[u])
  <2>1. Good(acc[u]) /\ Evolves(acc[u], f[u]) /\ Evolves(f[u], g[u])
    BY <1>2 DEF AllGood, AllEvolve
  <2> QED
    BY <2>1, EvolvesChain
<1>3. \A g : AllEvolve(f, g) => g = [u \in Users |-> g[u]]
  BY Zenon DEF AllEvolve
<1> QED
  BY <1>1, <1>2, <1>3, Zenon DEF AllEvolve

LEMMA AllSameEvolve ==
    ASSUME NEW acc, NEW f, AllSameIds(acc, f) PROVE AllEvolve(acc, f)
BY DEF AllSameIds, AllEvolve, SameIds

\* One account changes.
LEMMA OneSameIds ==
    ASSUME NEW acc, AllGood(acc), NEW t \in Users, NEW V, SameIds(acc[t], V),
           NEW f, f = [acc EXCEPT ![t] = V]
    PROVE  AllSameIds(acc, f)
<1>1. /\ f = [u \in Users |-> f[u]] /\ f[t] = V
      /\ \A u \in Users : u # t => f[u] = acc[u]
  BY DEF AllGood
<1>2. \A u \in Users : SameIds(acc[u], f[u])
  BY <1>1, EvolvesSelf DEF AllGood, SameIds
<1> QED
  BY <1>1, <1>2, Zenon DEF AllSameIds

LEMMA OneEvolves ==
    ASSUME NEW acc, AllGood(acc), NEW t \in Users, NEW V, Evolves(acc[t], V),
           NEW f, f = [acc EXCEPT ![t] = V]
    PROVE  AllEvolve(acc, f)
<1>1. /\ f = [u \in Users |-> f[u]] /\ f[t] = V
      /\ \A u \in Users : u # t => f[u] = acc[u]
  BY DEF AllGood
<1>2. \A u \in Users : Evolves(acc[u], f[u])
  BY <1>1, EvolvesSelf DEF AllGood
<1> QED
  BY <1>1, <1>2, Zenon DEF AllEvolve

-----------------------------------------------------------------------------
(* Fulfilment *)

\* The taker's order in slot i of t and the maker's in the slots of m may be
\* filled.
FillSetting(acc, t, i, m, slots) ==
    /\ AllGood(acc)
    /\ t \in Users /\ m \in Users /\ m # t
    /\ i \in Indexes /\ slots \subseteq Indexes
    /\ Ready(acc[t], {i}) /\ Ready(acc[m], slots)

LEMMA SettingStays ==
    ASSUME NEW acc, NEW t, NEW i, NEW m, NEW slots, FillSetting(acc, t, i, m, slots),
           NEW f, AllSameIds(acc, f)
    PROVE  FillSetting(f, t, i, m, slots)
<1>1. AllGood(f)
  BY AllSameChain DEF FillSetting
<1>2. SameIds(acc[t], f[t]) /\ SameIds(acc[m], f[m]) /\ {i} \in SUBSET Indexes
  BY DEF FillSetting, AllSameIds
<1>3. Ready(f[t], {i}) /\ Ready(f[m], slots)
  BY <1>2, ReadyStays DEF SameIds, FillSetting
<1> QED
  BY <1>1, <1>3 DEF FillSetting

LEMMA FillableInt ==
    ASSUME NEW U, Good(U), NEW i \in Indexes PROVE Fillable(U, i) \in Int
<1>1. U.orders[i] \in OrderType /\ SlotOK(U.orders[i], U.nextId) /\ U.base \in Int
  BY GoodFields
<1> QED
  BY <1>1, UnfilledForBounds DEF Fillable

LEMMA FulfillStepEvolves ==
    ASSUME NEW acc, NEW t, NEW i, NEW m, NEW slots, FillSetting(acc, t, i, m, slots),
           NEW f \in FulfillStep(acc, t, i, m, slots)
    PROVE  AllSameIds(acc, f)
<1>1. /\ AllGood(acc) /\ t \in Users /\ m \in Users /\ m # t /\ i \in Indexes
      /\ Good(acc[t]) /\ Good(acc[m]) /\ Ready(acc[t], {i}) /\ Ready(acc[m], slots)
      /\ slots \in SUBSET Indexes /\ {i} \in SUBSET Indexes /\ i \in {i}
  BY DEF FillSetting, AllGood
<1>2. CASE f = acc
  BY <1>1, <1>2, AllSelf
<1>3. CASE f \in AmmFills(acc, t, i)
  <2>1. PICK a \in 1..Fillable(acc[t], i) : f = [acc EXCEPT ![t] = FillSlot(acc[t], i, a)]
    BY <1>3 DEF AmmFills
  <2>2. SameIds(acc[t], FillSlot(acc[t], i, a))
    BY <1>1, FillableEvolves
  <2> QED
    BY <1>1, <2>1, <2>2, OneSameIds, Zenon
<1>4. ASSUME NEW j \in slots, f \in MatchFills(acc, t, i, m, j) PROVE AllSameIds(acc, f)
  <2>1. PICK a \in 1..Lesser(Fillable(acc[t], i), Fillable(acc[m], j)) :
            f = [acc EXCEPT ![t] = FillSlot(acc[t], i, a), ![m] = FillSlot(acc[m], j, a)]
    BY <1>1, <1>4, Zenon DEF MatchFills, AllGood
  <2>2. j \in Indexes /\ Fillable(acc[t], i) \in Int /\ Fillable(acc[m], j) \in Int
    BY <1>1, FillableInt
  <2>3. a \in 1..Fillable(acc[t], i) /\ a \in 1..Fillable(acc[m], j)
    BY <2>2 DEF Lesser
  <2> DEFINE T == FillSlot(acc[t], i, a)
             M == FillSlot(acc[m], j, a)
             g == [acc EXCEPT ![t] = T]
  <2>4. SameIds(acc[t], T) /\ SameIds(acc[m], M)
    BY <1>1, <2>3, FillableEvolves
  <2> HIDE DEF T, M
  <2>5. AllSameIds(acc, g) /\ g[m] = acc[m]
    BY <1>1, <2>4, OneSameIds
  <2>6. f = [g EXCEPT ![m] = M]
    BY <2>1 DEF T, M
  <2> HIDE DEF g
  <2>7. AllGood(g) /\ SameIds(g[m], M)
    BY <1>1, <2>4, <2>5, AllSameChain
  <2>8. AllSameIds(g, f)
    BY <1>1, <2>6, <2>7, OneSameIds, Zenon
  <2> QED
    BY <1>1, <2>5, <2>8, AllSameChain
<1> QED
  BY <1>2, <1>3, <1>4 DEF FulfillStep

LEMMA FulfillEvolves ==
    ASSUME NEW acc, NEW t, NEW i, NEW m, NEW slots, FillSetting(acc, t, i, m, slots),
           NEW f \in Fulfill(acc, t, i, m, slots)
    PROVE  AllSameIds(acc, f)
<1>1. PICK x \in FulfillStep(acc, t, i, m, slots) : f \in FulfillStep(x, t, i, m, slots)
  BY DEF Fulfill
<1>2. AllSameIds(acc, x)
  BY FulfillStepEvolves
<1>3. AllSameIds(x, f)
  BY <1>1, <1>2, SettingStays, FulfillStepEvolves
<1> QED
  BY <1>2, <1>3, AllSameChain DEF FillSetting

\* The clean-up of the taker after a fill.
LEMMA AfterFillEvolves ==
    ASSUME NEW U, Good(U), NEW i \in Indexes
    PROVE  SameIds(U, AfterFill(U, i))
<1>1. ASSUME NEW W, Good(W) PROVE SameIds(W, CancelIdleTriggers(W))
  <2> DEFINE S == {k \in OpenSlots(W) : WaitsForTrigger(W.orders[k]) /\ W.orders[k].reduceOnly}
  <2>1. S \in SUBSET OpenSlots(W)
    OBVIOUS
  <2> HIDE DEF S
  <2>2. Cancelled(W, CancelSlots(W, S), S)
    BY <1>1, <2>1, CancelSlotsEvolves
  <2>3. CancelIdleTriggers(W) = W \/ CancelIdleTriggers(W) = CancelSlots(W, S)
    BY Zenon DEF CancelIdleTriggers, S
  <2> QED
    BY <1>1, <2>2, <2>3, EvolvesSelf DEF Cancelled, SameIds
<1> DEFINE W == IF ShouldCancelReduceOnly(U.orders[i], U.base) THEN CancelOrder(U, i) ELSE U
<1>2. SameIds(U, W)
  <2>1. CASE ShouldCancelReduceOnly(U.orders[i], U.base)
    <3>1. U.orders[i].open
      BY <2>1 DEF ShouldCancelReduceOnly
    <3>2. Evolves(U, CancelOrder(U, i)) /\ CancelOrder(U, i).nextId = U.nextId
      BY <3>1, CancelEvolves, Zenon
    <3> QED
      BY <2>1, <3>2 DEF SameIds
  <2>2. CASE ~ShouldCancelReduceOnly(U.orders[i], U.base)
    BY <2>2, EvolvesSelf DEF SameIds
  <2> QED
    BY <2>1, <2>2
<1>3. AfterFill(U, i) = CancelIdleTriggers(W)
  BY DEF AfterFill
<1> HIDE DEF W
<1>4. SameIds(W, CancelIdleTriggers(W))
  BY <1>1, <1>2, Zenon DEF SameIds, Evolves
<1> QED
  BY <1>2, <1>3, <1>4, SameIdsChain

LEMMA FillTakerEvolves ==
    ASSUME NEW acc, NEW t, NEW i, NEW m, NEW slots, FillSetting(acc, t, i, m, slots),
           NEW f \in FillTaker(acc, t, i, m, slots)
    PROVE  AllSameIds(acc, f)
<1> DEFINE o == acc[t].orders[i]
           gone == ShouldExpire(o) \/ ShouldCancelReduceOnly(o, acc[t].base)
<1>1. AllGood(acc) /\ t \in Users /\ i \in Indexes /\ Good(acc[t])
  BY DEF FillSetting, AllGood
<1>2. CASE gone
  <2>1. f = [acc EXCEPT ![t] = CancelOrder(acc[t], i)]
    BY <1>2, Zenon DEF FillTaker
  <2>2. acc[t].orders[i].open
    BY <1>2 DEF ShouldExpire, ShouldCancelReduceOnly
  <2>3. SameIds(acc[t], CancelOrder(acc[t], i))
    BY <1>1, <2>2, CancelEvolves, Zenon DEF SameIds
  <2> QED
    BY <1>1, <2>1, <2>3, OneSameIds, Zenon
<1>3. CASE ~gone
  <2>1. f \in {[g EXCEPT ![t] = AfterFill(@, i)] : g \in Fulfill(acc, t, i, m, slots)}
    BY <1>3, Zenon DEF FillTaker
  <2>2. PICK g \in Fulfill(acc, t, i, m, slots) : f = [g EXCEPT ![t] = AfterFill(g[t], i)]
    BY <2>1
  <2>3. AllSameIds(acc, g) /\ AllGood(g) /\ Good(g[t])
    BY <1>1, FulfillEvolves, AllSameChain DEF AllGood
  <2>4. AllSameIds(g, f)
    BY <1>1, <2>2, <2>3, AfterFillEvolves, OneSameIds, Zenon
  <2> QED
    BY <1>1, <2>3, <2>4, AllSameChain
<1> QED
  BY <1>2, <1>3

\* Collecting the maker's orders stamps those that are ripe.
LEMMA CleanMakerEvolves ==
    ASSUME NEW M, Good(M), NEW ripe \in SUBSET OpenSlots(M), NEW breaching,
           \A j \in ripe : ~WaitsForTrigger(M.orders[j])
    PROVE  SameIds(M, CleanMaker(M, ripe, breaching)) /\ Ready(CleanMaker(M, ripe, breaching), ripe)
<1> DEFINE os == [j \in Indexes |-> IF j \in ripe THEN Stamp(M.orders[j]) ELSE M.orders[j]]
           S == [M EXCEPT !.orders = os]
           gone == {j \in ripe : \/ j \in breaching
                                 \/ ShouldExpire(S.orders[j])
                                 \/ ShouldCancelReduceOnly(S.orders[j], S.base)}
<1>1. CleanMaker(M, ripe, breaching) = CancelSlots(S, gone)
  BY Zenon DEF CleanMaker
<1>2. ripe \in SUBSET Indexes /\ \A j \in ripe : M.orders[j].open
  BY DEF OpenSlots
<1>3. /\ M \in Accounts
      /\ \A j \in Indexes : M.orders[j] \in OrderType /\ SlotOK(M.orders[j], M.nextId)
  BY GoodFields DEF Good
<1>4. os \in [Indexes -> OrderType]
  BY <1>3, StampFields
<1>5. \A j \in Indexes : /\ os[j] = M.orders[j] \/ os[j] = Stamp(M.orders[j])
                         /\ j \in ripe => os[j] = Stamp(M.orders[j])
  OBVIOUS
<1> HIDE DEF os, gone
<1>6. /\ S \in Accounts /\ S.orders = os /\ S.nextId = M.nextId /\ S.base = M.base
      /\ S.bids = M.bids /\ S.asks = M.asks /\ S.openOrders = M.openOrders
      /\ S.posOrders = M.posOrders /\ S.openAuctions = M.openAuctions
  BY <1>3, <1>4 DEF Accounts
<1> HIDE DEF S
<1>7. Evolves(M, S)
  BY <1>5, <1>6, StampedEvolves
<1>8. \A j \in ripe : /\ S.orders[j].open /\ ~WaitsForTrigger(S.orders[j])
                      /\ market = "reduceOnly" => S.orders[j].reduceOnly
  BY <1>2, <1>3, <1>5, <1>6, StampFields
<1>9. Good(S) /\ Ready(S, ripe) /\ gone \in SUBSET OpenSlots(S)
  BY <1>2, <1>7, <1>8, Zenon DEF Evolves, Ready, FillReady, OpenSlots, gone
<1>10. SameIds(S, CancelSlots(S, gone))
  BY <1>9, CancelSlotsEvolves, Zenon DEF Cancelled, SameIds
<1>11. Ready(CancelSlots(S, gone), ripe)
  BY <1>2, <1>9, <1>10, ReadyStays DEF SameIds
<1>12. SameIds(M, S)
  BY <1>6, <1>7 DEF SameIds
<1> QED
  BY <1>1, <1>10, <1>11, <1>12, SameIdsChain

LEMMA CleanAndFillEvolves ==
    ASSUME NEW acc, AllGood(acc), NEW t \in Users, NEW m \in Users, m # t, NEW i \in Indexes,
           Ready(acc[t], {i}), NEW ripe \in SUBSET OpenSlots(acc[m]), NEW breaching,
           \A j \in ripe : ~WaitsForTrigger(acc[m].orders[j]),
           NEW f \in CleanAndFill(acc, t, i, m, ripe, breaching)
    PROVE  AllSameIds(acc, f)
<1> DEFINE M == CleanMaker(acc[m], ripe, breaching)
           C == [acc EXCEPT ![m] = M]
           slots == ripe \cap OpenSlots(C[m])
<1>1. f = C \/ f \in FillTaker(C, t, i, m, slots)
  BY Zenon DEF CleanAndFill
<1>2. Good(acc[m])
  BY DEF AllGood
<1>3. SameIds(acc[m], M) /\ Ready(M, ripe)
  BY <1>2, CleanMakerEvolves
<1> HIDE DEF M
<1>4. AllSameIds(acc, C) /\ C[m] = M /\ C[t] = acc[t]
  <2>1. C = [acc EXCEPT ![m] = M]
    OBVIOUS
  <2>2. C[m] = M /\ C[t] = acc[t]
    BY DEF AllGood
  <2> HIDE DEF C
  <2>3. AllSameIds(acc, C)
    BY <1>3, <2>1, OneSameIds, Zenon
  <2> QED
    BY <2>2, <2>3
<1>5. slots \subseteq Indexes /\ slots \subseteq ripe
  BY DEF OpenSlots
<1> HIDE DEF C, slots
<1>6. Ready(C[m], slots)
  BY <1>3, <1>4, <1>5, Zenon DEF Ready
<1>7. FillSetting(C, t, i, m, slots)
  BY <1>4, <1>5, <1>6, AllSameChain DEF FillSetting
<1>8. f \in FillTaker(C, t, i, m, slots) => AllSameIds(C, f)
  BY <1>7, FillTakerEvolves
<1> QED
  BY <1>1, <1>4, <1>8, AllSameChain

\* Whatever fill_perp_order leaves behind: no account uses up an id.
LEMMA FillOutcomesEvolve ==
    ASSUME NEW acc, AllGood(acc), NEW t \in Users, NEW m \in Users, m # t, NEW i \in Indexes,
           NEW jit, NEW liquidation \in BOOLEAN,
           NEW f \in FillOutcomes(acc, t, i, m, jit, liquidation)
    PROVE  AllSameIds(acc, f)
<1> DEFINE U == acc[t]
           V == [U EXCEPT !.orders = [@ EXCEPT ![i] = Stamp(U.orders[i])]]
           W == NotBeingLiquidated(V)
           S == [acc EXCEPT ![t].orders[i] = Stamp(@)]
           T == [S EXCEPT ![t] = NotBeingLiquidated(@)]
           R == IF liquidation THEN S ELSE T
           candidates == IF acc[m].liquidated THEN {}
                         ELSE MakerSlots(acc[m], Opposite(acc[t].orders[i].dir), jit)
<1>1. /\ ~WaitsForTrigger(U.orders[i])
      /\ \/ f = S
         \/ \E ripe \in SUBSET candidates : \E breaching \in SUBSET ripe :
                f \in CleanAndFill(R, t, i, m, ripe, breaching)
  <2> DEFINE x == acc[t].liquidated /\ ~liquidation
             y == market = "settlement" \/ WaitsForTrigger(acc[t].orders[i])
  <2>1. FillOutcomes(acc, t, i, m, jit, liquidation) =
            IF y THEN {}
            ELSE OneIf(x, S)
                 \cup UNION {UNION {CleanAndFill(R, t, i, m, ripe, breaching) :
                                        breaching \in SUBSET ripe} :
                             ripe \in SUBSET candidates}
    BY Zenon DEF FillOutcomes
  <2>2. OneIf(x, S) \subseteq {S}
    BY DEF OneIf
  <2> HIDE DEF x, S, R, candidates
  <2> QED
    BY <2>1, <2>2 DEF y
<1>2. /\ Good(U) /\ U \in Accounts
      /\ \A j \in Indexes : U.orders[j] \in OrderType /\ SlotOK(U.orders[j], U.nextId)
  BY GoodFields DEF AllGood, Good
<1>3. SameIds(U, V) /\ Ready(V, {i})
  <2> DEFINE p == Stamp(U.orders[i])
             os == [U.orders EXCEPT ![i] = p]
  <2>1. p \in OrderType /\ ~WaitsForTrigger(p) /\ (market = "reduceOnly" => p.reduceOnly)
    BY <1>1, <1>2, StampFields
  <2>2. /\ os \in [Indexes -> OrderType] /\ os[i] = p
        /\ \A j \in Indexes : os[j] = U.orders[j] \/ os[j] = Stamp(U.orders[j])
    BY <1>2, <2>1, Zenon DEF Accounts
  <2>3. V = [U EXCEPT !.orders = os]
    OBVIOUS
  <2> HIDE DEF os, p, V, U
  <2>4. /\ V \in Accounts /\ V.orders = os /\ V.nextId = U.nextId /\ V.base = U.base
        /\ V.bids = U.bids /\ V.asks = U.asks /\ V.openOrders = U.openOrders
        /\ V.posOrders = U.posOrders /\ V.openAuctions = U.openAuctions
    BY <1>2, <2>2, <2>3 DEF Accounts
  <2>5. Evolves(U, V)
    BY <1>2, <2>2, <2>4, StampedEvolves, Zenon
  <2> QED
    BY <2>1, <2>2, <2>4, <2>5, Zenon DEF SameIds, Ready, FillReady
<1>4. SameIds(V, W) /\ Ready(W, {i}) /\ Good(V)
  <2> HIDE DEF V, U
  <2>1. Good(V)
    BY <1>3, Zenon DEF SameIds, Evolves
  <2>2. /\ Evolves(V, W) /\ W.orders = V.orders /\ W.nextId = V.nextId
    BY <2>1, FlagEvolves, Zenon DEF NotBeingLiquidated
  <2> HIDE DEF W
  <2> QED
    BY <1>3, <2>1, <2>2 DEF Ready, SameIds
<1>5. AllSameIds(acc, S) /\ S[t] = V /\ S[m] = acc[m]
  <2>1. S = [acc EXCEPT ![t] = V]
    BY <1>2 DEF AllGood, Accounts
  <2> HIDE DEF V, S
  <2>2. S[t] = V /\ S[m] = acc[m]
    BY <2>1 DEF AllGood
  <2>3. AllSameIds(acc, S)
    BY <1>3, <2>1, OneSameIds, Zenon
  <2> QED
    BY <2>2, <2>3
<1> HIDE DEF V, S, candidates
<1>6. AllGood(S)
  BY <1>5, AllSameChain
<1>7. AllSameIds(S, T) /\ T[t] = W /\ T[m] = acc[m]
  <2>1. T = [S EXCEPT ![t] = W]
    BY <1>5, <1>6 DEF AllGood
  <2> HIDE DEF T, W
  <2>2. T[t] = W /\ T[m] = S[m]
    BY <1>6, <2>1 DEF AllGood
  <2>3. AllSameIds(S, T)
    BY <1>4, <1>5, <1>6, <2>1, OneSameIds, Zenon
  <2> QED
    BY <1>5, <2>2, <2>3
<1> HIDE DEF T, W
<1>8. AllSameIds(acc, R) /\ Ready(R[t], {i}) /\ R[m] = acc[m] /\ AllGood(R)
  BY <1>3, <1>4, <1>5, <1>6, <1>7, AllSameChain
<1> HIDE DEF R
<1>9. \A j \in candidates : j \in OpenSlots(acc[m]) /\ ~WaitsForTrigger(acc[m].orders[j])
  BY Zenon DEF candidates, MakerSlots
<1>10. ASSUME NEW ripe \in SUBSET candidates, NEW breaching \in SUBSET ripe,
              f \in CleanAndFill(R, t, i, m, ripe, breaching)
       PROVE  AllSameIds(acc, f)
  <2>1. ripe \in SUBSET OpenSlots(R[m]) /\ \A j \in ripe : ~WaitsForTrigger(R[m].orders[j])
    BY <1>8, <1>9
  <2>2. AllSameIds(R, f)
    BY <1>8, <1>10, <2>1, CleanAndFillEvolves, Zenon
  <2> QED
    BY <1>8, <2>2, AllSameChain
<1> QED
  BY <1>1, <1>5, <1>10, Zenon
=============================================================================
