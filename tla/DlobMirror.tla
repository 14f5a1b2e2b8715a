---------------------------- MODULE DlobMirror -----------------------------
(***************************************************************************)
(* The mirror of the order book that fillers and liquidators work from:    *)
(* the account map fed by a gRPC stream (account_map.rs), the hook that    *)
(* turns an account update into order deltas before the map is written     *)
(* (dlob/builder.rs, keep-rs/filler.rs), and the thread that applies them  *)
(* to the book (dlob/mod.rs).                                              *)
(*                                                                         *)
(* One user account: entries of the map do not touch each other, and the   *)
(* book keys every order by its user.  Orders priced off the oracle live   *)
(* in two collections of their own and move between them as these do.      *)
(*                                                                         *)
(* The account's next_order_id only grows and a closed account's address   *)
(* is never opened again, so an id names one order for ever: what its      *)
(* placing fixed (type, post_only, market, side, price, max_ts) belongs to *)
(* the id, and is_same_logical_order holds whenever an id is met again.    *)
(* The writes form one history: forks, which a stream at the processed     *)
(* commitment may show, are outside this model.                            *)
(***************************************************************************)
EXTENDS Integers, Sequences

CONSTANTS
    OrderIds,      \* ids the account hands out
    KindOf,        \* [OrderIds -> the kinds below]
    AuctionSlots,  \* length of an auction
    LifeSlots,     \* slots until a market order expires
    LastTip,       \* slots the cluster produces
    MaxWrites,     \* writes of the account
    MaxReconnects, \* times the stream is opened again
    MaxQueue       \* events waiting for the book

VARIABLES
    tipSlot,    \* the cluster's slot
    writes,     \* Seq of [slot, live, orders]: every write of the account
    stage,      \* of the client: "start", "stamped", "seeded", "live"
    stamp,      \* slot the first synchronisation writes under
    pos,        \* writes the connected node has sent
    last,       \* index of the write delivered last; 0 before
    entry,      \* the map's copy: [slot, live, orders]; live is FALSE when absent
    queue,      \* events on their way to the book
    sentSlot,   \* latest_slot of the stream
    book,       \* [Collections -> [OrderIds -> order]]
    metadata,   \* ids the book has metadata of
    bookSlot,   \* last_modified_slot of the book
    reconnects

mirrorVars == <<tipSlot, writes, stage, stamp, pos, last, entry, queue, sentSlot,
                book, metadata, bookSlot, reconnects>>

ASSUME MirrorConstants ==
    /\ KindOf \in [OrderIds -> {"market", "post", "limit", "triggerMarket", "triggerLimit"}]
    /\ {AuctionSlots, LifeSlots, LastTip, MaxWrites, MaxReconnects, MaxQueue} \subseteq Nat

NoOrder == [start |-> 0, size |-> 0, triggered |-> FALSE]
Orders == {NoOrder} \cup [start : 0..LastTip, size : 1..2, triggered : BOOLEAN]
NoOrders == [i \in OrderIds |-> NoOrder]
Absent == [slot |-> 0, live |-> FALSE, orders |-> NoOrders]
Collections == {"market", "resting", "trigger"}

\* A market order has a max_ts, LifeSlots after it was placed; the others none.
PastLife(i, o, s) == KindOf[i] = "market" /\ s - o.start > LifeSlots

-----------------------------------------------------------------------------
\* The program's side: what a write may change, as far as the client sees it.
Newest == writes[Len(writes)]

Write(live, orders) ==
    /\ Len(writes) < MaxWrites
    /\ writes' = Append(writes, [slot |-> tipSlot, live |-> live, orders |-> orders])
    /\ UNCHANGED <<tipSlot, stage, stamp, pos, last, entry, queue, sentSlot, book, metadata,
                   bookSlot, reconnects>>

\* Ids that were handed out, and whether the account was ever there.
UsedIds == {i \in OrderIds : \E n \in DOMAIN writes : writes[n].orders[i] # NoOrder}
WasLive == \E n \in DOMAIN writes : writes[n].live

IsTrigger(i) == KindOf[i] \in {"triggerMarket", "triggerLimit"}

\* An order is placed, filled in part, closed or triggered; the account is
\* closed, or opened for the first time.
ChainWrite ==
    \/ \E i \in OrderIds \ UsedIds :
        /\ Newest.live
        /\ Write(TRUE, [Newest.orders EXCEPT ![i] =
                           [start |-> tipSlot, size |-> 2, triggered |-> FALSE]])
    \/ \E i \in OrderIds :
        /\ Newest.orders[i] # NoOrder
        /\ \/ Newest.orders[i].size = 2 /\ Write(TRUE, [Newest.orders EXCEPT ![i].size = 1])
           \/ Write(TRUE, [Newest.orders EXCEPT ![i] = NoOrder])
           \/ /\ IsTrigger(i) /\ ~Newest.orders[i].triggered
              /\ Write(TRUE, [Newest.orders EXCEPT ![i].triggered = TRUE, ![i].start = tipSlot])
    \/ Newest.live /\ Newest.orders = NoOrders /\ Write(FALSE, NoOrders)
    \/ ~WasLive /\ Write(TRUE, NoOrders)

ChainTick ==
    /\ tipSlot < LastTip
    /\ tipSlot' = tipSlot + 1
    /\ UNCHANGED <<writes, stage, stamp, pos, last, entry, queue, sentSlot, book, metadata,
                   bookSlot, reconnects>>

-----------------------------------------------------------------------------
\* Faulty: of two writes of one slot the later is dropped.
AcceptsNewer(e, s) == s > e.slot

\* Only the slot orders updates; an equal one is accepted.
Accepts(e, s) == s >= e.slot

IsStale(e, u) == e.live /\ ~Accepts(e, u.slot)

\* grpc_on_account: a close removes the entry whatever its slot.
GrpcOnAccount(e, u) ==
    IF ~u.live THEN Absent
    ELSE IF IsStale(e, u) THEN e
    ELSE u

\* compare_user_orders: orders that vanished or fired.
GoneOrders(old, new) ==
    [i \in OrderIds |->
        IF new[i] = NoOrder \/ new[i].triggered # old[i].triggered THEN old[i] ELSE NoOrder]

\* DLOBNotifier::user_update: the deltas sent, removals before insertions.
UserUpdate(e, new, s) ==
    LET gone == IF e.live THEN GoneOrders(e.orders, new) ELSE NoOrders
    IN IF gone = NoOrders /\ new = NoOrders THEN queue
       ELSE Append(queue, [type |-> "deltas", gone |-> gone, made |-> new, slot |-> s])

\* Faulty: the hook feeds the book what the map is about to drop.
HookFeedsAll(e, u) ==
    IF ~u.live /\ ~e.live THEN queue ELSE UserUpdate(e, u.orders, u.slot)

\* The hook runs before the map is written and skips what the map skips.
AccountUpdateHandler(e, u) ==
    IF (u.live /\ IsStale(e, u)) \/ (~u.live /\ ~e.live) THEN queue
    ELSE UserUpdate(e, u.orders, u.slot)

\* The slot is asked for before the accounts are (account_map.rs), or is zero
\* (filler.rs).
GetSlot(s) ==
    /\ stage = "start"
    /\ stage' = "stamped"
    /\ stamp' = s
    /\ UNCHANGED <<tipSlot, writes, pos, last, entry, queue, sentSlot, book, metadata,
                   bookSlot, reconnects>>

\* The accounts are read and put into the map and the book.
SyncUserAccounts ==
    /\ stage = "stamped"
    /\ stage' = "seeded"
    /\ IF Newest.live
       THEN /\ entry' = [Newest EXCEPT !.slot = stamp]
            /\ queue' = UserUpdate(Absent, Newest.orders, stamp)
       ELSE UNCHANGED <<entry, queue>>
    /\ UNCHANGED <<tipSlot, writes, stamp, pos, last, sentSlot, book, metadata, bookSlot,
                   reconnects>>

\* The read failed: the client goes on with an empty map.
SyncFails ==
    /\ stage = "stamped"
    /\ stage' = "seeded"
    /\ UNCHANGED <<tipSlot, writes, stamp, pos, last, entry, queue, sentSlot, book, metadata,
                   bookSlot, reconnects>>

\* A stream starts with the first write its node sees from then on; the node
\* may be behind or ahead of the one before.
Connect(n) ==
    /\ \/ stage = "seeded" /\ UNCHANGED reconnects
       \/ stage = "live" /\ reconnects < MaxReconnects /\ reconnects' = reconnects + 1
    /\ stage' = "live"
    /\ pos' = n
    /\ UNCHANGED <<tipSlot, writes, stamp, last, entry, queue, sentSlot, book, metadata,
                   bookSlot>>

\* The next write arrives: the hook, then the map, on the stream's thread.
Deliver ==
    /\ stage = "live"
    /\ pos < Len(writes)
    /\ Len(queue) < MaxQueue
    /\ pos' = pos + 1
    /\ last' = pos + 1
    /\ queue' = AccountUpdateHandler(entry, writes[pos + 1])
    /\ entry' = GrpcOnAccount(entry, writes[pos + 1])
    /\ UNCHANGED <<tipSlot, writes, stage, stamp, sentSlot, book, metadata, bookSlot,
                   reconnects>>

\* A slot message, if it is newer than every one before.
DeliverSlot(s) ==
    /\ stage = "live"
    /\ s > sentSlot
    /\ Len(queue) < MaxQueue
    /\ sentSlot' = s
    /\ queue' = Append(queue, [type |-> "slot", slot |-> s])
    /\ UNCHANGED <<tipSlot, writes, stage, stamp, pos, last, entry, book, metadata, bookSlot,
                   reconnects>>

-----------------------------------------------------------------------------
AuctionComplete(i, o, s) == KindOf[i] = "post" \/ s - o.start > AuctionSlots

\* Order i waits for its trigger; its auction ends in a resting order.
Waits(i, o) == IsTrigger(i) /\ ~o.triggered
IsLimit(i) == KindOf[i] \in {"post", "limit", "triggerLimit"}

\* The collection insert_order puts an order into.
HomeOf(i, o, s) ==
    IF Waits(i, o) THEN "trigger"
    ELSE IF IsLimit(i) /\ AuctionComplete(i, o, s) THEN "resting" ELSE "market"

\* The collections remove_order looks into.
Probed(i, o) ==
    IF Waits(i, o) THEN {"trigger"}
    ELSE IF ~IsLimit(i) THEN {"market"}
    ELSE IF KindOf[i] = "post" THEN {"resting"}
    ELSE {"market", "resting"}

WithoutGone(b, gone) ==
    [c \in Collections |-> [i \in OrderIds |->
        IF gone[i] # NoOrder /\ c \in Probed(i, gone[i]) THEN NoOrder ELSE b[c][i]]]

WithMade(b, made, s) ==
    [c \in Collections |-> [i \in OrderIds |->
        IF made[i] # NoOrder /\ HomeOf(i, made[i], s) = c THEN made[i] ELSE b[c][i]]]

IdsIn(orders) == {i \in OrderIds : orders[i] # NoOrder}

ApplyDeltas ==
    /\ queue # <<>>
    /\ queue[1].type = "deltas"
    /\ book' = WithMade(WithoutGone(book, queue[1].gone), queue[1].made, queue[1].slot)
    /\ metadata' = (metadata \ IdsIn(queue[1].gone)) \cup IdsIn(queue[1].made)
    /\ queue' = Tail(queue)
    /\ UNCHANGED <<tipSlot, writes, stage, stamp, pos, last, entry, sentSlot, bookSlot, reconnects>>

Over(i, o, s) == o # NoOrder /\ AuctionComplete(i, o, s)
Rests(i, o, s) == Over(i, o, s) /\ ~PastLife(i, o, s) /\ IsLimit(i)

\* expire_auction_orders: when its auction is over, an expired order is dropped
\* and a limit order moves to the resting ones.
AuctionsExpired(b, s) ==
    [b EXCEPT
        !["resting"] = [i \in OrderIds |->
            IF Rests(i, b["market"][i], s) THEN b["market"][i] ELSE b["resting"][i]],
        !["market"] = [i \in OrderIds |->
            LET o == b["market"][i]
            IN IF Over(i, o, s) /\ (PastLife(i, o, s) \/ Rests(i, o, s)) THEN NoOrder ELSE o]]

UpdateSlot ==
    /\ queue # <<>>
    /\ queue[1].type = "slot"
    /\ IF queue[1].slot < bookSlot THEN UNCHANGED <<book, bookSlot>>
       ELSE book' = AuctionsExpired(book, queue[1].slot) /\ bookSlot' = queue[1].slot
    /\ queue' = Tail(queue)
    /\ UNCHANGED <<tipSlot, writes, stage, stamp, pos, last, entry, sentSlot, metadata,
                   reconnects>>

-----------------------------------------------------------------------------
MirrorInit ==
    /\ tipSlot = 0
    /\ \E live \in BOOLEAN : writes = <<[slot |-> 0, live |-> live, orders |-> NoOrders]>>
    /\ stage = "start"
    /\ stamp = 0
    /\ pos = 0
    /\ last = 0
    /\ entry = Absent
    /\ queue = <<>>
    /\ sentSlot = 0
    /\ book = [c \in Collections |-> NoOrders]
    /\ metadata = {}
    /\ bookSlot = 0
    /\ reconnects = 0

MirrorNext ==
    \/ ChainWrite
    \/ ChainTick
    \/ \E s \in {0, tipSlot} : GetSlot(s)
    \/ SyncUserAccounts
    \/ SyncFails
    \/ \E n \in 0..Len(writes) : Connect(n)
    \/ Deliver
    \/ \E s \in 1..tipSlot : DeliverSlot(s)
    \/ ApplyDeltas
    \/ UpdateSlot

MirrorSpec == MirrorInit /\ [][MirrorNext]_mirrorVars

-----------------------------------------------------------------------------
MirrorTypeOK ==
    /\ {tipSlot, stamp, sentSlot, bookSlot} \subseteq 0..LastTip
    /\ stage \in {"start", "stamped", "seeded", "live"}
    /\ pos \in 0..Len(writes) /\ last \in 0..Len(writes)
    /\ entry \in [slot : 0..LastTip, live : BOOLEAN, orders : [OrderIds -> Orders]]
    /\ book \in [Collections -> [OrderIds -> Orders]]
    /\ metadata \subseteq OrderIds

\* The book holds an order exactly when the map's copy of the account has it
\* open, once the events on their way are applied: no order is stranded or
\* missing, whatever stale, repeated or skipped updates the stream brings.
\* An order whose expiry is noticed locally may be gone early.
BookAgrees ==
    queue = <<>> =>
        \A i \in OrderIds :
            LET o == entry.orders[i]
                held == \E c \in Collections : book[c][i] # NoOrder
            IN /\ held => o # NoOrder
               /\ o # NoOrder => held \/ (AuctionComplete(i, o, bookSlot) /\ PastLife(i, o, bookSlot))
               /\ i \in metadata <=> o # NoOrder

\* When the newest write has been delivered, the map shows it: nothing that
\* was put into the map before, by the synchronisation or by another node,
\* can make it drop the newest state of the account.
NewestWriteIsKept ==
    (last = Len(writes) /\ stage = "live") =>
        entry.live = Newest.live /\ entry.orders = Newest.orders

\* The book follows the map, and the map the newest write it has been sent.
BookFollowsMap == MirrorTypeOK /\ BookAgrees /\ NewestWriteIsKept
=============================================================================
