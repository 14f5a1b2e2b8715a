----------------------------- MODULE SignedMsg -----------------------------
(***************************************************************************)
(* Orders a taker signs off chain and anybody brings on chain              *)
(* (place_signed_msg_taker_order, instructions/keeper.rs), and the record  *)
(* of recent message ids that keeps a message from being placed twice      *)
(* (state/signed_msg_user.rs).                                             *)
(*                                                                         *)
(* A message is delivered any number of times, by anybody, at any slot.    *)
(* An instruction that fails changes nothing and is no step.  Unix time    *)
(* grows with the slot, so a max_ts is named by the first slot past it.    *)
(***************************************************************************)
EXTENDS SlotClock, Sequences, FiniteSets

CONSTANTS
    Messages,     \* the authentic messages: [uuid, slot, units, resting, stale, sidecars,
                  \*  postOnly, ratio, deposit]; 0 where the field is absent
    RecordSizes,  \* lengths the record may be given
    MaxOrderId,   \* orders the taker may place
    MaxOpenOrders,    \* order slots of the taker
    Collateral        \* what the taker may move into the isolated position

VARIABLES
    record,   \* Seq of [uuid, maxSlot, orderId]; <<>> when the account does not exist
    taker,    \* [next: next_order_id, open: ids of open orders, ratio: max_margin_ratio,
              \*  cross, isolated: collateral]
    log,      \* one entry per order placed for a message: [msg, id, main, deadline]
    applied,  \* how often, up to twice, a message changed the taker's margin
    dropped   \* uuids the authority itself evicted while they were live

msgVars == <<clockVars, record, taker, log, applied, dropped>>

ASSUME SignedMsgConstants ==
    /\ IsFiniteSet(Messages)
    /\ \A m \in Messages : m.uuid \in Nat /\ m.slot \in Nat \ {0} /\ m.units \in Nat
    /\ RecordSizes \subseteq 0..129
    /\ {MaxOrderId, MaxOpenOrders, Collateral} \subseteq Nat

EvictionBufferMs == 4000
MaxRestingLeadMs == 30000
MaxOrderAgeMs == 200000
UnitMs == 400

EmptyEntry == [uuid |-> 0, maxSlot |-> 0, orderId |-> 0]
Entries == [uuid : Nat, maxSlot : Nat, orderId : Nat]

\* Faulty: an id is forgotten as soon as its deadline is past.
ExpiredAtOnce(e) == Elapsed(Clock, e.maxSlot, slot) > 0

Expired(e) == Elapsed(Clock, e.maxSlot, slot) > EvictionBufferMs

\* The record with its expired entries emptied.
Pruned == [i \in DOMAIN record |-> IF Expired(record[i]) THEN EmptyEntry ELSE record[i]]

\* Faulty: an id is looked for only in the entry it would be written to.
NeverExists(uuid) == FALSE

Exists(uuid) == \E i \in DOMAIN record : record[i].uuid = uuid /\ ~Expired(record[i])

MaxSlot(m) == SlotAtOrAfterDuration(Clock, m.slot, m.units * UnitMs)

\* A message ahead of the clock is a resting limit order within its lead.
SlotAccepted(m) ==
    /\ m.slot > slot => /\ m.resting
                        /\ Elapsed(Clock, slot, m.slot) <= MaxRestingLeadMs
    /\ Elapsed(Clock, m.slot, slot) <= MaxOrderAgeMs

PastMaxTs(m) == m.stale # 0 /\ slot >= m.stale

\* Faulty: the late order is left to place_perp_order, after its sidecars.
NeverSkipped(m) == FALSE

\* A bundle whose main order is past its max_ts is skipped as a whole.
BundleSkipped(m) == PastMaxTs(m)

\* Each order of the bundle finds a free slot, or the instruction fails.
RoomForBundle(m) == Cardinality(taker.open) + m.sidecars + 1 <= MaxOpenOrders

FreeEntry(r) == {i \in DOMAIN r : r[i].maxSlot = 0}

\* The main order takes the last id of the bundle.
NotedId(m) == taker.next + m.sidecars

\* max_margin_ratio and isolated_position_deposit: applied as soon as the id is
\* found to be new, before anything else may stop the message.
SetsMargin(m) == m.ratio # 0 \/ m.deposit # 0

WithMargin(m) ==
    [taker EXCEPT !.ratio = IF m.ratio # 0 THEN m.ratio ELSE @,
                  !.cross = @ - m.deposit, !.isolated = @ + m.deposit]

\* Stop loss and take profit first, then the id is noted, then the main order.
\* place_perp_order skips a post-only order that would cross, which consumes its
\* id, and one past its max_ts, which does not.
PlaceBundle(m, crosses) ==
    LET main == taker.next + m.sidecars
        free == FreeEntry(Pruned)
        consumes == ~PastMaxTs(m)
        placed == (taker.next .. main) \ (IF consumes /\ ~crosses THEN {} ELSE {main})
    IN /\ m.uuid # 0
       /\ free # {}
       /\ main <= MaxOrderId
       /\ RoomForBundle(m)
       /\ record' = [Pruned EXCEPT ![Min(free)] =
                        [uuid |-> m.uuid, maxSlot |-> MaxSlot(m), orderId |-> NotedId(m)]]
       /\ taker' = [WithMargin(m) EXCEPT !.next = IF consumes THEN main + 1 ELSE main,
                                         !.open = @ \cup placed]
       /\ log' = log \cup {[msg |-> m, id |-> i, main |-> i = main,
                            deadline |-> MaxSlot(m)] : i \in placed}

\* Delivery of a message: placed, or stopped as a known id or past its max_ts
\* with the record pruned.
PlaceSignedMsgTakerOrder(m, crosses) ==
    /\ record # <<>>
    /\ crosses => m.postOnly
    /\ SlotAccepted(m)
    /\ MaxSlot(m) >= slot
    /\ IF Exists(m.uuid)
       THEN /\ record' = Pruned
            /\ UNCHANGED <<taker, log, applied>>
       ELSE /\ taker.cross >= m.deposit
            /\ IF BundleSkipped(m)
               THEN record' = Pruned /\ taker' = WithMargin(m) /\ UNCHANGED log
               ELSE PlaceBundle(m, crosses)
            /\ applied' = IF SetsMargin(m) THEN [applied EXCEPT ![m] = Lesser(@ + 1, 2)]
                          ELSE applied
    /\ UNCHANGED <<clockVars, dropped>>

\* A maker answers the order a uuid is noted for; the fill may close it.
PlaceAndMakeSignedMsg(uuid) ==
    \E i \in DOMAIN record :
        /\ record[i].uuid = uuid
        /\ \A j \in 1..(i - 1) : record[j].uuid # uuid
        /\ record[i].orderId \in taker.open
        /\ taker' = [taker EXCEPT !.open = @ \ {record[i].orderId}]
        /\ UNCHANGED <<clockVars, record, log, applied, dropped>>

-----------------------------------------------------------------------------
Valid(n) == n \in 1..128

Resized(n) ==
    [i \in 1..n |-> IF i <= Len(record) THEN record[i] ELSE EmptyEntry]

LiveUuids(r) == {r[i].uuid : i \in {j \in DOMAIN r : ~Expired(r[j])}} \ {0}

InitializeSignedMsgUserOrders(n) ==
    /\ record = <<>>
    /\ Valid(n)
    /\ record' = [i \in 1..n |-> EmptyEntry]
    /\ UNCHANGED <<clockVars, taker, log, applied, dropped>>

MayResize(byAuthority, n) == byAuthority \/ n >= Len(record)

ResizeSignedMsgUserOrders(byAuthority, n) ==
    /\ record # <<>>
    /\ MayResize(byAuthority, n)
    /\ Valid(n)
    /\ record' = Resized(n)
    /\ dropped' = IF byAuthority THEN dropped \cup (LiveUuids(record) \ LiveUuids(record'))
                  ELSE dropped
    /\ UNCHANGED <<clockVars, taker, log, applied>>

DeleteSignedMsgUserOrders ==
    /\ record # <<>>
    /\ record' = <<>>
    /\ dropped' = dropped \cup LiveUuids(record)
    /\ UNCHANGED <<clockVars, taker, log, applied>>

-----------------------------------------------------------------------------
MsgInit ==
    /\ ClockInit
    /\ record = <<>>
    /\ taker = [next |-> 1, open |-> {}, ratio |-> 0, cross |-> Collateral, isolated |-> 0]
    /\ log = {}
    /\ applied = [m \in Messages |-> 0]
    /\ dropped = {}

AccountNext ==
    \/ \E m \in Messages, crosses \in BOOLEAN : PlaceSignedMsgTakerOrder(m, crosses)
    \/ \E m \in Messages : PlaceAndMakeSignedMsg(m.uuid)
    \/ \E n \in RecordSizes : InitializeSignedMsgUserOrders(n)
    \/ \E n \in RecordSizes, b \in BOOLEAN : ResizeSignedMsgUserOrders(b, n)
    \/ DeleteSignedMsgUserOrders

RecordGate(g) == SyncStateSlotDuration(g) /\ UNCHANGED <<record, taker, log, applied, dropped>>
SlotsPass == Tick /\ UNCHANGED <<record, taker, log, applied, dropped>>

\* A gate may be recorded at any time, long after its regime began too.
MsgNext ==
    \/ AccountNext
    \/ \E g \in Gates : RecordGate(g)
    \/ SlotsPass

MsgSpec == MsgInit /\ [][MsgNext]_msgVars

-----------------------------------------------------------------------------
MsgTypeOK ==
    /\ slot \in FirstSlot..LastSlot
    /\ Clock \in Clocks
    /\ record \in Seq(Entries)
    /\ taker.next \in 1..(MaxOrderId + 1)
    /\ taker.open \subseteq 1..MaxOrderId
    /\ Cardinality(taker.open) <= MaxOpenOrders
    /\ taker.cross \in Nat /\ taker.cross + taker.isolated = Collateral
    /\ log \subseteq [msg : Messages, id : 1..MaxOrderId, main : BOOLEAN, deadline : Nat]
    /\ applied \in [Messages -> 0..2]
    /\ dropped \subseteq Nat

\* A gate recorded late moved the deadline between two placements of a message,
\* further than the eviction buffer reaches.
DeadlineMoved(m) ==
    \E e, f \in log : /\ e.main /\ f.main /\ e.msg = m /\ f.msg = m
                      /\ Elapsed(Clock, e.deadline, f.deadline) > EvictionBufferMs

\* A message opens at most one main order however often, by whomever and
\* however late it is delivered: the record forgets an id only after the message
\* itself can no longer be placed.  The exceptions are an id the authority
\* evicted, and a deadline that a late record of a gate moved by more than the
\* buffer.
PlacedAtMostOnce ==
    \A e, f \in log : e.main /\ f.main /\ e.msg = f.msg =>
        e.id = f.id \/ e.msg.uuid \in dropped \/ DeadlineMoved(e.msg)

\* The margin ratio and the isolated deposit of a message are applied once under
\* the same exceptions and one more: a message past its max_ts, whose id is not
\* noted.
MarginSetOnce ==
    \A m \in Messages : applied[m] > 1 =>
        m.uuid \in dropped \/ PastMaxTs(m) \/ DeadlineMoved(m)

\* What a maker reaches through a message id is the main order of a message
\* with that id or, if that was skipped as post-only, nothing: never another
\* order.  An id is noted once.
RecordNamesTheOrder ==
    \A i \in DOMAIN record :
        LET Named(e) == e.main /\ e.msg.uuid = record[i].uuid
        IN record[i].uuid # 0 =>
            /\ \A e \in log : e.id = record[i].orderId => Named(e)
            /\ \/ \E e \in log : e.id = record[i].orderId
               \/ \E m \in Messages : m.uuid = record[i].uuid /\ m.postOnly
            /\ \A j \in DOMAIN record : record[j].uuid = record[i].uuid => i = j

Protects(f, e) == f.main /\ f.msg = e.msg /\ f.id - e.id \in 1..e.msg.sidecars

\* Stop and take-profit orders of a bundle never stand without the order they
\* protect ("place NOTHING", place_signed_msg_taker_order): each was placed
\* together with a main order.
BundleIsWhole == \A e \in log : ~e.main => \E f \in log : Protects(f, e)

\* The same for the messages that the comment has in mind, takers that are not
\* post-only.
TakerBundleIsWhole ==
    \A e \in log : ~e.main /\ ~e.msg.postOnly => \E f \in log : Protects(f, e)

\* A message takes effect once and whole, and the record says where.
MessageTakesEffectOnce ==
    /\ MsgTypeOK /\ PlacedAtMostOnce /\ MarginSetOnce
    /\ RecordNamesTheOrder /\ TakerBundleIsWhole
=============================================================================
