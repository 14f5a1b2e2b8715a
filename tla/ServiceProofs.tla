---------------------------- MODULE ServiceProofs ---------------------------
(***************************************************************************)
(* The off-chain services.  The slot that the swift servers follow, for    *)
(* any set of subscriptions and nodes; and the order book that a filler    *)
(* keeps beside its map of accounts, for any accounts and any events.      *)
(***************************************************************************)
EXTENDS SlotTracker, DlobMirror, WellFoundedInduction, TLAPS

-----------------------------------------------------------------------------
(* The slot of the swift servers *)

\* A nonempty set of naturals has a least element.
LEMMA LeastExists ==
    ASSUME NEW S, S \subseteq Nat, S # {}
    PROVE  \E x \in S : \A y \in S : x <= y
<1> DEFINE R == {ss \in Nat \X Nat : ss[1] < ss[2]}
<1>1. IsWellFoundedOn(R, Nat)
  BY NatLessThanWellFounded DEF OpToRel
<1> HIDE DEF R
<1>2. PICK x \in S : \A y \in S : ~ (<<y, x>> \in R)
  BY <1>1, WFMin, Zenon
<1>3. ASSUME NEW y \in S PROVE x <= y
  <2>1. x \in Nat /\ y \in Nat
    OBVIOUS
  <2>2. y < x => <<y, x>> \in R
    BY <2>1 DEF R
  <2> QED
    BY <1>2, <2>1, <2>2
<1> QED
  BY <1>3

LEMMA MinIsLeast ==
    ASSUME NEW S, S \subseteq Nat, S # {}
    PROVE  Min(S) \in S /\ \A y \in S : Min(S) <= y
BY LeastExists, Zenon DEF Min

\* The oldest answer is one of the answers, and the slot just stored is not
\* older.
LEMMA OldestAnswer ==
    ASSUME TrackerTypeOK, NEW n \in 0..TipLimit
    PROVE  Min(polled \cup {n}) \in 0..TipLimit /\ Min(polled \cup {n}) <= n
<1>1. polled \cup {n} \subseteq 0..TipLimit /\ 0..TipLimit \subseteq Nat
  BY TrackerConstants DEF TrackerTypeOK
<1> QED
  BY <1>1, MinIsLeast, Zenon

\* Subscription s vouches for the current slot: the slot it handed over last is
\* not ahead of it, and if a callback of it is running, that one is going to
\* store its own slot or brings none that is ahead.
Vouches(s) ==
    /\ handed[s] <= current
    /\ Newer(callback[s]) \/ callback[s].new <= current

\* The inductive invariant: the current slot is not behind the oldest answer of
\* a node or has a subscription that vouches for it.  A store by another
\* subscription passes the role on, one that loses its comparison changes
\* nothing.
Sourced == (\E x \in polled : x <= current) \/ \E s \in Subscriptions : Vouches(s)

TrackerInv == TrackerTypeOK /\ Sourced

\* The servers start at slot zero, for which every subscription vouches.
LEMMA TrackerStarts == TrackerInit => TrackerInv
<1> SUFFICES ASSUME TrackerInit PROVE TrackerInv
  OBVIOUS
<1>1. TrackerTypeOK
  <2>1. TipLimit \in Nat
    BY TrackerConstants
  <2>2. /\ callback \in [Subscriptions -> [new : 0..TipLimit, seen : 0..TipLimit]]
        /\ handed \in [Subscriptions -> 0..TipLimit]
    BY <2>1 DEF TrackerInit, Idle
  <2>3. polling \in -1..TipLimit /\ {tip, current, lastCheck} \subseteq 0..TipLimit
    BY <2>1 DEF TrackerInit, NotPolling
  <2> QED
    BY <2>2, <2>3, Zenon DEF TrackerInit, TrackerTypeOK
<1>2. PICK s \in Subscriptions : TRUE
  BY TrackerConstants
<1>3. Vouches(s)
  BY DEF Vouches, Newer, TrackerInit, Idle
<1> QED
  BY <1>1, <1>3 DEF TrackerInv, Sourced

\* Every step of the cluster, a callback or the monitor keeps the types.
LEMMA TrackerTypeKept == TrackerTypeOK /\ [TrackerNext]_trackerVars => TrackerTypeOK'
<1> SUFFICES ASSUME TrackerTypeOK, [TrackerNext]_trackerVars PROVE TrackerTypeOK'
  OBVIOUS
<1> USE TrackerConstants
<1>1. CASE ClusterTick
  BY <1>1 DEF ClusterTick, TrackerTypeOK
<1>2. ASSUME NEW s \in Subscriptions, NEW n \in NodeSlots, OnSlot(s, n) PROVE TrackerTypeOK'
  BY <1>2 DEF OnSlot, TrackerTypeOK, NodeSlots
<1>3. ASSUME NEW s \in Subscriptions, StoreSlot(s) PROVE TrackerTypeOK'
  BY <1>3 DEF StoreSlot, TrackerTypeOK, Idle
<1>4. CASE MonitorTick
  <2>1. stale' \in BOOLEAN
    BY <1>4, Zenon DEF MonitorTick
  <2>2. /\ UNCHANGED <<tip, current, callback, handed, polled>>
        /\ polling' \in {polling, current} /\ lastCheck' \in {lastCheck, current}
    BY <1>4 DEF MonitorTick
  <2>3. polling' \in -1..TipLimit /\ {tip, current, lastCheck}' \subseteq 0..TipLimit
    BY <2>2 DEF TrackerTypeOK
  <2> QED
    BY <2>1, <2>2, <2>3 DEF TrackerTypeOK
<1>5. CASE Answered
  <2>1. PICK n \in NodeSlots : PollAnswer(n)
    BY <1>5 DEF Answered
  <2>2. stale' \in BOOLEAN
    BY <2>1, Zenon DEF PollAnswer
  <2>3. /\ UNCHANGED <<tip, callback, handed>>
        /\ current' = n /\ lastCheck' = polling /\ polling # -1 /\ polling' = -1
        /\ polled' = {Min(polled \cup {n})}
    BY <2>1 DEF PollAnswer, NotPolling
  <2>4. n \in 0..TipLimit /\ Min(polled \cup {n}) \in 0..TipLimit
    BY OldestAnswer DEF NodeSlots, TrackerTypeOK
  <2>5. polling' \in -1..TipLimit /\ {tip, current, lastCheck}' \subseteq 0..TipLimit
    BY <2>3, <2>4 DEF TrackerTypeOK
  <2> QED
    BY <2>2, <2>3, <2>4, <2>5 DEF TrackerTypeOK
<1>6. CASE PollFails
  BY <1>6 DEF PollFails, TrackerTypeOK, NotPolling
<1>7. CASE UNCHANGED trackerVars
  BY <1>7 DEF trackerVars, TrackerTypeOK
<1> QED
  BY <1>1, <1>2, <1>3, <1>4, <1>5, <1>6, <1>7 DEF TrackerNext

\* Every step keeps a voucher for the current slot.
LEMMA TrackerKept == TrackerInv /\ [TrackerNext]_trackerVars => TrackerInv'
<1> SUFFICES ASSUME TrackerInv, [TrackerNext]_trackerVars PROVE TrackerInv'
  OBVIOUS
<1>1. TrackerTypeOK /\ TrackerTypeOK'
  BY TrackerTypeKept DEF TrackerInv
<1>2. Sourced
  BY DEF TrackerInv
<1>3. CASE UNCHANGED <<current, callback, handed, polled>>
  BY <1>2, <1>3, <1>1 DEF Sourced, Vouches, TrackerInv
<1>4. ASSUME NEW t \in Subscriptions, NEW n \in NodeSlots, OnSlot(t, n) PROVE Sourced'
  <2>1. CASE \E x \in polled : x <= current
    BY <1>4, <2>1 DEF OnSlot, Sourced
  <2>2. CASE \E s \in Subscriptions : Vouches(s)
    <3>1. PICK s \in Subscriptions : Vouches(s)
      BY <2>2
    <3>2. Vouches(s)'
      BY <1>1, <1>4, <3>1 DEF OnSlot, Vouches, Newer, TrackerTypeOK, NodeSlots
    <3> QED
      BY <3>2 DEF Sourced
  <2> QED
    BY <1>2, <2>1, <2>2 DEF Sourced
<1>5. ASSUME NEW t \in Subscriptions, StoreSlot(t) PROVE Sourced'
  <2>1. CASE Newer(callback[t])
    <3>1. Vouches(t)'
      BY <1>1, <1>5, <2>1 DEF StoreSlot, Vouches, Newer, Idle, TrackerTypeOK
    <3> QED
      BY <3>1 DEF Sourced
  <2>2. CASE ~Newer(callback[t])
    <3>1. ASSUME NEW s \in Subscriptions, Vouches(s) PROVE Vouches(s)'
      BY <1>1, <1>5, <2>2, <3>1 DEF StoreSlot, Vouches, Newer, Idle, TrackerTypeOK
    <3> QED
      BY <1>2, <1>5, <2>2, <3>1 DEF StoreSlot, Sourced
  <2> QED
    BY <2>1, <2>2
<1>6. CASE Answered
  <2>1. PICK n \in NodeSlots : PollAnswer(n)
    BY <1>6 DEF Answered
  <2>2. current' = n /\ polled' = {Min(polled \cup {n})}
    BY <2>1 DEF PollAnswer
  <2>3. n \in 0..TipLimit
    BY <1>1, TrackerConstants DEF NodeSlots, TrackerTypeOK
  <2>4. Min(polled \cup {n}) <= n
    BY <1>1, <2>3, OldestAnswer
  <2>5. Sourced'
    BY <2>2, <2>4 DEF Sourced
  <2> QED
    BY <1>1, <2>5 DEF TrackerInv
<1> QED
  BY <1>1, <1>3, <1>4, <1>5, <1>6
     DEF TrackerNext, trackerVars, TrackerInv, ClusterTick, MonitorTick, PollFails

\* With a source that is not ahead of the current slot, the slowest source is not ahead of it.
LEMMA SourcedNotBehind == TrackerInv => NotBehindTheSlowest
<1> SUFFICES ASSUME TrackerInv PROVE NotBehindTheSlowest
  OBVIOUS
<1> DEFINE S == {handed[s] : s \in Subscriptions} \cup polled
<1>1. S \subseteq Nat /\ current \in Nat /\ \E x \in S : x <= current
  <2>1. S \subseteq Nat
    <3>1. 0..TipLimit \subseteq Nat
      BY TrackerConstants
    <3>2. polled \subseteq 0..TipLimit /\ \A s \in Subscriptions : handed[s] \in 0..TipLimit
      BY DEF TrackerInv, TrackerTypeOK
    <3> QED
      BY <3>1, <3>2, Zenon
  <2>2. current \in Nat
    BY TrackerConstants DEF TrackerInv, TrackerTypeOK
  <2>3. CASE \E x \in polled : x <= current
    BY <2>1, <2>2, <2>3
  <2>4. CASE \E s \in Subscriptions : Vouches(s)
    BY <2>1, <2>2, <2>4 DEF Vouches
  <2> QED
    BY <2>1, <2>2, <2>3, <2>4 DEF TrackerInv, Sourced
<1> HIDE DEF S
<1>2. \A y \in S : Min(S) <= y
  BY <1>1, MinIsLeast, Zenon
<1>3. Min(S) \in S
  BY <1>1, MinIsLeast, Zenon
<1>4. current >= Min(S)
  <2>1. PICK x \in S : x <= current
    BY <1>1, Zenon
  <2>2. Min(S) <= x /\ Min(S) \in Nat /\ x \in Nat /\ current \in Nat
    BY <1>1, <1>2, <1>3, Zenon
  <2> QED
    BY <2>1, <2>2
<1> QED
  BY <1>4 DEF S, NotBehindTheSlowest, TrackerInv

\* The servers' slot is never behind all of its sources, for any number of
\* subscriptions whose loads and stores interleave (SuperSlotSubscriber).
THEOREM NeverBehindTheSlowest == TrackerSpec => []NotBehindTheSlowest
<1>1. TrackerSpec => []TrackerInv
  BY TrackerStarts, TrackerKept, PTL DEF TrackerSpec
<1> QED
  BY <1>1, SourcedNotBehind, PTL

-----------------------------------------------------------------------------
(* Sequences *)

LEMMA SeqElements ==
    ASSUME NEW S, NEW q \in Seq(S) PROVE Len(q) \in Nat /\ \A k \in 1..Len(q) : q[k] \in S
  OBVIOUS

LEMMA SeqAppend ==
    ASSUME NEW S, NEW q \in Seq(S), NEW v \in S
    PROVE  /\ Append(q, v) \in Seq(S) /\ Len(Append(q, v)) = Len(q) + 1
           /\ Append(q, v)[Len(q) + 1] = v /\ Len(q) \in Nat
           /\ \A k \in 1..Len(q) : Append(q, v)[k] = q[k]
  OBVIOUS

LEMMA SeqTail ==
    ASSUME NEW S, NEW q \in Seq(S), q # <<>>
    PROVE  /\ Tail(q) \in Seq(S) /\ Len(Tail(q)) = Len(q) - 1 /\ Len(q) \in Nat \ {0}
           /\ q[1] \in S /\ \A k \in 1..Len(Tail(q)) : Tail(q)[k] = q[k + 1]
  OBVIOUS

-----------------------------------------------------------------------------
(* One order in the book's mirror *)

Books == [Collections -> [OrderIds -> Orders]]

\* What book b, at slot s, may hold under id i when the account's order is o:
\* copies of it, only where remove_order would look for it, and at least one
\* unless it has expired there.
Copied(b, s, i, o) ==
    /\ \A c \in Collections :
         b[c][i] # NoOrder =>
           /\ o # NoOrder /\ c \in Probed(i, o) /\ b[c][i].triggered = o.triggered
           /\ KindOf[i] = "market" => b[c][i] = o
    /\ o # NoOrder =>
         \/ \E c \in Collections : b[c][i] # NoOrder
         \/ AuctionComplete(i, o, s) /\ PastLife(i, o, s)

LEMMA OrderFields ==
    ASSUME NEW o \in Orders, o # NoOrder PROVE o.start \in Nat
<1>1. o \in [start : 0..LastTip, size : 1..2, triggered : BOOLEAN]
  BY DEF Orders
<1>2. LastTip \in Nat
  BY MirrorConstants
<1> QED
  BY <1>1, <1>2

\* insert_order puts an order where remove_order looks for it.
LEMMA HomeIsProbed ==
    ASSUME NEW i, NEW o, NEW s
    PROVE  HomeOf(i, o, s) \in Probed(i, o) /\ HomeOf(i, o, s) \in Collections
<1>1. KindOf[i] = "post" => AuctionComplete(i, o, s) /\ IsLimit(i)
  BY Zenon DEF AuctionComplete, IsLimit
<1> QED
  BY <1>1 DEF HomeOf, Probed, Collections

\* remove_order looks in the same collections for copies that live alike.
LEMMA ProbedAlike ==
    ASSUME NEW i, NEW a, NEW b, a.triggered = b.triggered PROVE Probed(i, a) = Probed(i, b)
BY DEF Probed, Waits

\* A market order has one place, and only it is ever past its life.
LEMMA MarketHome ==
    ASSUME NEW i, NEW o, NEW s
    PROVE  /\ KindOf[i] = "market" => HomeOf(i, o, s) = "market" /\ Probed(i, o) = {"market"}
           /\ PastLife(i, o, s) => KindOf[i] = "market"
BY DEF HomeOf, Probed, PastLife, Waits, IsTrigger, IsLimit

\* A delta that removes the old order and makes the new one leaves the book
\* with copies of the new one.
LEMMA DeltasCopy ==
    ASSUME NEW b \in Books, NEW t, NEW s, NEW i \in OrderIds,
           NEW old \in [OrderIds -> Orders], NEW new \in [OrderIds -> Orders],
           Copied(b, t, i, old[i])
    PROVE  Copied(WithMade(WithoutGone(b, GoneOrders(old, new)), new, s), t, i, new[i])
<1> DEFINE gone == GoneOrders(old, new)
           w == WithoutGone(b, gone)
           m == WithMade(w, new, s)
           o == old[i]
           n == new[i]
<1>1. o \in Orders /\ n \in Orders
  OBVIOUS
<1>2. gone[i] = IF n = NoOrder \/ n.triggered # o.triggered THEN o ELSE NoOrder
  BY DEF GoneOrders
<1>3. \A c \in Collections :
        w[c][i] = IF gone[i] # NoOrder /\ c \in Probed(i, gone[i]) THEN NoOrder ELSE b[c][i]
  BY DEF WithoutGone
<1>4. \A c \in Collections :
        m[c][i] = IF n # NoOrder /\ HomeOf(i, n, s) = c THEN n ELSE w[c][i]
  BY DEF WithMade
<1>5. \A c \in Collections :
        b[c][i] # NoOrder =>
          /\ o # NoOrder /\ c \in Probed(i, o) /\ b[c][i].triggered = o.triggered
          /\ KindOf[i] = "market" => b[c][i] = o
  BY DEF Copied
<1> HIDE DEF gone, w, m, o, n
<1>6. ASSUME NEW c \in Collections, w[c][i] # NoOrder
      PROVE  n # NoOrder /\ c \in Probed(i, n) /\ w[c][i].triggered = n.triggered
  <2>1. /\ w[c][i] = b[c][i] /\ b[c][i] # NoOrder
        /\ ~(gone[i] # NoOrder /\ c \in Probed(i, gone[i]))
    BY <1>3, <1>6
  <2>2. o # NoOrder /\ c \in Probed(i, o) /\ b[c][i].triggered = o.triggered
    BY <1>5, <2>1
  <2>3. gone[i] # o
    BY <2>1, <2>2
  <2>4. n # NoOrder /\ n.triggered = o.triggered
    BY <1>2, <2>3, Zenon
  <2>5. Probed(i, o) = Probed(i, n)
    BY <2>4, ProbedAlike
  <2> QED
    BY <2>1, <2>2, <2>4, <2>5, Zenon
<1>7. ASSUME NEW c \in Collections, m[c][i] # NoOrder
      PROVE  /\ n # NoOrder /\ c \in Probed(i, n) /\ m[c][i].triggered = n.triggered
             /\ KindOf[i] = "market" => m[c][i] = n
  <2>1. CASE n # NoOrder /\ HomeOf(i, n, s) = c
    BY <1>4, <2>1, HomeIsProbed
  <2>2. CASE ~(n # NoOrder /\ HomeOf(i, n, s) = c)
    <3>1. m[c][i] = w[c][i]
      BY <1>4, <2>2
    <3>2. n # NoOrder /\ c \in Probed(i, n) /\ m[c][i].triggered = n.triggered
      BY <1>6, <1>7, <3>1
    <3>3. KindOf[i] # "market"
      BY <2>2, <3>2, MarketHome
    <3> QED
      BY <3>2, <3>3
  <2> QED
    BY <2>1, <2>2
<1>8. n # NoOrder => \E c \in Collections : m[c][i] # NoOrder
  BY <1>1, <1>4, HomeIsProbed
<1>9. Copied(m, t, i, n)
  BY <1>7, <1>8, Zenon DEF Copied
<1> QED
  BY <1>9 DEF m, w, gone, n

\* A later slot moves or drops copies, and drops only what has expired.
LEMMA SlotKeepsCopies ==
    ASSUME NEW b \in Books, NEW t \in Nat, NEW s \in Nat, t <= s, NEW i \in OrderIds,
           NEW o \in Orders, Copied(b, t, i, o)
    PROVE  Copied(AuctionsExpired(b, s), s, i, o)
<1> DEFINE e == AuctionsExpired(b, s)
           p == b["market"][i]
<1>1. /\ e["resting"][i] = IF Rests(i, p, s) THEN p ELSE b["resting"][i]
      /\ e["market"][i] = IF Over(i, p, s) /\ (PastLife(i, p, s) \/ Rests(i, p, s)) THEN NoOrder ELSE p
      /\ e["trigger"][i] = b["trigger"][i]
  BY DEF AuctionsExpired, Books, Collections
<1>2. p \in Orders
  BY DEF Books, Collections
<1>3. \A c \in Collections :
        b[c][i] # NoOrder =>
          /\ o # NoOrder /\ c \in Probed(i, o) /\ b[c][i].triggered = o.triggered
          /\ KindOf[i] = "market" => b[c][i] = o
  BY DEF Copied
<1>4. o # NoOrder =>
        (\E c \in Collections : b[c][i] # NoOrder) \/ (AuctionComplete(i, o, t) /\ PastLife(i, o, t))
  BY DEF Copied
<1> HIDE DEF e, p
<1>5. Rests(i, p, s) =>
        /\ p # NoOrder /\ o # NoOrder /\ KindOf[i] # "market" /\ p.triggered = o.triggered
        /\ "resting" \in Probed(i, o) /\ ~PastLife(i, p, s)
  <2>1. SUFFICES ASSUME Rests(i, p, s)
                 PROVE  /\ p # NoOrder /\ o # NoOrder /\ KindOf[i] # "market"
                        /\ p.triggered = o.triggered
                        /\ "resting" \in Probed(i, o) /\ ~PastLife(i, p, s)
    OBVIOUS
  <2>2. p # NoOrder /\ IsLimit(i) /\ ~PastLife(i, p, s)
    BY <2>1, Zenon DEF Rests, Over
  <2>3. o # NoOrder /\ "market" \in Probed(i, o) /\ p.triggered = o.triggered
    BY <1>3, <2>2, Zenon DEF p, Collections
  <2>4. "resting" \in Probed(i, o)
    BY <2>2, <2>3 DEF Probed
  <2>5. KindOf[i] # "market"
    BY <2>2 DEF IsLimit
  <2> QED
    BY <2>2, <2>3, <2>4, <2>5
<1>6. ASSUME NEW c \in Collections, e[c][i] # NoOrder
      PROVE  /\ o # NoOrder /\ c \in Probed(i, o) /\ e[c][i].triggered = o.triggered
             /\ KindOf[i] = "market" => e[c][i] = o
  <2>1. e[c][i] = b[c][i] \/ (c = "resting" /\ Rests(i, p, s) /\ e[c][i] = p)
    BY <1>1, <1>6 DEF Collections, p
  <2>2. CASE e[c][i] = b[c][i]
    BY <1>3, <1>6, <2>2
  <2>3. CASE c = "resting" /\ Rests(i, p, s) /\ e[c][i] = p
    BY <1>5, <2>3
  <2> QED
    BY <2>1, <2>2, <2>3
<1>7. ASSUME o # NoOrder
      PROVE (\E c \in Collections : e[c][i] # NoOrder) \/ (AuctionComplete(i, o, s) /\ PastLife(i, o, s))
  <2>1. CASE AuctionComplete(i, o, t) /\ PastLife(i, o, t)
    <3>1. o.start \in Nat /\ AuctionSlots \in Nat /\ LifeSlots \in Nat
      BY <1>7, OrderFields, MirrorConstants
    <3> QED
      BY <2>1, <3>1 DEF AuctionComplete, PastLife
  <2>2. ASSUME NEW c \in Collections, b[c][i] # NoOrder, e[c][i] = NoOrder
        PROVE  (\E d \in Collections : e[d][i] # NoOrder) \/ (AuctionComplete(i, o, s) /\ PastLife(i, o, s))
    <3>1. CASE Rests(i, p, s)
      BY <1>1, <1>5, <3>1 DEF Collections
    <3>2. CASE ~Rests(i, p, s)
      <4>1. c = "market" /\ Over(i, p, s) /\ PastLife(i, p, s)
        BY <1>1, <2>2, <3>2 DEF Collections, p
      <4>2. p # NoOrder /\ AuctionComplete(i, p, s) /\ KindOf[i] = "market"
        BY <1>2, <4>1, MarketHome DEF Over
      <4>3. p = o
        BY <1>3, <2>2, <4>1, <4>2 DEF p
      <4> QED
        BY <4>1, <4>2, <4>3
    <3> QED
      BY <3>1, <3>2, Zenon
  <2> QED
    BY <1>4, <1>7, <2>1, <2>2
<1>8. Copied(e, s, i, o)
  BY <1>6, <1>7, Zenon DEF Copied
<1> QED
  BY <1>8 DEF e

-----------------------------------------------------------------------------
(* The events on their way to the book *)

OrderSets == [OrderIds -> Orders]

Events ==
    [type : {"deltas"}, gone : OrderSets, made : OrderSets, slot : 0..LastTip]
      \cup [type : {"slot"}, slot : 0..LastTip]

\* The orders the book knows after each event of q, from those it knows now to
\* those of the map: a delta takes out what its predecessor had.
Path(q, m) ==
    /\ m \in [0..Len(q) -> OrderSets]
    /\ \A k \in 1..Len(q) :
         IF q[k].type = "slot" THEN m[k] = m[k - 1]
         ELSE q[k].made = m[k] /\ q[k].gone = GoneOrders(m[k - 1], m[k])

\* The book b holds the orders os.
Holds(b, ids, s, os) ==
    \A i \in OrderIds : Copied(b, s, i, os[i]) /\ (i \in ids <=> os[i] # NoOrder)

\* The events lead the book from what it holds to the orders os.
Leads(q, b, ids, s, os) == \E m : Path(q, m) /\ m[Len(q)] = os /\ Holds(b, ids, s, m[0])

LEMMA NoOrdersIsOrders == NoOrders \in OrderSets
BY Zenon DEF NoOrders, OrderSets, Orders

\* An event that is sent leads on to the orders it was made from.
LEMMA SendLeads ==
    ASSUME NEW q \in Seq(Events), NEW b, NEW ids, NEW s, NEW os \in OrderSets,
           Leads(q, b, ids, s, os),
           NEW v \in Events, NEW new \in OrderSets,
           IF v.type = "slot" THEN new = os ELSE v.made = new /\ v.gone = GoneOrders(os, new)
    PROVE  Append(q, v) \in Seq(Events) /\ Leads(Append(q, v), b, ids, s, new)
<1> DEFINE r == Append(q, v)
           n == Len(q)
<1>1. PICK m : Path(q, m) /\ m[n] = os /\ Holds(b, ids, s, m[0])
  BY DEF Leads
<1>2. /\ r \in Seq(Events) /\ Len(r) = n + 1 /\ r[n + 1] = v /\ n \in Nat
      /\ \A k \in 1..n : r[k] = q[k]
  BY SeqAppend
<1> HIDE DEF r, n
<1> DEFINE w == [k \in 0..(n + 1) |-> IF k = n + 1 THEN new ELSE m[k]]
<1>3. m \in [0..n -> OrderSets]
  BY <1>1, Zenon DEF Path, n
<1>4. w \in [0..(n + 1) -> OrderSets]
  BY <1>2, <1>3
<1>5. w[n + 1] = new /\ w[0] = m[0] /\ w[n] = os /\ \A k \in 0..n : w[k] = m[k]
  BY <1>1, <1>2
<1> HIDE DEF w
<1>6. ASSUME NEW k \in 1..(n + 1)
      PROVE  IF r[k].type = "slot" THEN w[k] = w[k - 1]
             ELSE r[k].made = w[k] /\ r[k].gone = GoneOrders(w[k - 1], w[k])
  <2>1. CASE k = n + 1
    <3>1. r[k] = v /\ w[k] = new /\ w[k - 1] = os
      BY <1>2, <1>5, <2>1
    <3> QED
      BY <3>1, Zenon
  <2>2. CASE k # n + 1
    <3>1. k \in 1..n /\ k \in 0..n /\ k - 1 \in 0..n
      BY <1>2, <2>2
    <3>2. r[k] = q[k] /\ w[k] = m[k] /\ w[k - 1] = m[k - 1]
      BY <1>2, <1>5, <3>1, Zenon
    <3>3. IF q[k].type = "slot" THEN m[k] = m[k - 1]
          ELSE q[k].made = m[k] /\ q[k].gone = GoneOrders(m[k - 1], m[k])
      BY <1>1, <3>1, Zenon DEF Path, n
    <3> QED
      BY <3>2, <3>3, Zenon
  <2> QED
    BY <2>1, <2>2
<1>7. Path(r, w)
  BY <1>2, <1>4, <1>6, Zenon DEF Path
<1>8. Leads(r, b, ids, s, new)
  BY <1>1, <1>2, <1>5, <1>7, Zenon DEF Leads
<1> QED
  BY <1>2, <1>8 DEF r

\* What the first event is about, and the path behind it.
LEMMA FirstEvent ==
    ASSUME NEW q \in Seq(Events), q # <<>>, NEW b, NEW ids, NEW s, NEW os,
           Leads(q, b, ids, s, os)
    PROVE  /\ q[1] \in Events /\ Tail(q) \in Seq(Events)
           /\ \E m \in OrderSets, new \in OrderSets :
                /\ Holds(b, ids, s, m)
                /\ IF q[1].type = "slot" THEN new = m
                   ELSE q[1].made = new /\ q[1].gone = GoneOrders(m, new)
                /\ \A b2, ids2, s2 : Holds(b2, ids2, s2, new) => Leads(Tail(q), b2, ids2, s2, os)
<1> DEFINE r == Tail(q)
           n == Len(q)
<1>1. PICK m : Path(q, m) /\ m[n] = os /\ Holds(b, ids, s, m[0])
  BY DEF Leads
<1>2. /\ r \in Seq(Events) /\ Len(r) = n - 1 /\ n \in Nat \ {0}
      /\ \A k \in 1..Len(r) : r[k] = q[k + 1]
  BY SeqTail
<1>3. q[1] \in Events
  BY SeqTail
<1> HIDE DEF r, n
<1> DEFINE w == [k \in 0..(n - 1) |-> m[k + 1]]
<1>4. m \in [0..n -> OrderSets]
  BY <1>1 DEF Path, n
<1>5. w \in [0..(n - 1) -> OrderSets]
  BY <1>2, <1>4
<1>6. w[n - 1] = os /\ w[0] = m[1] /\ \A k \in 0..(n - 1) : w[k] = m[k + 1]
  BY <1>1, <1>2
<1> HIDE DEF w
<1>7. ASSUME NEW k \in 1..n
      PROVE  IF q[k].type = "slot" THEN m[k] = m[k - 1]
             ELSE q[k].made = m[k] /\ q[k].gone = GoneOrders(m[k - 1], m[k])
  BY <1>1, Zenon DEF Path, n
<1>8. ASSUME NEW k \in 1..(n - 1)
      PROVE  IF r[k].type = "slot" THEN w[k] = w[k - 1]
             ELSE r[k].made = w[k] /\ r[k].gone = GoneOrders(w[k - 1], w[k])
  <2> DEFINE j == k + 1
  <2>1. /\ j \in 1..n /\ k \in 0..(n - 1) /\ k - 1 \in 0..(n - 1) /\ k \in 1..Len(r)
        /\ (k - 1) + 1 = j - 1
    BY <1>2
  <2>2. r[k] = q[j] /\ w[k] = m[j]
    BY <1>2, <1>6, <2>1, Zenon
  <2>3. w[k - 1] = m[(k - 1) + 1]
    BY <1>6, <2>1, Zenon
  <2>4. w[k - 1] = m[j - 1]
    BY <2>1, <2>3, Zenon
  <2> HIDE DEF j
  <2> QED
    BY <1>7, <2>1, <2>2, <2>4, Zenon
<1>9. Path(r, w)
  BY <1>2, <1>5, <1>8, Zenon DEF Path
<1>10. ASSUME NEW b2, NEW ids2, NEW s2, Holds(b2, ids2, s2, m[1]) PROVE Leads(r, b2, ids2, s2, os)
  BY <1>2, <1>6, <1>9, <1>10, Zenon DEF Leads
<1>11. m[0] \in OrderSets /\ m[1] \in OrderSets /\ 1 \in 1..n /\ 1 - 1 = 0
  BY <1>2, <1>4
<1>12. IF q[1].type = "slot" THEN m[1] = m[0]
       ELSE q[1].made = m[1] /\ q[1].gone = GoneOrders(m[0], m[1])
  BY <1>7, <1>11
<1> QED
  BY <1>1, <1>2, <1>3, <1>10, <1>11, <1>12, Zenon DEF r
-----------------------------------------------------------------------------
(* The account map and the book over time *)

Writes == [slot : 0..LastTip, live : BOOLEAN, orders : OrderSets]

\* The map's side: the log of writes is ordered by slot, a closed account has
\* no orders, and the map's copy is some write that no later one precedes.
MapTypes ==
    /\ tipSlot \in 0..LastTip /\ stamp \in 0..tipSlot
    /\ stage \in {"start", "stamped", "seeded", "live"}
    /\ writes \in Seq(Writes) /\ Len(writes) >= 1
    /\ pos \in 0..Len(writes) /\ last \in 0..Len(writes)
    /\ entry \in Writes

LogOK(log, now) ==
    \A k \in 1..Len(log) :
        /\ log[k].slot <= now
        /\ ~log[k].live => log[k].orders = NoOrders
        /\ \A m \in k..Len(log) : log[k].slot <= log[m].slot

\* The entry e shows write k of the log, and no write after it is older.
Shows(e, log, k) ==
    /\ log[k].live /\ e.orders = log[k].orders
    /\ \A m \in (k + 1)..Len(log) : e.slot <= log[m].slot

EntryOK(e, log, now) ==
    /\ ~e.live => e.orders = NoOrders
    /\ e.live => e.slot <= now /\ \E k \in 1..Len(log) : Shows(e, log, k)

MapInv ==
    /\ MapTypes
    /\ LogOK(writes, tipSlot)
    /\ EntryOK(entry, writes, tipSlot)
    /\ stage \in {"start", "stamped"} => entry = Absent
    /\ stage # "live" => last = 0
    /\ NewestWriteIsKept

\* The book's side: the events under way lead it to the orders of the map.
BookInv ==
    /\ sentSlot \in 0..tipSlot /\ bookSlot \in 0..LastTip
    /\ book \in Books /\ metadata \subseteq OrderIds /\ queue \in Seq(Events)
    /\ Leads(queue, book, metadata, bookSlot, entry.orders)

\* The last write, and the log with one more.
LEMMA NewestIsWrite ==
    ASSUME MapTypes PROVE /\ Len(writes) \in Nat \ {0} /\ Newest \in Writes
                          /\ Newest = writes[Len(writes)]
                          /\ \A k \in 1..Len(writes) : writes[k] \in Writes
<1>1. writes \in Seq(Writes) /\ Len(writes) >= 1
  BY DEF MapTypes
<1>2. Len(writes) \in Nat \ {0}
  BY <1>1, SeqElements
<1>3. \A k \in 1..Len(writes) : writes[k] \in Writes
  BY <1>1, SeqElements
<1> QED
  BY <1>2, <1>3 DEF Newest

LEMMA WriteKeepsMap ==
    ASSUME MapInv, NEW live \in BOOLEAN, NEW os \in OrderSets, Write(live, os),
           ~live => os = NoOrders
    PROVE  MapInv'
<1> DEFINE u == [slot |-> tipSlot, live |-> live, orders |-> os]
           n == Len(writes)
<1>1. MapTypes /\ n \in Nat \ {0} /\ writes \in Seq(Writes)
  BY NewestIsWrite DEF MapInv, MapTypes
<1>2. u \in Writes /\ u.slot = tipSlot /\ u.live = live /\ u.orders = os
  BY <1>1 DEF Writes, MapTypes
<1>3. /\ writes' = Append(writes, u)
      /\ UNCHANGED <<tipSlot, stage, stamp, pos, last, entry>>
  BY DEF Write
<1> HIDE DEF u
<1>4. /\ writes' \in Seq(Writes) /\ Len(writes') = n + 1 /\ writes'[n + 1] = u
      /\ \A k \in 1..n : writes'[k] = writes[k]
  BY <1>1, <1>2, <1>3, SeqAppend
<1>5. tipSlot \in Int /\ \A k \in 1..n : writes[k].slot \in Int
  <2>1. tipSlot \in Int
    BY <1>1 DEF MapTypes
  <2>2. \A k \in 1..n : writes[k].slot \in Int
    BY <1>1, NewestIsWrite DEF Writes
  <2> QED
    BY <2>1, <2>2
<1> HIDE DEF n
<1>6. MapTypes'
  <2>1. Len(writes') >= 1 /\ pos' \in 0..Len(writes') /\ last' \in 0..Len(writes')
    BY <1>1, <1>3, <1>4 DEF MapTypes, n
  <2> QED
    BY <1>1, <1>3, <1>4, <2>1, Zenon DEF MapTypes
<1>7. LogOK(writes', tipSlot')
  <2> SUFFICES ASSUME NEW k \in 1..(n + 1)
               PROVE  /\ writes'[k].slot <= tipSlot
                      /\ ~writes'[k].live => writes'[k].orders = NoOrders
                      /\ \A m \in k..(n + 1) : writes'[k].slot <= writes'[m].slot
    BY <1>3, <1>4, Zenon DEF LogOK
  <2>1. CASE k = n + 1
    <3>1. writes'[k] = u /\ \A m \in k..(n + 1) : m = k
      BY <1>1, <1>4, <2>1
    <3> QED
      BY <1>2, <1>5, <3>1
  <2>2. CASE k \in 1..n
    <3>1. /\ writes[k].slot <= tipSlot
          /\ ~writes[k].live => writes[k].orders = NoOrders
          /\ \A m \in k..n : writes[k].slot <= writes[m].slot
      BY <2>2 DEF MapInv, LogOK, n
    <3>2. ASSUME NEW m \in k..(n + 1) PROVE writes[k].slot <= writes'[m].slot
      <4>1. CASE m = n + 1
        BY <1>2, <1>4, <3>1, <4>1
      <4>2. CASE m # n + 1
        <5>1. m \in k..n /\ m \in 1..n
          BY <1>1, <2>2, <4>2
        <5> QED
          BY <1>4, <3>1, <5>1
      <4> QED
        BY <4>1, <4>2
    <3> QED
      BY <1>4, <2>2, <3>1, <3>2, Zenon
  <2> QED
    BY <1>1, <2>1, <2>2
<1>8. EntryOK(entry', writes', tipSlot')
  <2>1. ASSUME entry.live PROVE \E k \in 1..(n + 1) : Shows(entry, writes', k)
    <3>1. PICK k \in 1..n : Shows(entry, writes, k)
      BY <2>1 DEF MapInv, EntryOK, n
    <3>2. entry.slot <= tipSlot
      BY <2>1 DEF MapInv, EntryOK
    <3>3. ASSUME NEW m \in (k + 1)..(n + 1) PROVE entry.slot <= writes'[m].slot
      <4>1. CASE m = n + 1
        BY <1>2, <1>4, <3>2, <4>1
      <4>2. CASE m # n + 1
        <5>1. m \in (k + 1)..n /\ m \in 1..n
          BY <1>1, <4>2
        <5> QED
          BY <1>4, <3>1, <5>1 DEF Shows, n
      <4> QED
        BY <4>1, <4>2
    <3>4. writes'[k] = writes[k] /\ k \in 1..(n + 1)
      BY <1>1, <1>4
    <3>5. Shows(entry, writes', k)
      BY <1>4, <3>1, <3>3, <3>4, Zenon DEF Shows
    <3> QED
      BY <3>4, <3>5
  <2> QED
    BY <1>3, <1>4, <2>1, Zenon DEF MapInv, EntryOK
<1>9. NewestWriteIsKept'
  <2>1. last' # Len(writes')
    BY <1>1, <1>3, <1>4 DEF MapTypes, n
  <2> QED
    BY <2>1 DEF NewestWriteIsKept
<1> QED
  BY <1>3, <1>6, <1>7, <1>8, <1>9, Zenon DEF MapInv

\* Every write of the program leaves well-formed orders, and closes only an
\* account without orders.
LEMMA ChainWriteIsWrite ==
    ASSUME MapTypes, ChainWrite
    PROVE  \E live \in BOOLEAN, os \in OrderSets : Write(live, os) /\ (~live => os = NoOrders)
<1>1. Newest \in Writes /\ Newest.orders \in OrderSets
  BY NewestIsWrite DEF Writes
<1> DEFINE os == Newest.orders
<1>2. \A i \in OrderIds, o \in Orders : [os EXCEPT ![i] = o] \in OrderSets
  BY <1>1 DEF OrderSets
<1>3. [start |-> tipSlot, size |-> 2, triggered |-> FALSE] \in Orders
  BY DEF MapTypes, Orders
<1>4. ASSUME NEW i \in OrderIds, os[i] # NoOrder
      PROVE  /\ [os[i] EXCEPT !.size = 1] \in Orders
             /\ [os[i] EXCEPT !.triggered = TRUE, !.start = tipSlot] \in Orders
  <2>1. os[i] \in [start : 0..LastTip, size : 1..2, triggered : BOOLEAN]
    BY <1>1, <1>4 DEF OrderSets, Orders
  <2> HIDE DEF os
  <2>2. tipSlot \in 0..LastTip /\ 1 \in 1..2 /\ TRUE \in BOOLEAN
    BY DEF MapTypes
  <2>3. /\ [os[i] EXCEPT !.size = 1]
             \in [start : 0..LastTip, size : 1..2, triggered : BOOLEAN]
        /\ [os[i] EXCEPT !.triggered = TRUE, !.start = tipSlot]
             \in [start : 0..LastTip, size : 1..2, triggered : BOOLEAN]
    BY <2>1, <2>2, Zenon
  <2> QED
    BY <2>3, Zenon DEF Orders
<1>5. ASSUME NEW i \in OrderIds
      PROVE  /\ [os EXCEPT ![i].size = 1] = [os EXCEPT ![i] = [os[i] EXCEPT !.size = 1]]
             /\ [os EXCEPT ![i].triggered = TRUE, ![i].start = tipSlot]
                  = [os EXCEPT ![i] = [os[i] EXCEPT !.triggered = TRUE, !.start = tipSlot]]
  BY <1>1, Zenon DEF OrderSets
<1>6. NoOrder \in Orders /\ NoOrders \in OrderSets
  BY NoOrdersIsOrders DEF Orders
<1> HIDE DEF os
<1>7. CASE \E i \in OrderIds \ UsedIds :
             Write(TRUE, [os EXCEPT ![i] =
                            [start |-> tipSlot, size |-> 2, triggered |-> FALSE]])
  BY <1>2, <1>3, <1>7, Zenon
<1>8. ASSUME NEW i \in OrderIds, os[i] # NoOrder,
             \/ Write(TRUE, [os EXCEPT ![i].size = 1])
             \/ Write(TRUE, [os EXCEPT ![i] = NoOrder])
             \/ Write(TRUE, [os EXCEPT ![i].triggered = TRUE, ![i].start = tipSlot])
      PROVE  \E live \in BOOLEAN, s \in OrderSets : Write(live, s) /\ (~live => s = NoOrders)
  <2>1. /\ [os EXCEPT ![i].size = 1] \in OrderSets
        /\ [os EXCEPT ![i] = NoOrder] \in OrderSets
        /\ [os EXCEPT ![i].triggered = TRUE, ![i].start = tipSlot] \in OrderSets
    BY <1>2, <1>4, <1>5, <1>6, <1>8, Zenon
  <2> QED
    BY <1>8, <2>1, Zenon
<1>9. CASE Write(FALSE, NoOrders) \/ Write(TRUE, NoOrders)
  BY <1>6, <1>9, Zenon
<1> QED
  BY <1>7, <1>8, <1>9, Zenon DEF ChainWrite, os

\* What the map becomes when write k of the log is put into it.
LEMMA EntryShows ==
    ASSUME MapInv, NEW k \in 1..Len(writes), NEW e \in Writes, e.live,
           writes[k].live, e.orders = writes[k].orders, e.slot <= tipSlot,
           k = Len(writes) \/ e.slot <= writes[k].slot
    PROVE  EntryOK(e, writes, tipSlot)
<1>1. MapTypes /\ LogOK(writes, tipSlot)
  BY Zenon DEF MapInv
<1>2. Len(writes) \in Nat \ {0} /\ \A j \in 1..Len(writes) : writes[j].slot \in Int
  <2>1. \A w \in Writes : w.slot \in Int
    BY MirrorConstants DEF Writes
  <2> QED
    BY <1>1, <2>1, NewestIsWrite, Zenon
<1>3. e.slot \in Int
  BY MirrorConstants DEF Writes
<1>4. ASSUME NEW m \in (k + 1)..Len(writes) PROVE e.slot <= writes[m].slot
  <2>1. k # Len(writes) /\ m \in k..Len(writes) /\ m \in 1..Len(writes)
    BY <1>2
  <2>2. writes[k].slot <= writes[m].slot
    BY <1>1, <2>1, Zenon DEF LogOK
  <2> QED
    BY <1>2, <1>3, <2>1, <2>2
<1> QED
  BY <1>4, Zenon DEF EntryOK, Shows

LEMMA DeliverKeepsMap ==
    ASSUME MapInv, Deliver PROVE MapInv'
<1> DEFINE n == Len(writes)
           j == pos + 1
           u == writes[j]
<1>1. MapTypes /\ LogOK(writes, tipSlot) /\ EntryOK(entry, writes, tipSlot)
  BY DEF MapInv
<1>2. /\ stage = "live" /\ pos' = j /\ last' = j /\ entry' = GrpcOnAccount(entry, u)
      /\ UNCHANGED <<tipSlot, writes, stage, stamp>> /\ pos < n
  BY DEF Deliver
<1>3. n \in Nat \ {0} /\ j \in 1..n
  BY <1>1, <1>2, NewestIsWrite DEF MapTypes
<1>4. u \in Writes /\ u.slot \in Int /\ u.slot <= tipSlot /\ (~u.live => u.orders = NoOrders)
  BY <1>1, <1>3, NewestIsWrite, MirrorConstants DEF LogOK, Writes
<1>5. entry \in Writes /\ entry.slot \in Int
  BY <1>1, MirrorConstants DEF MapTypes, Writes
<1>6. Absent \in Writes /\ ~Absent.live /\ Absent.orders = NoOrders
  BY NoOrdersIsOrders, MirrorConstants DEF Absent, Writes
<1> HIDE DEF n, j, u
<1>7. /\ entry' \in Writes /\ EntryOK(entry', writes, tipSlot)
      /\ j = n => entry'.live = u.live /\ entry'.orders = u.orders
  <2>1. CASE ~u.live
    <3>1. entry' = Absent
      BY <1>2, <2>1 DEF GrpcOnAccount
    <3>2. Absent.live = u.live
      BY <1>4, <2>1, Zenon DEF Absent, Writes
    <3> QED
      BY <1>4, <1>6, <2>1, <3>1, <3>2, Zenon DEF EntryOK
  <2>2. CASE u.live /\ ~IsStale(entry, u)
    <3>1. entry' = u
      BY <1>2, <2>2, Zenon DEF GrpcOnAccount
    <3>2. EntryOK(u, writes, tipSlot)
      BY <1>3, <1>4, <2>2, EntryShows DEF u, n
    <3> QED
      BY <1>4, <3>1, <3>2, Zenon
  <2>3. CASE u.live /\ IsStale(entry, u)
    <3>1. entry' = entry /\ entry.live /\ ~(u.slot >= entry.slot)
      BY <1>2, <2>3 DEF GrpcOnAccount, IsStale, Accepts
    <3>2. PICK k \in 1..n : Shows(entry, writes, k)
      BY <1>1, <3>1 DEF EntryOK, n
    <3>3. ASSUME j = n PROVE k = n
      <4>1. SUFFICES ASSUME k # n PROVE FALSE
        OBVIOUS
      <4>2. n \in (k + 1)..n
        BY <1>3, <4>1
      <4>3. entry.slot <= u.slot
        BY <3>2, <3>3, <4>2 DEF Shows, n, u
      <4> QED
        BY <1>4, <1>5, <3>1, <4>3
    <3>4. j = n => entry.orders = u.orders
      BY <3>2, <3>3 DEF Shows, u
    <3> QED
      BY <1>1, <1>5, <2>3, <3>1, <3>4, Zenon
  <2> QED
    BY <2>1, <2>2, <2>3
<1>8. MapTypes'
  <2>1. pos' \in 0..n /\ last' \in 0..n
    BY <1>2, <1>3
  <2> QED
    BY <1>1, <1>2, <1>7, <2>1, Zenon DEF MapTypes, n
<1>9. NewestWriteIsKept'
  BY <1>2, <1>7, Zenon DEF NewestWriteIsKept, Newest, n, u
<1> QED
  BY <1>1, <1>2, <1>7, <1>8, <1>9 DEF MapInv

\* Every step keeps the map's side.
LEMMA MapKept ==
    MapInv /\ [MirrorNext]_mirrorVars => MapInv'
<1> SUFFICES ASSUME MapInv, [MirrorNext]_mirrorVars PROVE MapInv'
  OBVIOUS
<1> DEFINE mapVars == <<tipSlot, writes, stage, stamp, pos, last, entry>>
<1>1. MapTypes /\ Len(writes) \in Nat \ {0} /\ Newest \in Writes
  BY NewestIsWrite DEF MapInv
<1>2. CASE ChainWrite
  BY <1>1, <1>2, ChainWriteIsWrite, WriteKeepsMap, Zenon
<1>3. CASE ChainTick
  <2>1. /\ tipSlot' = tipSlot + 1 /\ tipSlot < LastTip
        /\ UNCHANGED <<writes, stage, stamp, pos, last, entry>>
    BY <1>3 DEF ChainTick
  <2>2. tipSlot' \in 0..LastTip /\ stamp' \in 0..tipSlot' /\ tipSlot \in Int
    BY <1>1, <2>1, MirrorConstants DEF MapTypes
  <2>3. MapTypes'
    BY <1>1, <2>1, <2>2, Zenon DEF MapTypes
  <2>4. \A k \in 1..Len(writes) : writes[k].slot \in Int
    BY <1>1, NewestIsWrite, MirrorConstants DEF Writes
  <2>5. \A k \in 1..Len(writes) : writes[k].slot <= tipSlot => writes[k].slot <= tipSlot'
    BY <2>1, <2>2, <2>4
  <2>6. entry.slot <= tipSlot => entry.slot <= tipSlot'
    BY <1>1, <2>1, <2>2, MirrorConstants DEF MapTypes, Writes
  <2>7. LogOK(writes', tipSlot') /\ EntryOK(entry', writes', tipSlot')
    BY <2>1, <2>5, <2>6, Zenon DEF MapInv, LogOK, EntryOK
  <2> QED
    BY <2>1, <2>3, <2>7, Zenon DEF MapInv, NewestWriteIsKept, Newest
<1>4. ASSUME NEW s \in {0, tipSlot}, GetSlot(s) PROVE MapInv'
  <2>1. /\ stage = "start" /\ stage' = "stamped" /\ stamp' = s
        /\ UNCHANGED <<tipSlot, writes, pos, last, entry>>
    BY <1>4 DEF GetSlot
  <2>2. s \in 0..tipSlot
    BY <1>1 DEF MapTypes
  <2>3. stage' # "live" /\ stage # "live"
    BY <2>1
  <2>4. MapTypes'
    BY <1>1, <2>1, <2>2, Zenon DEF MapTypes
  <2> QED
    BY <2>1, <2>3, <2>4, Zenon DEF MapInv, NewestWriteIsKept
<1>5. CASE SyncUserAccounts
  <2>1. /\ stage = "stamped" /\ stage' = "seeded"
        /\ UNCHANGED <<tipSlot, writes, stamp, pos, last>>
        /\ Newest.live => entry' = [Newest EXCEPT !.slot = stamp]
        /\ ~Newest.live => entry' = entry
    BY <1>5 DEF SyncUserAccounts
  <2>2. stage' # "live" /\ stage # "live" /\ stage' \notin {"start", "stamped"}
    BY <2>1
  <2>3. stamp \in 0..LastTip /\ stamp <= tipSlot
    BY <1>1, MirrorConstants DEF MapTypes
  <2>4. entry' \in Writes /\ EntryOK(entry', writes, tipSlot)
    <3>1. CASE Newest.live
      <4> DEFINE e == [Newest EXCEPT !.slot = stamp]
      <4>1. e \in Writes /\ e.live /\ e.orders = Newest.orders /\ e.slot = stamp
        BY <1>1, <2>3, <3>1 DEF Writes
      <4> HIDE DEF e
      <4>2. EntryOK(e, writes, tipSlot)
        BY <1>1, <2>3, <3>1, <4>1, EntryShows DEF Newest
      <4> QED
        BY <2>1, <3>1, <4>1, <4>2 DEF e
    <3>2. CASE ~Newest.live
      BY <1>1, <2>1, <3>2, Zenon DEF MapInv, MapTypes
    <3> QED
      BY <3>1, <3>2
  <2>5. MapTypes'
    BY <1>1, <2>1, <2>4, Zenon DEF MapTypes
  <2> QED
    BY <2>1, <2>2, <2>4, <2>5, Zenon DEF MapInv, NewestWriteIsKept
<1>6. CASE SyncFails
  <2>1. stage = "stamped" /\ stage' = "seeded" /\ UNCHANGED <<tipSlot, writes, stamp, pos, last, entry>>
    BY <1>6 DEF SyncFails
  <2>2. stage' # "live" /\ stage # "live" /\ stage' \notin {"start", "stamped"}
    BY <2>1
  <2>3. MapTypes'
    BY <1>1, <2>1, Zenon DEF MapTypes
  <2> QED
    BY <2>1, <2>2, <2>3, Zenon DEF MapInv, NewestWriteIsKept
<1>7. ASSUME NEW n \in 0..Len(writes), Connect(n) PROVE MapInv'
  <2>1. /\ stage' = "live" /\ stage \in {"seeded", "live"} /\ pos' = n
        /\ UNCHANGED <<tipSlot, writes, stamp, last, entry>>
    BY <1>7 DEF Connect
  <2>2. stage' \notin {"start", "stamped"} /\ (stage = "seeded" => stage # "live")
    BY <2>1
  <2>3. MapTypes'
    BY <1>1, <2>1, Zenon DEF MapTypes
  <2>4. stage # "live" => last # Len(writes)
    BY <1>1 DEF MapInv
  <2>5. NewestWriteIsKept'
    BY <2>1, <2>4, Zenon DEF MapInv, NewestWriteIsKept, Newest
  <2> QED
    BY <2>1, <2>2, <2>3, <2>5, Zenon DEF MapInv
<1>8. CASE UNCHANGED mapVars
  BY <1>8, Zenon DEF MapInv, MapTypes, NewestWriteIsKept, Newest
<1>9. ASSUME NEW s \in 1..tipSlot, DeliverSlot(s) PROVE UNCHANGED mapVars
  BY <1>9, Zenon DEF DeliverSlot
<1>10. ApplyDeltas \/ UpdateSlot \/ UNCHANGED mirrorVars => UNCHANGED mapVars
  BY Zenon DEF ApplyDeltas, UpdateSlot, mirrorVars
<1> HIDE DEF mapVars
<1> QED
  BY <1>2, <1>3, <1>4, <1>5, <1>6, <1>7, <1>8, <1>9, <1>10, DeliverKeepsMap, Zenon DEF MirrorNext

-----------------------------------------------------------------------------
(* The book follows *)

\* What the hook sends leads the book from the map's old orders to its new
\* ones; it sends nothing only when there is nothing to change.
LEMMA UpdateLeads ==
    ASSUME NEW e \in Writes, ~e.live => e.orders = NoOrders, NEW new \in OrderSets,
           NEW s \in 0..LastTip, queue \in Seq(Events),
           Leads(queue, book, metadata, bookSlot, e.orders)
    PROVE  /\ UserUpdate(e, new, s) \in Seq(Events)
           /\ Leads(UserUpdate(e, new, s), book, metadata, bookSlot, new)
<1> DEFINE old == e.orders
           gone == GoneOrders(old, new)
           v == [type |-> "deltas", gone |-> gone, made |-> new, slot |-> s]
<1>1. old \in OrderSets
  BY Zenon DEF Writes
<1>2. gone \in OrderSets
  BY <1>1, NoOrdersIsOrders, Zenon DEF GoneOrders, OrderSets, Orders
<1>3. (IF e.live THEN gone ELSE NoOrders) = gone
  <2>1. GoneOrders(NoOrders, new) = NoOrders
    BY Zenon DEF GoneOrders, NoOrders
  <2> QED
    BY <2>1, Zenon
<1>4. gone = NoOrders /\ new = NoOrders => old = NoOrders
  <2> SUFFICES ASSUME gone = NoOrders, new = NoOrders, NEW i \in OrderIds
               PROVE  old[i] = NoOrder
    BY <1>1, Zenon DEF OrderSets, NoOrders
  <2>1. gone[i] = NoOrder /\ new[i] = NoOrder
    BY Zenon DEF NoOrders
  <2> QED
    BY <2>1, Zenon DEF GoneOrders
<1> HIDE DEF gone
<1>5. v \in Events /\ v.type # "slot" /\ v.made = new /\ v.gone = gone
  BY <1>2, Zenon DEF Events
<1>6. Append(queue, v) \in Seq(Events) /\ Leads(Append(queue, v), book, metadata, bookSlot, new)
  <2> HIDE DEF v, old
  <2> QED
    BY <1>1, <1>5, SendLeads, Zenon DEF gone, old
<1> QED
  BY <1>3, <1>4, <1>6 DEF UserUpdate, gone

\* The same about the book's own queue.
LEMMA NextEvent ==
    ASSUME BookInv, queue # <<>>
    PROVE  \E old \in OrderSets, new \in OrderSets :
             /\ Holds(book, metadata, bookSlot, old)
             /\ IF queue[1].type = "slot" THEN new = old
                ELSE queue[1].made = new /\ queue[1].gone = GoneOrders(old, new)
             /\ \A b2, ids2, s2 : Holds(b2, ids2, s2, new)
                                    => Leads(Tail(queue), b2, ids2, s2, entry.orders)
<1>1. queue \in Seq(Events)
  BY DEF BookInv
<1>2. Leads(queue, book, metadata, bookSlot, entry.orders)
  BY DEF BookInv
<1> QED
  BY <1>1, <1>2, FirstEvent

\* Applying a delta.
LEMMA ApplyKeepsBook ==
    ASSUME BookInv, ApplyDeltas PROVE BookInv'
<1> DEFINE v == queue[1]
<1>1. /\ queue # <<>> /\ v.type = "deltas" /\ queue' = Tail(queue)
      /\ book' = WithMade(WithoutGone(book, v.gone), v.made, v.slot)
      /\ metadata' = (metadata \ IdsIn(v.gone)) \cup IdsIn(v.made)
      /\ UNCHANGED <<tipSlot, entry, sentSlot, bookSlot>>
  BY DEF ApplyDeltas
<1>2. /\ queue \in Seq(Events) /\ book \in Books
      /\ Leads(queue, book, metadata, bookSlot, entry.orders)
  BY Zenon DEF BookInv
<1>3. v \in Events /\ Tail(queue) \in Seq(Events)
  BY <1>1, <1>2, FirstEvent
<1>4. PICK old \in OrderSets, new \in OrderSets :
        /\ Holds(book, metadata, bookSlot, old)
        /\ IF queue[1].type = "slot" THEN new = old
           ELSE queue[1].made = new /\ queue[1].gone = GoneOrders(old, new)
        /\ \A b2, ids2, s2 : Holds(b2, ids2, s2, new)
                               => Leads(Tail(queue), b2, ids2, s2, entry.orders)
  BY <1>1, NextEvent, Zenon
<1>5. v.made = new /\ v.gone = GoneOrders(old, new)
  BY <1>1, <1>4, Zenon
<1> HIDE DEF v
<1>6. ASSUME NEW i \in OrderIds
      PROVE  Copied(book', bookSlot, i, new[i]) /\ (i \in metadata' <=> new[i] # NoOrder)
  <2>1. Copied(book, bookSlot, i, old[i]) /\ (i \in metadata <=> old[i] # NoOrder)
    BY <1>4, Zenon DEF Holds
  <2>2. Copied(book', bookSlot, i, new[i])
    BY <1>1, <1>2, <1>5, <2>1, DeltasCopy, Zenon DEF OrderSets
  <2>3. GoneOrders(old, new)[i] = IF new[i] = NoOrder \/ new[i].triggered # old[i].triggered
                                  THEN old[i] ELSE NoOrder
    BY DEF GoneOrders
  <2>4. i \in metadata' <=> new[i] # NoOrder
    BY <1>1, <1>5, <2>1, <2>3, Zenon DEF IdsIn
  <2> QED
    BY <2>2, <2>4, Zenon
<1>7. book' \in Books
  <2>1. \A c \in Collections, i \in OrderIds : book[c][i] \in Orders
    BY <1>2 DEF Books
  <2>2. NoOrder \in Orders /\ \A i \in OrderIds : new[i] \in Orders
    BY Zenon DEF Orders, OrderSets
  <2>3. \A c \in Collections, i \in OrderIds : WithoutGone(book, v.gone)[c][i] \in Orders
    BY <2>1, <2>2, Zenon DEF WithoutGone
  <2>4. \A c \in Collections, i \in OrderIds :
          (IF new[i] # NoOrder /\ HomeOf(i, new[i], v.slot) = c THEN new[i]
           ELSE WithoutGone(book, v.gone)[c][i]) \in Orders
    BY <2>2, <2>3, Zenon
  <2> QED
    BY <1>1, <1>5, <2>4, Zenon DEF Books, WithMade
<1>8. metadata' \subseteq OrderIds
  BY <1>1 DEF BookInv, IdsIn
<1>9. Leads(Tail(queue), book', metadata', bookSlot, entry.orders)
  BY <1>4, <1>6, Zenon DEF Holds
<1> QED
  BY <1>1, <1>3, <1>7, <1>8, <1>9, Zenon DEF BookInv

\* Taking note of a slot.
LEMMA SlotKeepsBook ==
    ASSUME BookInv, UpdateSlot PROVE BookInv'
<1> DEFINE v == queue[1]
<1>1. /\ queue # <<>> /\ v.type = "slot" /\ queue' = Tail(queue)
      /\ IF v.slot < bookSlot THEN UNCHANGED <<book, bookSlot>>
         ELSE book' = AuctionsExpired(book, v.slot) /\ bookSlot' = v.slot
      /\ UNCHANGED <<tipSlot, entry, sentSlot, metadata>>
  BY DEF UpdateSlot
<1>2. /\ queue \in Seq(Events) /\ book \in Books /\ bookSlot \in 0..LastTip
      /\ Leads(queue, book, metadata, bookSlot, entry.orders)
  BY Zenon DEF BookInv
<1>3. v \in Events /\ Tail(queue) \in Seq(Events)
  BY <1>1, <1>2, FirstEvent
<1>4. v.slot \in 0..LastTip /\ LastTip \in Nat
  BY <1>3, MirrorConstants, Zenon DEF Events
<1>5. PICK old \in OrderSets :
        /\ Holds(book, metadata, bookSlot, old)
        /\ \A b2, ids2, s2 : Holds(b2, ids2, s2, old)
                               => Leads(Tail(queue), b2, ids2, s2, entry.orders)
  <2>1. PICK old \in OrderSets, new \in OrderSets :
          /\ Holds(book, metadata, bookSlot, old)
          /\ IF v.type = "slot" THEN new = old ELSE v.made = new /\ v.gone = GoneOrders(old, new)
          /\ \A b2, ids2, s2 : Holds(b2, ids2, s2, new)
                                 => Leads(Tail(queue), b2, ids2, s2, entry.orders)
    BY <1>1, NextEvent, Zenon
  <2>2. new = old
    BY <1>1, <2>1
  <2> QED
    BY <2>1, <2>2
<1> HIDE DEF v
<1>6. CASE v.slot < bookSlot
  <2>1. book' = book /\ bookSlot' = bookSlot
    BY <1>1, <1>6
  <2> QED
    BY <1>1, <1>3, <1>5, <2>1, Zenon DEF BookInv
<1>7. CASE ~(v.slot < bookSlot)
  <2>1. /\ book' = AuctionsExpired(book, v.slot) /\ bookSlot' = v.slot
        /\ bookSlot \in Nat /\ v.slot \in Nat /\ bookSlot <= v.slot
    BY <1>1, <1>2, <1>4, <1>7
  <2>2. ASSUME NEW i \in OrderIds
        PROVE  Copied(book', bookSlot', i, old[i]) /\ (i \in metadata' <=> old[i] # NoOrder)
    <3>1. Copied(book, bookSlot, i, old[i]) /\ (i \in metadata <=> old[i] # NoOrder)
      BY <1>5 DEF Holds
    <3>2. old[i] \in Orders
      BY DEF OrderSets
    <3> QED
      BY <1>1, <1>2, <2>1, <3>1, <3>2, SlotKeepsCopies
  <2>3. book' \in Books
    <3>1. \A c \in Collections, i \in OrderIds : book[c][i] \in Orders
      BY <1>2 DEF Books
    <3>2. NoOrder \in Orders /\ {"resting", "market"} \subseteq Collections
      BY DEF Orders, Collections
    <3>3. /\ [i \in OrderIds |-> IF Rests(i, book["market"][i], v.slot) THEN book["market"][i]
                                 ELSE book["resting"][i]] \in [OrderIds -> Orders]
          /\ [i \in OrderIds |->
               LET o == book["market"][i]
               IN IF Over(i, o, v.slot) /\ (PastLife(i, o, v.slot) \/ Rests(i, o, v.slot))
                  THEN NoOrder ELSE o] \in [OrderIds -> Orders]
      BY <3>1, <3>2
    <3> QED
      BY <1>2, <2>1, <3>2, <3>3, Zenon DEF Books, AuctionsExpired
  <2>4. Leads(Tail(queue), book', metadata', bookSlot', entry.orders)
    BY <1>5, <2>2, Zenon DEF Holds
  <2> QED
    BY <1>1, <1>3, <1>4, <2>1, <2>3, <2>4, Zenon DEF BookInv
<1> QED
  BY <1>6, <1>7, Zenon

\* Every step keeps the book's side.
LEMMA BookKept ==
    MapInv /\ BookInv /\ [MirrorNext]_mirrorVars => BookInv'
<1> SUFFICES ASSUME MapInv, BookInv, [MirrorNext]_mirrorVars PROVE BookInv'
  OBVIOUS
<1> DEFINE bookVars == <<book, metadata, bookSlot>>
           orders == entry.orders
<1>1. MapTypes /\ (~entry.live => entry.orders = NoOrders) /\ entry \in Writes
  BY DEF MapInv, EntryOK, MapTypes
<1>2. /\ queue \in Seq(Events) /\ sentSlot \in 0..tipSlot
      /\ Leads(queue, book, metadata, bookSlot, entry.orders)
  BY Zenon DEF BookInv
<1>3. tipSlot \in 0..LastTip /\ LastTip \in Nat /\ Len(writes) \in Nat \ {0} /\ Newest \in Writes
      /\ \A k \in 1..Len(writes) : writes[k] \in Writes
  BY <1>1, NewestIsWrite, MirrorConstants DEF MapTypes
<1>4. CASE SyncUserAccounts
  <2>1. /\ stage = "stamped" /\ UNCHANGED <<tipSlot, sentSlot, book, metadata, bookSlot>>
        /\ IF Newest.live
           THEN /\ entry' = [Newest EXCEPT !.slot = stamp]
                /\ queue' = UserUpdate(Absent, Newest.orders, stamp)
           ELSE UNCHANGED <<entry, queue>>
    BY <1>4 DEF SyncUserAccounts
  <2>2. entry = Absent
    BY <2>1 DEF MapInv
  <2>3. CASE Newest.live
    <3>1. Newest.orders \in OrderSets /\ stamp \in 0..LastTip /\ entry'.orders = Newest.orders
      BY <1>1, <1>3, <2>1, <2>3 DEF Writes, MapTypes
    <3>2. queue' \in Seq(Events) /\ Leads(queue', book, metadata, bookSlot, Newest.orders)
      BY <1>1, <1>2, <2>1, <2>2, <2>3, <3>1, UpdateLeads, Zenon
    <3> QED
      BY <2>1, <3>1, <3>2, Zenon DEF BookInv
  <2>4. CASE ~Newest.live
    BY <2>1, <2>4, Zenon DEF BookInv
  <2> QED
    BY <2>3, <2>4
<1>5. CASE Deliver
  <2> DEFINE u == writes[pos + 1]
  <2>1. /\ pos < Len(writes) /\ UNCHANGED <<tipSlot, sentSlot, book, metadata, bookSlot>>
        /\ queue' = AccountUpdateHandler(entry, u) /\ entry' = GrpcOnAccount(entry, u)
    BY <1>5 DEF Deliver
  <2>2. pos + 1 \in 1..Len(writes)
    BY <1>1, <1>3, <2>1 DEF MapTypes
  <2>3. /\ u.orders \in OrderSets /\ u.slot \in 0..LastTip
        /\ ~u.live => u.orders = NoOrders
    BY <1>3, <2>2 DEF Writes, MapInv, LogOK
  <2> HIDE DEF u
  <2>4. CASE (u.live /\ IsStale(entry, u)) \/ (~u.live /\ ~entry.live)
    <3>1. queue' = queue /\ entry'.orders = entry.orders
      BY <1>1, <2>1, <2>4 DEF AccountUpdateHandler, GrpcOnAccount, Absent
    <3> QED
      BY <2>1, <3>1, Zenon DEF BookInv
  <2>5. CASE ~((u.live /\ IsStale(entry, u)) \/ (~u.live /\ ~entry.live))
    <3>1. queue' = UserUpdate(entry, u.orders, u.slot)
      BY <2>1, <2>5 DEF AccountUpdateHandler
    <3>2. entry'.orders = u.orders
      BY <2>1, <2>3, <2>5 DEF GrpcOnAccount, Absent
    <3>3. queue' \in Seq(Events) /\ Leads(queue', book, metadata, bookSlot, u.orders)
      BY <1>1, <1>2, <2>3, <3>1, UpdateLeads, Zenon
    <3> QED
      BY <2>1, <3>2, <3>3, Zenon DEF BookInv
  <2> QED
    BY <2>4, <2>5
<1>6. ASSUME NEW s \in 1..tipSlot, DeliverSlot(s) PROVE BookInv'
  <2> DEFINE v == [type |-> "slot", slot |-> s]
  <2>1. /\ sentSlot' = s /\ queue' = Append(queue, v)
        /\ UNCHANGED <<tipSlot, entry, book, metadata, bookSlot>>
    BY <1>6 DEF DeliverSlot
  <2>2. s \in 0..tipSlot /\ s \in 0..LastTip
    BY <1>3
  <2>3. v \in Events /\ v.type = "slot"
    BY <2>2 DEF Events
  <2>4. entry.orders \in OrderSets
    BY <1>1, Zenon DEF Writes
  <2> HIDE DEF v
  <2>5. queue' \in Seq(Events) /\ Leads(queue', book, metadata, bookSlot, entry.orders)
    BY <1>2, <2>1, <2>3, <2>4, SendLeads
  <2> QED
    BY <2>1, <2>2, <2>5, Zenon DEF BookInv
<1> DEFINE Quiet == /\ UNCHANGED <<entry, queue, sentSlot, book, metadata, bookSlot>>
                    /\ tipSlot' \in {tipSlot, tipSlot + 1}
<1>7. CASE Quiet
  <2>1. sentSlot' \in 0..tipSlot'
    BY <1>2, <1>3, <1>7
  <2> QED
    BY <1>7, <2>1, Zenon DEF BookInv
<1>8. ChainTick \/ SyncFails \/ UNCHANGED mirrorVars => Quiet
  BY Zenon DEF ChainTick, SyncFails, mirrorVars
<1>9. \A s : GetSlot(s) \/ Connect(s) => Quiet
  BY Zenon DEF GetSlot, Connect
<1>10. ChainWrite => Quiet
  <2>1. \A live, os : Write(live, os) => Quiet
    BY Zenon DEF Write
  <2> HIDE DEF Quiet
  <2> QED
    BY <2>1, Zenon DEF ChainWrite
<1> HIDE DEF Quiet
<1> QED
  BY <1>4, <1>5, <1>6, <1>7, <1>8, <1>9, <1>10, ApplyKeepsBook, SlotKeepsBook, Zenon
     DEF MirrorNext

LEMMA MirrorStarts == MirrorInit => MapInv /\ BookInv
<1> SUFFICES ASSUME MirrorInit PROVE MapInv /\ BookInv
  OBVIOUS
<1>0. PICK live \in BOOLEAN : writes = <<[slot |-> 0, live |-> live, orders |-> NoOrders]>>
  BY Zenon DEF MirrorInit
<1> DEFINE u == [slot |-> 0, live |-> live, orders |-> NoOrders]
<1>1. /\ tipSlot = 0 /\ writes = <<u>> /\ stage = "start" /\ stamp = 0 /\ pos = 0 /\ last = 0
      /\ entry = Absent /\ queue = <<>> /\ sentSlot = 0 /\ metadata = {} /\ bookSlot = 0
      /\ book = [c \in Collections |-> NoOrders]
  BY <1>0, Zenon DEF MirrorInit
<1>2. u \in Writes /\ u.slot = 0 /\ u.orders = NoOrders /\ LastTip \in Nat
  BY NoOrdersIsOrders, MirrorConstants DEF Writes
<1>3. Absent \in Writes /\ ~Absent.live /\ Absent.orders = NoOrders
  BY NoOrdersIsOrders, MirrorConstants DEF Absent, Writes
<1> HIDE DEF u
<1>4. writes \in Seq(Writes) /\ Len(writes) = 1 /\ writes[1] = u
  BY <1>1, <1>2
<1>5. MapTypes
  BY <1>1, <1>2, <1>3, <1>4 DEF MapTypes
<1>6. LogOK(writes, tipSlot)
  BY <1>1, <1>2, <1>4 DEF LogOK
<1>7. EntryOK(entry, writes, tipSlot)
  BY <1>1, <1>3, Zenon DEF EntryOK
<1>8. stage # "live"
  BY <1>1
<1>9. MapInv
  BY <1>1, <1>5, <1>6, <1>7, <1>8, Zenon DEF MapInv, NewestWriteIsKept
<1>10. book \in Books /\ \A c \in Collections, i \in OrderIds : book[c][i] = NoOrder
  BY <1>1, Zenon DEF Books, NoOrders, Orders
<1>11. Holds(book, metadata, bookSlot, NoOrders)
  BY <1>1, <1>10 DEF Holds, Copied, NoOrders
<1>12. Leads(queue, book, metadata, bookSlot, entry.orders)
  <2> DEFINE m == [k \in 0..0 |-> NoOrders]
  <2>1. Len(queue) = 0 /\ 1..0 = {} /\ m \in [0..0 -> OrderSets] /\ m[0] = NoOrders
    BY <1>1, NoOrdersIsOrders
  <2> HIDE DEF m
  <2>2. Path(queue, m)
    BY <2>1 DEF Path
  <2> QED
    BY <1>1, <1>3, <1>11, <2>1, <2>2, Zenon DEF Leads
<1>13. queue \in Seq(Events) /\ sentSlot \in 0..tipSlot /\ bookSlot \in 0..LastTip /\ metadata \subseteq OrderIds
  BY <1>1, <1>2
<1> QED
  BY <1>9, <1>10, <1>12, <1>13 DEF BookInv

\* The inductive invariant of the mirror: the log of writes, the map's copy,
\* and the events under way that lead the book to it.
THEOREM MirrorInvariant == MirrorSpec => [](MapInv /\ BookInv)
BY MirrorStarts, MapKept, BookKept, PTL DEF MirrorSpec

\* Whatever stale, repeated or skipped updates the stream brings, for any
\* orders, slots and reconnections: once the events under way are applied the
\* book holds exactly the orders of the map's copy, and when the newest write
\* has been delivered the map shows it.
THEOREM BookAlwaysFollowsMap == MirrorSpec => []BookFollowsMap
<1>1. MapInv /\ BookInv => BookFollowsMap
  <2> SUFFICES ASSUME MapInv, BookInv PROVE BookFollowsMap
    OBVIOUS
  <2>1. MirrorTypeOK
    <3>1. /\ {tipSlot, stamp, sentSlot, bookSlot} \subseteq 0..LastTip
      BY MirrorConstants DEF MapInv, MapTypes, BookInv
    <3> QED
      BY <3>1, Zenon DEF MirrorTypeOK, MapInv, MapTypes, BookInv, Books, Writes, OrderSets
  <2>2. BookAgrees
    <3> SUFFICES ASSUME queue = <<>> PROVE Holds(book, metadata, bookSlot, entry.orders)
      BY Zenon DEF BookAgrees, Holds, Copied
    <3>1. PICK m : m[Len(queue)] = entry.orders /\ Holds(book, metadata, bookSlot, m[0])
      BY Zenon DEF BookInv, Leads
    <3>2. Len(queue) = 0
      OBVIOUS
    <3> QED
      BY <3>1, <3>2, Zenon
  <2> QED
    BY <2>1, <2>2, Zenon DEF BookFollowsMap, MapInv
<1> QED
  BY <1>1, MirrorInvariant, PTL
=============================================================================
