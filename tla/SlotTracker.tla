---------------------------- MODULE SlotTracker ----------------------------
(***************************************************************************)
(* The slot the swift servers go by (SuperSlotSubscriber): several         *)
(* websocket subscriptions write one atomic, each by a load, a comparison  *)
(* and a store, and a monitor polls the RPC node when the value has not    *)
(* grown since its last look.                                              *)
(*                                                                         *)
(* Callbacks of different subscriptions run on different threads.  A       *)
(* subscription may fall silent for ever.                                  *)
(***************************************************************************)
EXTENDS Integers, FiniteSetsExt

CONSTANTS
    Subscriptions,
    TipLimit,    \* slots the cluster produces
    NodeLag,     \* slots a node may be behind the cluster
    PollFailures \* polls that may fail

VARIABLES
    tip,        \* the cluster's slot
    current,    \* SuperSlotSubscriber.current_slot
    stale,      \* SuperSlotSubscriber.is_stale
    lastCheck,  \* last_check_slot of the monitor
    callback,   \* per subscription: the slot received and the value loaded
    polling,    \* the value the monitor looked at, while it waits for the node
    failures,   \* polls that failed so far
    handed,     \* per subscription: slot of its last finished callback
    polled      \* the oldest answer the monitor has stored, if any

trackerVars == <<tip, current, stale, lastCheck, callback, polling, failures, handed, polled>>

ASSUME TrackerConstants ==
    /\ Subscriptions # {}
    /\ {TipLimit, NodeLag, PollFailures} \subseteq Nat

Idle == [new |-> 0, seen |-> 0]
NotPolling == -1

NodeSlots == {n \in 0..tip : n >= tip - NodeLag}

ClusterTick ==
    /\ tip < TipLimit
    /\ tip' = tip + 1
    /\ UNCHANGED <<current, stale, lastCheck, callback, polling, failures, handed, polled>>

\* A notification arrives, of any slot its node may be at, and its callback
\* loads the current slot.
OnSlot(s, n) ==
    /\ callback[s] = Idle
    /\ callback' = [callback EXCEPT ![s] = [new |-> n, seen |-> current]]
    /\ UNCHANGED <<tip, current, stale, lastCheck, polling, failures, handed, polled>>

\* Faulty: a slot that is only one ahead is taken for the same slot.
NewerByTwo(c) == c.new > c.seen + 1

Newer(c) == c.new > c.seen

\* The callback stores what it received if that beats what it loaded.
StoreSlot(s) ==
    /\ callback[s] # Idle
    /\ current' = IF Newer(callback[s]) THEN callback[s].new ELSE current
    /\ handed' = [handed EXCEPT ![s] = callback[s].new]
    /\ callback' = [callback EXCEPT ![s] = Idle]
    /\ UNCHANGED <<tip, stale, lastCheck, polling, failures, polled>>

\* Faulty: a value that stands still is not noticed.
WentBack(now, before) == now < before

StoodStill(now, before) == now <= before

\* The minute is over: a value that has grown clears the flag.
MonitorTick ==
    /\ polling = NotPolling
    /\ IF StoodStill(current, lastCheck)
       THEN stale' = TRUE /\ polling' = current /\ UNCHANGED lastCheck
       ELSE stale' = FALSE /\ lastCheck' = current /\ UNCHANGED polling
    /\ UNCHANGED <<tip, current, callback, failures, handed, polled>>

\* The node's answer replaces the slot, whatever was stored meanwhile.
PollAnswer(n) ==
    /\ polling # NotPolling
    /\ current' = n
    /\ stale' = FALSE
    /\ lastCheck' = polling
    /\ polling' = NotPolling
    /\ polled' = {Min(polled \cup {n})}
    /\ UNCHANGED <<tip, callback, failures, handed>>

PollFails ==
    /\ polling # NotPolling
    /\ failures < PollFailures
    /\ failures' = failures + 1
    /\ lastCheck' = polling
    /\ polling' = NotPolling
    /\ UNCHANGED <<tip, current, stale, callback, handed, polled>>

TrackerInit ==
    /\ tip = 0
    /\ current = 0
    /\ stale = FALSE
    /\ lastCheck = 0
    /\ callback = [s \in Subscriptions |-> Idle]
    /\ polling = NotPolling
    /\ failures = 0
    /\ handed = [s \in Subscriptions |-> 0]
    /\ polled = {}

Answered == \E n \in NodeSlots : PollAnswer(n)

TrackerNext ==
    \/ ClusterTick
    \/ \E s \in Subscriptions : \E n \in NodeSlots : OnSlot(s, n)
    \/ \E s \in Subscriptions : StoreSlot(s)
    \/ MonitorTick
    \/ Answered
    \/ PollFails

TrackerSpec == TrackerInit /\ [][TrackerNext]_trackerVars

-----------------------------------------------------------------------------
TrackerTypeOK ==
    /\ {tip, current, lastCheck} \subseteq 0..TipLimit
    /\ stale \in BOOLEAN
    /\ callback \in [Subscriptions -> [new : 0..TipLimit, seen : 0..TipLimit]]
    /\ polling \in -1..TipLimit
    /\ handed \in [Subscriptions -> 0..TipLimit]
    /\ polled \subseteq 0..TipLimit

\* The slot the servers judge orders by is never behind every source that
\* feeds it: although the comparison and the store are apart and a late store
\* can take the slot back, it stays at or above the slowest subscription or
\* the oldest polled answer.
NotBehindTheSlowest ==
    TrackerTypeOK /\ current >= Min({handed[s] : s \in Subscriptions} \cup polled)

\* The servers reach the cluster's last slot up to a node's lag, even with
\* every subscription silent or its callback stuck: the monitor notices a value
\* that stands still and polls.  A server that reports itself unhealthy for a
\* stale slot recovers.
SlotCatchesUp == <>[](current >= TipLimit - NodeLag) /\ (stale ~> ~stale)
=============================================================================
