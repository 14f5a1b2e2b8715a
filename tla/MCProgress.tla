----------------------------- MODULE MCProgress -----------------------------
(***************************************************************************)
(* Five instances for TLC that share a run.  One is the budget of the      *)
(* small accounts' exception to the withdrawal limits.  Of the other four  *)
(* something must eventually happen: the wind-down of a market's pools     *)
(* (MCPerpPools), the recording of the slot gates, the slot of the swift   *)
(* servers and the user map cache.  A behaviour runs one of them; the      *)
(* others stay in one initial state.                                       *)
(***************************************************************************)
EXTENDS MCSpotSmallAccounts, MCPerpPools, SlotClock, SlotTracker, UsermapCache

VARIABLE which

smallVars == vars
marketVars == <<smallVars, poolsVars>>
serviceVars == <<clockVars, trackerVars, cacheVars>>
progressVars == <<which, marketVars, serviceVars>>

\* Two gates that start a regime at the same slot, and a clock that starts
\* without history, in a regime it has no boundary of, or half way to one.
MCGates == {1, 2, 4}
MCEffectiveSlot == [g \in MCGates |-> IF g = 1 THEN 3 ELSE 6]
MCLegacyStarts ==
    {[base |-> 0, pending |-> 0, effective |-> 0],
     [base |-> 300, pending |-> 0, effective |-> 0],
     [base |-> 350, pending |-> 300, effective |-> 4]}

ProgressInit ==
    /\ which \in {"accounts", "pools", "clock", "tracker", "cache"}
    /\ SmallAccountsInit
    /\ MCInit /\ (which # "pools" => pools.share = 0 /\ below = {})
    /\ ClockInit /\ (which # "clock" => legacy.base = 0)
    /\ TrackerInit
    /\ CacheInit /\ (which # "cache" => Alive)

OfAccounts(A) == which = "accounts" /\ A /\ UNCHANGED <<which, poolsVars, serviceVars>>
OfPools(A) == which = "pools" /\ A /\ UNCHANGED <<which, smallVars, serviceVars>>
OfClock(A) == which = "clock" /\ A /\ UNCHANGED <<which, marketVars, trackerVars, cacheVars>>
OfTracker(A) == which = "tracker" /\ A /\ UNCHANGED <<which, marketVars, clockVars, cacheVars>>
OfCache(A) == which = "cache" /\ A /\ UNCHANGED <<which, marketVars, clockVars, trackerVars>>

ProgressNext ==
    \/ OfAccounts(SmallAccountsNext)
    \/ OfPools(PoolsNext)
    \/ OfClock(ClockNext)
    \/ OfTracker(TrackerNext)
    \/ OfCache(CacheNext)

-----------------------------------------------------------------------------
\* PoolsFairness: the instructions anyone may send are sent once the market is
\* in settlement.
Sent(A) == OfPools(InSettlement /\ A)

PoolsAreCranked ==
    /\ WF_poolsVars(Sent(SettleRevenueShare(Beneficiaries, FALSE)))
    /\ \A i \in RowIds : WF_poolsVars(Sent(ForfeitRevenueShareOrder(i)))
    /\ \A b \in Beneficiaries : WF_poolsVars(Sent(InitializeRevenueShare(b)))
    /\ \A u \in Traders :
         WF_poolsVars(Sent(\E cut \in CloseoutFees : SettleExpired(u, cut)))
    /\ WF_poolsVars(Sent(SettlementWaitEnds)) /\ WF_poolsVars(Sent(EscrowWindowEnds))

\* Slots pass, and anybody may record a gate.
GatesAreTried ==
    /\ WF_clockVars(OfClock(Tick))
    /\ \A g \in Gates : WF_clockVars(OfClock(SyncStateSlotDuration(g)))

\* The cluster goes on, the monitor's timer fires and a poll that is not one
\* of the failures is answered.  Of the subscriptions nothing is assumed.
MonitorRuns ==
    /\ WF_trackerVars(OfTracker(ClusterTick))
    /\ WF_trackerVars(OfTracker(MonitorTick))
    /\ WF_trackerVars(OfTracker(Answered))

\* The interval fires, and a callback, handler or pruner that has begun goes
\* on.  That the stream delivers is not assumed.
CacheServers ==
    /\ WF_cacheVars(OfCache(Interval))
    /\ \A j \in Jobs : WF_cacheVars(OfCache(JobStep(j)))
    /\ WF_cacheVars(OfCache(HandlerWrites))
    /\ WF_cacheVars(OfCache(PrunerDeletes \/ PrunerUnlists))

ProgressSpec ==
    /\ ProgressInit /\ [][ProgressNext]_progressVars
    /\ PoolsAreCranked /\ GatesAreTried /\ MonitorRuns /\ CacheServers

-----------------------------------------------------------------------------
\* In settlement every revenue share row is paid or written off without the
\* help of the escrow owner or the administrator, unless bad debt or a pool
\* short of the users' claims lasts for ever (RowsEndOrMarketInsolvent, of the
\* behaviours of the pools).
RowsEnd == which = "pools" => RowsEndOrMarketInsolvent

\* Every activated gate is eventually recorded, whatever the staging fields
\* said at first and in whatever order the gates are tried.
AllGatesRecorded == which = "clock" => GatesRecorded

\* Whatever slot the cluster reaches, the servers reach it up to a node's
\* lag, even with every subscription silent or its callback stuck: the
\* monitor notices a value that stands still and polls, and a server that
\* reports itself unhealthy for it recovers.
ServersCatchUp == which = "tracker" => SlotCatchesUp

\* Once the account stops changing, the cache comes to hold its last state and
\* the list its key, or neither if it is gone, and they stay so.
CacheConverges == which = "cache" => CacheSettles
=============================================================================
