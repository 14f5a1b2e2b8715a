--------------------------- MODULE UsermapCache ----------------------------
(***************************************************************************)
(* The user map server: a publisher that follows a stream of account       *)
(* writes and a child process that synchronises everything each interval,  *)
(* both writing one redis cache (publisher.ts, sync.ts), and the pruner    *)
(* that deletes the accounts it did not find (pruner.ts).                  *)
(*                                                                         *)
(* One account: keys do not touch each other.  Each await is a step of its *)
(* own.  Handlers of one process run in the order of the stream, since     *)
(* their commands share one connection.  Entries expire with their TTL.    *)
(***************************************************************************)
EXTENDS Integers, Sequences, FiniteSets

CONSTANTS
    MaxAccountWrites,  \* bound: writes of the account after the first
    MaxSyncFailures,   \* bound: getProgramAccounts calls that fail, after the last write
    Jobs               \* interval callbacks that may be running at once

VARIABLES
    account,   \* [writes: Seq of [slot, live], tip: the finalized slot]
    got,       \* writes the stream has delivered or lost
    handler,   \* the publisher's handler between its get and its setex
    cache,     \* the entry: [slot, ver, age]; slot is -1 when there is none
    list,      \* occurrences of the key in user_pubkeys
    job,       \* [Jobs -> the callback's place and what it has read]
    syncLock,
    pruner,    \* "idle", "deletes", "unlists", "done"
    failed     \* synchronisations that failed

cacheVars == <<account, got, handler, cache, list, job, syncLock, pruner, failed>>

ASSUME CacheConstants ==
    /\ {MaxAccountWrites, MaxSyncFailures} \subseteq Nat
    /\ Jobs \subseteq Nat /\ Jobs # {} /\ IsFiniteSet(Jobs)

NoCopy == [slot |-> -1, ver |-> 0, age |-> 0]
NoJob == [phase |-> "none", slot |-> 0, ver |-> 0, live |-> FALSE, seen |-> -1, listed |-> FALSE, ticks |-> 0]
NoHandler == [slot |-> 0, ver |-> 0, seen |-> -1]

Version == Len(account.writes)
Alive == account.writes[Version].live

\* Faulty: an entry lives for a single interval.
ExpiryShort == 1

\* EXPIRY_MULTIPLIER: intervals an entry lives.
ExpiryIntervals == 4

Copy(slot, ver) == [slot |-> slot, ver |-> ver, age |-> 0]

\* A write is refused only if the copy read before is of a later slot.
MayWrite(slot, seen) == seen = -1 \/ slot >= seen

-----------------------------------------------------------------------------
\* The account is written or opened, or closed if it was there.
AccountWrite(live) ==
    /\ Version <= MaxAccountWrites
    /\ live \/ Alive
    /\ account' = [writes |-> Append(account.writes, [slot |-> account.tip + 1, live |-> live]),
                   tip |-> account.tip + 1]
    /\ UNCHANGED <<got, handler, cache, list, job, syncLock, pruner, failed>>

\* handleRpcResponse up to its first await.  The filters let through only the
\* writes that leave the account live.
HandlerReads ==
    /\ handler = NoHandler
    /\ got < Version
    /\ got' = got + 1
    /\ handler' = IF account.writes[got + 1].live
                  THEN [slot |-> account.writes[got + 1].slot, ver |-> got + 1, seen |-> cache.slot]
                  ELSE handler
    /\ UNCHANGED <<account, cache, list, job, syncLock, pruner, failed>>

\* The stream was opened anew and the write missed.
StreamMisses ==
    /\ got < Version
    /\ got' = got + 1
    /\ UNCHANGED <<account, handler, cache, list, job, syncLock, pruner, failed>>

HandlerWrites ==
    /\ handler # NoHandler
    /\ cache' = IF MayWrite(handler.slot, handler.seen) THEN Copy(handler.slot, handler.ver) ELSE cache
    /\ handler' = NoHandler
    /\ UNCHANGED <<account, got, list, job, syncLock, pruner, failed>>

-----------------------------------------------------------------------------
\* Entries grow older by one interval; one that is too old expires.
Aged ==
    IF cache = NoCopy THEN NoCopy
    ELSE IF cache.age + 1 >= ExpiryIntervals THEN NoCopy ELSE [cache EXCEPT !.age = @ + 1]

\* Bound on how long a callback takes: it is done before the second interval
\* after the one that started it, so two may overlap.
InTime(j) == job[j].ticks < 1

Ticked == [j \in Jobs |-> IF job[j] = NoJob THEN NoJob ELSE [job[j] EXCEPT !.ticks = @ + 1]]

\* The interval fires: sync() starts, or finds the lock, returns early and
\* releases it all the same; checkSync() may follow either.
IntervalFires(j, checks) ==
    /\ job[j] = NoJob
    /\ \A k \in Jobs : k < j => job[k] # NoJob
    /\ \A k \in Jobs : job[k] = NoJob \/ InTime(k)
    /\ cache' = Aged
    /\ IF syncLock
       THEN /\ syncLock' = FALSE
            /\ job' = [Ticked EXCEPT ![j].phase = IF checks THEN "check" ELSE "none"]
       ELSE /\ syncLock' = TRUE
            /\ job' = [Ticked EXCEPT ![j].phase = "fetch"]
    /\ UNCHANGED <<account, got, handler, list, pruner, failed>>

Interval == \E j \in Jobs, checks \in BOOLEAN : IntervalFires(j, checks)

SyncFetches(j) ==
    /\ job[j].phase = "fetch"
    /\ job' = [job EXCEPT ![j] = [@ EXCEPT !.phase = IF Alive THEN "read" ELSE "list",
                                           !.slot = IF Alive THEN account.tip ELSE 0,
                                           !.ver = IF Alive THEN Version ELSE 0,
                                           !.live = Alive]]
    /\ UNCHANGED <<account, got, handler, cache, list, syncLock, pruner, failed>>

\* What the callback does once sync() has returned or thrown away its error.
AfterSync(j, checks) ==
    IF checks THEN [NoJob EXCEPT !.phase = "check", !.ticks = job[j].ticks] ELSE NoJob

FetchFails(j, checks) ==
    /\ job[j].phase = "fetch"
    /\ failed < MaxSyncFailures /\ Version > MaxAccountWrites
    /\ failed' = failed + 1
    /\ syncLock' = FALSE
    /\ job' = [job EXCEPT ![j] = AfterSync(j, checks)]
    /\ UNCHANGED <<account, got, handler, cache, list, pruner>>

SyncReads(j) ==
    /\ job[j].phase = "read"
    /\ job' = [job EXCEPT ![j].phase = "write", ![j].seen = cache.slot]
    /\ UNCHANGED <<account, got, handler, cache, list, syncLock, pruner, failed>>

SyncWrites(j) ==
    /\ job[j].phase = "write"
    /\ cache' = IF MayWrite(job[j].slot, job[j].seen) THEN Copy(job[j].slot, job[j].ver) ELSE cache
    /\ job' = [job EXCEPT ![j] = [NoJob EXCEPT !.phase = "list", !.live = TRUE,
                                               !.ticks = job[j].ticks]]
    /\ UNCHANGED <<account, got, handler, list, syncLock, pruner, failed>>

\* syncPubKeys reads the list ...
SyncLists(j) ==
    /\ job[j].phase = "list"
    /\ job' = [job EXCEPT ![j].phase = "push", ![j].listed = list > 0]
    /\ UNCHANGED <<account, got, handler, cache, list, syncLock, pruner, failed>>

\* ... and removes or adds what its own reading told it to.
Listed(j) ==
    IF job[j].live /\ ~job[j].listed THEN list + 1
    ELSE IF ~job[j].live /\ job[j].listed THEN 0 ELSE list

SyncPushes(j, checks) ==
    /\ job[j].phase = "push"
    /\ list' = Listed(j)
    /\ syncLock' = FALSE
    /\ job' = [job EXCEPT ![j] = AfterSync(j, checks)]
    /\ UNCHANGED <<account, got, handler, cache, pruner, failed>>

\* checkSync, unless a synchronisation is running: the keys of the list, ...
CheckLists(j) ==
    /\ job[j].phase = "check"
    /\ job' = [job EXCEPT ![j] = IF ~syncLock /\ list > 0
                                 THEN [@ EXCEPT !.phase = "exists"] ELSE NoJob]
    /\ UNCHANGED <<account, got, handler, cache, list, syncLock, pruner, failed>>

\* ... those among them without data, ...
CheckExists(j) ==
    /\ job[j].phase = "exists"
    /\ job' = [job EXCEPT ![j] = IF cache = NoCopy THEN [@ EXCEPT !.phase = "unlist"] ELSE NoJob]
    /\ UNCHANGED <<account, got, handler, cache, list, syncLock, pruner, failed>>

\* ... and their removal.
CheckRemoves(j) ==
    /\ job[j].phase = "unlist"
    /\ list' = 0
    /\ job' = [job EXCEPT ![j] = NoJob]
    /\ UNCHANGED <<account, got, handler, cache, syncLock, pruner, failed>>

-----------------------------------------------------------------------------
\* The pruner reads all accounts once, then deletes what it did not find.
PrunerStarts ==
    /\ pruner = "idle"
    /\ pruner' = IF Alive THEN "done" ELSE "deletes"
    /\ UNCHANGED <<account, got, handler, cache, list, job, syncLock, failed>>

PrunerDeletes ==
    /\ pruner = "deletes"
    /\ IF cache = NoCopy THEN pruner' = "done" /\ UNCHANGED cache
       ELSE pruner' = "unlists" /\ cache' = NoCopy
    /\ UNCHANGED <<account, got, handler, list, job, syncLock, failed>>

PrunerUnlists ==
    /\ pruner = "unlists"
    /\ pruner' = "done"
    /\ list' = 0
    /\ UNCHANGED <<account, got, handler, cache, job, syncLock, failed>>

-----------------------------------------------------------------------------
CacheInit ==
    /\ account \in {[writes |-> <<[slot |-> 0, live |-> b]>>, tip |-> 0] : b \in BOOLEAN}
    /\ got = 1
    /\ handler = NoHandler
    /\ cache = NoCopy
    /\ list = 0
    /\ job = [j \in Jobs |-> NoJob]
    /\ syncLock = FALSE
    /\ pruner = "idle"
    /\ failed = 0

JobStep(j) ==
    \/ SyncFetches(j)
    \/ SyncReads(j)
    \/ SyncWrites(j)
    \/ SyncLists(j)
    \/ \E checks \in BOOLEAN : SyncPushes(j, checks)
    \/ CheckLists(j)
    \/ CheckExists(j)
    \/ CheckRemoves(j)

CacheNext ==
    \/ \E live \in BOOLEAN : AccountWrite(live)
    \/ HandlerReads \/ StreamMisses \/ HandlerWrites
    \/ Interval
    \/ \E j \in Jobs : JobStep(j) \/ \E checks \in BOOLEAN : FetchFails(j, checks)
    \/ PrunerStarts \/ PrunerDeletes \/ PrunerUnlists

-----------------------------------------------------------------------------
\* Once the account stops changing, the cache comes to hold its last state and
\* the list its key, or neither if it is gone, and they stay so: whatever the
\* stream loses, however the publisher, overlapping synchronisations, their
\* checks and the pruner interleave between their reads and their writes.
CacheSettles ==
    <>[](IF Alive THEN cache.ver = Version /\ list > 0 ELSE cache = NoCopy /\ list = 0)
=============================================================================
