----------------------------- MODULE SlotClock -----------------------------
(***************************************************************************)
(* The clock that turns slots into wall-clock time (math/time.rs) and the  *)
(* permissionless instruction that keeps it in step with the cluster       *)
(* (sync_state_slot_duration, instructions/admin.rs).                      *)
(*                                                                         *)
(* The cluster shortens its slots through four feature gates.  State keeps *)
(* the first slot of every regime in an archive; three older staging       *)
(* fields are kept for readers that do not know the archive.               *)
(***************************************************************************)
EXTENDS ProtocolMath, FiniteSetsExt

CONSTANTS
    Gates,          \* the gates the cluster will activate, indices into TransitionMs
    EffectiveSlot,  \* [Gates -> slot]: first slot of the regime a gate opens
    LegacyStarts,   \* [base, pending, effective] triples State may start from
    Windows,        \* durations in milliseconds that deadlines are taken for
    FirstSlot, LastSlot, Stride  \* slots observed: FirstSlot, FirstSlot + Stride, ...

VARIABLES
    slot,      \* Clock::slot
    archive,   \* State.slot_duration_transition_slots; 0 = not recorded
    legacy     \* State.slot_duration_ms, pending_slot_duration_ms, slot_duration_effective_slot

clockVars == <<slot, archive, legacy>>

BaselineMs == 400
TransitionMs == <<350, 300, 250, 200>>
AllGates == 1..4
Archives == [AllGates -> Nat]

ASSUME SlotClockConstants ==
    /\ Gates \subseteq AllGates
    /\ EffectiveSlot \in [Gates -> Nat \ {0}]
    /\ \A g, h \in Gates : g <= h => EffectiveSlot[g] <= EffectiveSlot[h]
    /\ Windows \subseteq Nat
    /\ {FirstSlot, LastSlot} \subseteq Nat
    /\ Stride \in Nat \ {0}

Clocks == [archive : Archives, legacy : [base : Nat, pending : Nat, effective : Nat]]
Clock == [archive |-> archive, legacy |-> legacy]

HasTransitionHistory(c) == \E i \in AllGates : c.archive[i] # 0

FromStateMs(raw) == IF raw = 0 THEN BaselineMs ELSE raw

\* What a reader that knows only the staging fields takes for the slot length.
ActiveSlotDurationMs(l, s) ==
    FromStateMs(IF l.pending # 0 /\ s >= l.effective THEN l.pending ELSE l.base)

\* The last archive entry that has been reached wins.
SlotDurationAt(c, s) ==
    LET reached == {i \in AllGates : c.archive[i] # 0 /\ s >= c.archive[i]}
    IN IF ~HasTransitionHistory(c) THEN ActiveSlotDurationMs(c.legacy, s)
       ELSE IF reached = {} THEN BaselineMs ELSE TransitionMs[Max(reached)]

\* Milliseconds from the start of one slot to the start of another: every
\* regime crossed is integrated at its own duration.
Elapsed(c, start, end) ==
    IF end <= start THEN 0
    ELSE IF ~HasTransitionHistory(c) THEN (end - start) * SlotDurationAt(c, end)
    ELSE LET walk[i \in 0..4] ==
               IF i = 0 THEN [cursor |-> start, ms |-> 0]
               ELSE LET w == walk[i - 1] t == c.archive[i]
                    IN IF t = 0 \/ t <= w.cursor \/ t > end THEN w
                       ELSE [cursor |-> t,
                             ms |-> w.ms + (t - w.cursor) * SlotDurationAt(c, w.cursor)]
             last == walk[4]
         IN last.ms + (end - last.cursor) * SlotDurationAt(c, last.cursor)

\* Faulty: the window converted with the duration in force when it starts.
DeadlineAtStart(c, start, ms) == start + CeilDiv(ms, SlotDurationAt(c, start))

\* First slot that starts at least ms milliseconds after start does.
SlotAtOrAfterDuration(c, start, ms) ==
    LET walk[i \in 0..4] ==
          IF i = 0 THEN [cursor |-> start, left |-> ms, done |-> FALSE]
          ELSE LET w == walk[i - 1]
                   t == c.archive[i]
                   regime == (t - w.cursor) * SlotDurationAt(c, w.cursor)
               IN IF w.done \/ t = 0 \/ t <= w.cursor THEN w
                  ELSE IF w.left <= regime THEN [w EXCEPT !.done = TRUE]
                  ELSE [cursor |-> t, left |-> w.left - regime, done |-> FALSE]
        last == walk[4]
    IN IF ms = 0 THEN start
       ELSE last.cursor + CeilDiv(last.left, SlotDurationAt(c, last.cursor))

-----------------------------------------------------------------------------
\* Faulty: a gate that leaves the active duration as it is is refused.
UpdateValidRefusingEqual(g) ==
    LET proposed == [archive |-> [archive EXCEPT ![g] = EffectiveSlot[g]], legacy |-> legacy]
    IN SlotDurationAt(proposed, slot) < SlotDurationAt(Clock, slot)

\* Recorded boundaries stay in order, a new regime is recorded only once the
\* last recorded one is in force, and the clock never slows down.
ArchiveUpdateValid(g) ==
    LET at == EffectiveSlot[g]
        recorded == {i \in AllGates : archive[i] # 0}
        proposed == [archive |-> [archive EXCEPT ![g] = at], legacy |-> legacy]
    IN /\ \A i \in recorded : (i < g => at >= archive[i]) /\ (i > g => at <= archive[i])
       /\ recorded # {} /\ g > Max(recorded) => slot >= archive[Max(recorded)]
       /\ SlotDurationAt(proposed, slot) <= SlotDurationAt(Clock, slot)

\* Faulty: the staging fields keep pointing at what the old readers had.
LegacyStagingUntouched(a, s) == legacy

\* The staging fields for old readers: the active duration and the earliest
\* boundary still ahead.
LegacyStaging(a, s) ==
    LET ahead == {i \in AllGates : a[i] > s}
        next == Min({a[i] : i \in ahead})
        first == Min({i \in ahead : a[i] = next})
        base == SlotDurationAt([archive |-> a, legacy |-> legacy], s)
    IN IF ahead = {} THEN [base |-> base, pending |-> 0, effective |-> 0]
       ELSE [base |-> base, pending |-> TransitionMs[first], effective |-> next]

\* A gate is activated an epoch before its regime starts; its activation is
\* taken as given, so that it may be recorded at any time the run observes.
SyncStateSlotDuration(g) ==
    /\ archive[g] = 0
    /\ ArchiveUpdateValid(g)
    /\ archive' = [archive EXCEPT ![g] = EffectiveSlot[g]]
    /\ legacy' = LegacyStaging(archive', slot)
    /\ UNCHANGED slot

Tick ==
    /\ slot + Stride <= LastSlot
    /\ slot' = slot + Stride
    /\ UNCHANGED <<archive, legacy>>

ClockInit ==
    /\ slot = FirstSlot
    /\ archive = [i \in AllGates |-> 0]
    /\ legacy \in LegacyStarts

ClockNext == Tick \/ \E g \in Gates : SyncStateSlotDuration(g)

\* Anybody may record a gate, so an instruction that can run is eventually
\* sent; slots pass.
ClockFairness == WF_clockVars(Tick) /\ \A g \in Gates : WF_clockVars(SyncStateSlotDuration(g))

ClockSpec == ClockInit /\ [][ClockNext]_clockVars /\ ClockFairness

-----------------------------------------------------------------------------
Slots == FirstSlot..LastSlot

\* The integral over the archive is what adding up the slots one by one gives.
ElapsedIsTheSum ==
    HasTransitionHistory(Clock) =>
        \A s \in Slots : Elapsed(Clock, s, slot) =
            LET sum[t \in s..slot] == IF t = s THEN 0 ELSE sum[t - 1] + SlotDurationAt(Clock, t - 1)
            IN IF slot <= s THEN 0 ELSE sum[slot]

\* The deadline of an auction is the first slot at which its time is up, so
\* the expiry of a placement and the end of its auction agree across every
\* change of the slot length, recorded in advance or late.
DeadlineIsFirst ==
    HasTransitionHistory(Clock) =>
        \A ms \in Windows :
            /\ Elapsed(Clock, slot, SlotAtOrAfterDuration(Clock, slot, ms)) >= ms
            /\ ms > 0 => Elapsed(Clock, slot, SlotAtOrAfterDuration(Clock, slot, ms) - 1) < ms

\* A reader of the staging fields never takes slots for shorter than the
\* archive does, and agrees with it until the clock reaches a boundary that is
\* not the one staged when the last gate was recorded (two gates may start
\* their regimes at one slot: the slower one is staged).
StagingAgrees ==
    HasTransitionHistory(Clock) =>
        /\ ActiveSlotDurationMs(legacy, slot) >= SlotDurationAt(Clock, slot)
        /\ (\/ legacy.pending = 0
            \/ \A i \in AllGates : archive[i] \in legacy.effective..slot
                                     => TransitionMs[i] = legacy.pending)
             => ActiveSlotDurationMs(legacy, slot) = SlotDurationAt(Clock, slot)

\* Elapsed time, deadlines and the staging fields tell one story of the clock.
ClockAgrees == Clock \in Clocks /\ ElapsedIsTheSum /\ DeadlineIsFirst /\ StagingAgrees

\* Every activated gate is eventually recorded, whatever the staging fields
\* said at first and in whatever order the gates are tried: a clock migrated
\* late is repaired by recording the fastest gate and then the older ones.
GatesRecorded == <>[](\A g \in Gates : archive[g] # 0)
=============================================================================
