------------------------------- MODULE Router -------------------------------
(***************************************************************************)
(* The protocol revenue router: it splits the perp protocol fees that      *)
(* arrive on its token account between the recovery pool of an external    *)
(* redemption program and the treasury, on a daily ladder of tiers and     *)
(* within what the pool may still recognise (programs/                     *)
(* protocol-revenue-router).                                               *)
(*                                                                         *)
(* The redemption program is external: contribute() recognises the tokens  *)
(* that already lie in its vault before the ones it is brought, up to the  *)
(* amount that was exploited; holders redeem what is recognised.           *)
(***************************************************************************)
EXTENDS ProtocolMath, Sequences, Functions

CONSTANTS
    Ladders,      \* tier ladders the admin may ask for: Seq of [threshold, bps]
    Exploited,    \* total_exploited_amount
    FeeAmounts,   \* amounts that arrive on the router's account
    PoolDonations, \* amounts sent straight to the redemption vault
    MaxArrivals,  \* fees and donations
    LastDay

VARIABLES
    routerDay,   \* the clock's day
    ladder,      \* active tiers
    period,      \* [day: period_day, fees: period_fees]
    lifetime,    \* [fees, pool, treasury]
    routerAta,   \* tokens on the router's account
    redemption,  \* [vault, recognized (lifetime), remaining]
    dayPool,     \* what the period has paid to the pool
    dayCapped,   \* the pool's cap has bound in the period
    arrivals

routerVars == <<routerDay, ladder, period, lifetime, routerAta, redemption, dayPool, dayCapped,
                arrivals>>

BpsDenominator == 10000
MaxTiers == 8

\* set_tiers: what a ladder must be to be stored.
LadderValid(tiers) ==
    /\ Len(tiers) \in 1..MaxTiers
    /\ tiers[1].threshold = 0
    /\ \A i \in DOMAIN tiers : tiers[i].bps <= BpsDenominator
    /\ \A i \in 2..Len(tiers) : tiers[i].threshold > tiers[i - 1].threshold

ASSUME RouterConstants ==
    /\ Ladders \subseteq Seq([threshold : Nat, bps : Nat])
    /\ \E tiers \in Ladders : LadderValid(tiers)
    /\ {Exploited, MaxArrivals} \subseteq Nat /\ LastDay \in Nat \ {0}
    /\ FeeAmounts \subseteq Nat \ {0} /\ PoolDonations \subseteq Nat \ {0}

\* The part of x that falls into tier i.
Slice(tiers, i, x) ==
    LET upper == IF i < Len(tiers) THEN Lesser(x, tiers[i + 1].threshold) ELSE x
    IN SaturatingSub(upper, tiers[i].threshold)

\* Each tier's part is rounded down on its own.
PoolEntitlement(tiers, x) ==
    SumFunction([i \in DOMAIN tiers |-> (Slice(tiers, i, x) * tiers[i].bps) \div BpsDenominator])

\* Faulty: every distribution starts at the foot of the ladder.
PoolShareFromZero(tiers, fees, incoming) == PoolEntitlement(tiers, incoming)

PoolShare(tiers, fees, incoming) ==
    PoolEntitlement(tiers, fees + incoming) - PoolEntitlement(tiers, fees)

Unrecognized(r) == SaturatingSub(r.vault, r.remaining)

\* Faulty: tokens that wait in the vault are not counted.
CapRoomOfRecognized(r) == SaturatingSub(Exploited, r.recognized)

CapRoom(r) == SaturatingSub(SaturatingSub(Exploited, r.recognized), Unrecognized(r))

Contribute(r, amount) ==
    LET vault == r.vault + amount
        newly == Lesser(vault - r.remaining, Exploited - r.recognized)
    IN [vault |-> vault, recognized |-> r.recognized + newly, remaining |-> r.remaining + newly]

\* roll_period: the period in which the distribution counts.
Rolled == IF routerDay > period.day THEN [day |-> routerDay, fees |-> 0] ELSE period

Distribute ==
    LET share == PoolShare(ladder, Rolled.fees, routerAta)
        toPool == Lesser(share, CapRoom(redemption))
        fresh == Rolled # period
    IN /\ IF routerAta = 0
          THEN /\ period' = Rolled
               /\ dayPool' = IF fresh THEN 0 ELSE dayPool
               /\ dayCapped' = (dayCapped /\ ~fresh)
               /\ UNCHANGED <<lifetime, routerAta, redemption>>
          ELSE /\ period' = [Rolled EXCEPT !.fees = @ + routerAta]
               /\ lifetime' = [fees |-> lifetime.fees + routerAta,
                               pool |-> lifetime.pool + toPool,
                               treasury |-> lifetime.treasury + (routerAta - toPool)]
               /\ routerAta' = 0
               /\ redemption' = IF toPool > 0 THEN Contribute(redemption, toPool) ELSE redemption
               /\ dayPool' = (IF fresh THEN 0 ELSE dayPool) + toPool
               /\ dayCapped' = ((dayCapped /\ ~fresh) \/ toPool < share)
       /\ UNCHANGED <<routerDay, ladder, arrivals>>

\* Faulty: the ladder can be changed at any time.
NeverLocked == FALSE

\* A ladder that has priced fees of a running period stays.
TiersLocked == routerDay <= period.day /\ period.fees > 0

UpdateConfig(tiers) ==
    /\ ~TiersLocked
    /\ LadderValid(tiers)
    /\ ladder' = tiers
    /\ UNCHANGED <<routerDay, period, lifetime, routerAta, redemption, dayPool, dayCapped, arrivals>>

-----------------------------------------------------------------------------
FeesArrive(n) ==
    /\ arrivals < MaxArrivals
    /\ arrivals' = arrivals + 1
    /\ routerAta' = routerAta + n
    /\ UNCHANGED <<routerDay, ladder, period, lifetime, redemption, dayPool, dayCapped>>

Donated(n) ==
    /\ arrivals < MaxArrivals
    /\ arrivals' = arrivals + 1
    /\ redemption' = [redemption EXCEPT !.vault = @ + n]
    /\ UNCHANGED <<routerDay, ladder, period, lifetime, routerAta, dayPool, dayCapped>>

Redeemed ==
    /\ redemption.remaining > 0
    /\ redemption' = [redemption EXCEPT !.vault = @ - 1, !.remaining = @ - 1]
    /\ UNCHANGED <<routerDay, ladder, period, lifetime, routerAta, dayPool, dayCapped, arrivals>>

DayPasses ==
    /\ routerDay < LastDay
    /\ routerDay' = routerDay + 1
    /\ UNCHANGED <<ladder, period, lifetime, routerAta, redemption, dayPool, dayCapped, arrivals>>

RouterInit ==
    /\ routerDay = 1
    /\ ladder \in {tiers \in Ladders : LadderValid(tiers)}
    /\ period = [day |-> 0, fees |-> 0]
    /\ lifetime = [fees |-> 0, pool |-> 0, treasury |-> 0]
    /\ routerAta = 0
    /\ redemption = [vault |-> 0, recognized |-> 0, remaining |-> 0]
    /\ dayPool = 0
    /\ dayCapped = FALSE
    /\ arrivals = 0

RouterNext ==
    \/ Distribute
    \/ \E tiers \in Ladders : UpdateConfig(tiers)
    \/ \E n \in FeeAmounts : FeesArrive(n)
    \/ \E n \in PoolDonations : Donated(n)
    \/ Redeemed
    \/ DayPasses

RouterSpec == RouterInit /\ [][RouterNext]_routerVars

-----------------------------------------------------------------------------
RouterTypeOK ==
    /\ routerDay \in 1..LastDay /\ period.day \in 0..LastDay
    /\ LadderValid(ladder)
    /\ {period.fees, routerAta, dayPool} \cup {lifetime[k] : k \in DOMAIN lifetime} \subseteq Nat
    /\ {redemption[k] : k \in DOMAIN redemption} \subseteq Nat
    /\ redemption.recognized <= Exploited

\* However a day's fees are cut into distributions, the pool gets what the
\* ladder gives it for the day's total, and less only if its cap has bound:
\* the ladder does not move under a period it has priced, and rounding does
\* not add up.
DaySplitIsTheLadder ==
    /\ RouterTypeOK
    /\ routerDay = period.day =>
         LET whole == PoolEntitlement(ladder, period.fees)
         IN dayPool <= whole /\ (~dayCapped => dayPool = whole)

\* What the router brings to the pool is recognised at once and in full,
\* though the tokens that lay in the vault before are recognised first.
PoolShareIsRecognised ==
    [][lifetime'.pool > lifetime.pool => Unrecognized(redemption') = 0]_routerVars
=============================================================================
