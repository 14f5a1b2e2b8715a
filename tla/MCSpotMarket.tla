---------------------------- MODULE MCSpotMarket ----------------------------
(***************************************************************************)
(* Small instances of SpotMarket for TLC.  Amounts and indexes grow with   *)
(* every instruction, so a budget bounds the instructions of a behaviour.  *)
(* The history of the seconds in which nobody borrowed, and of those in    *)
(* which interest was paused, says which seconds a booking bills.          *)
(***************************************************************************)
EXTENDS SpotMarket, TLC

CONSTANT MaxInstructions

VARIABLES
    spent,      \* instructions so far
    idle,       \* history: seconds during which nothing was borrowed
    paused      \* history: seconds during which interest was paused

mcVars == <<vars, spent, idle, paused>>

MCInit == Init /\ spent = 0 /\ idle = {} /\ paused = {}

Second ==
    /\ Elapse
    /\ idle'   = idle \cup (IF market.borrow_balance = 0 THEN {now} ELSE {})
    /\ paused' = paused \cup (IF InterestPaused THEN {now} ELSE {})
    /\ UNCHANGED spent

MCNext ==
    \/ /\ spent < MaxInstructions
       /\ Instruction
       /\ spent' = spent + 1
       /\ UNCHANGED <<idle, paused>>
    \/ Second

MCSpec == MCInit /\ [][MCNext]_mcVars

\* The code's curve with utilization in units of half a percent.
MCCurve == [optimal_utilization |-> 160, optimal_borrow_rate |-> 100,
            max_borrow_rate |-> 800, min_borrow_rate |-> 10,
            segments |-> <<[end |-> 170, weight |-> 50],
                           [end |-> 180, weight |-> 100],
                           [end |-> 190, weight |-> 150],
                           [end |-> 198, weight |-> 200],
                           [end |-> 199, weight |-> 250],
                           [end |-> 200, weight |-> 250]>>]

MCGuardOpen == [withdraw_guard_threshold |-> 1000,
                withdraw_circuit_breaker_bps |-> 0,
                deposit_guard_threshold |-> 0, max_deposit_bps_per_day |-> 0,
                max_token_deposits |-> 0, max_token_borrows |-> NoLimit,
                pool_id |-> 0]

\* Deposits may grow by half of their average a day, above a floor of 10, and
\* only up to 13: interest can take them past either cap.
MCGuardCapped == [MCGuardOpen EXCEPT !.deposit_guard_threshold = 10,
                                     !.max_deposit_bps_per_day = 50,
                                     !.max_token_deposits = 13]

MCFactors == {<<4, 3>>}

UserSymmetry == Permutations(Users)

-----------------------------------------------------------------------------

\* The seconds that a step bills to borrowers.
Billed == IF market'.cumulative_borrow_interest > market.cumulative_borrow_interest
            THEN market.last_interest_ts..(now - 1)
            ELSE {}

\* A new borrower never pays for time before the borrow, and nobody pays for
\* time in which nothing was borrowed: update_spot_market_cumulative_interest
\* moves last_interest_ts over idle time even when no interest is booked.
IdleTimeNeverBilled == [][Billed \cap idle = {}]_mcVars

\* "A pause therefore means interest does not accrue for that window"
\* (docs/DRIFT-TO-VELOCITY.md).
PausedTimeNeverBilled == [][Billed \cap paused = {}]_mcVars
=============================================================================
