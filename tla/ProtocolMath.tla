---------------------------- MODULE ProtocolMath ----------------------------
(***************************************************************************)
(* The integer arithmetic shared by the program's components: saturating   *)
(* subtraction, proportions and the schedule of periodic updates           *)
(* (math/helpers.rs, math/safe_math.rs).  Every division is the code's     *)
(* truncating division.                                                    *)
(***************************************************************************)
EXTENDS Integers

Lesser(a, b) == IF a < b THEN a ELSE b
Greater(a, b) == IF a > b THEN a ELSE b

\* u64::saturating_sub
SaturatingSub(a, b) == IF a > b THEN a - b ELSE 0

Abs(a) == IF a < 0 THEN -a ELSE a
Signum(a) == IF a > 0 THEN 1 ELSE IF a < 0 THEN -1 ELSE 0

\* safe_div of signed integers truncates towards zero.
TruncDiv(a, b) == Signum(a) * Signum(b) * (Abs(a) \div Abs(b))

\* safe_div_ceil
CeilDiv(a, b) == (a + b - 1) \div b

\* get_proportion_u128: every branch of the code returns the floor.
GetProportion(value, numerator, denominator) ==
    (value * numerator) \div denominator

\* on_the_hour_update: seconds left until the next update is allowed.  The
\* next update is aligned on the period, unless the last one came later than
\* a third into its period: then a whole period is skipped.
OnTheHourUpdate(now, last_update_ts, update_period) ==
    LET delay == last_update_ts % update_period
        wait  == IF update_period <= 1 \/ delay = 0
                   THEN update_period
                 ELSE IF delay > update_period \div 3
                   THEN 2 * update_period - delay
                 ELSE update_period - delay
    IN  Greater(wait - (now - last_update_ts), 0)
=============================================================================
