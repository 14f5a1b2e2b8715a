---------------------------- MODULE PerpPosition ----------------------------
(***************************************************************************)
(* A position in a perp market and the market's running totals, moved      *)
(* together by the functions of controller/position.rs and                 *)
(* controller/funding.rs.  A book is the pair of the position p and the    *)
(* market m that one call rewrites.  The fields the code keeps once per    *)
(* side (..._long, ..._short) are functions of the side.                   *)
(***************************************************************************)
EXTENDS FundingMath

Sides == {"Long", "Short"}

\* get_direction, for a position that holds base.
Side(base) == IF base >= 0 THEN "Long" ELSE "Short"

Opposite(side) == IF side = "Long" THEN "Short" ELSE "Long"

EmptyPosition == [base_asset_amount |-> 0, quote_asset_amount |-> 0,
                  quote_entry_amount |-> 0, quote_break_even_amount |-> 0,
                  last_cumulative_funding_rate |-> 0,
                  bankruptcy_claim |-> FALSE]

\* No base, no quote and no order: get_position_index does not find the slot
\* and add_new_position overwrites it.
IsAvailable(p) == p.base_asset_amount = 0 /\ p.quote_asset_amount = 0

\* get_position_index or add_new_position
ForceGet(p) == IF IsAvailable(p) THEN EmptyPosition ELSE p

\* Faulty: the flag stays, and the slot is recycled with it.
KeepClaim(b) == b

\* release_bankruptcy_claim_if_settled
ReleaseClaimIfSettled(b) ==
    IF b.p.bankruptcy_claim /\ b.p.quote_asset_amount >= 0
      THEN [p |-> [b.p EXCEPT !.bankruptcy_claim = FALSE],
            m |-> [b.m EXCEPT !.pending_bankruptcy_claims =
                                  SaturatingSub(@, 1)]]
      ELSE b

UpdateQuoteAssetAmount(b, delta) ==
    LET p     == [b.p EXCEPT !.quote_asset_amount = @ + delta]
        users == b.m.number_of_users + (IF IsAvailable(b.p) THEN 1 ELSE 0)
    IN  IF delta = 0
          THEN b
          ELSE ReleaseClaimIfSettled(
                 [p |-> p,
                  m |-> [b.m EXCEPT !.quote_asset_amount = @ + delta,
                                    !.number_of_users =
                                        IF IsAvailable(p)
                                          THEN SaturatingSub(users, 1)
                                          ELSE users]])

UpdateQuoteBreakEvenAmount(b, delta) ==
    IF b.p.base_asset_amount = 0
      THEN b
      ELSE [p |-> [b.p EXCEPT !.quote_break_even_amount = @ + delta],
            m |-> [b.m EXCEPT !.quote_break_even_amount[
                                 Side(b.p.base_asset_amount)] = @ + delta]]

UpdateQuoteAssetAndBreakEvenAmount(b, delta) ==
    UpdateQuoteBreakEvenAmount(UpdateQuoteAssetAmount(b, delta), delta)

-----------------------------------------------------------------------------
(***************************************************************************)
(* update_position_and_market                                              *)
(***************************************************************************)
\* get_position_update_type
UpdateType(base, delta) ==
    IF base = 0                          THEN "Open"
    ELSE IF Signum(base) = Signum(delta) THEN "Increase"
    ELSE IF Abs(base) > Abs(delta)       THEN "Reduce"
    ELSE IF Abs(base) = Abs(delta)       THEN "Close"
    ELSE                                      "Flip"

\* What a cost basis becomes: it grows by the quote of an increase, shrinks in
\* proportion to a reduction, and after a flip is the quote of the new part.
NewBasis(type, basis, base, delta) ==
    CASE type \in {"Open", "Increase"} -> basis + delta.quote
      [] type \in {"Reduce", "Close"}  ->
           basis - TruncDiv(basis * Abs(delta.base), Abs(base))
      [] type = "Flip"                 ->
           delta.quote - TruncDiv(delta.quote * Abs(base), Abs(delta.base))

\* Faulty: a flip is booked on the side it leaves.
MoveTotalOneSide(total, type, base, old, new) ==
    [total EXCEPT ![Side(base)] = @ + (new - old)]

\* The market's totals of one field after a position's value moved from old
\* to new; a flip moves it from one side to the other.
MoveTotal(total, type, base, old, new) ==
    IF type = "Flip"
      THEN [total EXCEPT ![Side(base)] = @ - old,
                         ![Opposite(Side(base))] = @ + new]
      ELSE [total EXCEPT ![Side(base)] = @ + (new - old)]

\* The validate! that rejects a position whose funding is not settled.
FundingSettled(p, m) ==
    p.base_asset_amount # 0
      => p.last_cumulative_funding_rate
           = m.cumulative_funding_rate[Side(p.base_asset_amount)]

\* The users of the market, and the users with base, after the update.
CountUsers(m, type, old, new) ==
    [m EXCEPT
       !.number_of_users =
           IF type = "Open" /\ old.quote_asset_amount = 0
             THEN @ + 1
             ELSE IF type = "Close" /\ new.quote_asset_amount = 0
               THEN SaturatingSub(@, 1) ELSE @,
       !.number_of_users_with_base =
           IF type = "Open" THEN @ + 1
             ELSE IF type = "Close" THEN SaturatingSub(@, 1) ELSE @]

UpdatePositionAndMarket(b, delta) ==
    LET p    == b.p
        base == p.base_asset_amount
        type == UpdateType(base, delta.base)
        side == IF type = "Open" THEN delta.base ELSE base
        new  == [p EXCEPT
                   !.base_asset_amount = @ + delta.base,
                   !.quote_asset_amount = @ + delta.quote,
                   !.quote_entry_amount = NewBasis(type, @, base, delta),
                   !.quote_break_even_amount = NewBasis(type, @, base, delta),
                   !.last_cumulative_funding_rate =
                       CASE type = "Close"  -> 0
                         [] type = "Reduce" -> @
                         [] OTHER           ->
                              b.m.cumulative_funding_rate[
                                  Side(base + delta.base)]]
        m    == [CountUsers(b.m, type, p, new) EXCEPT
                   !.quote_asset_amount = @ + delta.quote,
                   !.base_asset_amount =
                       MoveTotal(@, type, side, base, new.base_asset_amount),
                   !.quote_entry_amount =
                       MoveTotal(@, type, side, p.quote_entry_amount,
                                 new.quote_entry_amount),
                   !.quote_break_even_amount =
                       MoveTotal(@, type, side, p.quote_break_even_amount,
                                 new.quote_break_even_amount)]
    IN  IF delta.base = 0
          THEN UpdateQuoteAssetAmount(b, delta.quote)
          ELSE ReleaseClaimIfSettled([p |-> new, m |-> m])

-----------------------------------------------------------------------------
\* calculate_funding_payment: what the position has yet to receive.
PendingFunding(p, m) ==
    IF p.base_asset_amount = 0
      THEN 0
      ELSE FundingPayment(m.cumulative_funding_rate[Side(p.base_asset_amount)]
                            - p.last_cumulative_funding_rate,
                          p.base_asset_amount)

\* Faulty: the payment is not taken out of the market's unsettled funding.
SettleFundingUndrained(b) ==
    LET stamped == IF b.p.base_asset_amount = 0
                     THEN b.p
                     ELSE [b.p EXCEPT !.last_cumulative_funding_rate =
                             b.m.cumulative_funding_rate[
                                 Side(b.p.base_asset_amount)]]
    IN  UpdateQuoteAssetAndBreakEvenAmount([p |-> stamped, m |-> b.m],
                                           PendingFunding(b.p, b.m))

\* settle_funding_payment
SettleFundingPayment(b) ==
    LET payment == PendingFunding(b.p, b.m)
        stamped == IF b.p.base_asset_amount = 0
                     THEN b.p
                     ELSE [b.p EXCEPT !.last_cumulative_funding_rate =
                             b.m.cumulative_funding_rate[
                                 Side(b.p.base_asset_amount)]]
        paid    == UpdateQuoteAssetAndBreakEvenAmount(
                       [p |-> stamped, m |-> b.m], payment)
    IN  [paid EXCEPT !.m.net_unsettled_funding_pnl = @ - payment]

\* flag_perp_bankruptcy_claim
FlagBankruptcyClaim(b) ==
    IF ~b.p.bankruptcy_claim /\ b.p.base_asset_amount = 0
         /\ b.p.quote_asset_amount < 0
      THEN [p |-> [b.p EXCEPT !.bankruptcy_claim = TRUE],
            m |-> [b.m EXCEPT !.pending_bankruptcy_claims = @ + 1]]
      ELSE b
=============================================================================
