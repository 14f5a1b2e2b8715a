--------------------------- MODULE PerpBookProofs ---------------------------
(***************************************************************************)
(* What the calls that rewrite one position and the market (a book) may    *)
(* change, for any position and any market.  Moves says it of one call,    *)
(* Shift of a sequence of calls over several accounts.  That the market's  *)
(* totals are the sums over the positions rests on what a call leaves      *)
(* alone: the part of every total that belongs to the other accounts       *)
(* (Rest).  Sums over any number of accounts are in SumProofs.             *)
(***************************************************************************)
EXTENDS PerpMarket, SumProofs


Books == [p : PositionType, m : MarketType]

\* A booked claim is a debt, and a flat position has no cost basis.
Sound(p) ==
    /\ p.bankruptcy_claim => p.quote_asset_amount < 0
    /\ p.base_asset_amount = 0 => /\ p.quote_entry_amount = 0
                                  /\ p.quote_break_even_amount = 0

Net(m) == m.base_asset_amount["Long"] + m.base_asset_amount["Short"]

\* The fields that no call on a book touches.
SameRates(m, n) ==
    /\ n.base_asset_amount_with_amm = m.base_asset_amount_with_amm
    /\ n.cumulative_funding_rate = m.cumulative_funding_rate
    /\ n.amm_last_cumulative_funding_rate = m.amm_last_cumulative_funding_rate

One(c) == IF c THEN 1 ELSE 0

\* The part of the market's totals and counters that is not this position's.
Rest(b) ==
    LET base == b.p.base_asset_amount
    IN  [quote   |-> b.m.quote_asset_amount - b.p.quote_asset_amount,
         users   |-> b.m.number_of_users - One(~IsAvailable(b.p)),
         holders |-> b.m.number_of_users_with_base - One(base # 0),
         claims  |-> b.m.pending_bankruptcy_claims - One(b.p.bankruptcy_claim),
         base    |-> [x \in Sides |-> b.m.base_asset_amount[x] - OnSide(base, x, base)],
         entry   |-> [x \in Sides |-> b.m.quote_entry_amount[x]
                                         - OnSide(base, x, b.p.quote_entry_amount)],
         even    |-> [x \in Sides |-> b.m.quote_break_even_amount[x]
                                         - OnSide(base, x, b.p.quote_break_even_amount)]]

\* The counters count this position, so that taking it out cannot saturate.
Covered(b) == Rest(b).users >= 0 /\ Rest(b).holders >= 0 /\ Rest(b).claims >= 0

\* Book c is book b after a call that moved the position's base by d.
Moves(b, c, d) ==
    /\ c \in Books
    /\ Rest(c) = Rest(b)
    /\ Sound(c.p)
    /\ c.p.base_asset_amount = b.p.base_asset_amount + d
    /\ Net(c.m) = Net(b.m) + d
    /\ SameRates(b.m, c.m)

-----------------------------------------------------------------------------
(* Arithmetic *)

\* Two books with the same rest differ in a total as their positions do.
LEMMA RestFields ==
    ASSUME NEW b, NEW c, Rest(c) = Rest(b)
    PROVE  /\ c.m.quote_asset_amount - c.p.quote_asset_amount
                = b.m.quote_asset_amount - b.p.quote_asset_amount
           /\ c.m.number_of_users - One(~IsAvailable(c.p))
                = b.m.number_of_users - One(~IsAvailable(b.p))
           /\ c.m.number_of_users_with_base - One(c.p.base_asset_amount # 0)
                = b.m.number_of_users_with_base - One(b.p.base_asset_amount # 0)
           /\ c.m.pending_bankruptcy_claims - One(c.p.bankruptcy_claim)
                = b.m.pending_bankruptcy_claims - One(b.p.bankruptcy_claim)
<1>1. /\ Rest(c).quote = Rest(b).quote /\ Rest(c).users = Rest(b).users
      /\ Rest(c).holders = Rest(b).holders /\ Rest(c).claims = Rest(b).claims
  BY Zenon
<1> QED
  BY <1>1, Zenon DEF Rest

\* A signum is -1, 0 or 1.
LEMMA SignumValues == ASSUME NEW a \in Int PROVE Signum(a) \in {-1, 0, 1}
BY DEF Signum

\* Truncating division of integers gives an integer.
LEMMA TruncDivInt == ASSUME NEW a \in Int, NEW b \in Int \ {0}
                     PROVE  TruncDiv(a, b) \in Int
<1> DEFINE q == Abs(a) \div Abs(b)
<1>1. q \in Int
  <2>1. Abs(a) \in Int /\ Abs(b) \in Nat \ {0}
    BY DEF Abs
  <2> QED
    BY <2>1
<1>2. Signum(a) \in {-1, 0, 1} /\ Signum(b) \in {-1, 0, 1}
  BY SignumValues
<1> HIDE DEF q
<1>3. Signum(a) * Signum(b) * q \in Int
  BY <1>1, <1>2
<1> QED
  BY <1>3 DEF TruncDiv, q

\* Dividing a product by one of its factors gives the other.
LEMMA TruncDivExact == ASSUME NEW a \in Int, NEW b \in Nat \ {0}
                       PROVE  TruncDiv(a * b, b) = a
<1>1. Abs(b) = b /\ Signum(b) = 1
  BY DEF Abs, Signum
<1>2. CASE a = 0
  BY <1>1, <1>2 DEF TruncDiv, Abs, Signum
<1>3. CASE a > 0
  <2>1. a * b \in Int /\ a * b > 0
    BY <1>3
  <2>2. Abs(a * b) = a * b /\ Signum(a * b) = 1
    BY <2>1 DEF Abs, Signum
  <2>3. (a * b) \div b = a
    BY <1>3
  <2> QED
    BY <1>1, <2>2, <2>3 DEF TruncDiv
<1>4. CASE a < 0
  <2> DEFINE c == -a
  <2>1. c \in Nat \ {0} /\ a = -c
    BY <1>4
  <2>2. a * b = -(c * b) /\ c * b \in Int /\ c * b > 0
    BY <2>1
  <2>3. (c * b) \div b = c
    BY <2>1
  <2> HIDE DEF c
  <2>4. Abs(a * b) = c * b /\ Signum(a * b) = -1
    BY <2>2 DEF Abs, Signum
  <2>5. TruncDiv(a * b, b)
          = Signum(a * b) * Signum(b) * (Abs(a * b) \div Abs(b))
    BY Zenon DEF TruncDiv
  <2>6. Abs(a * b) \div Abs(b) = c
    BY <1>1, <2>3, <2>4, Zenon
  <2>7. TruncDiv(a * b, b) = (-1) * 1 * c
    BY <1>1, <2>4, <2>5, <2>6, Zenon
  <2> QED
    BY <2>1, <2>7
<1> QED
  BY <1>2, <1>3, <1>4

\* What one side pays, before rounding to quote.
LEMMA RawFundingPaymentInt ==
    ASSUME NEW delta \in Int, NEW base \in Int
    PROVE  RawFundingPayment(delta, base) \in Int
<1> DEFINE q == (Abs(delta) * Abs(base)) \div FUNDING_RATE_PRECISION
<1>1. q \in Int
  <2>1. Abs(delta) * Abs(base) \in Int
    BY DEF Abs
  <2> QED
    BY <2>1, PrecisionAssumption
<1> HIDE DEF q
<1>2. (IF delta > 0 THEN -1 ELSE 1) * (IF base > 0 THEN 1 ELSE -1) * q \in Int
  BY <1>1
<1> QED
  BY <1>2 DEF RawFundingPayment, q

\* A funding payment is an amount of quote.
LEMMA FundingPaymentInt == ASSUME NEW delta \in Int, NEW base \in Int
                           PROVE  FundingPayment(delta, base) \in Int
<1>1. RawFundingPayment(delta, base) \in Int
  BY RawFundingPaymentInt
<1>2. AMM_TO_QUOTE_PRECISION_RATIO \in Int \ {0}
  BY PrecisionAssumption
<1> QED
  BY <1>1, <1>2, TruncDivInt DEF FundingPayment

-----------------------------------------------------------------------------
(* The calls on a book *)

\* Two books with the same rest, field by field.
LEMMA RestSame ==
    ASSUME NEW b, NEW c,
           c.m.quote_asset_amount - c.p.quote_asset_amount
             = b.m.quote_asset_amount - b.p.quote_asset_amount,
           c.m.number_of_users - One(~IsAvailable(c.p))
             = b.m.number_of_users - One(~IsAvailable(b.p)),
           c.m.number_of_users_with_base - One(c.p.base_asset_amount # 0)
             = b.m.number_of_users_with_base - One(b.p.base_asset_amount # 0),
           c.m.pending_bankruptcy_claims - One(c.p.bankruptcy_claim)
             = b.m.pending_bankruptcy_claims - One(b.p.bankruptcy_claim),
           \A x \in Sides :
             /\ c.m.base_asset_amount[x]
                    - OnSide(c.p.base_asset_amount, x, c.p.base_asset_amount)
                  = b.m.base_asset_amount[x]
                    - OnSide(b.p.base_asset_amount, x, b.p.base_asset_amount)
             /\ c.m.quote_entry_amount[x]
                    - OnSide(c.p.base_asset_amount, x, c.p.quote_entry_amount)
                  = b.m.quote_entry_amount[x]
                    - OnSide(b.p.base_asset_amount, x, b.p.quote_entry_amount)
             /\ c.m.quote_break_even_amount[x]
                    - OnSide(c.p.base_asset_amount, x, c.p.quote_break_even_amount)
                  = b.m.quote_break_even_amount[x]
                    - OnSide(b.p.base_asset_amount, x, b.p.quote_break_even_amount)
    PROVE  Rest(c) = Rest(b)
BY DEF Rest

\* Books that differ only in their claims, and there by the position's own.
LEMMA RestOfClaims ==
    ASSUME NEW b, NEW c,
           c.m.quote_asset_amount = b.m.quote_asset_amount,
           c.m.number_of_users = b.m.number_of_users,
           c.m.number_of_users_with_base = b.m.number_of_users_with_base,
           c.m.base_asset_amount = b.m.base_asset_amount,
           c.m.quote_entry_amount = b.m.quote_entry_amount,
           c.m.quote_break_even_amount = b.m.quote_break_even_amount,
           c.p.base_asset_amount = b.p.base_asset_amount,
           c.p.quote_asset_amount = b.p.quote_asset_amount,
           c.p.quote_entry_amount = b.p.quote_entry_amount,
           c.p.quote_break_even_amount = b.p.quote_break_even_amount,
           IsAvailable(c.p) = IsAvailable(b.p),
           c.m.pending_bankruptcy_claims - One(c.p.bankruptcy_claim)
             = b.m.pending_bankruptcy_claims - One(b.p.bankruptcy_claim)
    PROVE  Rest(c) = Rest(b)
BY RestSame, ZenonT(60)

\* Books that differ only in what no total counts.
LEMMA RestStill ==
    ASSUME NEW b, NEW c,
           c.m.quote_asset_amount = b.m.quote_asset_amount,
           c.m.number_of_users = b.m.number_of_users,
           c.m.number_of_users_with_base = b.m.number_of_users_with_base,
           c.m.pending_bankruptcy_claims = b.m.pending_bankruptcy_claims,
           c.m.base_asset_amount = b.m.base_asset_amount,
           c.m.quote_entry_amount = b.m.quote_entry_amount,
           c.m.quote_break_even_amount = b.m.quote_break_even_amount,
           c.p.base_asset_amount = b.p.base_asset_amount,
           c.p.quote_asset_amount = b.p.quote_asset_amount,
           c.p.quote_entry_amount = b.p.quote_entry_amount,
           c.p.quote_break_even_amount = b.p.quote_break_even_amount,
           c.p.bankruptcy_claim = b.p.bankruptcy_claim
    PROVE  Rest(c) = Rest(b)
BY DEF Rest, IsAvailable

\* What a book that covers its position says of the counters.
LEMMA CoversParts ==
    ASSUME NEW b \in Books, Covered(b)
    PROVE  /\ b.m.number_of_users \in Nat /\ b.m.number_of_users_with_base \in Nat
           /\ b.m.pending_bankruptcy_claims \in Nat
           /\ ~IsAvailable(b.p) => b.m.number_of_users >= 1
           /\ b.p.base_asset_amount # 0 => b.m.number_of_users_with_base >= 1
           /\ b.p.bankruptcy_claim => b.m.pending_bankruptcy_claims >= 1
<1>1. /\ b.m.number_of_users \in Nat /\ b.m.number_of_users_with_base \in Nat
      /\ b.m.pending_bankruptcy_claims \in Nat
  BY DEF Books, MarketType
<1>2. /\ b.m.number_of_users - One(~IsAvailable(b.p)) >= 0
      /\ b.m.number_of_users_with_base - One(b.p.base_asset_amount # 0) >= 0
      /\ b.m.pending_bankruptcy_claims - One(b.p.bankruptcy_claim) >= 0
  BY DEF Covered, Rest
<1> QED
  BY <1>1, <1>2 DEF One

\* Two calls in a row move the base by the sum of what each moves.
LEMMA MovesCompose ==
    ASSUME NEW b \in Books, NEW c, NEW e, NEW x \in Int, NEW y \in Int,
           Moves(b, c, x), Moves(c, e, y)
    PROVE  Moves(b, e, x + y)
<1>1. c \in Books /\ e \in Books
  BY DEF Moves
<1>2. /\ b.p.base_asset_amount \in Int /\ c.p.base_asset_amount \in Int
      /\ Net(b.m) \in Int /\ Net(c.m) \in Int
  BY <1>1 DEF Books, PositionType, MarketType, Net, Sides
<1> QED
  BY <1>1, <1>2 DEF Moves, SameRates

\* release_bankruptcy_claim_if_settled makes the claim consistent with the
\* quote and moves no base.
LEMMA ReleaseMoves ==
    ASSUME NEW b \in Books, Covered(b),
           b.p.base_asset_amount = 0 => /\ b.p.quote_entry_amount = 0
                                        /\ b.p.quote_break_even_amount = 0
    PROVE  Moves(b, ReleaseClaimIfSettled(b), 0)
<1>1. b.p \in PositionType /\ b.m \in MarketType
  BY DEF Books
<1>2. Net(b.m) \in Int /\ b.p.base_asset_amount \in Int
  BY <1>1 DEF MarketType, PositionType, Net, Sides
<1>3. CASE b.p.bankruptcy_claim /\ b.p.quote_asset_amount >= 0
  <2> DEFINE q == [b.p EXCEPT !.bankruptcy_claim = FALSE]
             n == [b.m EXCEPT !.pending_bankruptcy_claims = SaturatingSub(@, 1)]
  <2>1. ReleaseClaimIfSettled(b) = [p |-> q, m |-> n]
    BY <1>3 DEF ReleaseClaimIfSettled
  <2>2. SaturatingSub(b.m.pending_bankruptcy_claims, 1) \in Nat
    BY <1>1 DEF MarketType, SaturatingSub
  <2>3. n \in MarketType /\ SameRates(b.m, n) /\ Net(n) = Net(b.m)
    BY <1>1, <2>2 DEF MarketType, SameRates, Net
  <2>4. q \in PositionType /\ Sound(q)
           /\ q.base_asset_amount = b.p.base_asset_amount
    BY <1>1, Zenon DEF PositionType, Sound
  <2>5. Rest([p |-> q, m |-> n]) = Rest(b)
    <3> DEFINE c == [p |-> q, m |-> n]
               left == b.m.pending_bankruptcy_claims - 1
    <3>1. /\ b.m.pending_bankruptcy_claims \in Nat
          /\ b.m.pending_bankruptcy_claims >= 1
      BY <1>3, CoversParts
    <3>2. SaturatingSub(b.m.pending_bankruptcy_claims, 1) = left
      BY <3>1 DEF SaturatingSub
    <3>3. /\ c.m.quote_asset_amount = b.m.quote_asset_amount
          /\ c.m.number_of_users = b.m.number_of_users
          /\ c.m.number_of_users_with_base = b.m.number_of_users_with_base
          /\ c.m.pending_bankruptcy_claims = left
          /\ c.m.base_asset_amount = b.m.base_asset_amount
          /\ c.m.quote_entry_amount = b.m.quote_entry_amount
          /\ c.m.quote_break_even_amount = b.m.quote_break_even_amount
      BY <1>1, <3>2 DEF MarketType
    <3>4. /\ c.p.base_asset_amount = b.p.base_asset_amount
          /\ c.p.quote_asset_amount = b.p.quote_asset_amount
          /\ c.p.quote_entry_amount = b.p.quote_entry_amount
          /\ c.p.quote_break_even_amount = b.p.quote_break_even_amount
          /\ c.p.bankruptcy_claim = FALSE
      BY <1>1 DEF PositionType
    <3>5. IsAvailable(c.p) = IsAvailable(b.p)
      BY <3>4 DEF IsAvailable
    <3>6. c.m.pending_bankruptcy_claims - One(c.p.bankruptcy_claim)
            = b.m.pending_bankruptcy_claims - One(b.p.bankruptcy_claim)
      BY <1>3, <3>1, <3>3, <3>4 DEF One
    <3> HIDE DEF c
    <3> QED
      BY <3>3, <3>4, <3>5, <3>6, RestOfClaims, Zenon DEF c
  <2> HIDE DEF q, n
  <2> QED
    BY <1>2, <2>1, <2>3, <2>4, <2>5 DEF Moves, Books
<1>4. CASE ~(b.p.bankruptcy_claim /\ b.p.quote_asset_amount >= 0)
  <2>1. ReleaseClaimIfSettled(b) = b
    BY <1>4 DEF ReleaseClaimIfSettled
  <2>2. Sound(b.p)
    BY <1>1, <1>4 DEF PositionType, Sound
  <2> QED
    BY <1>2, <2>1, <2>2 DEF Moves, SameRates
<1> QED
  BY <1>3, <1>4

\* update_quote_asset_amount moves no base.
LEMMA UpdateQuoteMoves ==
    ASSUME NEW b \in Books, Sound(b.p), Covered(b), NEW delta \in Int
    PROVE  Moves(b, UpdateQuoteAssetAmount(b, delta), 0)
<1>1. b.p \in PositionType /\ b.m \in MarketType
  BY DEF Books
<1>2. Net(b.m) \in Int /\ b.p.base_asset_amount \in Int
  BY <1>1 DEF MarketType, PositionType, Net, Sides
<1>3. CASE delta = 0
  <2>1. UpdateQuoteAssetAmount(b, delta) = b
    BY <1>3 DEF UpdateQuoteAssetAmount
  <2> QED
    BY <1>2, <2>1 DEF Moves, SameRates
<1>4. CASE delta # 0
  <2> DEFINE q == [b.p EXCEPT !.quote_asset_amount = @ + delta]
             users == b.m.number_of_users + (IF IsAvailable(b.p) THEN 1 ELSE 0)
             count == IF IsAvailable(q) THEN SaturatingSub(users, 1) ELSE users
             quote == b.m.quote_asset_amount + delta
             n == [b.m EXCEPT !.quote_asset_amount = quote,
                              !.number_of_users = count]
             c == [p |-> q, m |-> n]
  <2>1. UpdateQuoteAssetAmount(b, delta) = ReleaseClaimIfSettled(c)
    BY <1>4 DEF UpdateQuoteAssetAmount
  <2>2. count \in Nat /\ quote \in Int
    BY <1>1 DEF MarketType, SaturatingSub
  <2>7. count - One(~IsAvailable(q)) = b.m.number_of_users - One(~IsAvailable(b.p))
    <3>1. /\ b.m.number_of_users \in Nat
          /\ ~IsAvailable(b.p) => b.m.number_of_users >= 1
      BY CoversParts
    <3>2. IsAvailable(b.p) => ~IsAvailable(q)
      BY <1>1, <1>4 DEF IsAvailable, PositionType
    <3> HIDE DEF q
    <3> QED
      BY <3>1, <3>2 DEF One, SaturatingSub
  <2>8. quote - (b.p.quote_asset_amount + delta)
          = b.m.quote_asset_amount - b.p.quote_asset_amount
    BY <1>1 DEF MarketType, PositionType
  <2> HIDE DEF count, quote
  <2>3. n \in MarketType /\ SameRates(b.m, n) /\ Net(n) = Net(b.m)
    BY <1>1, <2>2, Zenon DEF MarketType, SameRates, Net
  <2>9. Rest(c) = Rest(b)
    <3>1. /\ c.m.quote_asset_amount = quote
          /\ c.m.number_of_users = count
          /\ c.m.number_of_users_with_base = b.m.number_of_users_with_base
          /\ c.m.pending_bankruptcy_claims = b.m.pending_bankruptcy_claims
          /\ c.m.base_asset_amount = b.m.base_asset_amount
          /\ c.m.quote_entry_amount = b.m.quote_entry_amount
          /\ c.m.quote_break_even_amount = b.m.quote_break_even_amount
      BY <1>1, Zenon DEF MarketType
    <3>2. /\ c.p.base_asset_amount = b.p.base_asset_amount
          /\ c.p.quote_asset_amount = b.p.quote_asset_amount + delta
          /\ c.p.quote_entry_amount = b.p.quote_entry_amount
          /\ c.p.quote_break_even_amount = b.p.quote_break_even_amount
          /\ c.p.bankruptcy_claim = b.p.bankruptcy_claim
          /\ c.p = q
      BY <1>1 DEF PositionType
    <3> HIDE DEF c, q
    <3> QED
      BY <2>7, <2>8, <3>1, <3>2, RestSame
  <2>4. q \in PositionType /\ q.base_asset_amount = b.p.base_asset_amount
          /\ q.quote_entry_amount = b.p.quote_entry_amount
          /\ q.quote_break_even_amount = b.p.quote_break_even_amount
    BY <1>1 DEF PositionType
  <2> HIDE DEF q, n
  <2>5. c \in Books
    BY <2>3, <2>4 DEF Books
  <2>6. Moves(c, ReleaseClaimIfSettled(c), 0)
    <3>1. Covered(c)
      BY <2>9 DEF Covered
    <3> QED
      BY <2>4, <2>5, <3>1, ReleaseMoves DEF Sound
  <2> QED
    BY <1>2, <2>1, <2>3, <2>4, <2>6, <2>9 DEF Moves, SameRates
<1> QED
  BY <1>3, <1>4

\* update_quote_break_even_amount moves no base.
LEMMA BreakEvenMoves ==
    ASSUME NEW b \in Books, Sound(b.p), NEW delta \in Int
    PROVE  Moves(b, UpdateQuoteBreakEvenAmount(b, delta), 0)
<1>1. b.p \in PositionType /\ b.m \in MarketType
  BY DEF Books
<1>2. Net(b.m) \in Int /\ b.p.base_asset_amount \in Int
  BY <1>1 DEF MarketType, PositionType, Net, Sides
<1>3. CASE b.p.base_asset_amount = 0
  <2>1. UpdateQuoteBreakEvenAmount(b, delta) = b
    BY <1>3 DEF UpdateQuoteBreakEvenAmount
  <2> QED
    BY <1>2, <2>1 DEF Moves, SameRates
<1>4. CASE b.p.base_asset_amount # 0
  <2> DEFINE x == Side(b.p.base_asset_amount)
             q == [b.p EXCEPT !.quote_break_even_amount = @ + delta]
             f == [b.m.quote_break_even_amount EXCEPT ![x] = @ + delta]
             n == [b.m EXCEPT !.quote_break_even_amount = f]
  <2>1. UpdateQuoteBreakEvenAmount(b, delta) = [p |-> q, m |-> n]
    BY <1>4 DEF UpdateQuoteBreakEvenAmount
  <2>2. x \in Sides
    BY DEF Side, Sides
  <2>5. f \in [Sides -> Int]
    BY <1>1, <2>2 DEF MarketType
  <2>6. \A y \in Sides :
          f[y] - OnSide(b.p.base_asset_amount, y, b.p.quote_break_even_amount + delta)
            = b.m.quote_break_even_amount[y]
                - OnSide(b.p.base_asset_amount, y, b.p.quote_break_even_amount)
    <3> SUFFICES ASSUME NEW y \in Sides
                 PROVE  f[y] - OnSide(b.p.base_asset_amount, y,
                                      b.p.quote_break_even_amount + delta)
                          = b.m.quote_break_even_amount[y]
                              - OnSide(b.p.base_asset_amount, y,
                                       b.p.quote_break_even_amount)
      OBVIOUS
    <3>1. /\ b.m.quote_break_even_amount \in [Sides -> Int]
          /\ b.m.quote_break_even_amount[y] \in Int
          /\ b.p.quote_break_even_amount \in Int
      BY <1>1 DEF MarketType, PositionType
    <3>2. f[y] = IF y = x THEN b.m.quote_break_even_amount[y] + delta
                          ELSE b.m.quote_break_even_amount[y]
      BY <2>2, <3>1
    <3> HIDE DEF f
    <3> QED
      BY <1>4, <3>1, <3>2 DEF OnSide
  <2> HIDE DEF x, f
  <2>3. n \in MarketType /\ SameRates(b.m, n) /\ Net(n) = Net(b.m)
    BY <1>1, <2>5 DEF MarketType, SameRates, Net
  <2>4. q \in PositionType /\ q.base_asset_amount = b.p.base_asset_amount
          /\ Sound(q)
    BY <1>1, <1>4 DEF PositionType, Sound
  <2>7. Rest([p |-> q, m |-> n]) = Rest(b)
    <3> DEFINE c == [p |-> q, m |-> n]
    <3>1. /\ c.m.quote_asset_amount = b.m.quote_asset_amount
          /\ c.m.number_of_users = b.m.number_of_users
          /\ c.m.number_of_users_with_base = b.m.number_of_users_with_base
          /\ c.m.pending_bankruptcy_claims = b.m.pending_bankruptcy_claims
          /\ c.m.base_asset_amount = b.m.base_asset_amount
          /\ c.m.quote_entry_amount = b.m.quote_entry_amount
          /\ c.m.quote_break_even_amount = f
      BY <1>1 DEF MarketType
    <3>2. /\ c.p.base_asset_amount = b.p.base_asset_amount
          /\ c.p.quote_asset_amount = b.p.quote_asset_amount
          /\ c.p.quote_entry_amount = b.p.quote_entry_amount
          /\ c.p.quote_break_even_amount = b.p.quote_break_even_amount + delta
          /\ c.p.bankruptcy_claim = b.p.bankruptcy_claim
      BY <1>1 DEF PositionType
    <3>3. IsAvailable(c.p) = IsAvailable(b.p)
      BY <3>2 DEF IsAvailable
    <3> HIDE DEF c
    <3> QED
      BY <2>6, <3>1, <3>2, <3>3, RestSame DEF c
  <2> HIDE DEF q, n
  <2> QED
    BY <1>2, <2>1, <2>3, <2>4, <2>7 DEF Moves, Books
<1> QED
  BY <1>3, <1>4

\* A charge or a credit that also moves the break-even amount.
LEMMA QuoteAndBreakEvenMoves ==
    ASSUME NEW b \in Books, Sound(b.p), Covered(b), NEW delta \in Int
    PROVE  Moves(b, UpdateQuoteAssetAndBreakEvenAmount(b, delta), 0)
<1> DEFINE c == UpdateQuoteAssetAmount(b, delta)
           e == UpdateQuoteBreakEvenAmount(c, delta)
<1>1. Moves(b, c, 0)
  BY UpdateQuoteMoves
<1>2. c \in Books /\ Sound(c.p)
  BY <1>1 DEF Moves
<1> HIDE DEF c
<1>3. Moves(c, e, 0)
  BY <1>2, BreakEvenMoves
<1> HIDE DEF e
<1>4. Moves(b, e, 0 + 0)
  BY <1>1, <1>3, MovesCompose
<1> QED
  BY <1>4 DEF UpdateQuoteAssetAndBreakEvenAmount, c, e

\* Moving a total from old to new, also across the sides, moves the sum of the
\* sides by the difference.
LEMMA MoveTotalSum ==
    ASSUME NEW total \in [Sides -> Int], NEW type, NEW base \in Int,
           NEW old \in Int, NEW new \in Int
    PROVE  LET t == MoveTotal(total, type, base, old, new)
           IN  /\ t \in [Sides -> Int]
               /\ t["Long"] + t["Short"]
                    = total["Long"] + total["Short"] + (new - old)
<1>1. total["Long"] \in Int /\ total["Short"] \in Int
  BY DEF Sides
<1>2. CASE base >= 0
  BY <1>1, <1>2 DEF MoveTotal, Side, Opposite, Sides
<1>3. CASE ~(base >= 0)
  BY <1>1, <1>3 DEF MoveTotal, Side, Opposite, Sides
<1> QED
  BY <1>2, <1>3

\* What get_position_update_type says of the base before and after.
LEMMA UpdateTypes ==
    ASSUME NEW base \in Int, NEW d \in Int \ {0}
    PROVE  LET type == UpdateType(base, d)
           IN  /\ type \in {"Open", "Increase", "Reduce", "Close", "Flip"}
               /\ type \in {"Reduce", "Close"} => base # 0
               /\ type = "Close" => Abs(d) = Abs(base)
               /\ base + d = 0 => type = "Close"
               /\ type = "Open" <=> base = 0
               /\ type = "Close" => base + d = 0
               /\ type \in {"Increase", "Reduce"} => Side(base + d) = Side(base)
               /\ type = "Flip" => Side(base + d) = Opposite(Side(base))
<1>1. CASE base = 0
  <2>1. UpdateType(base, d) = "Open"
    BY <1>1 DEF UpdateType
  <2> QED
    BY <1>1, <2>1
<1>2. CASE base # 0
  <2>1. CASE Signum(base) = Signum(d)
    <3>1. UpdateType(base, d) = "Increase"
      BY <1>2, <2>1 DEF UpdateType
    <3>2. base + d # 0 /\ Side(base + d) = Side(base)
      BY <1>2, <2>1 DEF Signum, Side
    <3> QED
      BY <1>2, <3>1, <3>2
  <2>2. CASE Signum(base) # Signum(d) /\ Abs(base) > Abs(d)
    <3>1. UpdateType(base, d) = "Reduce"
      BY <1>2, <2>2 DEF UpdateType
    <3>2. base + d # 0 /\ Side(base + d) = Side(base)
      BY <1>2, <2>2 DEF Abs, Side
    <3> QED
      BY <1>2, <3>1, <3>2
  <2>3. CASE Signum(base) # Signum(d) /\ Abs(base) = Abs(d)
    <3>1. UpdateType(base, d) = "Close"
      <4>1. ~(Abs(base) > Abs(d))
        BY <2>3 DEF Abs
      <4> QED
        BY <1>2, <2>3, <4>1 DEF UpdateType
    <3>2. base + d = 0
      BY <1>2, <2>3 DEF Signum, Abs
    <3> QED
      BY <1>2, <2>3, <3>1, <3>2
  <2>4. CASE Signum(base) # Signum(d) /\ Abs(base) < Abs(d)
    <3>1. ~(Abs(base) > Abs(d)) /\ Abs(base) # Abs(d)
      BY <2>4 DEF Abs
    <3>2. UpdateType(base, d) = "Flip"
      BY <1>2, <2>4, <3>1 DEF UpdateType
    <3>3. base + d # 0 /\ Side(base + d) = Opposite(Side(base))
      BY <1>2, <2>4 DEF Abs, Signum, Side, Opposite
    <3> QED
      BY <1>2, <3>2, <3>3
  <2>5. Abs(base) \in Int /\ Abs(d) \in Int
    BY DEF Abs
  <2> QED
    BY <2>1, <2>2, <2>3, <2>4, <2>5
<1> QED
  BY <1>1, <1>2

\* Total t leaves to the other positions what total did, when the value of one
\* went from old at that base to new at the base sum.
OthersKept(total, t, base, old, sum, new) ==
    \A x \in Sides : t[x] - OnSide(sum, x, new) = total[x] - OnSide(base, x, old)

\* MoveTotal leaves what the other positions have on each side: an open adds
\* the new value, a close takes the old one out, a flip does both.
LEMMA MoveTotalRest ==
    ASSUME NEW total \in [Sides -> Int], NEW base \in Int, NEW d \in Int \ {0},
           NEW sum, sum = base + d, NEW old \in Int, NEW new \in Int,
           base = 0 => old = 0, sum = 0 => new = 0,
           NEW type, type = UpdateType(base, d),
           NEW side, type = "Open" => side = d, type # "Open" => side = base
    PROVE  OthersKept(total, MoveTotal(total, type, side, old, new), base, old, sum, new)
<1> DEFINE t == MoveTotal(total, type, side, old, new)
           z == Side(side)
<1> SUFFICES ASSUME NEW x \in Sides
             PROVE  t[x] - OnSide(sum, x, new) = total[x] - OnSide(base, x, old)
  BY DEF OthersKept
<1>1. /\ type \in {"Open", "Increase", "Reduce", "Close", "Flip"}
      /\ type = "Open" <=> base = 0
      /\ base + d = 0 => type = "Close"
      /\ type = "Close" => base + d = 0
      /\ type \in {"Increase", "Reduce"} => Side(base + d) = Side(base)
      /\ type = "Flip" => Side(base + d) = Opposite(Side(base))
  BY UpdateTypes
<1>2. total[x] \in Int /\ z \in Sides /\ Opposite(z) \in Sides /\ z # Opposite(z)
        /\ (x # z => x = Opposite(z))
  BY DEF Side, Sides, Opposite
<1>3. CASE type = "Flip"
  <2>1. t = [total EXCEPT ![z] = @ - old, ![Opposite(z)] = @ + new]
    BY <1>3 DEF MoveTotal
  <2>2. t[x] = IF x = z THEN total[x] - old ELSE total[x] + new
    BY <1>2, <2>1
  <2>3. side = base /\ base # 0 /\ sum # 0 /\ Side(sum) = Opposite(z)
    BY <1>1, <1>3
  <2> HIDE DEF t
  <2> QED
    BY <1>2, <2>2, <2>3 DEF OnSide
<1>4. CASE type # "Flip"
  <2>1. t = [total EXCEPT ![z] = @ + (new - old)]
    BY <1>4 DEF MoveTotal
  <2>2. t[x] = IF x = z THEN total[x] + (new - old) ELSE total[x]
    BY <1>2, <2>1
  <2> HIDE DEF t
  <2>3. CASE type = "Open"
    <3>1. side = d /\ base = 0 /\ base + d = d /\ old = 0
      BY <1>1, <2>3
    <3> QED
      BY <1>2, <2>2, <3>1 DEF OnSide
  <2>4. CASE type = "Close"
    <3>1. side = base /\ base # 0 /\ base + d = 0 /\ new = 0
      BY <1>1, <2>4
    <3> QED
      BY <1>2, <2>2, <3>1 DEF OnSide
  <2>5. CASE type \in {"Increase", "Reduce"}
    <3>1. side = base /\ base # 0 /\ base + d # 0 /\ Side(base + d) = Side(base)
      BY <1>1, <2>5
    <3> QED
      BY <1>2, <2>2, <3>1 DEF OnSide
  <2> QED
    BY <1>1, <1>4, <2>3, <2>4, <2>5
<1> QED
  BY <1>3, <1>4

\* A cost basis stays an integer, and a close leaves none of it.
LEMMA NewBasisClosed ==
    ASSUME NEW basis \in Int, NEW base \in Int,
           NEW delta \in [base : Int \ {0}, quote : Int]
    PROVE  LET type == UpdateType(base, delta.base)
           IN  /\ NewBasis(type, basis, base, delta) \in Int
               /\ type = "Close" => NewBasis(type, basis, base, delta) = 0
<1> DEFINE type == UpdateType(base, delta.base)
           d == Abs(delta.base)
           a == Abs(base)
<1>1. d \in Nat \ {0} /\ a \in Nat /\ (base # 0 => a # 0)
  BY DEF Abs
<1>2. /\ type \in {"Open", "Increase", "Reduce", "Close", "Flip"}
      /\ type \in {"Reduce", "Close"} => base # 0
      /\ type = "Close" => d = a
  BY UpdateTypes
<1> HIDE DEF type, d, a
<1>3. CASE type \in {"Open", "Increase"}
  BY <1>3 DEF NewBasis, type
<1>4. CASE type \in {"Reduce", "Close"}
  <2>1. a \in Int \ {0} /\ basis * d \in Int
    BY <1>1, <1>2, <1>4
  <2>2. TruncDiv(basis * d, a) \in Int
    BY <2>1, TruncDivInt
  <2>3. NewBasis(type, basis, base, delta) = basis - TruncDiv(basis * d, a)
    BY <1>4 DEF NewBasis, d, a
  <2>4. type = "Close" => TruncDiv(basis * d, a) = basis
    BY <1>1, <1>2, TruncDivExact
  <2> QED
    BY <2>2, <2>3, <2>4 DEF type
<1>5. CASE type = "Flip"
  <2>1. d \in Int \ {0} /\ delta.quote * a \in Int
    BY <1>1
  <2>2. TruncDiv(delta.quote * a, d) \in Int
    BY <2>1, TruncDivInt
  <2>3. NewBasis(type, basis, base, delta)
          = delta.quote - TruncDiv(delta.quote * a, d)
    BY <1>5 DEF NewBasis, d, a
  <2> QED
    BY <1>5, <2>2, <2>3 DEF type
<1> QED
  BY <1>2, <1>3, <1>4, <1>5

\* update_position_and_market moves the base by delta.base, on the position and
\* on the sum of the market's sides alike.
LEMMA UpdatePositionMoves ==
    ASSUME NEW b \in Books, Sound(b.p), Covered(b),
           NEW delta \in [base : Int, quote : Int]
    PROVE  Moves(b, UpdatePositionAndMarket(b, delta), delta.base)
<1>1. b.p \in PositionType /\ b.m \in MarketType
  BY DEF Books
<1>2. Net(b.m) \in Int /\ b.p.base_asset_amount \in Int
  BY <1>1 DEF MarketType, PositionType, Net, Sides
<1>3. CASE delta.base = 0
  <2>1. UpdatePositionAndMarket(b, delta)
          = UpdateQuoteAssetAmount(b, delta.quote)
    BY <1>3 DEF UpdatePositionAndMarket
  <2> QED
    BY <1>3, <2>1, UpdateQuoteMoves
<1>4. CASE delta.base # 0
  <2> DEFINE
        base  == b.p.base_asset_amount
        type  == UpdateType(base, delta.base)
        side  == IF type = "Open" THEN delta.base ELSE base
        entry == NewBasis(type, b.p.quote_entry_amount, base, delta)
        even  == NewBasis(type, b.p.quote_break_even_amount, base, delta)
        stamp == CASE type = "Close"  -> 0
                   [] type = "Reduce" -> b.p.last_cumulative_funding_rate
                   [] OTHER           ->
                        b.m.cumulative_funding_rate[Side(base + delta.base)]
        sum   == base + delta.base
        cash  == b.p.quote_asset_amount + delta.quote
        new   == [b.p EXCEPT
                    !.base_asset_amount = sum,
                    !.quote_asset_amount = cash,
                    !.quote_entry_amount = entry,
                    !.quote_break_even_amount = even,
                    !.last_cumulative_funding_rate = stamp]
        bases == MoveTotal(b.m.base_asset_amount, type, side, base,
                           base + delta.base)
        entries == MoveTotal(b.m.quote_entry_amount, type, side,
                             b.p.quote_entry_amount, entry)
        evens == MoveTotal(b.m.quote_break_even_amount, type, side,
                           b.p.quote_break_even_amount, even)
        users == IF type = "Open" /\ b.p.quote_asset_amount = 0
                   THEN b.m.number_of_users + 1
                   ELSE IF type = "Close" /\ new.quote_asset_amount = 0
                     THEN SaturatingSub(b.m.number_of_users, 1)
                     ELSE b.m.number_of_users
        holders == IF type = "Open" THEN b.m.number_of_users_with_base + 1
                     ELSE IF type = "Close"
                       THEN SaturatingSub(b.m.number_of_users_with_base, 1)
                       ELSE b.m.number_of_users_with_base
        quote == b.m.quote_asset_amount + delta.quote
        n     == [b.m EXCEPT !.number_of_users = users,
                             !.number_of_users_with_base = holders,
                             !.quote_asset_amount = quote,
                             !.base_asset_amount = bases,
                             !.quote_entry_amount = entries,
                             !.quote_break_even_amount = evens]
        c     == [p |-> new, m |-> n]
  <2>1. base \in Int /\ b.p.quote_entry_amount \in Int
          /\ b.p.quote_break_even_amount \in Int /\ b.p.quote_asset_amount \in Int
          /\ b.p.last_cumulative_funding_rate \in Int
    BY <1>1 DEF PositionType
  <2>2. delta \in [base : Int \ {0}, quote : Int]
    BY <1>4
  <2>3. /\ base + delta.base = 0 => type = "Close"
        /\ type = "Close" => base + delta.base = 0
        /\ type = "Open" <=> base = 0
    BY <2>1, <2>2, UpdateTypes
  <2>4. entry \in Int /\ (type = "Close" => entry = 0)
    BY <2>1, <2>2, NewBasisClosed, Zenon
  <2>5. even \in Int /\ (type = "Close" => even = 0)
    BY <2>1, <2>2, NewBasisClosed, Zenon
  <2>6. stamp \in Int
    <3>1. Side(base + delta.base) \in Sides
      BY DEF Side, Sides
    <3>2. b.m.cumulative_funding_rate[Side(base + delta.base)] \in Int
      BY <1>1, <3>1 DEF MarketType
    <3> HIDE DEF type
    <3> QED
      BY <2>1, <3>2
  <2>7. side \in Int
    BY <2>1
  <2>8. UpdatePositionAndMarket(b, delta) = ReleaseClaimIfSettled(c)
    BY <1>1, <1>4 DEF UpdatePositionAndMarket, CountUsers, MarketType,
                      PositionType
  <2> HIDE DEF type, side, entry, even, stamp
  <2>9. /\ new \in PositionType
        /\ new.base_asset_amount = base + delta.base
        /\ new.quote_entry_amount = entry
        /\ new.quote_break_even_amount = even
    <3>1. sum \in Int /\ cash \in Int
      BY <2>1
    <3> HIDE DEF sum, cash
    <3>2. new \in PositionType
      BY <1>1, <2>4, <2>5, <2>6, <3>1, Zenon DEF PositionType
    <3>3. new.base_asset_amount = sum /\ new.quote_entry_amount = entry
            /\ new.quote_break_even_amount = even
      BY <1>1 DEF PositionType
    <3> QED
      BY <3>2, <3>3 DEF sum
  <2>10. users \in Nat /\ holders \in Nat /\ quote \in Int
    BY <1>1 DEF MarketType, SaturatingSub
  <2>11. /\ bases \in [Sides -> Int]
         /\ bases["Long"] + bases["Short"] = Net(b.m) + delta.base
    <3>1. b.m.base_asset_amount \in [Sides -> Int] /\ base + delta.base \in Int
      BY <1>1, <2>1 DEF MarketType
    <3>2. /\ bases \in [Sides -> Int]
          /\ bases["Long"] + bases["Short"]
               = b.m.base_asset_amount["Long"] + b.m.base_asset_amount["Short"]
                   + ((base + delta.base) - base)
      BY <2>1, <2>7, <3>1, MoveTotalSum
    <3> QED
      BY <1>2, <2>1, <3>2 DEF Net
  <2>12. entries \in [Sides -> Int]
    <3>1. b.m.quote_entry_amount \in [Sides -> Int]
      BY <1>1 DEF MarketType
    <3> QED
      BY <2>1, <2>4, <2>7, <3>1, MoveTotalSum
  <2>13. evens \in [Sides -> Int]
    <3>1. b.m.quote_break_even_amount \in [Sides -> Int]
      BY <1>1 DEF MarketType
    <3> QED
      BY <2>1, <2>5, <2>7, <3>1, MoveTotalSum
  <2>19. /\ new.quote_asset_amount = cash /\ new.base_asset_amount = sum
         /\ new.bankruptcy_claim = b.p.bankruptcy_claim
         /\ IsAvailable(new) <=> sum = 0 /\ cash = 0
    <3> HIDE DEF sum, cash
    <3>1. /\ new.quote_asset_amount = cash /\ new.base_asset_amount = sum
          /\ new.bankruptcy_claim = b.p.bankruptcy_claim
      BY <1>1 DEF PositionType
    <3> HIDE DEF new
    <3> QED
      BY <3>1 DEF IsAvailable
  <2>20. /\ users - One(~IsAvailable(new))
              = b.m.number_of_users - One(~IsAvailable(b.p))
         /\ holders - One(sum # 0)
              = b.m.number_of_users_with_base - One(base # 0)
    <3>1. /\ b.m.number_of_users \in Nat /\ b.m.number_of_users_with_base \in Nat
          /\ ~IsAvailable(b.p) => b.m.number_of_users >= 1
          /\ base # 0 => b.m.number_of_users_with_base >= 1
      BY CoversParts
    <3>2. IsAvailable(b.p) <=> base = 0 /\ b.p.quote_asset_amount = 0
      BY DEF IsAvailable
    <3>3. /\ sum = 0 <=> type = "Close"
          /\ base = 0 <=> type = "Open"
      BY <2>3
    <3> HIDE DEF new, base, sum, cash
    <3>4. users - One(~IsAvailable(new))
            = b.m.number_of_users - One(~IsAvailable(b.p))
      BY <2>19, <3>1, <3>2, <3>3 DEF One, SaturatingSub
    <3>5. holders - One(sum # 0) = b.m.number_of_users_with_base - One(base # 0)
      BY <3>1, <3>3 DEF One, SaturatingSub
    <3> QED
      BY <3>4, <3>5
  <2>21. ASSUME NEW total \in [Sides -> Int], NEW old \in Int, NEW value \in Int,
                base = 0 => old = 0, sum = 0 => value = 0
         PROVE  OthersKept(total, MoveTotal(total, type, side, old, value),
                           base, old, sum, value)
    <3> DEFINE d == delta.base
    <3>1. d \in Int \ {0} /\ base \in Int
      BY <2>1, <2>2
    <3>2. /\ type = UpdateType(base, d) /\ sum = base + d
          /\ type = "Open" => side = d
          /\ type # "Open" => side = base
      BY Zenon DEF type, side
    <3> HIDE DEF d, base, sum
    <3> QED
      BY <2>21, <3>1, <3>2, MoveTotalRest, Zenon
  <2>22. \A x \in Sides :
           /\ bases[x] - OnSide(sum, x, sum)
                = b.m.base_asset_amount[x] - OnSide(base, x, base)
           /\ entries[x] - OnSide(sum, x, entry)
                = b.m.quote_entry_amount[x] - OnSide(base, x, b.p.quote_entry_amount)
           /\ evens[x] - OnSide(sum, x, even)
                = b.m.quote_break_even_amount[x]
                    - OnSide(base, x, b.p.quote_break_even_amount)
    <3>1. /\ b.m.base_asset_amount \in [Sides -> Int]
          /\ b.m.quote_entry_amount \in [Sides -> Int]
          /\ b.m.quote_break_even_amount \in [Sides -> Int]
      BY <1>1 DEF MarketType
    <3>2. /\ base = 0 => b.p.quote_entry_amount = 0
          /\ base = 0 => b.p.quote_break_even_amount = 0
          /\ sum = 0 => entry = 0 /\ even = 0
      BY <2>3, <2>4, <2>5 DEF Sound
    <3>3. sum \in Int
      BY <2>1
    <3>4. OthersKept(b.m.base_asset_amount, bases, base, base, sum, sum)
      BY <2>1, <2>21, <3>1, <3>3
    <3>5. OthersKept(b.m.quote_entry_amount, entries, base, b.p.quote_entry_amount,
                     sum, entry)
      BY <2>1, <2>4, <2>21, <3>1, <3>2
    <3>6. OthersKept(b.m.quote_break_even_amount, evens, base,
                     b.p.quote_break_even_amount, sum, even)
      BY <2>1, <2>5, <2>21, <3>1, <3>2
    <3> QED
      BY <3>4, <3>5, <3>6, Zenon DEF OthersKept
  <2>23. quote - cash = b.m.quote_asset_amount - b.p.quote_asset_amount
    BY <1>1, <2>1 DEF MarketType
  <2> HIDE DEF users, holders, quote, bases, entries, evens, new, sum, cash
  <2>14. /\ n \in MarketType /\ SameRates(b.m, n)
         /\ n.base_asset_amount = bases
    BY <1>1, <2>10, <2>11, <2>12, <2>13, Zenon DEF MarketType, SameRates
  <2>24. Rest(c) = Rest(b)
    <3>1. /\ c.m.quote_asset_amount = quote
          /\ c.m.number_of_users = users
          /\ c.m.number_of_users_with_base = holders
          /\ c.m.pending_bankruptcy_claims = b.m.pending_bankruptcy_claims
          /\ c.m.base_asset_amount = bases
          /\ c.m.quote_entry_amount = entries
          /\ c.m.quote_break_even_amount = evens
      BY <1>1, Zenon DEF MarketType
    <3>2. /\ c.p = new
          /\ new.quote_entry_amount = entry /\ new.quote_break_even_amount = even
          /\ new.quote_asset_amount = cash /\ new.base_asset_amount = sum
          /\ new.bankruptcy_claim = b.p.bankruptcy_claim
      BY <2>9, <2>19
    <3> HIDE DEF c
    <3> QED
      BY <2>20, <2>22, <2>23, <3>1, <3>2, RestSame
  <2> HIDE DEF n
  <2>15. c \in Books
    BY <2>9, <2>14 DEF Books
  <2>16. Moves(c, ReleaseClaimIfSettled(c), 0)
    <3>1. Covered(c)
      BY <2>24 DEF Covered
    <3> QED
      BY <2>3, <2>4, <2>5, <2>9, <2>15, <3>1, ReleaseMoves
  <2>17. Net(c.m) = Net(b.m) + delta.base
    BY <2>11, <2>14 DEF Net
  <2>18. c.p.base_asset_amount = b.p.base_asset_amount + delta.base
           /\ SameRates(b.m, c.m)
    BY <2>9, <2>14
  <2> HIDE DEF c
  <2> QED
    BY <1>2, <2>8, <2>16, <2>17, <2>18, <2>24 DEF Moves, SameRates
<1> QED
  BY <1>3, <1>4

\* The funding a position has yet to settle is an amount of quote.
LEMMA PendingFundingInt ==
    ASSUME NEW b \in Books PROVE PendingFunding(b.p, b.m) \in Int
<1> DEFINE x == Side(b.p.base_asset_amount)
           r == b.m.cumulative_funding_rate[x]
           d == r - b.p.last_cumulative_funding_rate
<1>1. b.p.base_asset_amount \in Int /\ b.p.last_cumulative_funding_rate \in Int
  BY DEF Books, PositionType
<1>2. r \in Int
  BY DEF Books, MarketType, Side, Sides
<1> HIDE DEF r
<1>3. d \in Int
  BY <1>1, <1>2
<1>4. FundingPayment(d, b.p.base_asset_amount) \in Int
  BY <1>1, <1>3, FundingPaymentInt, Zenon
<1> QED
  BY <1>4 DEF PendingFunding, r

\* settle_funding_payment moves no base.
LEMMA SettleFundingMoves ==
    ASSUME NEW b \in Books, Sound(b.p), Covered(b)
    PROVE  Moves(b, SettleFundingPayment(b), 0)
<1> DEFINE payment == PendingFunding(b.p, b.m)
           rate == b.m.cumulative_funding_rate[Side(b.p.base_asset_amount)]
           stamped == IF b.p.base_asset_amount = 0
                        THEN b.p
                        ELSE [b.p EXCEPT !.last_cumulative_funding_rate = rate]
           c == [p |-> stamped, m |-> b.m]
           paid == UpdateQuoteAssetAndBreakEvenAmount(c, payment)
           unsettled == paid.m.net_unsettled_funding_pnl - payment
           n == [paid.m EXCEPT !.net_unsettled_funding_pnl = unsettled]
<1>1. b.p \in PositionType /\ b.m \in MarketType
  BY DEF Books
<1>2. Net(b.m) \in Int /\ b.p.base_asset_amount \in Int
  BY <1>1 DEF MarketType, PositionType, Net, Sides
<1>3. payment \in Int
  BY PendingFundingInt
<1>4. rate \in Int
  BY <1>1 DEF MarketType, Side, Sides
<1>5. SettleFundingPayment(b) = [paid EXCEPT !.m.net_unsettled_funding_pnl = @ - payment]
  BY Zenon DEF SettleFundingPayment
<1> HIDE DEF payment, rate
<1>6. stamped \in PositionType /\ Sound(stamped)
        /\ stamped.base_asset_amount = b.p.base_asset_amount
  BY <1>1, <1>4 DEF PositionType, Sound
<1>14. /\ stamped.quote_asset_amount = b.p.quote_asset_amount
       /\ stamped.quote_entry_amount = b.p.quote_entry_amount
       /\ stamped.quote_break_even_amount = b.p.quote_break_even_amount
       /\ stamped.bankruptcy_claim = b.p.bankruptcy_claim
  BY <1>1 DEF PositionType
<1> HIDE DEF stamped
<1>7. c \in Books /\ Sound(c.p) /\ c.m = b.m
        /\ c.p.base_asset_amount = b.p.base_asset_amount
  BY <1>1, <1>6 DEF Books
<1>15. Rest(c) = Rest(b)
  BY <1>6, <1>14, RestStill
<1>16. Covered(c)
  BY <1>15 DEF Covered
<1>8. Moves(c, paid, 0)
  BY <1>3, <1>7, <1>16, QuoteAndBreakEvenMoves
<1> HIDE DEF c, paid
<1>9. paid \in Books /\ paid.m \in MarketType /\ paid.p \in PositionType
  BY <1>8 DEF Moves, Books
<1>10. SettleFundingPayment(b) = [p |-> paid.p, m |-> n]
  BY <1>5, <1>9 DEF Books
<1>11. unsettled \in Int
  BY <1>3, <1>9 DEF MarketType
<1> HIDE DEF unsettled
<1>12. n \in MarketType /\ SameRates(paid.m, n) /\ Net(n) = Net(paid.m)
  BY <1>9, <1>11 DEF MarketType, SameRates, Net
<1>17. Rest([p |-> paid.p, m |-> n]) = Rest(paid)
  <2>1. /\ n.quote_asset_amount = paid.m.quote_asset_amount
        /\ n.number_of_users = paid.m.number_of_users
        /\ n.number_of_users_with_base = paid.m.number_of_users_with_base
        /\ n.pending_bankruptcy_claims = paid.m.pending_bankruptcy_claims
        /\ n.base_asset_amount = paid.m.base_asset_amount
        /\ n.quote_entry_amount = paid.m.quote_entry_amount
        /\ n.quote_break_even_amount = paid.m.quote_break_even_amount
    BY <1>9 DEF MarketType
  <2> HIDE DEF n
  <2> QED
    BY <2>1, RestStill
<1>18. Rest([p |-> paid.p, m |-> n]) = Rest(b)
  BY <1>8, <1>15, <1>17 DEF Moves
<1> HIDE DEF n
<1>13. Moves(b, [p |-> paid.p, m |-> n], 0)
  BY <1>7, <1>8, <1>9, <1>12, <1>18 DEF Moves, Books, SameRates
<1> QED
  BY <1>10, <1>13

\* flag_perp_bankruptcy_claim books debts only, and moves no base.
LEMMA FlagMoves ==
    ASSUME NEW b \in Books, Sound(b.p)
    PROVE  Moves(b, FlagBankruptcyClaim(b), 0)
<1>1. b.p \in PositionType /\ b.m \in MarketType
  BY DEF Books
<1>2. Net(b.m) \in Int /\ b.p.base_asset_amount \in Int
  BY <1>1 DEF MarketType, PositionType, Net, Sides
<1> DEFINE flags == /\ ~b.p.bankruptcy_claim /\ b.p.base_asset_amount = 0
                    /\ b.p.quote_asset_amount < 0
<1>3. CASE flags
  <2> DEFINE q == [b.p EXCEPT !.bankruptcy_claim = TRUE]
             n == [b.m EXCEPT !.pending_bankruptcy_claims = @ + 1]
  <2>1. FlagBankruptcyClaim(b) = [p |-> q, m |-> n]
    BY <1>3 DEF FlagBankruptcyClaim
  <2>2. n \in MarketType /\ SameRates(b.m, n) /\ Net(n) = Net(b.m)
    BY <1>1 DEF MarketType, SameRates, Net
  <2>3. q \in PositionType /\ Sound(q)
          /\ q.base_asset_amount = b.p.base_asset_amount
    BY <1>1, <1>3, Zenon DEF PositionType, Sound
  <2>4. Rest([p |-> q, m |-> n]) = Rest(b)
    <3> DEFINE c == [p |-> q, m |-> n]
    <3>1. /\ c.m.quote_asset_amount = b.m.quote_asset_amount
          /\ c.m.number_of_users = b.m.number_of_users
          /\ c.m.number_of_users_with_base = b.m.number_of_users_with_base
          /\ c.m.pending_bankruptcy_claims = b.m.pending_bankruptcy_claims + 1
          /\ c.m.base_asset_amount = b.m.base_asset_amount
          /\ c.m.quote_entry_amount = b.m.quote_entry_amount
          /\ c.m.quote_break_even_amount = b.m.quote_break_even_amount
      BY <1>1 DEF MarketType
    <3>2. /\ c.p.base_asset_amount = b.p.base_asset_amount
          /\ c.p.quote_asset_amount = b.p.quote_asset_amount
          /\ c.p.quote_entry_amount = b.p.quote_entry_amount
          /\ c.p.quote_break_even_amount = b.p.quote_break_even_amount
          /\ c.p.bankruptcy_claim = TRUE
      BY <1>1 DEF PositionType
    <3>3. IsAvailable(c.p) = IsAvailable(b.p)
      BY <3>2 DEF IsAvailable
    <3>4. b.m.pending_bankruptcy_claims \in Nat
      BY <1>1 DEF MarketType
    <3> HIDE DEF c
    <3>5. c.m.pending_bankruptcy_claims - One(c.p.bankruptcy_claim)
            = b.m.pending_bankruptcy_claims - One(b.p.bankruptcy_claim)
      BY <1>3, <3>1, <3>2, <3>4 DEF One
    <3>6. Rest(c) = Rest(b)
      BY <3>1, <3>2, <3>3, <3>5, RestOfClaims, Zenon
    <3> QED
      BY <3>6 DEF c
  <2> HIDE DEF q, n
  <2> QED
    BY <1>2, <2>1, <2>2, <2>3, <2>4 DEF Moves, Books
<1>4. CASE ~flags
  <2>1. FlagBankruptcyClaim(b) = b
    BY <1>4, Zenon DEF FlagBankruptcyClaim
  <2> QED
    BY <1>2, <2>1 DEF Moves, SameRates
<1> QED
  BY <1>3, <1>4

-----------------------------------------------------------------------------
(* Sequences of calls *)

States == [position : [Users -> PositionType], market : MarketType]

\* Every total and counter of the market is the sum of the positions' shares.
Matched(s) ==
    /\ s.market.quote_asset_amount
         = Sum([u \in Users |-> s.position[u].quote_asset_amount])
    /\ s.market.number_of_users
         = Sum([u \in Users |-> One(~IsAvailable(s.position[u]))])
    /\ s.market.number_of_users_with_base
         = Sum([u \in Users |-> One(s.position[u].base_asset_amount # 0)])
    /\ s.market.pending_bankruptcy_claims
         = Sum([u \in Users |-> One(s.position[u].bankruptcy_claim)])
    /\ \A x \in Sides :
         /\ s.market.base_asset_amount[x]
              = Sum([u \in Users |-> OnSide(s.position[u].base_asset_amount, x,
                                            s.position[u].base_asset_amount)])
         /\ s.market.quote_entry_amount[x]
              = Sum([u \in Users |-> OnSide(s.position[u].base_asset_amount, x,
                                            s.position[u].quote_entry_amount)])
         /\ s.market.quote_break_even_amount[x]
              = Sum([u \in Users |-> OnSide(s.position[u].base_asset_amount, x,
                                            s.position[u].quote_break_even_amount)])

\* Markets with the same totals and counters.
SameTotals(m, n) ==
    /\ n.quote_asset_amount = m.quote_asset_amount
    /\ n.number_of_users = m.number_of_users
    /\ n.number_of_users_with_base = m.number_of_users_with_base
    /\ n.pending_bankruptcy_claims = m.pending_bankruptcy_claims
    /\ n.base_asset_amount = m.base_asset_amount
    /\ n.quote_entry_amount = m.quote_entry_amount
    /\ n.quote_break_even_amount = m.quote_break_even_amount

Good(s) == /\ s \in States
           /\ \A u \in Users : Sound(s.position[u])
           /\ Matched(s)

\* A step that changes no total and no position keeps the totals matched.
LEMMA MatchedSame ==
    ASSUME NEW s, NEW t, Matched(s), t.position = s.position,
           SameTotals(s.market, t.market)
    PROVE  Matched(t)
BY Zenon DEF Matched, SameTotals

\* A total that changes by what one share changes stays the sum.
LEMMA TotalMoves ==
    ASSUME NEW f, \A v \in Users : f[v] \in Int, NEW e, \A v \in Users : e[v] \in Int,
           NEW u \in Users, \A v \in Users \ {u} : e[v] = f[v],
           NEW T, T = Sum(f), NEW R \in Int, R - e[u] = T - f[u]
    PROVE  R = Sum(e)
<1>1. Sum(e) = Sum(f) + e[u] - f[u]
  BY MarketAssumption, SumUpdate DEF Sum
<1>2. Sum(f) \in Int
  BY MarketAssumption, SumInt DEF Sum
<1> QED
  BY <1>1, <1>2

\* The shares of a typed position are numbers.
LEMMA ShareTypes ==
    ASSUME NEW p \in PositionType, NEW x
    PROVE  /\ p.quote_asset_amount \in Int
           /\ One(~IsAvailable(p)) \in {0, 1}
           /\ One(p.base_asset_amount # 0) \in {0, 1}
           /\ One(p.bankruptcy_claim) \in {0, 1}
           /\ OnSide(p.base_asset_amount, x, p.base_asset_amount) \in Int
           /\ OnSide(p.base_asset_amount, x, p.quote_entry_amount) \in Int
           /\ OnSide(p.base_asset_amount, x, p.quote_break_even_amount) \in Int
<1>1. /\ p.quote_asset_amount \in Int /\ p.base_asset_amount \in Int
      /\ p.quote_entry_amount \in Int /\ p.quote_break_even_amount \in Int
  BY DEF PositionType
<1> QED
  BY <1>1 DEF One, OnSide

\* Writing back a book whose rest is that of the account keeps the totals
\* matched.
LEMMA WithMatched ==
    ASSUME NEW s, s \in States, Matched(s), NEW u \in Users, NEW c \in Books,
           Rest(c) = Rest(Book(s, u))
    PROVE  Matched(With(s, u, c))
<1> DEFINE t == With(s, u, c)
<1>1. /\ s.position \in [Users -> PositionType] /\ s.market \in MarketType
      /\ c.p \in PositionType /\ c.m \in MarketType
  BY DEF States, Books
<1>2. t.position = [s.position EXCEPT ![u] = c.p] /\ t.market = c.m
  BY DEF With
<1>3. /\ t.position[u] = c.p
      /\ \A v \in Users \ {u} : t.position[v] = s.position[v]
      /\ \A v \in Users : t.position[v] \in PositionType /\ s.position[v] \in PositionType
  BY <1>1, <1>2
<1>4. /\ c.m.quote_asset_amount \in Int /\ c.m.number_of_users \in Int
      /\ c.m.number_of_users_with_base \in Int /\ c.m.pending_bankruptcy_claims \in Int
      /\ \A x \in Sides : /\ c.m.base_asset_amount[x] \in Int
                           /\ c.m.quote_entry_amount[x] \in Int
                           /\ c.m.quote_break_even_amount[x] \in Int
  BY <1>1 DEF MarketType
<1>5. Book(s, u).p = s.position[u] /\ Book(s, u).m = s.market
  BY DEF Book
<1> HIDE DEF t
<1>6. c.m.quote_asset_amount = Sum([v \in Users |-> t.position[v].quote_asset_amount])
  <2> DEFINE f == [v \in Users |-> s.position[v].quote_asset_amount]
             e == [v \in Users |-> t.position[v].quote_asset_amount]
  <2>1. c.m.quote_asset_amount - c.p.quote_asset_amount
          = s.market.quote_asset_amount - s.position[u].quote_asset_amount
    BY <1>5, RestFields, ZenonT(60)
  <2>2. /\ \A v \in Users : f[v] \in Int /\ e[v] \in Int
        /\ \A v \in Users \ {u} : e[v] = f[v]
        /\ f[u] = s.position[u].quote_asset_amount /\ e[u] = c.p.quote_asset_amount
    BY <1>3, ShareTypes, Zenon
  <2>3. s.market.quote_asset_amount = Sum(f)
    BY Zenon DEF Matched
  <2> HIDE DEF f, e
  <2>4. c.m.quote_asset_amount = Sum(e)
    BY <1>4, <2>1, <2>2, <2>3, TotalMoves
  <2> QED
    BY <2>4, Zenon DEF e
<1>7. c.m.number_of_users = Sum([v \in Users |-> One(~IsAvailable(t.position[v]))])
  <2> DEFINE f == [v \in Users |-> One(~IsAvailable(s.position[v]))]
             e == [v \in Users |-> One(~IsAvailable(t.position[v]))]
  <2>1. c.m.number_of_users - One(~IsAvailable(c.p))
          = s.market.number_of_users - One(~IsAvailable(s.position[u]))
    BY <1>5, RestFields
  <2>2. /\ \A v \in Users : f[v] \in Int /\ e[v] \in Int
        /\ \A v \in Users \ {u} : e[v] = f[v]
        /\ f[u] = One(~IsAvailable(s.position[u])) /\ e[u] = One(~IsAvailable(c.p))
    BY <1>3, SMTT(20) DEF One
  <2>3. s.market.number_of_users = Sum(f)
    BY Zenon DEF Matched
  <2> HIDE DEF f, e
  <2>4. c.m.number_of_users = Sum(e)
    BY <1>4, <2>1, <2>2, <2>3, TotalMoves
  <2> QED
    BY <2>4, Zenon DEF e
<1>8. c.m.number_of_users_with_base
        = Sum([v \in Users |-> One(t.position[v].base_asset_amount # 0)])
  <2> DEFINE f == [v \in Users |-> One(s.position[v].base_asset_amount # 0)]
             e == [v \in Users |-> One(t.position[v].base_asset_amount # 0)]
  <2>1. c.m.number_of_users_with_base - One(c.p.base_asset_amount # 0)
          = s.market.number_of_users_with_base - One(s.position[u].base_asset_amount # 0)
    BY <1>5, RestFields
  <2>2. /\ \A v \in Users : f[v] \in Int /\ e[v] \in Int
        /\ \A v \in Users \ {u} : e[v] = f[v]
        /\ f[u] = One(s.position[u].base_asset_amount # 0)
        /\ e[u] = One(c.p.base_asset_amount # 0)
    BY <1>3 DEF One
  <2>3. s.market.number_of_users_with_base = Sum(f)
    BY Zenon DEF Matched
  <2> HIDE DEF f, e
  <2>4. c.m.number_of_users_with_base = Sum(e)
    BY <1>4, <2>1, <2>2, <2>3, TotalMoves
  <2> QED
    BY <2>4, Zenon DEF e
<1>9. c.m.pending_bankruptcy_claims
        = Sum([v \in Users |-> One(t.position[v].bankruptcy_claim)])
  <2> DEFINE f == [v \in Users |-> One(s.position[v].bankruptcy_claim)]
             e == [v \in Users |-> One(t.position[v].bankruptcy_claim)]
  <2>1. c.m.pending_bankruptcy_claims - One(c.p.bankruptcy_claim)
          = s.market.pending_bankruptcy_claims - One(s.position[u].bankruptcy_claim)
    BY <1>5, RestFields, ZenonT(60)
  <2>2. /\ \A v \in Users : f[v] \in Int /\ e[v] \in Int
        /\ \A v \in Users \ {u} : e[v] = f[v]
        /\ f[u] = One(s.position[u].bankruptcy_claim) /\ e[u] = One(c.p.bankruptcy_claim)
    BY <1>3 DEF One
  <2>3. s.market.pending_bankruptcy_claims = Sum(f)
    BY Zenon DEF Matched
  <2> HIDE DEF f, e
  <2>4. c.m.pending_bankruptcy_claims = Sum(e)
    BY <1>4, <2>1, <2>2, <2>3, TotalMoves
  <2> QED
    BY <2>4, Zenon DEF e
<1>10. ASSUME NEW x \in Sides
       PROVE  /\ c.m.base_asset_amount[x]
                   = Sum([v \in Users |-> OnSide(t.position[v].base_asset_amount, x,
                                                 t.position[v].base_asset_amount)])
              /\ c.m.quote_entry_amount[x]
                   = Sum([v \in Users |-> OnSide(t.position[v].base_asset_amount, x,
                                                 t.position[v].quote_entry_amount)])
              /\ c.m.quote_break_even_amount[x]
                   = Sum([v \in Users |-> OnSide(t.position[v].base_asset_amount, x,
                                                 t.position[v].quote_break_even_amount)])
  <2>1. /\ Rest(c).base[x] = Rest(Book(s, u)).base[x]
        /\ Rest(c).entry[x] = Rest(Book(s, u)).entry[x]
        /\ Rest(c).even[x] = Rest(Book(s, u)).even[x]
    OBVIOUS
  <2>2. c.m.base_asset_amount[x]
          = Sum([v \in Users |-> OnSide(t.position[v].base_asset_amount,
                                        x, t.position[v].base_asset_amount)])
    <3> DEFINE f == [v \in Users |-> OnSide(s.position[v].base_asset_amount,
                                            x, s.position[v].base_asset_amount)]
               e == [v \in Users |-> OnSide(t.position[v].base_asset_amount,
                                            x, t.position[v].base_asset_amount)]
    <3>1. c.m.base_asset_amount[x] - OnSide(c.p.base_asset_amount,
                                            x, c.p.base_asset_amount)
            = s.market.base_asset_amount[x] - OnSide(s.position[u].base_asset_amount,
                                        x, s.position[u].base_asset_amount)
      BY <1>5, <2>1, Zenon DEF Rest
    <3>2. /\ \A v \in Users : f[v] \in Int /\ e[v] \in Int
          /\ \A v \in Users \ {u} : e[v] = f[v]
          /\ f[u] = OnSide(s.position[u].base_asset_amount,
                           x, s.position[u].base_asset_amount)
          /\ e[u] = OnSide(c.p.base_asset_amount, x, c.p.base_asset_amount)
      BY <1>3, ShareTypes, Zenon
    <3>3. s.market.base_asset_amount[x] = Sum(f)
      BY Zenon DEF Matched
    <3> HIDE DEF f, e
    <3>4. c.m.base_asset_amount[x] = Sum(e)
      BY <1>4, <3>1, <3>2, <3>3, TotalMoves
    <3> QED
      BY <3>4, Zenon DEF e
  <2>3. c.m.quote_entry_amount[x]
          = Sum([v \in Users |-> OnSide(t.position[v].base_asset_amount,
                                        x, t.position[v].quote_entry_amount)])
    <3> DEFINE f == [v \in Users |-> OnSide(s.position[v].base_asset_amount,
                                            x, s.position[v].quote_entry_amount)]
               e == [v \in Users |-> OnSide(t.position[v].base_asset_amount,
                                            x, t.position[v].quote_entry_amount)]
    <3>1. c.m.quote_entry_amount[x] - OnSide(c.p.base_asset_amount,
                                             x, c.p.quote_entry_amount)
            = s.market.quote_entry_amount[x] - OnSide(s.position[u].base_asset_amount,
                                        x, s.position[u].quote_entry_amount)
      BY <1>5, <2>1, Zenon DEF Rest
    <3>2. /\ \A v \in Users : f[v] \in Int /\ e[v] \in Int
          /\ \A v \in Users \ {u} : e[v] = f[v]
          /\ f[u] = OnSide(s.position[u].base_asset_amount,
                           x, s.position[u].quote_entry_amount)
          /\ e[u] = OnSide(c.p.base_asset_amount, x, c.p.quote_entry_amount)
      BY <1>3, ShareTypes, Zenon
    <3>3. s.market.quote_entry_amount[x] = Sum(f)
      BY Zenon DEF Matched
    <3> HIDE DEF f, e
    <3>4. c.m.quote_entry_amount[x] = Sum(e)
      BY <1>4, <3>1, <3>2, <3>3, TotalMoves
    <3> QED
      BY <3>4, Zenon DEF e
  <2>4. c.m.quote_break_even_amount[x]
          = Sum([v \in Users |-> OnSide(t.position[v].base_asset_amount,
                                        x, t.position[v].quote_break_even_amount)])
    <3> DEFINE f == [v \in Users |-> OnSide(s.position[v].base_asset_amount,
                                            x, s.position[v].quote_break_even_amount)]
               e == [v \in Users |-> OnSide(t.position[v].base_asset_amount,
                                            x, t.position[v].quote_break_even_amount)]
    <3>1. c.m.quote_break_even_amount[x] - OnSide(c.p.base_asset_amount,
                                                  x, c.p.quote_break_even_amount)
            = s.market.quote_break_even_amount[x] - OnSide(s.position[u].base_asset_amount,
                                        x, s.position[u].quote_break_even_amount)
      BY <1>5, <2>1, Zenon DEF Rest
    <3>2. /\ \A v \in Users : f[v] \in Int /\ e[v] \in Int
          /\ \A v \in Users \ {u} : e[v] = f[v]
          /\ f[u] = OnSide(s.position[u].base_asset_amount,
                           x, s.position[u].quote_break_even_amount)
          /\ e[u] = OnSide(c.p.base_asset_amount, x, c.p.quote_break_even_amount)
      BY <1>3, ShareTypes, Zenon
    <3>3. s.market.quote_break_even_amount[x] = Sum(f)
      BY Zenon DEF Matched
    <3> HIDE DEF f, e
    <3>4. c.m.quote_break_even_amount[x] = Sum(e)
      BY <1>4, <3>1, <3>2, <3>3, TotalMoves
    <3> QED
      BY <3>4, Zenon DEF e
  <2> QED
    BY <2>2, <2>3, <2>4
<1>11. Matched(t)
  BY <1>2, <1>6, <1>7, <1>8, <1>9, <1>10, Zenon DEF Matched
<1> QED
  BY <1>11 DEF t

\* How far the AMM is from being the counterparty of the net position.
Imbalance(m) == Net(m) - m.base_asset_amount_with_amm

\* State t is reached from s by calls that moved the base of no account outside
\* W, the imbalance by d, and no funding rate.
Shift(s, t, W, d) ==
    /\ Good(t)
    /\ \A u \in Users \ W :
         t.position[u].base_asset_amount = s.position[u].base_asset_amount
    /\ Imbalance(t.market) = Imbalance(s.market) + d
    /\ t.market.cumulative_funding_rate = s.market.cumulative_funding_rate
    /\ t.market.amm_last_cumulative_funding_rate
         = s.market.amm_last_cumulative_funding_rate

\* The parts of a good state are typed.
LEMMA GoodParts ==
    ASSUME NEW s, Good(s)
    PROVE  /\ s.market \in MarketType
           /\ Imbalance(s.market) \in Int
           /\ \A u \in Users : /\ s.position[u] \in PositionType
                               /\ s.position[u].base_asset_amount \in Int
                               /\ s.position[u].quote_asset_amount \in Int
                               /\ Sound(s.position[u])
<1>1. s.market \in MarketType /\ s.position \in [Users -> PositionType]
  BY DEF Good, States
<1>2. Imbalance(s.market) \in Int
  BY <1>1 DEF MarketType, Imbalance, Net, Sides
<1> QED
  BY <1>1, <1>2 DEF Good, PositionType

\* Shifts compose.
LEMMA ShiftCompose ==
    ASSUME NEW s, NEW t, NEW r, Good(s), NEW V, NEW W, NEW x \in Int,
           NEW y \in Int, Shift(s, t, V, x), Shift(t, r, W, y)
    PROVE  Shift(s, r, V \cup W, x + y)
<1>1. Imbalance(s.market) \in Int
  BY GoodParts
<1>2. Imbalance(r.market) = Imbalance(s.market) + (x + y)
  BY <1>1 DEF Shift
<1> QED
  BY <1>2 DEF Shift

\* Shifts that move no base compose to one that moves none.
LEMMA ShiftChain ==
    ASSUME NEW s, NEW t, NEW r, Good(s), NEW W, NEW x \in Int,
           Shift(s, t, W, x), Shift(t, r, {}, 0)
    PROVE  Shift(s, r, W, x)
<1>1. Shift(s, r, W \cup {}, x + 0)
  BY ShiftCompose
<1> QED
  BY <1>1

\* Writing one moved book back.
LEMMA WithShift ==
    ASSUME NEW s, Good(s), NEW u \in Users, NEW b \in Books, NEW c,
           NEW d \in Int, b.m = s.market,
           b.p.base_asset_amount = s.position[u].base_asset_amount,
           Rest(b) = Rest(Book(s, u)), Moves(b, c, d)
    PROVE  /\ Shift(s, With(s, u, c), {u}, d)
           /\ With(s, u, c).position[u] = c.p
           /\ \A v \in Users \ {u} : With(s, u, c).position[v] = s.position[v]
<1> DEFINE t == With(s, u, c)
<1>1. c.p \in PositionType /\ c.m \in MarketType /\ Sound(c.p)
  BY DEF Moves, Books
<1>2. s.position \in [Users -> PositionType] /\ s.market \in MarketType
  BY DEF Good, States
<1>3. t.position = [s.position EXCEPT ![u] = c.p] /\ t.market = c.m
  BY DEF With
<1>4. /\ t.position[u] = c.p
      /\ \A v \in Users \ {u} : t.position[v] = s.position[v]
  BY <1>2, <1>3
<1>5. t \in States
  BY <1>1, <1>2 DEF States, With
<1>9. Matched(t)
  BY WithMatched DEF Good, Moves
<1> HIDE DEF t
<1>6. Good(t)
  BY <1>1, <1>4, <1>5, <1>9 DEF Good
<1>7. Imbalance(t.market) = Imbalance(s.market) + d
  <2>1. Net(s.market) \in Int /\ s.market.base_asset_amount_with_amm \in Int
    BY <1>2 DEF MarketType, Net, Sides
  <2>2. Net(c.m) = Net(s.market) + d
          /\ c.m.base_asset_amount_with_amm
               = s.market.base_asset_amount_with_amm
    BY Zenon DEF Moves, SameRates
  <2> QED
    BY <1>3, <2>1, <2>2 DEF Imbalance
<1>8. Shift(s, t, {u}, d)
  BY <1>3, <1>4, <1>6, <1>7, Zenon DEF Shift, Moves, SameRates
<1> QED
  BY <1>4, <1>8 DEF t

\* A book written back whose base did not move.
LEMMA WithStill ==
    ASSUME NEW s, Good(s), NEW u \in Users, NEW b \in Books, NEW c,
           b.m = s.market,
           b.p.base_asset_amount = s.position[u].base_asset_amount,
           Rest(b) = Rest(Book(s, u)), Moves(b, c, 0)
    PROVE  Shift(s, With(s, u, c), {}, 0)
<1> DEFINE zero == 0
<1>0. zero \in Int /\ Moves(b, c, zero)
  OBVIOUS
<1> HIDE DEF zero
<1>3. /\ Shift(s, With(s, u, c), {u}, zero)
      /\ With(s, u, c).position[u] = c.p
  BY <1>0, WithShift
<1>1. /\ Shift(s, With(s, u, c), {u}, 0)
      /\ With(s, u, c).position[u] = c.p
  BY <1>3, Zenon DEF zero
<1>2. c.p.base_asset_amount = s.position[u].base_asset_amount
  BY GoodParts DEF Moves
<1> QED
  BY <1>1, <1>2, Zenon DEF Shift

\* The counters of a good state count each account.
LEMMA BookCovered ==
    ASSUME NEW s, Good(s), NEW u \in Users
    PROVE  Covered(Book(s, u))
<1>1. \A v \in Users : s.position[v] \in PositionType
  BY DEF Good, States
<1> DEFINE f == [v \in Users |-> One(~IsAvailable(s.position[v]))]
           g == [v \in Users |-> One(s.position[v].base_asset_amount # 0)]
           h == [v \in Users |-> One(s.position[v].bankruptcy_claim)]
<1>2. \A v \in Users : f[v] \in Nat /\ g[v] \in Nat /\ h[v] \in Nat
  BY DEF One
<1>3. /\ s.market.number_of_users = Sum(f)
      /\ s.market.number_of_users_with_base = Sum(g)
      /\ s.market.pending_bankruptcy_claims = Sum(h)
  BY Zenon DEF Good, Matched
<1>4. /\ f[u] = One(~IsAvailable(s.position[u]))
      /\ g[u] = One(s.position[u].base_asset_amount # 0)
      /\ h[u] = One(s.position[u].bankruptcy_claim)
  OBVIOUS
<1> HIDE DEF f, g, h
<1>5. /\ Sum(f) \in Nat /\ f[u] <= Sum(f)
      /\ Sum(g) \in Nat /\ g[u] <= Sum(g)
      /\ Sum(h) \in Nat /\ h[u] <= Sum(h)
  BY <1>2, MarketAssumption, SumBound DEF Sum
<1>6. /\ s.market.number_of_users - f[u] >= 0
      /\ s.market.number_of_users_with_base - g[u] >= 0
      /\ s.market.pending_bankruptcy_claims - h[u] >= 0
  BY <1>2, <1>3, <1>5
<1>7. Book(s, u).p = s.position[u] /\ Book(s, u).m = s.market
  BY DEF Book
<1> QED
  BY <1>4, <1>6, <1>7, Zenon DEF Covered, Rest

\* A recycled slot had nothing in the totals.
LEMMA ForcedRest ==
    ASSUME NEW s, Good(s), NEW u \in Users
    PROVE  Rest(ForcedBook(s, u)) = Rest(Book(s, u))
<1> DEFINE b == Book(s, u)
           c == ForcedBook(s, u)
<1>1. /\ b.p = s.position[u] /\ b.m = s.market
      /\ c.p = ForceGet(s.position[u]) /\ c.m = s.market
  BY DEF Book, ForcedBook
<1>2. Sound(s.position[u]) /\ s.position[u] \in PositionType
  BY DEF Good, States
<1>3. CASE ~IsAvailable(s.position[u])
  <2>1. c.p = b.p
    BY <1>1, <1>3 DEF ForceGet
  <2> QED
    BY <1>1, <2>1, Zenon DEF Rest
<1>4. CASE IsAvailable(s.position[u])
  <2>1. c.p = EmptyPosition
    BY <1>1, <1>4 DEF ForceGet
  <2>2. /\ b.p.base_asset_amount = 0 /\ b.p.quote_asset_amount = 0
        /\ b.p.quote_entry_amount = 0 /\ b.p.quote_break_even_amount = 0
        /\ b.p.bankruptcy_claim = FALSE
    BY <1>1, <1>2, <1>4 DEF IsAvailable, Sound, PositionType
  <2>3. /\ c.p.base_asset_amount = 0 /\ c.p.quote_asset_amount = 0
        /\ c.p.quote_entry_amount = 0 /\ c.p.quote_break_even_amount = 0
        /\ c.p.bankruptcy_claim = FALSE
    BY <2>1 DEF EmptyPosition
  <2> HIDE DEF b, c
  <2>4. Rest(c) = Rest(b)
    BY <1>1, <2>2, <2>3, RestStill, Zenon
  <2> QED
    BY <2>4 DEF b, c
<1> QED
  BY <1>3, <1>4

\* The book of an account, with its own slot or a recycled one.
LEMMA BookParts ==
    ASSUME NEW s, Good(s), NEW u \in Users
    PROVE  /\ Book(s, u) \in Books /\ Sound(Book(s, u).p)
           /\ Book(s, u).m = s.market /\ Book(s, u).p = s.position[u]
           /\ ForcedBook(s, u) \in Books /\ Sound(ForcedBook(s, u).p)
           /\ ForcedBook(s, u).m = s.market
           /\ ForcedBook(s, u).p.base_asset_amount
                = s.position[u].base_asset_amount
           /\ Covered(Book(s, u)) /\ Covered(ForcedBook(s, u))
           /\ Rest(ForcedBook(s, u)) = Rest(Book(s, u))
<1>1. s.market \in MarketType /\ s.position[u] \in PositionType
        /\ Sound(s.position[u])
  BY GoodParts
<1>2. EmptyPosition \in PositionType /\ Sound(EmptyPosition)
        /\ EmptyPosition.base_asset_amount = 0
  BY DEF EmptyPosition, PositionType, Sound
<1>3. ForceGet(s.position[u]) \in PositionType
        /\ Sound(ForceGet(s.position[u]))
        /\ ForceGet(s.position[u]).base_asset_amount
             = s.position[u].base_asset_amount
  BY <1>1, <1>2 DEF ForceGet, IsAvailable
<1>4. Covered(Book(s, u)) /\ Rest(ForcedBook(s, u)) = Rest(Book(s, u))
  BY BookCovered, ForcedRest
<1>5. Covered(ForcedBook(s, u))
  BY <1>4 DEF Covered
<1> QED
  BY <1>1, <1>3, <1>4, <1>5 DEF Book, ForcedBook, Books

\* Settling an account's funding.
LEMMA SettledShift ==
    ASSUME NEW s, Good(s), NEW u \in Users
    PROVE  Shift(s, AfterFunding(s, u), {}, 0) /\ Good(AfterFunding(s, u))
<1>1. Moves(Book(s, u), SettleFundingPayment(Book(s, u)), 0)
  BY BookParts, SettleFundingMoves, Zenon
<1>2. Shift(s, AfterFunding(s, u), {}, 0)
  BY <1>1, BookParts, WithStill, Zenon DEF AfterFunding
<1> QED
  BY <1>2, Zenon DEF Shift

\* A trade moves the trader's base and the net position by the same amount.
LEMMA TradedShift ==
    ASSUME NEW s, Good(s), NEW u \in Users, NEW base \in Int, NEW price \in Int
    PROVE  Shift(s, Traded(s, u, base, price), {u}, base)
             /\ Good(Traded(s, u, base, price))
<1> DEFINE delta == [base |-> base, quote |-> -(base * price)]
<1>1. delta \in [base : Int, quote : Int] /\ delta.base = base
  BY SMTT(20) DEF delta
<1>2. Moves(ForcedBook(s, u),
            UpdatePositionAndMarket(ForcedBook(s, u), delta), base)
  BY <1>1, BookParts, UpdatePositionMoves, Zenon
<1>3. Shift(s, Traded(s, u, base, price), {u}, base)
  BY <1>2, BookParts, WithShift, Zenon DEF Traded
<1> QED
  BY <1>3 DEF Shift

\* Fees and rebates move no base.
LEMMA ChargedShift ==
    ASSUME NEW s, Good(s), NEW u \in Users, NEW fee \in Int
    PROVE  Shift(s, Charged(s, u, fee), {}, 0) /\ Good(Charged(s, u, fee))
<1>1. Moves(Book(s, u),
            UpdateQuoteAssetAndBreakEvenAmount(Book(s, u), -fee), 0)
  <2>1. -fee \in Int
    OBVIOUS
  <2> QED
    BY <2>1, BookParts, QuoteAndBreakEvenMoves, Zenon
<1>2. Shift(s, Charged(s, u, fee), {}, 0)
  BY <1>1, BookParts, WithStill, Zenon DEF Charged
<1> QED
  BY <1>2, Zenon DEF Shift

\* A credit to a forced slot moves no base, also that of a bankrupt filler.
LEMMA CreditedShift ==
    ASSUME NEW s, Good(s), NEW u \in Users, NEW amount \in Int
    PROVE  Shift(s, Credited(s, u, amount), {}, 0)
             /\ Good(Credited(s, u, amount))
<1>1. CASE amount = 0
  <2>1. Credited(s, u, amount) = s /\ Imbalance(s.market) \in Int
    BY <1>1, GoodParts, Zenon DEF Credited
  <2> QED
    BY <2>1 DEF Shift
<1>2. CASE amount # 0
  <2>1. Moves(ForcedBook(s, u),
              UpdateQuoteAssetAmount(ForcedBook(s, u), amount), 0)
    BY BookParts, UpdateQuoteMoves, Zenon
  <2>2. Shift(s, Credited(s, u, amount), {}, 0)
    BY <1>2, <2>1, BookParts, WithStill, Zenon DEF Credited
  <2> QED
    BY <2>2 DEF Shift
<1> QED
  BY <1>1, <1>2

\* Moving an account's own quote moves no base.
LEMMA QuoteShift ==
    ASSUME NEW s, Good(s), NEW u \in Users, NEW amount \in Int
    PROVE  LET t == With(s, u, UpdateQuoteAssetAmount(Book(s, u), amount))
           IN  Shift(s, t, {}, 0) /\ Good(t)
<1>1. Moves(Book(s, u), UpdateQuoteAssetAmount(Book(s, u), amount), 0)
  BY BookParts, UpdateQuoteMoves
<1>2. Shift(s, With(s, u, UpdateQuoteAssetAmount(Book(s, u), amount)), {}, 0)
  BY <1>1, BookParts, WithStill, Zenon
<1> QED
  BY <1>2, Zenon DEF Shift

\* Booking a claim moves no base.
LEMMA FlaggedShift ==
    ASSUME NEW s, Good(s), NEW u \in Users
    PROVE  Shift(s, Flagged(s, u), {}, 0)
<1>1. Moves(Book(s, u), FlagBankruptcyClaim(Book(s, u)), 0)
  BY BookParts, FlagMoves, Zenon
<1> QED
  BY <1>1, BookParts, WithStill, Zenon DEF Flagged

\* The AMM's side of a trade.
LEMMA AmmTakesShift ==
    ASSUME NEW s, Good(s), NEW base \in Int
    PROVE  Shift(s, AmmTakes(s, base), {}, -base) /\ Good(AmmTakes(s, base))
<1> DEFINE w == s.market.base_asset_amount_with_amm + base
           n == [s.market EXCEPT !.base_asset_amount_with_amm = w]
<1>1. s.market \in MarketType /\ s.position \in [Users -> PositionType]
  BY DEF Good, States
<1>2. AmmTakes(s, base) = [position |-> s.position, market |-> n]
  BY DEF AmmTakes, Good, States
<1>3. w \in Int /\ Net(s.market) \in Int
        /\ s.market.base_asset_amount_with_amm \in Int
  BY <1>1 DEF MarketType, Net, Sides
<1>4. n \in MarketType /\ Imbalance(n) = Net(s.market) - w
  <2> HIDE DEF w
  <2> QED
    BY <1>1, <1>3 DEF MarketType, Imbalance, Net
<1>5. Imbalance(n) = Imbalance(s.market) + (-base)
  BY <1>3, <1>4 DEF Imbalance
<1>6. /\ n.cumulative_funding_rate = s.market.cumulative_funding_rate
      /\ n.amm_last_cumulative_funding_rate
           = s.market.amm_last_cumulative_funding_rate
  BY <1>1 DEF MarketType
<1>8. SameTotals(s.market, n)
  BY <1>1 DEF MarketType, SameTotals
<1> HIDE DEF n
<1>9. Matched(AmmTakes(s, base))
  BY <1>2, <1>8, MatchedSame DEF Good
<1>7. Good(AmmTakes(s, base))
  BY <1>1, <1>2, <1>4, <1>9 DEF Good, States
<1> QED
  BY <1>2, <1>5, <1>6, <1>7 DEF Shift

\* What the AMM earns or pays.
LEMMA AmmEarnsShift ==
    ASSUME NEW s, Good(s), NEW amount \in Int
    PROVE  Shift(s, AmmEarns(s, amount), {}, 0) /\ Good(AmmEarns(s, amount))
<1> DEFINE w == s.market.total_fee_minus_distributions + amount
           n == [s.market EXCEPT !.total_fee_minus_distributions = w]
<1>1. s.market \in MarketType /\ s.position \in [Users -> PositionType]
  BY DEF Good, States
<1>2. AmmEarns(s, amount) = [position |-> s.position, market |-> n]
  BY DEF AmmEarns, Good, States
<1>3. w \in Int /\ Imbalance(s.market) \in Int
  BY <1>1 DEF MarketType, Imbalance, Net, Sides
<1> HIDE DEF w
<1>4. n \in MarketType /\ Imbalance(n) = Imbalance(s.market)
  BY <1>1, <1>3 DEF MarketType, Imbalance, Net
<1>5. /\ n.cumulative_funding_rate = s.market.cumulative_funding_rate
      /\ n.amm_last_cumulative_funding_rate
           = s.market.amm_last_cumulative_funding_rate
  BY <1>1 DEF MarketType
<1>7. SameTotals(s.market, n)
  BY <1>1 DEF MarketType, SameTotals
<1> HIDE DEF n
<1>8. Matched(AmmEarns(s, amount))
  BY <1>2, <1>7, MatchedSame DEF Good
<1>6. Good(AmmEarns(s, amount))
  BY <1>1, <1>2, <1>4, <1>8 DEF Good, States
<1> QED
  BY <1>2, <1>3, <1>4, <1>5, <1>6 DEF Shift

TierType == [fee : Nat, rebate : Nat, reward : Nat, toMarket : Nat,
             toPools : Nat]

\* A fill by the AMM moves the taker's base only, and the AMM takes the other
\* side.
LEMMA AmmFillShift ==
    ASSUME NEW s, Good(s), NEW taker \in Users, NEW filler \in Users,
           NEW base \in Int, NEW price \in Int, NEW tier \in TierType
    PROVE  LET t == AmmFill(s, taker, filler, base, price, tier)
           IN  Shift(s, t, {taker}, 0) /\ Good(t)
<1> DEFINE a == AmmTakes(s, base)
           t == Traded(a, taker, base, price)
           e == AmmEarns(t, tier.toMarket)
           f == Charged(e, taker, tier.fee)
           g == Charged(f, taker, -tier.rebate)
           h == Credited(g, filler, tier.reward)
<1>1. tier.fee \in Int /\ -tier.rebate \in Int /\ tier.reward \in Int
        /\ tier.toMarket \in Int
  BY DEF TierType
<1>2. Shift(s, a, {}, -base) /\ Good(a)
  BY AmmTakesShift
<1>3. AmmFill(s, taker, filler, base, price, tier) = h
  BY DEF AmmFill
<1> HIDE DEF a
<1>4. Shift(a, t, {taker}, base) /\ Good(t)
  BY <1>2, TradedShift
<1> HIDE DEF t
<1>5. Shift(s, t, {taker}, 0)
  <2>1. Shift(s, t, {} \cup {taker}, -base + base)
    BY <1>2, <1>4, ShiftCompose
  <2> QED
    BY <2>1
<1>6. Shift(t, e, {}, 0) /\ Good(e)
  BY <1>1, <1>4, AmmEarnsShift
<1> HIDE DEF e
<1>7. Shift(e, f, {}, 0) /\ Good(f)
  BY <1>1, <1>6, ChargedShift
<1> HIDE DEF f
<1>8. Shift(f, g, {}, 0) /\ Good(g)
  BY <1>1, <1>7, ChargedShift
<1> HIDE DEF g
<1>9. Shift(g, h, {}, 0) /\ Good(h)
  BY <1>1, <1>8, CreditedShift
<1> HIDE DEF h
<1>10. Shift(s, e, {taker}, 0)
  BY <1>5, <1>6, ShiftChain
<1>11. Shift(s, f, {taker}, 0)
  BY <1>7, <1>10, ShiftChain
<1>12. Shift(s, g, {taker}, 0)
  BY <1>8, <1>11, ShiftChain
<1>13. Shift(s, h, {taker}, 0)
  BY <1>9, <1>12, ShiftChain
<1> QED
  BY <1>3, <1>9, <1>13

\* Two opposite trades leave the net position as it was.
LEMMA TwoTradesShift ==
    ASSUME NEW s, Good(s), NEW u \in Users, NEW v \in Users, NEW base \in Int,
           NEW price \in Int
    PROVE  LET t == Traded(Traded(s, u, -base, price), v, base, price)
           IN  Shift(s, t, {u, v}, 0) /\ Good(t)
<1> DEFINE a == Traded(s, u, -base, price)
           t == Traded(a, v, base, price)
<1>1. Shift(s, a, {u}, -base) /\ Good(a)
  BY TradedShift
<1> HIDE DEF a
<1>2. Shift(a, t, {v}, base) /\ Good(t)
  BY <1>1, TradedShift
<1> HIDE DEF t
<1>3. Shift(s, t, {u} \cup {v}, -base + base)
  BY <1>1, <1>2, ShiftCompose
<1>4. {u} \cup {v} = {u, v} /\ -base + base = 0
  OBVIOUS
<1>5. Shift(s, t, {u, v}, 0)
  BY <1>3, <1>4
<1> QED
  BY <1>2, <1>5 DEF a, t

\* A match moves base between the two accounts.
LEMMA MatchFillShift ==
    ASSUME NEW s, Good(s), NEW taker \in Users, NEW maker \in Users,
           NEW filler \in Users, NEW base \in Int, NEW price \in Int,
           NEW tier \in TierType
    PROVE  LET t == MatchFill(s, taker, maker, filler, base, price, tier)
           IN  Shift(s, t, {maker, taker}, 0) /\ Good(t)
<1> DEFINE t == Traded(Traded(s, maker, -base, price), taker, base, price)
           e == AmmEarns(t, tier.toMarket)
           f == Charged(e, taker, tier.fee)
           g == Charged(f, maker, -tier.rebate)
           h == Credited(g, filler, tier.reward)
           W == {maker, taker}
<1>1. tier.fee \in Int /\ -tier.rebate \in Int /\ tier.reward \in Int
        /\ tier.toMarket \in Int
  BY DEF TierType
<1>2. Shift(s, t, W, 0) /\ Good(t)
  BY TwoTradesShift
<1>3. MatchFill(s, taker, maker, filler, base, price, tier) = h
  BY DEF MatchFill
<1> HIDE DEF t, W
<1>4. Shift(t, e, {}, 0) /\ Good(e)
  BY <1>1, <1>2, AmmEarnsShift
<1> HIDE DEF e
<1>5. Shift(e, f, {}, 0) /\ Good(f)
  BY <1>1, <1>4, ChargedShift
<1> HIDE DEF f
<1>6. Shift(f, g, {}, 0) /\ Good(g)
  BY <1>1, <1>5, ChargedShift
<1> HIDE DEF g
<1>7. Shift(g, h, {}, 0) /\ Good(h)
  BY <1>1, <1>6, CreditedShift
<1> HIDE DEF h
<1>8. Shift(s, e, W, 0)
  BY <1>2, <1>4, ShiftChain
<1>9. Shift(s, f, W, 0)
  BY <1>5, <1>8, ShiftChain
<1>10. Shift(s, g, W, 0)
  BY <1>6, <1>9, ShiftChain
<1>11. Shift(s, h, W, 0)
  BY <1>7, <1>10, ShiftChain
<1> QED
  BY <1>3, <1>7, <1>11 DEF W
=============================================================================
