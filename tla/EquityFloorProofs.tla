------------------------- MODULE EquityFloorProofs -------------------------
(***************************************************************************)
(* Proofs about EquityFloor for any number of subaccounts, any prices and  *)
(* any settings of floors and buffers.  The type invariant is inductive    *)
(* by itself; the three action properties follow from it, one lemma per    *)
(* kind of step saying what the step does to each subaccount.              *)
(***************************************************************************)
EXTENDS EquityFloor, TLAPS

SubaccountType == [quote : Int, units : Int, floor : Nat, buffer : Nat]

-----------------------------------------------------------------------------
(* Arithmetic *)

\* The share of the buffer that moves with floor is a natural number, at most
\* the buffer, and the whole buffer when the whole floor moves.
LEMMA BufferDeltaBound ==
    ASSUME NEW u \in SubaccountType, NEW delta \in Nat, delta <= u.floor
    PROVE  /\ BufferDelta(u, delta) \in Nat
           /\ BufferDelta(u, delta) <= u.buffer
           /\ delta > 0 /\ delta = u.floor => BufferDelta(u, delta) = u.buffer
<1>1. CASE delta = 0
  BY <1>1 DEF BufferDelta, SubaccountType
<1>2. CASE delta > 0
  <2> DEFINE b == u.buffer
             f == u.floor
             q == (b * delta + f - 1) \div f
  <2>1. b \in Nat /\ f \in Nat \ {0} /\ delta <= f
    BY <1>2 DEF SubaccountType
  <2>2. BufferDelta(u, delta) = q
    BY <1>2 DEF BufferDelta, CeilDiv
  <2> HIDE DEF b, f
  <2>3. b * delta \in Nat /\ b * delta <= b * f /\ b * f \in Nat
    BY <2>1
  <2>4. q \in Nat
    BY <2>1, <2>3
  <2>5. q * f <= b * delta + f - 1 /\ b * delta + f - 1 < (q + 1) * f
    BY <2>1, <2>3, <2>4
  <2> HIDE DEF q
  <2>6. q <= b
    <3>1. SUFFICES ASSUME q >= b + 1 PROVE FALSE
      BY <2>1, <2>4
    <3>2. q * f >= (b + 1) * f
      BY <3>1, <2>1, <2>4
    <3>3. (b + 1) * f = b * f + f
      BY <2>1
    <3> QED
      BY <3>2, <3>3, <2>5, <2>3, <2>1, <2>4
  <2>7. delta = f => q = b
    <3> SUFFICES ASSUME delta = f, q <= b - 1 PROVE FALSE
      BY <2>6, <2>1, <2>4
    <3>1. (q + 1) * f <= b * f
      BY <2>1, <2>4
    <3> QED
      BY <3>1, <2>5, <2>3, <2>1, <2>4
  <2> QED
    BY <2>2, <2>4, <2>6, <2>7 DEF b, f
<1> QED
  BY <1>1, <1>2

\* An adjustment moves quote and units within their types, and leaves floor and
\* buffer alone; a burden does the opposite.
LEMMA AdjustedParts ==
    ASSUME NEW u \in SubaccountType, NEW q \in Int, NEW n \in Int
    PROVE  /\ Adjusted(u, q, n) \in SubaccountType
           /\ Adjusted(u, q, n).quote = u.quote + q
           /\ Adjusted(u, q, n).units = u.units + n
           /\ Adjusted(u, q, n).floor = u.floor
           /\ Adjusted(u, q, n).buffer = u.buffer
<1> DEFINE x == u.quote + q
           y == u.units + n
           t == [u EXCEPT !.quote = x, !.units = y]
<1>1. x \in Int /\ y \in Int
  BY DEF SubaccountType
<1>2. Adjusted(u, q, n) = t
  BY DEF Adjusted
<1> HIDE DEF x, y
<1>3. t \in SubaccountType
  BY <1>1, Zenon DEF SubaccountType
<1>4. t.quote = x /\ t.units = y /\ t.floor = u.floor /\ t.buffer = u.buffer
  BY DEF SubaccountType
<1> QED
  BY <1>2, <1>3, <1>4 DEF x, y

LEMMA BurdenedParts ==
    ASSUME NEW u \in SubaccountType, NEW f \in Int, NEW b \in Int, u.floor + f >= 0, u.buffer + b >= 0
    PROVE  /\ Burdened(u, f, b) \in SubaccountType
           /\ Burdened(u, f, b).quote = u.quote
           /\ Burdened(u, f, b).units = u.units
           /\ Burdened(u, f, b).floor = u.floor + f
           /\ Burdened(u, f, b).buffer = u.buffer + b
<1> DEFINE x == u.floor + f
           y == u.buffer + b
           t == [u EXCEPT !.floor = x, !.buffer = y]
<1>1. x \in Nat /\ y \in Nat
  BY DEF SubaccountType
<1>2. Burdened(u, f, b) = t
  BY DEF Burdened
<1> HIDE DEF x, y
<1>3. t \in SubaccountType
  BY <1>1, Zenon DEF SubaccountType
<1>4. t.quote = u.quote /\ t.units = u.units /\ t.floor = x /\ t.buffer = y
  BY DEF SubaccountType
<1> QED
  BY <1>2, <1>3, <1>4 DEF x, y

\* Equity is an integer, and grows with the quote while the units stand.
LEMMA EquityInt ==
    ASSUME FloorTypeOK, NEW u \in SubaccountType, NEW p \in Prices
    PROVE  EquityAt(u, p) \in Int /\ Equity(u) \in Int
<1> DEFINE w == u.units * p
           v == u.units * price
<1>1. p \in Int /\ price \in Int /\ u.units \in Int /\ u.quote \in Int
  BY FloorAssumption DEF FloorTypeOK, SubaccountType
<1>2. w \in Int /\ v \in Int
  BY <1>1
<1> HIDE DEF w, v
<1>3. u.quote + w \in Int /\ u.quote + v \in Int
  BY <1>1, <1>2
<1> QED
  BY <1>3 DEF EquityAt, Equity, w, v

LEMMA EquityFollowsQuote ==
    ASSUME FloorTypeOK, NEW u \in SubaccountType, NEW v \in SubaccountType, u.units = v.units
    PROVE  /\ u.quote = v.quote => Equity(u) = Equity(v)
           /\ u.quote < v.quote => Equity(u) < Equity(v)
<1> DEFINE w == u.units * price
<1>1. w \in Int /\ u.quote \in Int /\ v.quote \in Int
  <2>1. price \in Int /\ u.units \in Int
    BY FloorAssumption DEF FloorTypeOK, SubaccountType
  <2> QED
    BY <2>1 DEF SubaccountType
<1>2. Equity(u) = u.quote + w /\ Equity(v) = v.quote + w
  BY DEF Equity, EquityAt
<1> HIDE DEF w
<1> QED
  BY <1>1, <1>2

\* What the trip proves holds at every price the oracle may hide.
LEMMA BreachProved ==
    ASSUME FloorTypeOK, NEW u \in SubaccountType, ProvesBreach(u),
           NEW p \in (IF oracleOk THEN {price} ELSE Prices)
    PROVE  EquityAt(u, p) < u.floor
<1>1. p \in Int /\ p >= 0 /\ price \in Int /\ price >= 0 /\ u.units \in Int /\ u.quote \in Int
  BY FloorAssumption DEF FloorTypeOK, SubaccountType
<1>2. CASE oracleOk
  <2>1. p = price
    BY <1>2
  <2> QED
    BY <1>2, <2>1 DEF ProvesBreach, TripUpperBound, AllOraclesValid, Equity
<1>3. CASE ~oracleOk /\ u.units = 0
  <2>1. u.units * p = 0 /\ u.units * price = 0
    BY <1>1, <1>3
  <2>2. EquityAt(u, p) = u.quote /\ Equity(u) = u.quote
    BY <2>1, <1>1 DEF EquityAt, Equity
  <2> QED
    BY <2>2, <1>3 DEF ProvesBreach, TripUpperBound, AllOraclesValid
<1>4. CASE ~oracleOk /\ u.units # 0
  <2> DEFINE w == u.units * p
  <2>1. u.units < 0 /\ u.quote < u.floor
    BY <1>4 DEF ProvesBreach, TripProvable, TripUpperBound, AllOraclesValid
  <2>2. w \in Int /\ w <= 0
    <3>1. (-u.units) * p >= 0
      BY <1>1, <2>1
    <3>2. (-u.units) * p = -(u.units * p)
      BY <1>1
    <3> QED
      BY <3>1, <3>2, <1>1
  <2>3. EquityAt(u, p) = u.quote + w
    BY DEF EquityAt
  <2>4. u.floor \in Int
    BY DEF SubaccountType
  <2> HIDE DEF w
  <2> QED
    BY <2>1, <2>2, <2>3, <2>4, <1>1
<1> QED
  BY <1>2, <1>3, <1>4 DEF FloorTypeOK

-----------------------------------------------------------------------------
(* What a step must show *)

FloorsStay == \A s \in Subaccounts : sub'[s].floor = sub[s].floor /\ sub'[s].buffer = sub[s].buffer

GatedStep ==
    /\ \A s \in Subaccounts : Gated(s)
    /\ tripped => (\E s \in Subaccounts : Shrinks(s)) \/ QuoteStays

TripStep == ~tripped /\ tripped' => \E s \in Subaccounts : ProvesBreach(sub'[s])

BreachStep ==
    /\ \A s \in Subaccounts :
          BelowFloor(sub[s]) =>
             BelowFloor(sub'[s]) \/ Equity(sub'[s]) > Equity(sub[s]) \/ FloorSetAlone(s)
    /\ \A s, t \in Subaccounts :
          sub'[s].floor < sub[s].floor /\ sub'[t].floor > sub[t].floor => FloorMovesWhole(s, t)

StepKeeps == FloorTypeOK' /\ GatedStep /\ TripStep /\ BreachStep

\* Where no floor moves, a breach ends only by gaining equity.
LEMMA StandingFloors ==
    ASSUME FloorTypeOK, sub' \in [Subaccounts -> SubaccountType], FloorsStay
    PROVE  BreachStep
<1>1. ASSUME NEW s \in Subaccounts, BelowFloor(sub[s])
      PROVE  BelowFloor(sub'[s]) \/ Equity(sub'[s]) > Equity(sub[s])
  <2>1. sub[s] \in SubaccountType /\ sub'[s] \in SubaccountType
    BY DEF FloorTypeOK, SubaccountType
  <2>2. Equity(sub[s]) \in Int /\ Equity(sub'[s]) \in Int
    BY <2>1, EquityInt DEF FloorTypeOK
  <2>3. sub[s].floor \in Nat /\ sub'[s].floor = sub[s].floor
    BY <2>1 DEF SubaccountType, FloorsStay
  <2> QED
    BY <1>1, <2>2, <2>3 DEF BelowFloor
<1>2. ASSUME NEW s \in Subaccounts PROVE ~(sub'[s].floor < sub[s].floor)
  <2>1. sub[s].floor \in Nat /\ sub'[s].floor = sub[s].floor
    BY DEF SubaccountType, FloorsStay, FloorTypeOK
  <2> QED
    BY <2>1
<1> QED
  BY <1>1, <1>2 DEF BreachStep

\* A step that leaves the subaccounts alone.
LEMMA StandingSubaccounts ==
    ASSUME FloorTypeOK, sub' = sub, asset' = asset, price' \in Prices, oracleOk' \in BOOLEAN,
           tripped' \in BOOLEAN, TripStep
    PROVE  StepKeeps
<1>1. FloorTypeOK'
  BY DEF FloorTypeOK
<1>2. GatedStep
  <2>1. ASSUME NEW s \in Subaccounts
        PROVE  Gated(s) /\ ~(sub'[s].quote < sub[s].quote)
    <3>1. sub[s] \in SubaccountType
      BY DEF FloorTypeOK, SubaccountType
    <3>2. Equity(sub[s]) \in Int
      BY <3>1, EquityInt DEF FloorTypeOK
    <3>3. Abs(sub[s].units) \in Int /\ sub[s].quote \in Int
      BY <3>1 DEF Abs, SubaccountType
    <3> QED
      BY <3>2, <3>3 DEF Gated, Grows, LosesEquity
  <2> QED
    BY <2>1 DEF GatedStep, QuoteStays
<1>3. BreachStep
  <2>1. sub' \in [Subaccounts -> SubaccountType] /\ FloorsStay
    BY DEF FloorTypeOK, SubaccountType, FloorsStay
  <2> QED
    BY <2>1, StandingFloors
<1> QED
  BY <1>1, <1>2, <1>3 DEF StepKeeps

-----------------------------------------------------------------------------
(* What the steps do to quote, units and floors *)

\* Subaccount s is adjusted by q of quote and n of units.
Moved(s, q, n) == sub'[s] = Adjusted(sub[s], q, n)

LEMMA MovedParts ==
    ASSUME FloorTypeOK, NEW s \in Subaccounts, NEW q \in Int, NEW n \in Int, Moved(s, q, n)
    PROVE  /\ sub[s] \in SubaccountType /\ sub'[s] \in SubaccountType
           /\ sub'[s].quote = sub[s].quote + q
           /\ sub'[s].units = sub[s].units + n
           /\ sub'[s].floor = sub[s].floor /\ sub'[s].buffer = sub[s].buffer
<1>1. sub[s] \in SubaccountType
  BY DEF FloorTypeOK, SubaccountType
<1> QED
  BY <1>1, AdjustedParts DEF Moved

\* One subaccount is adjusted.
LEMMA OneMoved ==
    ASSUME FloorTypeOK, NEW s \in Subaccounts, NEW q \in Int, NEW n \in Int,
           sub' = [sub EXCEPT ![s] = Adjusted(@, q, n)]
    PROVE  /\ sub' \in [Subaccounts -> SubaccountType]
           /\ Moved(s, q, n)
           /\ \A t \in Subaccounts \ {s} : sub'[t] = sub[t]
           /\ FloorsStay
<1>1. sub \in [Subaccounts -> SubaccountType] /\ sub[s] \in SubaccountType
  BY DEF FloorTypeOK, SubaccountType
<1>2. sub' \in [Subaccounts -> SubaccountType]
  BY <1>1, AdjustedParts
<1>3. Moved(s, q, n)
  BY <1>1 DEF Moved
<1>4. \A t \in Subaccounts \ {s} : sub'[t] = sub[t]
  BY <1>1
<1>5. FloorsStay
  BY <1>3, <1>4, MovedParts DEF FloorsStay
<1> QED
  BY <1>2, <1>3, <1>4, <1>5

\* Two subaccounts are adjusted.
LEMMA TwoMoved ==
    ASSUME FloorTypeOK, NEW s \in Subaccounts, NEW t \in Subaccounts, s # t,
           NEW q \in Int, NEW n \in Int, NEW r \in Int, NEW m \in Int,
           sub' = [sub EXCEPT ![s] = Adjusted(@, q, n), ![t] = Adjusted(@, r, m)]
    PROVE  /\ sub' \in [Subaccounts -> SubaccountType]
           /\ Moved(s, q, n) /\ Moved(t, r, m)
           /\ \A u \in Subaccounts \ {s, t} : sub'[u] = sub[u]
           /\ FloorsStay
<1>1. sub \in [Subaccounts -> SubaccountType] /\ sub[s] \in SubaccountType /\ sub[t] \in SubaccountType
  BY DEF FloorTypeOK, SubaccountType
<1>2. Moved(s, q, n) /\ Moved(t, r, m)
  BY <1>1 DEF Moved
<1>3. \A u \in Subaccounts \ {s, t} : sub'[u] = sub[u]
  BY <1>1
<1>4. sub' \in [Subaccounts -> SubaccountType]
  BY <1>1, AdjustedParts
<1>5. FloorsStay
  BY <1>2, <1>3, MovedParts, ZenonT(60) DEF FloorsStay
<1> QED
  BY <1>2, <1>3, <1>4, <1>5

\* An exchange adjusts the buyer and the seller.
LEMMA ExchangeMoves ==
    ASSUME FloorTypeOK, NEW buyer, NEW seller, buyer # seller, NEW units \in Int, NEW p \in Int,
           sub' = Exchanged(buyer, seller, units, p)
    PROVE  /\ sub' \in [Subaccounts -> SubaccountType]
           /\ buyer \in Subaccounts => Moved(buyer, -(units * p), units)
           /\ seller \in Subaccounts => Moved(seller, -((-units) * p), -units)
           /\ \A u \in Subaccounts \ {buyer, seller} : sub'[u] = sub[u]
           /\ FloorsStay
<1> DEFINE w == -(units * p)
           v == -((-units) * p)
<1>1. w \in Int /\ v \in Int /\ -units \in Int
  OBVIOUS
<1>2. sub' = [s \in Subaccounts |-> CASE s = buyer -> Adjusted(sub[s], w, units)
                                      [] s = seller -> Adjusted(sub[s], v, -units)
                                      [] OTHER -> sub[s]]
  BY DEF Exchanged, Traded
<1> HIDE DEF w, v
<1>3. buyer \in Subaccounts => Moved(buyer, w, units)
  BY <1>2 DEF Moved
<1>4. seller \in Subaccounts => Moved(seller, v, -units)
  BY <1>2 DEF Moved
<1>5. \A u \in Subaccounts \ {buyer, seller} : sub'[u] = sub[u]
  BY <1>2
<1>6. ASSUME NEW s \in Subaccounts
      PROVE  sub'[s] \in SubaccountType /\ sub'[s].floor = sub[s].floor /\ sub'[s].buffer = sub[s].buffer
  <2>1. sub[s] \in SubaccountType
    BY DEF FloorTypeOK, SubaccountType
  <2>2. CASE s = buyer
    BY <2>2, <1>1, <1>3, MovedParts
  <2>3. CASE s = seller
    BY <2>3, <1>1, <1>4, MovedParts
  <2> QED
    BY <2>1, <2>2, <2>3, <1>5
<1>7. sub' \in [Subaccounts -> SubaccountType]
  BY <1>2, <1>6
<1> QED
  BY <1>3, <1>4, <1>5, <1>6, <1>7 DEF FloorsStay, w, v

-----------------------------------------------------------------------------
(* When a subaccount's step is gated *)

\* Filling part of a reducing order shrinks the position.
LEMMA ReducingShrinks ==
    ASSUME NEW order \in Int, NEW filled \in Int, NEW units \in Int, filled # 0,
           IsOrderPositionReducing(order, units), Signum(filled) = Signum(order), Abs(filled) <= Abs(order)
    PROVE  Abs(units + filled) < Abs(units)
BY DEF IsOrderPositionReducing, Signum, Abs

\* A maker's fill that adds no risk shrinks the position.
LEMMA MakerShrinks ==
    ASSUME NEW before \in Int, NEW after \in Int, before # after, ~MakerRiskIncreasing(before, after)
    PROVE  Abs(after) < Abs(before)
BY DEF MakerRiskIncreasing, Signum, Abs

LEMMA UnmovedGated ==
    ASSUME FloorTypeOK, NEW s \in Subaccounts, sub'[s] = sub[s]
    PROVE  Gated(s) /\ ~(sub'[s].quote < sub[s].quote)
<1>1. sub[s] \in SubaccountType
  BY DEF FloorTypeOK, SubaccountType
<1>2. Equity(sub[s]) \in Int
  BY <1>1, EquityInt DEF FloorTypeOK
<1>3. Abs(sub[s].units) \in Int /\ sub[s].quote \in Int
  BY <1>1 DEF Abs, SubaccountType
<1> QED
  BY <1>2, <1>3 DEF Gated, Grows, LosesEquity

\* Gaining quote needs no gate.
LEMMA CreditGated ==
    ASSUME FloorTypeOK, NEW s \in Subaccounts, NEW u \in SubaccountType, sub'[s] = u,
           u.units = sub[s].units, u.quote >= sub[s].quote
    PROVE  Gated(s) /\ ~(sub'[s].quote < sub[s].quote)
<1>1. sub[s] \in SubaccountType
  BY DEF FloorTypeOK, SubaccountType
<1>2. Equity(sub[s]) \in Int /\ Equity(u) \in Int
  BY <1>1, EquityInt DEF FloorTypeOK
<1>3. Abs(sub[s].units) \in Int /\ sub[s].quote \in Int /\ u.quote \in Int
  BY <1>1 DEF Abs, SubaccountType
<1>4. Equity(u) >= Equity(sub[s])
  BY <1>1, <1>2, <1>3, EquityFollowsQuote
<1> QED
  BY <1>2, <1>3, <1>4 DEF Gated, Grows, LosesEquity

\* So does a reduction.
LEMMA ShrinkGated ==
    ASSUME FloorTypeOK, NEW s \in Subaccounts, sub'[s] \in SubaccountType, Shrinks(s)
    PROVE  Gated(s)
<1>1. sub[s].units \in Int /\ sub'[s].units \in Int
  BY DEF FloorTypeOK, SubaccountType
<1>2. Abs(sub[s].units) \in Int /\ Abs(sub'[s].units) \in Int
  BY <1>1 DEF Abs
<1> QED
  BY <1>2 DEF Gated, Grows, Shrinks

\* Every step that moves no floor is judged by its gates and its trips.
LEMMA Kept ==
    ASSUME FloorTypeOK, sub' \in [Subaccounts -> SubaccountType], FloorsStay, GatedStep, TripStep,
           UNCHANGED <<asset, price, oracleOk>>, tripped' \in BOOLEAN
    PROVE  StepKeeps
<1>1. FloorTypeOK'
  BY DEF FloorTypeOK, SubaccountType
<1> QED
  BY <1>1, StandingFloors DEF StepKeeps

-----------------------------------------------------------------------------
(* The steps, one by one *)

LEMMA OracleMovesKeeps ==
    ASSUME FloorTypeOK, NEW p \in Prices, NEW valid \in BOOLEAN, OracleMoves(p, valid)
    PROVE  StepKeeps
<1>1. /\ sub' = sub /\ asset' = asset /\ price' \in Prices /\ oracleOk' \in BOOLEAN
      /\ tripped' = tripped /\ tripped' \in BOOLEAN
  BY DEF OracleMoves, FloorTypeOK
<1>2. TripStep
  BY <1>1 DEF TripStep
<1> QED
  BY <1>1, <1>2, StandingSubaccounts

LEMMA DepositQuoteKeeps ==
    ASSUME FloorTypeOK, NEW s \in Subaccounts, NEW a \in Nat, DepositQuote(s, a)
    PROVE  StepKeeps
<1>1. /\ sub' \in [Subaccounts -> SubaccountType] /\ FloorsStay
      /\ Moved(s, a, 0)
      /\ \A t \in Subaccounts \ {s} : sub'[t] = sub[t]
  <2> DEFINE zero == 0
  <2>1. sub' = [sub EXCEPT ![s] = Adjusted(@, a, zero)] /\ a \in Int /\ zero \in Int
    BY DEF DepositQuote
  <2> HIDE DEF zero
  <2>2. /\ sub' \in [Subaccounts -> SubaccountType] /\ FloorsStay
        /\ Moved(s, a, zero)
        /\ \A t \in Subaccounts \ {s} : sub'[t] = sub[t]
    BY <2>1, OneMoved, Zenon
  <2> QED
    BY <2>2 DEF zero
<1>2. \A t \in Subaccounts : Gated(t) /\ ~(sub'[t].quote < sub[t].quote)
  <2>1. /\ sub[s] \in SubaccountType /\ sub'[s] \in SubaccountType
        /\ sub'[s].quote = sub[s].quote + a /\ sub'[s].units = sub[s].units + 0
    BY <1>1, MovedParts
  <2>2. sub'[s].units = sub[s].units /\ sub'[s].quote >= sub[s].quote
    BY <2>1 DEF SubaccountType
  <2> QED
    BY <1>1, <2>1, <2>2, CreditGated, UnmovedGated
<1>3. GatedStep /\ TripStep /\ tripped' \in BOOLEAN
  BY <1>2 DEF GatedStep, QuoteStays, TripStep, DepositQuote, FloorTypeOK
<1> QED
  BY <1>1, <1>3, Kept DEF DepositQuote

LEMMA WithdrawQuoteKeeps ==
    ASSUME FloorTypeOK, NEW s \in Subaccounts, NEW a \in Nat, WithdrawQuote(s, a)
    PROVE  StepKeeps
<1>1. /\ sub' \in [Subaccounts -> SubaccountType] /\ FloorsStay
      /\ \A t \in Subaccounts \ {s} : sub'[t] = sub[t]
  <2> DEFINE zero == 0
             loss == -a
  <2>1. sub' = [sub EXCEPT ![s] = Adjusted(@, loss, zero)] /\ loss \in Int /\ zero \in Int
    BY DEF WithdrawQuote
  <2> HIDE DEF zero, loss
  <2> QED
    BY <2>1, OneMoved, Zenon
<1>2. \A t \in Subaccounts : Gated(t)
  BY <1>1, UnmovedGated DEF Gated, WithdrawQuote
<1>3. GatedStep /\ TripStep /\ tripped' \in BOOLEAN
  BY <1>2 DEF GatedStep, TripStep, WithdrawQuote, FloorTypeOK
<1> QED
  BY <1>1, <1>3, Kept DEF WithdrawQuote

LEMMA TransferByOwnerKeeps ==
    ASSUME FloorTypeOK, NEW from \in Subaccounts, NEW to \in Subaccounts, NEW a \in Nat,
           TransferDepositByOwner(from, to, a)
    PROVE  StepKeeps
<1> DEFINE zero == 0
           loss == -a
<1>1. /\ sub' = [sub EXCEPT ![from] = Adjusted(@, loss, zero), ![to] = Adjusted(@, a, zero)]
      /\ loss \in Int /\ zero \in Int /\ a \in Int /\ zero = 0 /\ a >= 0 /\ from # to
  BY DEF TransferDepositByOwner, Transferred
<1> HIDE DEF zero, loss
<1>2. /\ sub' \in [Subaccounts -> SubaccountType] /\ FloorsStay
      /\ Moved(to, a, zero)
      /\ \A t \in Subaccounts \ {from, to} : sub'[t] = sub[t]
  BY <1>1, TwoMoved, Zenon
<1>3. Gated(to)
  <2>1. /\ sub[to] \in SubaccountType /\ sub'[to] \in SubaccountType
        /\ sub'[to].quote = sub[to].quote + a /\ sub'[to].units = sub[to].units + zero
    BY <1>1, <1>2, MovedParts
  <2>2. sub'[to].units = sub[to].units /\ sub'[to].quote >= sub[to].quote
    BY <1>1, <2>1 DEF SubaccountType
  <2> QED
    BY <2>1, <2>2, CreditGated
<1>4. \A t \in Subaccounts : Gated(t)
  BY <1>2, <1>3, UnmovedGated DEF Gated, TransferDepositByOwner
<1>5. GatedStep /\ TripStep /\ tripped' \in BOOLEAN
  BY <1>4 DEF GatedStep, TripStep, TransferDepositByOwner, FloorTypeOK
<1> QED
  BY <1>2, <1>5, Kept DEF TransferDepositByOwner

LEMMA TransferPoolsKeeps ==
    ASSUME FloorTypeOK, NEW from \in Subaccounts, NEW to \in Subaccounts, NEW a \in Nat, NEW b \in Nat,
           TransferPools(from, to, a, b)
    PROVE  StepKeeps
<1> DEFINE c == -a
           d == -b
<1>1. /\ sub' = [sub EXCEPT ![from] = Adjusted(@, c, b), ![to] = Adjusted(@, a, d)]
      /\ a \in Int /\ b \in Int /\ c \in Int /\ d \in Int /\ from # to
  BY DEF TransferPools
<1> HIDE DEF c, d
<1>2. /\ sub' \in [Subaccounts -> SubaccountType] /\ FloorsStay
      /\ \A t \in Subaccounts \ {from, to} : sub'[t] = sub[t]
  BY <1>1, TwoMoved, Zenon
<1>3. \A t \in Subaccounts : Gated(t)
  BY <1>2, UnmovedGated DEF Gated, TransferPools
<1>4. GatedStep /\ TripStep /\ tripped' \in BOOLEAN
  BY <1>3 DEF GatedStep, TripStep, TransferPools, FloorTypeOK
<1> QED
  BY <1>2, <1>4, Kept DEF TransferPools

LEMMA TransferPerpKeeps ==
    ASSUME FloorTypeOK, NEW from \in Subaccounts, NEW to \in Subaccounts, NEW n \in Int,
           TransferPerpPosition(from, to, n)
    PROVE  StepKeeps
<1>1. price \in Int
  BY FloorAssumption DEF FloorTypeOK
<1>2. /\ sub' \in [Subaccounts -> SubaccountType] /\ FloorsStay
      /\ \A t \in Subaccounts \ {from, to} : sub'[t] = sub[t]
  BY <1>1, ExchangeMoves DEF TransferPerpPosition
<1>3. \A t \in Subaccounts : Gated(t)
  BY <1>2, UnmovedGated DEF Gated, TransferPerpPosition
<1>4. GatedStep /\ TripStep /\ tripped' \in BOOLEAN
  BY <1>3 DEF GatedStep, TripStep, TransferPerpPosition, FloorTypeOK
<1> QED
  BY <1>2, <1>4, Kept DEF TransferPerpPosition

LEMMA TriggerCancelsKeeps ==
    ASSUME FloorTypeOK, NEW s \in Subaccounts, TriggerCancels(s)
    PROVE  StepKeeps
<1>1. TripStep
  BY Zenon DEF TriggerCancels, TripStep, LazyTrip
<1>2. tripped' \in BOOLEAN
  BY DEF TriggerCancels, LazyTrip, ProvesBreach, FloorTypeOK
<1> QED
  BY <1>1, <1>2, StandingSubaccounts DEF TriggerCancels, FloorTypeOK

LEMMA TripKeeps ==
    ASSUME FloorTypeOK, NEW s \in Subaccounts, TripEquityFloorBreaker(s)
    PROVE  StepKeeps
<1>1. TripStep
  BY DEF TripEquityFloorBreaker, TripStep
<1> QED
  BY <1>1, StandingSubaccounts DEF TripEquityFloorBreaker, FloorTypeOK

LEMMA ResetKeeps ==
    ASSUME FloorTypeOK, ResetEquityFloorBreaker
    PROVE  StepKeeps
<1>1. TripStep
  BY DEF ResetEquityFloorBreaker, TripStep
<1> QED
  BY <1>1, StandingSubaccounts, Zenon DEF ResetEquityFloorBreaker, FloorTypeOK

\* A reducing swap consumes a deposit and repays a borrow: units come nearer to zero.
LEMMA EndSwapKeeps ==
    ASSUME FloorTypeOK, NEW s \in Subaccounts, NEW q \in Int, NEW n \in Int, NEW twap,
           EndSwap(s, q, n, twap)
    PROVE  StepKeeps
<1>1. /\ sub' \in [Subaccounts -> SubaccountType] /\ FloorsStay
      /\ Moved(s, q, n)
      /\ \A t \in Subaccounts \ {s} : sub'[t] = sub[t]
  BY OneMoved, Zenon DEF EndSwap
<1>2. /\ sub[s] \in SubaccountType /\ sub'[s] \in SubaccountType
      /\ sub'[s].units = sub[s].units + n /\ sub[s].units \in Int
  BY <1>1, MovedParts DEF SubaccountType
<1> DEFINE reducing == IF q < 0 THEN ConsumesDeposit(sub[s].quote, -q) /\ RepaysBorrow(sub[s].units, n)
                                ELSE ConsumesDeposit(sub[s].units, -n) /\ RepaysBorrow(sub[s].quote, q)
<1>3. reducing => Shrinks(s)
  <2>1. q < 0 => n > 0
    BY DEF EndSwap, Signum
  <2>2. ~(q < 0) => n < 0
    BY DEF EndSwap, Signum
  <2> QED
    BY <1>2, <2>1, <2>2 DEF Shrinks, ConsumesDeposit, RepaysBorrow, Abs
<1>4. /\ tripped => reducing
      /\ reducing \/ ClearsBufferedFloor(sub'[s])
      /\ tripped' = IF reducing THEN LazyTrip(tripped, sub'[s]) ELSE tripped
  BY Zenon DEF EndSwap
<1> HIDE DEF reducing
<1>5. Gated(s)
  BY <1>2, <1>3, <1>4, ShrinkGated DEF Gated
<1>6. GatedStep
  BY <1>1, <1>3, <1>4, <1>5, UnmovedGated DEF GatedStep
<1>7. TripStep
  BY <1>4, Zenon DEF TripStep, LazyTrip
<1>8. tripped' \in BOOLEAN
  BY <1>4, Zenon DEF LazyTrip, ProvesBreach, FloorTypeOK
<1> QED
  BY <1>1, <1>6, <1>7, <1>8, Kept DEF EndSwap

\* The taker passes its gate or reduces; the maker passes its own with the flag the
\* taker's lazy trip left, or shrinks.
LEMMA FillKeeps ==
    ASSUME FloorTypeOK, NEW taker \in Parties, NEW maker \in Parties, NEW order \in Int,
           NEW filled \in Int, filled # 0, NEW p \in Prices, NEW liquidation \in BOOLEAN,
           FillPerpOrder(taker, maker, order, filled, p, liquidation)
    PROVE  StepKeeps
<1>1. p \in Int /\ taker # maker
  BY FloorAssumption DEF FillPerpOrder
<1> DEFINE x == -(filled * p)
           y == -((-filled) * p)
<1>2. /\ sub' \in [Subaccounts -> SubaccountType] /\ FloorsStay
      /\ taker \in Subaccounts => Moved(taker, x, filled)
      /\ maker \in Subaccounts => Moved(maker, y, -filled)
      /\ \A t \in Subaccounts \ {taker, maker} : sub'[t] = sub[t]
  BY <1>1, ExchangeMoves, Zenon DEF FillPerpOrder
<1>3. x \in Int /\ y \in Int /\ -filled \in Int
  BY <1>1
<1> HIDE DEF x, y
<1>4. PICK reducing \in {taker = Outside \/ IsOrderPositionReducing(order, sub[taker].units)} :
         /\ liquidation => reducing /\ taker # Outside
         /\ taker # Outside /\ ~liquidation =>
               ~TakerWithheld(reducing, sub[taker]) /\ TakerGate(reducing, sub'[taker])
         /\ \E flag \in {IF taker = Outside \/ liquidation THEN tripped
                                                          ELSE FlagAfterTaker(reducing, sub'[taker])} :
               /\ maker # Outside => MakerGate(flag, sub[maker], sub'[maker])
               /\ tripped' = IF maker = Outside THEN flag
                                                ELSE FlagAfterMaker(flag, sub[maker], sub'[maker])
  BY DEF FillPerpOrder
<1>5. PICK flag \in {IF taker = Outside \/ liquidation THEN tripped
                                                      ELSE FlagAfterTaker(reducing, sub'[taker])} :
         /\ maker # Outside => MakerGate(flag, sub[maker], sub'[maker])
         /\ tripped' = IF maker = Outside THEN flag
                                          ELSE FlagAfterMaker(flag, sub[maker], sub'[maker])
  BY <1>4
<1>6. taker \in Subaccounts => \/ Shrinks(taker)
                               \/ ~tripped /\ ClearsBufferedFloor(sub'[taker])
  <2> SUFFICES ASSUME taker \in Subaccounts, ~(~tripped /\ ClearsBufferedFloor(sub'[taker]))
               PROVE  Shrinks(taker)
    OBVIOUS
  <2>1. IsOrderPositionReducing(order, sub[taker].units)
    BY <1>4, FloorAssumption, Zenon DEF TakerGate
  <2>2. sub[taker].units \in Int /\ sub'[taker].units = sub[taker].units + filled
    BY <1>2, <1>3, MovedParts DEF SubaccountType
  <2>3. Signum(filled) = Signum(order) /\ Abs(filled) <= Abs(order)
    BY DEF FillPerpOrder
  <2> QED
    BY <2>1, <2>2, <2>3, ReducingShrinks DEF Shrinks
<1>7. flag \in BOOLEAN /\ (tripped => flag)
  BY <1>5, Zenon DEF FlagAfterTaker, LazyTrip, ProvesBreach, FloorTypeOK
<1>8. maker \in Subaccounts => \/ Shrinks(maker)
                               \/ ~tripped /\ ClearsBufferedFloor(sub'[maker])
  <2> SUFFICES ASSUME maker \in Subaccounts, ~(~tripped /\ ClearsBufferedFloor(sub'[maker]))
               PROVE  Shrinks(maker)
    OBVIOUS
  <2>1. ~MakerRiskIncreasing(sub[maker].units, sub'[maker].units)
    BY <1>5, <1>7, FloorAssumption DEF MakerGate
  <2>2. sub[maker].units \in Int /\ sub'[maker].units = sub[maker].units + (-filled)
    BY <1>2, <1>3, MovedParts DEF SubaccountType
  <2>3. sub'[maker].units \in Int /\ sub[maker].units # sub'[maker].units
    BY <2>2
  <2> QED
    BY <2>1, <2>2, <2>3, MakerShrinks DEF Shrinks
<1>9. \A t \in Subaccounts : Gated(t)
  <2> SUFFICES ASSUME NEW t \in Subaccounts PROVE Gated(t)
    OBVIOUS
  <2>1. sub'[t] \in SubaccountType
    BY <1>2
  <2> QED
    BY <1>2, <1>6, <1>8, <2>1, ShrinkGated, UnmovedGated DEF Gated
<1>10. GatedStep
  <2>1. taker \in Subaccounts \/ maker \in Subaccounts
    BY <1>1 DEF Parties
  <2> QED
    BY <1>6, <1>8, <1>9, <2>1 DEF GatedStep
<1>11. TripStep
  <2> SUFFICES ASSUME ~tripped, tripped' PROVE \E s \in Subaccounts : ProvesBreach(sub'[s])
    BY DEF TripStep
  <2>1. CASE flag
    BY <2>1, <1>5, Zenon DEF FlagAfterTaker, LazyTrip, Parties
  <2>2. CASE ~flag
    BY <2>2, <1>5, Zenon DEF FlagAfterMaker, LazyTrip, Parties
  <2> QED
    BY <2>1, <2>2
<1>12. tripped' \in BOOLEAN
  BY <1>5, <1>7, Zenon DEF FlagAfterMaker, LazyTrip, ProvesBreach
<1> QED
  BY <1>2, <1>10, <1>11, <1>12, Kept DEF FillPerpOrder

\* The liquidated side shrinks, the liquidator's passes its gate.
LEMMA LiquidateKeeps ==
    ASSUME FloorTypeOK, NEW user \in Parties, NEW liquidator \in Parties, NEW n \in Int, n # 0,
           NEW p \in Prices, LiquidateUnits(user, liquidator, n, p)
    PROVE  StepKeeps
<1>1. p \in Int /\ user # liquidator
  BY FloorAssumption DEF LiquidateUnits
<1> DEFINE x == -(n * p)
<1>2. /\ sub' \in [Subaccounts -> SubaccountType] /\ FloorsStay
      /\ user \in Subaccounts => Moved(user, x, n)
      /\ \A t \in Subaccounts \ {user, liquidator} : sub'[t] = sub[t]
  BY <1>1, ExchangeMoves, Zenon DEF LiquidateUnits
<1>3. x \in Int
  BY <1>1
<1> HIDE DEF x
<1>4. user \in Subaccounts => Shrinks(user)
  <2> SUFFICES ASSUME user \in Subaccounts PROVE Shrinks(user)
    OBVIOUS
  <2>1. IsOrderPositionReducing(n, sub[user].units)
    BY FloorAssumption DEF LiquidateUnits
  <2>2. sub[user].units \in Int /\ sub'[user].units = sub[user].units + n
    BY <1>2, <1>3, MovedParts, Zenon DEF SubaccountType
  <2>3. Abs(n) <= Abs(n)
    BY DEF Abs
  <2> QED
    BY <2>1, <2>2, <2>3, ReducingShrinks DEF Shrinks
<1>5. liquidator \in Subaccounts => ~tripped /\ ClearsBufferedFloor(sub'[liquidator])
  BY FloorAssumption DEF LiquidateUnits, LiquidatorMayTakeOn
<1>6. \A t \in Subaccounts : Gated(t)
  <2> SUFFICES ASSUME NEW t \in Subaccounts PROVE Gated(t)
    OBVIOUS
  <2>1. sub'[t] \in SubaccountType
    BY <1>2
  <2> QED
    BY <1>2, <1>4, <1>5, <2>1, ShrinkGated, UnmovedGated DEF Gated
<1>7. GatedStep /\ TripStep /\ tripped' \in BOOLEAN
  <2>1. user \in Subaccounts \/ liquidator \in Subaccounts
    BY <1>1 DEF Parties
  <2> QED
    BY <1>4, <1>5, <1>6, <2>1 DEF GatedStep, TripStep, LiquidateUnits, FloorTypeOK
<1> QED
  BY <1>2, <1>7, Kept DEF LiquidateUnits

\* The floor and the buffer of one subaccount are set.
LEMMA FloorSetKeeps ==
    ASSUME FloorTypeOK, NEW s \in Subaccounts, NEW f \in Nat, NEW b \in Nat,
           sub' = [sub EXCEPT ![s].floor = f, ![s].buffer = b],
           UNCHANGED <<asset, price, oracleOk, tripped>>
    PROVE  StepKeeps
<1> DEFINE u == [sub[s] EXCEPT !.floor = f, !.buffer = b]
<1>1. sub \in [Subaccounts -> SubaccountType] /\ sub[s] \in SubaccountType
  BY DEF FloorTypeOK, SubaccountType
<1>2. /\ u \in SubaccountType /\ u.quote = sub[s].quote /\ u.units = sub[s].units
      /\ u.floor = f /\ u.buffer = b
  BY <1>1, Zenon DEF SubaccountType
<1>3. sub' = [sub EXCEPT ![s] = u]
  BY <1>1, Zenon
<1> HIDE DEF u
<1>4. /\ sub' \in [Subaccounts -> SubaccountType]
      /\ sub'[s] = u
      /\ \A t \in Subaccounts \ {s} : sub'[t] = sub[t]
  BY <1>1, <1>2, <1>3, Zenon
<1>5. Gated(s) /\ ~(sub'[s].quote < sub[s].quote)
  <2>1. u.quote >= sub[s].quote
    BY <1>1, <1>2 DEF SubaccountType
  <2> QED
    BY <1>2, <1>4, <2>1, CreditGated, Zenon
<1>6. GatedStep
  BY <1>4, <1>5, UnmovedGated DEF GatedStep, QuoteStays
<1>7. TripStep
  BY DEF TripStep
<1>8. BreachStep
  <2>1. ASSUME NEW t \in Subaccounts, BelowFloor(sub[t])
        PROVE  BelowFloor(sub'[t]) \/ FloorSetAlone(t)
    <3>1. CASE t # s
      BY <1>4, <2>1, <3>1
    <3>2. CASE t = s /\ f = sub[s].floor
      <4>1. Equity(u) = Equity(sub[s])
        BY <1>1, <1>2, EquityFollowsQuote
      <4> QED
        BY <1>2, <1>4, <2>1, <3>2, <4>1 DEF BelowFloor
    <3>3. CASE t = s /\ f # sub[s].floor
      BY <1>2, <1>4, <3>3 DEF FloorSetAlone
    <3> QED
      BY <3>1, <3>2, <3>3
  <2>2. ASSUME NEW t \in Subaccounts, NEW r \in Subaccounts,
               sub'[t].floor < sub[t].floor, sub'[r].floor > sub[r].floor
        PROVE  FALSE
    <3>1. sub[t].floor \in Nat /\ sub[r].floor \in Nat
      BY <1>1 DEF SubaccountType
    <3>2. t = s /\ r = s
      BY <1>4, <2>2, <3>1
    <3> QED
      BY <1>2, <1>4, <2>2, <3>1, <3>2
  <2> QED
    BY <2>1, <2>2, Zenon DEF BreachStep
<1>9. FloorTypeOK'
  BY <1>4 DEF FloorTypeOK, SubaccountType
<1> QED
  BY <1>6, <1>7, <1>8, <1>9 DEF StepKeeps

\* A delegate's transfer: the receiver gains quote and floor, the sender clears the
\* floor it is left with, and was not below its floor if any of it moved.
LEMMA DelegateKeeps ==
    ASSUME FloorTypeOK, NEW from \in Subaccounts, NEW to \in Subaccounts, NEW a \in Nat, NEW d \in Nat,
           TransferDepositByDelegate(from, to, a, d)
    PROVE  StepKeeps
<1> DEFINE bd == BufferDelta(sub[from], d)
           x == Adjusted(Burdened(sub[from], -d, -bd), -a, 0)
           y == Adjusted(Burdened(sub[to], d, bd), a, 0)
<1>1. /\ sub \in [Subaccounts -> SubaccountType]
      /\ sub[from] \in SubaccountType /\ sub[to] \in SubaccountType
      /\ from # to
  BY DEF FloorTypeOK, SubaccountType, TransferDepositByDelegate
<1>2. sub[from].floor \in Nat /\ sub[from].buffer \in Nat /\ sub[to].floor \in Nat /\ sub[to].buffer \in Nat
  BY <1>1 DEF SubaccountType
<1>3. d <= sub[from].floor
  BY <1>2 DEF TransferDepositByDelegate, FloorMayMove
<1>4. bd \in Nat /\ bd <= sub[from].buffer /\ (d > 0 /\ d = sub[from].floor => bd = sub[from].buffer)
  BY <1>1, <1>3, BufferDeltaBound
<1>5. sub' = [sub EXCEPT ![from] = x, ![to] = y]
  BY <1>1, Zenon DEF TransferDepositByDelegate, Transferred, TransferEquityFloor
<1> HIDE DEF bd
<1>6. /\ x \in SubaccountType /\ x.quote = sub[from].quote - a /\ x.units = sub[from].units
      /\ x.floor = sub[from].floor - d /\ x.buffer = sub[from].buffer - bd
  <2> DEFINE z == Burdened(sub[from], -d, -bd)
  <2>1. -d \in Int /\ -bd \in Int /\ sub[from].floor + (-d) >= 0 /\ sub[from].buffer + (-bd) >= 0
    BY <1>2, <1>3, <1>4
  <2>2. /\ z \in SubaccountType /\ z.quote = sub[from].quote /\ z.units = sub[from].units
        /\ z.floor = sub[from].floor + (-d) /\ z.buffer = sub[from].buffer + (-bd)
    BY <1>1, <2>1, BurdenedParts
  <2> HIDE DEF z
  <2> DEFINE zero == 0
             loss == -a
  <2>3. zero \in Int /\ loss \in Int
    OBVIOUS
  <2> HIDE DEF zero, loss
  <2>4. LET t == Adjusted(z, loss, zero)
        IN  /\ t \in SubaccountType /\ t.quote = z.quote + loss /\ t.units = z.units + zero
            /\ t.floor = z.floor /\ t.buffer = z.buffer
    BY <2>2, <2>3, AdjustedParts
  <2>5. sub[from].quote \in Int /\ sub[from].units \in Int
    BY <1>1 DEF SubaccountType
  <2>6. x = Adjusted(z, loss, zero)
    BY DEF z, zero, loss
  <2> HIDE DEF x
  <2> QED
    BY <2>2, <2>4, <2>5, <2>6, <1>2, <1>4 DEF zero, loss
<1>7. /\ y \in SubaccountType /\ y.quote = sub[to].quote + a /\ y.units = sub[to].units
      /\ y.floor = sub[to].floor + d /\ y.buffer = sub[to].buffer + bd
  <2> DEFINE z == Burdened(sub[to], d, bd)
  <2>1. d \in Int /\ bd \in Int /\ sub[to].floor + d >= 0 /\ sub[to].buffer + bd >= 0
    BY <1>2, <1>4
  <2>2. /\ z \in SubaccountType /\ z.quote = sub[to].quote /\ z.units = sub[to].units
        /\ z.floor = sub[to].floor + d /\ z.buffer = sub[to].buffer + bd
    BY <1>1, <2>1, BurdenedParts
  <2> HIDE DEF z
  <2> DEFINE zero == 0
  <2>3. zero \in Int /\ a \in Int
    OBVIOUS
  <2> HIDE DEF zero
  <2>4. LET t == Adjusted(z, a, zero)
        IN  /\ t \in SubaccountType /\ t.quote = z.quote + a /\ t.units = z.units + zero
            /\ t.floor = z.floor /\ t.buffer = z.buffer
    BY <2>2, <2>3, AdjustedParts, Zenon
  <2>5. sub[to].quote \in Int /\ sub[to].units \in Int
    BY <1>1 DEF SubaccountType
  <2>6. y = Adjusted(z, a, zero)
    BY DEF z, zero
  <2> HIDE DEF y
  <2> QED
    BY <2>2, <2>4, <2>5, <2>6, <1>2, <1>4 DEF zero
<1> HIDE DEF x, y
<1>8. /\ sub' \in [Subaccounts -> SubaccountType]
      /\ sub'[from] = x /\ sub'[to] = y
      /\ \A t \in Subaccounts \ {from, to} : sub'[t] = sub[t]
  BY <1>1, <1>5, <1>6, <1>7
<1>9. /\ sub[from].quote \in Int /\ sub[to].quote \in Int /\ sub[from].units \in Int /\ sub[to].units \in Int
      /\ Equity(sub[from]) \in Int /\ Equity(sub[to]) \in Int /\ Equity(x) \in Int /\ Equity(y) \in Int
  BY <1>1, <1>6, <1>7, EquityInt DEF SubaccountType, FloorTypeOK
<1>10. GatedStep
  <2>1. Gated(to) /\ ~(sub'[to].quote < sub[to].quote)
    <3>1. y.quote >= sub[to].quote
      BY <1>7, <1>9
    <3> QED
      BY <1>7, <1>8, <3>1, CreditGated
  <2>2. Gated(from)
    <3>1. Abs(sub[from].units) \in Int
      BY <1>9 DEF Abs
    <3> QED
      BY <1>6, <1>8, <3>1 DEF Gated, Grows, TransferDepositByDelegate
  <2>3. QuoteStays
    <3> SUFFICES ASSUME NEW s \in Subaccounts, sub'[s].quote < sub[s].quote
                 PROVE  \E t \in Subaccounts : sub'[t].quote - sub[t].quote = sub[s].quote - sub'[s].quote
      BY DEF QuoteStays
    <3>1. s = from
      BY <1>8, <2>1, UnmovedGated
    <3>2. sub'[to].quote - sub[to].quote = sub[s].quote - sub'[s].quote
      BY <1>6, <1>7, <1>8, <1>9, <3>1
    <3> QED
      BY <3>2
  <2> QED
    BY <1>8, <2>1, <2>2, <2>3, UnmovedGated DEF GatedStep
<1>11. BreachStep
  <2>1. ASSUME NEW s \in Subaccounts, BelowFloor(sub[s])
        PROVE  BelowFloor(sub'[s]) \/ Equity(sub'[s]) > Equity(sub[s])
    <3>1. CASE s = from
      <4>1. d = 0
        <5>1. ~(d > 0)
          BY <2>1, <3>1, Zenon DEF TransferDepositByDelegate, FloorMayMove
        <5> QED
          BY <5>1
      <4>2. Equity(x) <= Equity(sub[from])
        BY <1>1, <1>6, <1>9, EquityFollowsQuote
      <4> QED
        BY <1>2, <1>6, <1>8, <1>9, <2>1, <3>1, <4>1, <4>2 DEF BelowFloor
    <3>2. CASE s = to
      <4>1. CASE a > 0
        <5>1. Equity(sub[to]) < Equity(y)
          BY <1>1, <1>7, <1>9, <4>1, EquityFollowsQuote
        <5> QED
          BY <1>8, <1>9, <3>2, <5>1
      <4>2. CASE a = 0
        <5>1. Equity(y) = Equity(sub[to])
          BY <1>1, <1>7, <1>9, <4>2, EquityFollowsQuote
        <5> QED
          BY <1>2, <1>7, <1>8, <1>9, <2>1, <3>2, <5>1 DEF BelowFloor
      <4> QED
        BY <4>1, <4>2
    <3> QED
      BY <1>8, <2>1, <3>1, <3>2
  <2>2. ASSUME NEW s \in Subaccounts, NEW t \in Subaccounts,
               sub'[s].floor < sub[s].floor, sub'[t].floor > sub[t].floor
        PROVE  FloorMovesWhole(s, t)
    <3>1. sub[s].floor \in Nat /\ sub[t].floor \in Nat
      BY <1>1 DEF SubaccountType
    <3>2. s = from /\ t = to /\ d > 0
      BY <1>2, <1>6, <1>7, <1>8, <2>2, <3>1
    <3>3. x.floor = 0 => x.buffer = 0
      BY <1>2, <1>4, <1>6, <3>2
    <3>4. /\ y.floor - sub[to].floor = sub[from].floor - x.floor
          /\ y.buffer - sub[to].buffer = sub[from].buffer - x.buffer
      BY <1>2, <1>4, <1>6, <1>7
    <3> QED
      BY <1>8, <3>2, <3>3, <3>4 DEF FloorMovesWhole
  <2> QED
    BY <2>1, <2>2 DEF BreachStep
<1>12. FloorTypeOK' /\ TripStep
  BY <1>8 DEF FloorTypeOK, SubaccountType, TripStep, TransferDepositByDelegate
<1> QED
  BY <1>10, <1>11, <1>12 DEF StepKeeps

-----------------------------------------------------------------------------
(* Every step, and the theorems *)

LEMMA EveryStepKeeps ==
    ASSUME FloorTypeOK, FloorStep
    PROVE  StepKeeps
<1>1. ASSUME NEW p \in Prices, NEW valid \in BOOLEAN, OracleMoves(p, valid)
      PROVE  StepKeeps
  BY <1>1, OracleMovesKeeps
<1>2. ASSUME NEW s \in Subaccounts, NEW a \in QuoteAmounts, DepositQuote(s, a) \/ WithdrawQuote(s, a)
      PROVE  StepKeeps
  BY <1>2, DepositQuoteKeeps, WithdrawQuoteKeeps, FloorAssumption
<1>3. ASSUME NEW s \in Subaccounts, TriggerCancels(s) \/ TripEquityFloorBreaker(s)
      PROVE  StepKeeps
  BY <1>3, TriggerCancelsKeeps, TripKeeps
<1>4. ASSUME NEW s \in Subaccounts, DeleteUser(s)
      PROVE  StepKeeps
  <2> DEFINE zero == 0
  <2>1. zero \in Nat /\ sub' = [sub EXCEPT ![s].floor = zero, ![s].buffer = zero]
    BY <1>4 DEF DeleteUser
  <2> HIDE DEF zero
  <2> QED
    BY <1>4, <2>1, FloorSetKeeps, Zenon DEF DeleteUser
<1>5. ASSUME NEW s \in Subaccounts, NEW setting \in FloorSettings, UpdateUserEquityFloor(s, setting)
      PROVE  StepKeeps
  <2>1. setting[1] \in Nat /\ setting[2] \in Nat
    BY FloorAssumption
  <2> QED
    BY <1>5, <2>1, FloorSetKeeps, Zenon DEF UpdateUserEquityFloor
<1>6. ASSUME NEW s \in Subaccounts, NEW q \in Quotes, NEW n \in Deals \ {0}, NEW twap \in Prices,
             EndSwap(s, q, n, twap)
      PROVE  StepKeeps
  <2>1. q \in Int /\ n \in Int
    BY FloorAssumption DEF Quotes, Deals
  <2> QED
    BY <1>6, <2>1, EndSwapKeeps
<1>7. ASSUME NEW from \in Subaccounts, NEW to \in Subaccounts, NEW a \in QuoteAmounts,
             TransferDepositByOwner(from, to, a)
      PROVE  StepKeeps
  BY <1>7, TransferByOwnerKeeps, FloorAssumption
<1>8. ASSUME NEW from \in Subaccounts, NEW to \in Subaccounts, NEW a \in QuoteAmounts \cup {0},
             NEW d \in FloorDeltas \cup {0}, TransferDepositByDelegate(from, to, a, d)
      PROVE  StepKeeps
  <2>1. a \in Nat /\ d \in Nat
    BY FloorAssumption
  <2> QED
    BY <1>8, <2>1, DelegateKeeps
<1>9. ASSUME NEW from \in Subaccounts, NEW to \in Subaccounts, NEW a \in QuoteAmounts \cup {0},
             NEW b \in 0 .. MaxUnits, TransferPools(from, to, a, b)
      PROVE  StepKeeps
  <2>1. a \in Nat /\ b \in Nat
    BY FloorAssumption
  <2> QED
    BY <1>9, <2>1, TransferPoolsKeeps
<1>10. ASSUME NEW from \in Subaccounts, NEW to \in Subaccounts, NEW n \in Units,
              TransferPerpPosition(from, to, n)
       PROVE  StepKeeps
  <2>1. n \in Int
    BY FloorAssumption DEF Units
  <2> QED
    BY <1>10, <2>1, TransferPerpKeeps
<1>11. ASSUME NEW one \in Parties, NEW other \in Parties, NEW n \in Deals \ {0}, NEW p \in Prices,
              NEW rest \in 0 .. MaxUnits, NEW liquidation \in BOOLEAN,
              FillPerpOrder(one, other, n + Signum(n) * rest, n, p, liquidation)
       PROVE  StepKeeps
  <2> DEFINE order == n + Signum(n) * rest
  <2>1. n \in Int /\ n # 0 /\ rest \in Int
    BY FloorAssumption DEF Deals
  <2>2. order \in Int
    BY <2>1 DEF Signum
  <2> HIDE DEF order
  <2> QED
    BY <1>11, <2>1, <2>2, FillKeeps DEF order
<1>12. ASSUME NEW one \in Parties, NEW other \in Parties, NEW n \in Deals \ {0}, NEW p \in Prices,
              LiquidateUnits(one, other, n, p)
       PROVE  StepKeeps
  <2>1. n \in Int /\ n # 0
    BY FloorAssumption DEF Deals
  <2> QED
    BY <1>12, <2>1, LiquidateKeeps
<1>13. ASSUME ResetEquityFloorBreaker
       PROVE  StepKeeps
  BY <1>13, ResetKeeps
<1> QED
  BY <1>1, <1>2, <1>3, <1>4, <1>5, <1>6, <1>7, <1>8, <1>9, <1>10, <1>11, <1>12, <1>13 DEF FloorStep

\* The state keeps its type: no floor and no buffer goes below zero when floor is
\* transferred (transfer_equity_floor rounds the buffer's share up).
THEOREM FloorTypeInvariant == FloorSpec => []FloorTypeOK
<1>1. FloorInit => FloorTypeOK
  <2> SUFFICES ASSUME FloorInit PROVE FloorTypeOK
    OBVIOUS
  <2>1. ASSUME NEW q \in {0, MaxQuote}
        PROVE  [quote |-> q, units |-> 0, floor |-> 0, buffer |-> 0] \in SubaccountType
    BY FloorAssumption DEF SubaccountType
  <2>2. sub \in [Subaccounts -> SubaccountType]
    BY <2>1 DEF FloorInit
  <2> QED
    BY <2>2, Zenon DEF FloorInit, FloorTypeOK, SubaccountType
<1>2. FloorTypeOK /\ [FloorNext]_floorVars => FloorTypeOK'
  <2>1. CASE FloorNext
    BY <2>1, EveryStepKeeps DEF FloorNext, StepKeeps
  <2>2. CASE UNCHANGED floorVars
    BY <2>2 DEF floorVars, FloorTypeOK
  <2> QED
    BY <2>1, <2>2
<1> QED
  BY <1>1, <1>2, PTL DEF FloorSpec

\* Every way of taking on exposure or losing equity goes through a gate or is a
\* reduction, and an armed breaker lets no quote out of the authority except
\* against exposure given up.
THEOREM ReductionsAloneGoUngated == FloorSpec => OnlyReductionsGoUngated
<1>1. FloorTypeOK /\ [FloorNext]_floorVars =>
        [(price' = price /\ oracleOk' = oracleOk) =>
           /\ \A s \in Subaccounts : Gated(s)
           /\ tripped => (\E s \in Subaccounts : Shrinks(s)) \/ QuoteStays]_floorVars
  BY EveryStepKeeps DEF FloorNext, StepKeeps, GatedStep
<1> QED
  BY <1>1, FloorTypeInvariant, PTL DEF FloorSpec, OnlyReductionsGoUngated

\* The breaker is armed, by the instruction or lazily by a fill, a trigger or a
\* swap, only over a subaccount below its floor at every price the oracle may hide.
THEOREM EveryTripProvesBreach == FloorSpec => TripProvesBreach
<1>1. ASSUME FloorTypeOK, FloorStep, ~tripped, tripped'
      PROVE  \E s \in Subaccounts :
                \A p \in (IF oracleOk THEN {price} ELSE Prices) : EquityAt(sub'[s], p) < sub'[s].floor
  <2>1. StepKeeps
    BY <1>1, EveryStepKeeps
  <2>2. PICK s \in Subaccounts : ProvesBreach(sub'[s])
    BY <1>1, <2>1 DEF StepKeeps, TripStep
  <2>3. sub'[s] \in SubaccountType
    BY <2>1 DEF StepKeeps, FloorTypeOK, SubaccountType
  <2> QED
    BY <1>1, <2>2, <2>3, BreachProved
<1>2. FloorTypeOK /\ [FloorNext]_floorVars =>
        [~tripped /\ tripped' =>
           \E s \in Subaccounts :
              \A p \in (IF oracleOk THEN {price} ELSE Prices) :
                 EquityAt(sub'[s], p) < sub'[s].floor]_floorVars
  BY <1>1 DEF FloorNext
<1> QED
  BY <1>2, FloorTypeInvariant, PTL DEF FloorSpec, TripProvesBreach

\* A breach ends only by gained equity, a price or the admin, and floor that moves
\* moves whole with its share of the buffer.
THEOREM BreachNeverDefused == FloorSpec => BreachNotDefused
<1>1. FloorTypeOK /\ [FloorNext]_floorVars =>
        [/\ \A s \in Subaccounts :
               BelowFloor(sub[s]) =>
                  \/ BelowFloor(sub'[s])
                  \/ Equity(sub'[s]) > Equity(sub[s])
                  \/ price' # price
                  \/ FloorSetAlone(s)
         /\ \A s, t \in Subaccounts :
               sub'[s].floor < sub[s].floor /\ sub'[t].floor > sub[t].floor
                  => FloorMovesWhole(s, t)]_floorVars
  BY EveryStepKeeps DEF FloorNext, StepKeeps, BreachStep
<1> QED
  BY <1>1, FloorTypeInvariant, PTL DEF FloorSpec, BreachNotDefused
=============================================================================
