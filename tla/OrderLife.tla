------------------------------ MODULE OrderLife ------------------------------
(***************************************************************************)
(* What an account's orders promise, without slots, tallies or             *)
(* instructions.  Ids are given out once, in order.  A trigger order is    *)
(* dormant, and keeps its size, until it is triggered; a live order only   *)
(* ever shrinks; a reduce-only order stays one; what is done stays done.   *)
(* An account never has more than a fixed number of orders waiting.        *)
(***************************************************************************)
EXTENDS Integers, FiniteSets

CONSTANTS Owners, Ids, MaxOpen, Sizes

VARIABLE life      \* life[u][i]: the order of u with id i

Unborn == [phase |-> "unborn", left |-> 0, reduceOnly |-> FALSE]
Done == [phase |-> "done", left |-> 0, reduceOnly |-> FALSE]

Waiting(o) == o.phase \in {"dormant", "live"}

LifeInit == life = [u \in Owners |-> [i \in Ids |-> Unborn]]

\* How one order may change in a step.  An instruction that places and fills
\* takes an order from unborn to done at once.
Advances(o, p) ==
    \/ p = o
    \/ o.phase = "unborn" /\ (Waiting(p) => p.left \in Sizes)
    \/ Waiting(o) /\ p.phase = "done"
    \/ /\ Waiting(o) /\ Waiting(p)
       /\ p.phase = "dormant" => o.phase = "dormant"
       /\ p.left \in Sizes /\ p.left <= o.left
       /\ o.phase = "dormant" => p.left = o.left
       /\ o.reduceOnly => p.reduceOnly

\* Ids are born in order.
InOrder(lives) == \A i, j \in Ids : i < j /\ lives[j].phase # "unborn" => lives[i].phase # "unborn"

OwnerAdvances(before, after) ==
    /\ \A i \in Ids : Advances(before[i], after[i])
    /\ InOrder(after)
    /\ Cardinality({i \in Ids : Waiting(after[i])}) <= MaxOpen

LifeNext ==
    \A u \in Owners : \E before \in {life[u]}, after \in {life'[u]} : OwnerAdvances(before, after)

LifeSpec == LifeInit /\ [][LifeNext]_life
=============================================================================
