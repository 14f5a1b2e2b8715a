------------------------------ MODULE MCOrderFlow ----------------------------
(***************************************************************************)
(* Three instances for TLC that share a run: the orders of a taker and a   *)
(* maker (MCOrders), and two calculations over every value of a small      *)
(* range: the split of interest with the borrow rate (MCInterest) and the  *)
(* funding cap of the AMM (MCFundingCap).  A behaviour runs one of them;   *)
(* the others stay in one initial state.                                   *)
(***************************************************************************)
EXTENDS MCOrders, MCInterest, MCFundingCap

VARIABLE which

sumVars == <<which, vars, interestVars, capVars>>

InterestAtRest ==
    /\ SplitInit /\ factors.if_fee_factor = 0 /\ factors.protocol_fee_factor = 0
    /\ curve = MCCurve /\ utilization = 0
CapAtRest == long = 0 /\ short = 0 /\ tfmd = 0 /\ last = NoPeriod

SumInit ==
    /\ which \in {"orders", "interest", "funding"}
    /\ Init
    /\ IF which = "interest" THEN InterestInit ELSE InterestAtRest
    /\ IF which = "funding" THEN CapInit ELSE CapAtRest

OrdersStep == which = "orders" /\ Next /\ UNCHANGED <<which, interestVars, capVars>>
InterestStep == which = "interest" /\ InterestNext /\ UNCHANGED <<which, vars, capVars>>
FundingStep == which = "funding" /\ CapNext /\ UNCHANGED <<which, vars, interestVars>>

SumSpec == SumInit /\ [][OrdersStep \/ InterestStep \/ FundingStep]_sumVars
=============================================================================
