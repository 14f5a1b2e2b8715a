----------------------------- MODULE MCPerpPools -----------------------------
(* Instance of PerpPools for TLC: the escrow owner and one counterparty.    *)
EXTENDS PerpPools

MCTraders == {"owner", "other"}

MCCuts == {[protocol |-> 1, insurance |-> 1, amm |-> 1, referral |-> 1]}

MCLiquidationCuts == {[protocol |-> 0, insurance |-> 1, liquidator |-> 1]}

MCCloseoutFees == {[protocol |-> 0, insurance |-> 0], [protocol |-> 1, insurance |-> 1]}

\* One beneficiary without a payout account, one without a RevenueShare account.
MCPayees ==
    {[b \in {"builder", "referrer"} |->
        IF b = "builder" THEN [user |-> "none", share |-> TRUE]
        ELSE [user |-> "user", share |-> FALSE]]}

\* The market after the owner's first builder order is placed, or after that
\* order's first fill, which left it open and the owner exposed to the AMM.
MCInit ==
    \E tokens \in PoolsAtStart, filled \in BOOLEAN, cut \in Cuts, fee \in BuilderFees :
       LET placed == [FreeRow EXCEPT !.kind = "builder", !.id = 1]
           referred == [FreeRow EXCEPT !.kind = "referral", !.fees = cut.referral]
           paid == cut.protocol + cut.insurance + cut.amm + cut.referral + fee
       IN /\ rows = [i \in RowIds |->
                        CASE i = 1 -> [placed EXCEPT !.fees = IF filled THEN fee ELSE 0]
                          [] i = 2 /\ filled -> referred
                          [] OTHER -> FreeRow]
          /\ pools = IF filled
                     THEN [AccrueFillFees(NewPools(tokens), cut.protocol, cut.insurance, cut.amm)
                             EXCEPT !.share = fee + cut.referral, !.tfmd = cut.amm,
                                    !.net = -paid, !.holder = Owner]
                     ELSE NewPools(tokens)
          /\ claim = [u \in Traders |-> IF filled /\ u = Owner THEN -paid ELSE 0]
          /\ bankrupt = {} /\ booked = {}
          /\ below \in {{}, {Owner}}
          /\ open = [id \in {1} |-> TRUE]
          /\ nextId = 2
          /\ present = TRUE
          /\ payee \in Payees
          /\ budget = MaxInstructions

MCSpec == MCInit /\ [][PoolsNext]_poolsVars

\* Bankruptcies are resolved as well, whenever some payout of the insurance
\* vault allows it.
MCFairSpec ==
    /\ MCSpec
    /\ PoolsFairness
    /\ \A u \in Traders :
         WF_poolsVars(InSettlement /\ \E s, d \in VaultTokens : ResolveBankruptcy(u, s, d))

=============================================================================
