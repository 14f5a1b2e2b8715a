------------------------------ MODULE MCLedgers ------------------------------
(***************************************************************************)
(* The ledgers in one run: the insurance fund of a spot market, a managed  *)
(* vault, the revenue router and the books of a perp market.  They do not  *)
(* meet, so a behaviour picks one of them and the others stay in one of    *)
(* their initial states.                                                   *)
(***************************************************************************)
EXTENDS MCInsuranceFund, MCVault, Router, MCPerpMarket

VARIABLE ledger

fundVars == <<vars, spent>>
mcPerpVars == <<perpVars, plan, steps>>
ledgerVars == <<fundVars, mcVaultVars, routerVars, mcPerpVars, ledger>>

Tier(threshold, bps) == [threshold |-> threshold, bps |-> bps]
FirstLadder == <<Tier(0, 6000), Tier(3, 7000), Tier(10, 9000)>>

\* A component that is not picked.
VaultAtRest == vaultPlan = StuckPlan /\ MCVaultInit
RouterAtRest == ladder = FirstLadder /\ RouterInit
PerpAtRest == plan = BankruptcyPlan /\ MCPerpInit

LedgersInit ==
    /\ ledger \in {"fund", "vault", "router", "perp"}
    /\ MCInit
    /\ IF ledger = "vault" THEN MCVaultInit ELSE VaultAtRest
    /\ IF ledger = "router" THEN RouterInit ELSE RouterAtRest
    /\ IF ledger = "perp" THEN MCPerpInit ELSE PerpAtRest

LedgersNext ==
    /\ \/ ledger = "fund" /\ MCNext /\ UNCHANGED <<mcVaultVars, routerVars, mcPerpVars>>
       \/ ledger = "vault" /\ MCVaultNext /\ UNCHANGED <<fundVars, routerVars, mcPerpVars>>
       \/ ledger = "router" /\ RouterNext /\ UNCHANGED <<fundVars, mcVaultVars, mcPerpVars>>
       \/ ledger = "perp" /\ MCPerpNext /\ UNCHANGED <<fundVars, mcVaultVars, routerVars>>
    /\ UNCHANGED ledger

LedgersSpec == LedgersInit /\ [][LedgersNext]_ledgerVars

-----------------------------------------------------------------------------
\* A second valid ladder, and one that does not start at zero.
MCLadders == {FirstLadder, <<Tier(0, 5000), Tier(2, 10000)>>, <<Tier(1, 5000)>>}
=============================================================================
