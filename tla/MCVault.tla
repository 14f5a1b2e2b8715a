------------------------------ MODULE MCVault ------------------------------
(***************************************************************************)
(* Small instances of Vault for TLC.  A behaviour starts from a vault into *)
(* which depositors have paid, and a plan bounds what follows: a budget of *)
(* steps, the instructions taken and their inputs.                         *)
(***************************************************************************)
EXTENDS Vault, TLC

CONSTANTS
    VaultPlans,
    MaxEquity   \* bound on the equity that trading may reach

VARIABLES vaultPlan, vaultSpent

mcVaultVars == <<vaultVars, vaultPlan, vaultSpent>>

\* The first deposits buy a share per token.
MCVaultInit ==
    /\ vaultPlan \in VaultPlans
    /\ vaultSpent = 0
    /\ LET paid == vaultPlan.opening
           sum == MapThenSumSet(LAMBDA d : paid[d], Holders)
           new == NewVault(vaultPlan.policy, vaultPlan.period)
       IN /\ vault = [new EXCEPT !.total = sum, !.user = sum, !.lastFee = 1]
          /\ holder = [d \in Holders |->
                         [NewHolder(new) EXCEPT !.shares = paid[d], !.net = paid[d]]]
          /\ mint = [supply |-> paid[Pool], issued |-> paid[Pool], last |-> paid[Pool]]
          /\ equity = sum
    /\ stuck = FALSE /\ vaultNow = 1 /\ installed = 0

Doing(op) == op \in vaultPlan.ops

PlannedHolders ==
    \/ Doing("deposit") /\ \E d \in Depositors, n \in vaultPlan.deposits : Deposit(d, n)
    \/ Doing("leave") /\ \E d \in Depositors, r \in vaultPlan.asks : RequestWithdraw(d, r)
    \/ Doing("leave") /\ \E d \in Depositors : CancelWithdrawRequest(d)
    \/ Doing("leave") /\ \E d \in Depositors : Withdraw(d)
    \/ Doing("profit") /\ \E d \in Depositors : RealizeProfits(d)
    \/ Doing("rebase") /\ \E d \in Depositors : ApplyRebase(d)

PlannedSides ==
    \/ Doing("manager") /\ \E n \in vaultPlan.deposits : ManagerDeposit(n)
    \/ Doing("manager") /\ \E r \in vaultPlan.asks : ManagerRequestWithdraw(r)
    \/ Doing("manager") /\ ManagerCancelWithdrawRequest
    \/ Doing("manager") /\ ManagerWithdraw
    \/ Doing("protocol") /\ \E r \in vaultPlan.asks : ProtocolRequestWithdraw(r)
    \/ Doing("protocol") /\ ProtocolCancelWithdrawRequest
    \/ Doing("protocol") /\ ProtocolWithdraw

PlannedPolicy ==
    \/ Doing("fees") /\ \E p \in vaultPlan.policies : QueueFeeUpdate(p, MinTimelock)
    \/ Doing("fees") /\ InstallFeeUpdate
    \/ Doing("fees") /\ CancelFeeUpdate
    \/ Doing("fees") /\ \E p \in vaultPlan.policies : UpdateVault(p, vault.redeemPeriod)
    \/ Doing("fees") /\ UpdateVaultProtocol(vault.protFee, 0)
    \/ Doing("liquidation") /\ \E d \in Depositors : Liquidate(d)
    \/ Doing("liquidation") /\ ResetDelegate

PlannedTokens ==
    \/ Doing("transfer") /\ \E c, d \in Depositors, r \in vaultPlan.asks : TransferShares(c, d, r)
    \/ Doing("tokens") /\ \E d \in Depositors, r \in vaultPlan.asks : TokenizeShares(d, r)
    \/ Doing("tokens") /\ \E d \in Depositors, n \in vaultPlan.tokens : RedeemTokens(d, n)
    \/ Doing("tokens") /\ ApplyRebaseTokenized
    \/ Doing("tokens") /\ \E n \in vaultPlan.burns : BurnTokens(n)

PlannedWorld ==
    \/ \E f \in vaultPlan.factors :
          equity * f[1] <= MaxEquity * f[2] /\ Trades((equity * f[1]) \div f[2], stuck)
    \/ Doing("liquidation") /\ Trades(equity, ~stuck)
    \/ \E n \in vaultPlan.times : TimePasses(n)

MCVaultNext ==
    /\ vaultSpent < vaultPlan.budget
    /\ vaultSpent' = vaultSpent + 1
    /\ UNCHANGED vaultPlan
    /\ PlannedHolders \/ PlannedSides \/ PlannedPolicy \/ PlannedTokens \/ PlannedWorld

MCVaultSpec == MCVaultInit /\ [][MCVaultNext]_mcVaultVars
-----------------------------------------------------------------------------
Ask(unit, amount) == [unit |-> unit, amount |-> amount]
Legacy(fee, profit, hurdle) ==
    [fee |-> fee, profit |-> profit, hurdle |-> hurdle, hasProtocol |-> FALSE,
     protFee |-> 0, protProfit |-> 0]
Protocol(fee, profit, protFee, protProfit) ==
    [fee |-> fee, profit |-> profit, hurdle |-> 0, hasProtocol |-> TRUE,
     protFee |-> protFee, protProfit |-> protProfit]

NoPlan == [policies |-> {}, deposits |-> {}, asks |-> {}, tokens |-> {}, burns |-> {},
           factors |-> {}, times |-> {}, period |-> 1]

\* The pool is 0.
Paid(p, a, b) == [d \in 0..2 |-> IF d = 0 THEN p ELSE IF d = 1 THEN a ELSE b]

\* Requests around losses that rebase the vault and gains that follow.
LeavePlan ==
    [policy |-> Legacy(0, 0, 0), opening |-> Paid(0, 100, 60), budget |-> 5,
     ops |-> {"deposit", "leave", "rebase", "manager"},
     deposits |-> {40}, asks |-> {Ask("Percent", 100), Ask("Token", 30), Ask("Shares", 60)},
     factors |-> {<<1, 30>>, <<5, 1>>}, times |-> {1}] @@ NoPlan

\* Profit shares at a price of many tokens per share, under a hurdle.
ProfitPlan ==
    [policy |-> Legacy(0, 40, 2), opening |-> Paid(0, 2, 0), budget |-> 5,
     ops |-> {"deposit", "leave", "profit", "fees"}, deposits |-> {300},
     asks |-> {Ask("Percent", 100)}, policies |-> {[fee |-> 0, profit |-> 20, hurdle |-> 0]},
     factors |-> {<<100, 1>>, <<103, 100>>, <<1, 2>>}, times |-> {2}] @@ NoPlan

\* Fees, profit shares and withdrawals of manager and protocol, and a fee update
\* that the protocol's part may or may not allow.
FeePlan ==
    [policy |-> Protocol(20, 20, 20, 10), opening |-> Paid(0, 90, 0), budget |-> 5,
     ops |-> {"leave", "profit", "fees", "protocol"}, asks |-> {Ask("Percent", 100)},
     policies |-> {[fee |-> 85, profit |-> 20, hurdle |-> 0],
                   [fee |-> 40, profit |-> 10, hurdle |-> 0]},
     factors |-> {<<2, 1>>, <<1, 80>>}, times |-> {2}] @@ NoPlan

\* Tokens minted, redeemed and burned elsewhere, around a loss, a gain and a fee.
TokenPlan ==
    [policy |-> Legacy(20, 40, 0), opening |-> Paid(30, 50, 0), budget |-> 5,
     ops |-> {"transfer", "tokens", "profit", "rebase"},
     asks |-> {Ask("Token", 7)}, tokens |-> {9, 30}, burns |-> {5},
     factors |-> {<<3, 2>>, <<1, 25>>}, times |-> {1}] @@ NoPlan

\* An account that cannot pay, and the liquidation that follows.
StuckPlan ==
    [policy |-> Legacy(0, 0, 0), opening |-> Paid(0, 40, 20), budget |-> 5,
     ops |-> {"deposit", "leave", "liquidation"}, deposits |-> {10},
     asks |-> {Ask("Percent", 50)}, factors |-> {<<1, 2>>}, times |-> {2}] @@ NoPlan

MCVaultPlans == {LeavePlan, ProfitPlan, FeePlan, TokenPlan, StuckPlan}
=============================================================================
