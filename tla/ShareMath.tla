----------------------------- MODULE ShareMath -----------------------------
(***************************************************************************)
(* Prices of shares in a pool of tokens, shared by the insurance fund and  *)
(* the managed vaults (math/insurance.rs, math/helpers.rs; the vaults      *)
(* program calls the same functions under the names                        *)
(* vault_amount_to_depositor_shares and depositor_shares_to_vault_amount). *)
(***************************************************************************)
EXTENDS ProtocolMath, FiniteSets

\* 10^e for the exponents a rebase may reach (10_u128.pow panics above 38, TLC's
\* integers end at 10^9).
PowersOfTen == <<1, 10, 100, 1000, 10000, 100000, 1000000, 10000000,
                 100000000, 1000000000>>
Pow10(e) == PowersOfTen[e + 1]

\* log10_iter: how many times n can be divided by ten.
Log10(n) == Cardinality({e \in 1..9 : Pow10(e) <= n})

VaultAmountToIfShares(amount, total, vault) ==
    IF vault > 0 THEN GetProportion(amount, total, vault) ELSE amount

IfSharesToVaultAmount(n, total, vault) ==
    IF total > 0 THEN GetProportion(vault, n, total) ELSE 0
=============================================================================
