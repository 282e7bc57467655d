-------------------------- MODULE MCPendingPayment --------------------------
(* PendingPayment with two wallets that sign two transactions each.        *)
EXTENDS PendingPayment, TLC

Symmetry == Permutations(Wallets)
=============================================================================
