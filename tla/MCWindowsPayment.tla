-------------------------- MODULE MCWindowsPayment --------------------------
(* Small instances of WindowsPayment. *)
EXTENDS WindowsPayment, TLC

CONSTANTS w1, w2, c1, c2

OneWallet == {w1}
TwoWallets == {w1, w2}
OneClick == {c1}
TwoClicks == {c1, c2}

Symmetry == Permutations(TwoWallets)
=============================================================================
